# terraform-provider-windbag: verification project

`terraform-provider-windbag` builds one container image on several remote
Windows hosts, pushes what each of them built and publishes a manifest list
over all of it. This directory holds TLA+ models of the provider's own code,
the TLC configurations that check them, and proofs checked by TLAPS.

All line numbers refer to the repository at the modelled commit;
`image.go` below is `windbag/resource_windbag_image.go`, `ssh.go` is
`windbag/dial/ssh.go`, `powershell.go` is `windbag/dial/powershell/powershell.go`.

## 1. Inventory

| Component | Code | State | Operations | Hard behaviour |
|---|---|---|---|---|
| Release | image.go 684-979 | dialers, three errgroups, images and lists on workers and registries | `Read`: dial, build, push, manifest | a goroutine per worker or tag, joins, retries that abandon a running command, connections that break |
| Shipping and login | image.go 355-682, 981-987 | dialers, `build_information` and `build_context` of each worker, `err`, the id | `Create`, `Update` | a variable shared by goroutines, partial failure, stale attributes |
| Dialing a worker | image.go 1016-1151; `RetryContext`, `WaitForStateContext` (vendored SDK) | the connection of the attempt, `dockerBuild`, the result channel | dial, provision docker, confirm docker | timeouts with a grace period, attempts nobody waits for, host restarts |
| Remote session | ssh.go 99-167, powershell.go 281-430, utils/panic.go | stdin, stdout, stderr of a remote PowerShell, two goroutines and an errgroup, two readers per command, the goroutine of `Close` | `PowerShell`, `Commands`, `Execute`, `Close` | framing output by a signal in a byte stream, races for the first error, recovered panics, goroutines left behind |
| Resource lifecycle | image.go 355-384, 981-997 | what terraform stores; files, daemons and images on workers | `Create`, `Update`, `Read`, `Delete`, the id | operations that fail half way or are killed, several resources at a time on one worker |
| Shipping of files | image.go 502-603, ssh.go 169-187, docker/archive*.go | a pipe between the archiving goroutine and SFTP | `Copy`, `ZipWithOptions` | errors that do not cross the pipe, exclusions, a build path that is a link, failures PowerShell excuses |
| Dockerfile arguments | docker/platform_args.go | the buffer of a scanner | `InjectTargetPlatformArgsToDockerfile` | the boundaries of lines and of the buffer, a dropped error, a panic |
| Connections through a dialer | ssh.go 73-93 | the result of a dial | `DialContext` (nothing calls it) | none the provider meets |
| Docker commands | docker/command.go | none | pure functions | lost arguments |
| Image references, digests, registries | docker/image.go, docker/http_*.go, registry/utils.go | none | `ParseImage`, `GetImageDigest` (called by a test only) | different images with the same id |
| Provider configuration | provider.go | docker options, shared by all resources | `configure` | overwritten by concurrent creates, set to nil by a resource without registry blocks |
| Provisioning | tools/docker.ps1, tools/sshd.ps1 | docker on a host | PowerShell scripts | cut at any step and run again, ignored errors, restarts of docker and of the host |
| Templates, logs, keys, conversions | template/, log/, pki/, utils/ | none | pure functions | a conversion that fails silently |

How they interact: `Create` and `Read` call `dialWorkerBySSH` for each worker
and get a `dial.Dialer`; each remote command is run by calling
`dialer.PowerShell(ctx, options, interaction)` with a callback that opens one
`Commands` and calls `Execute` on it, directly or under `RetryContext`.
`Create` hands over to `Read` by the attributes it recorded in the resource
data and by the id. Goroutines share the dialers, the resource data and, in
the login phase, `err`. Resources are handled at the same time by one provider: they
share its docker options and, where they have workers in common, the docker daemon and,
when their ids are the same, the files of the build context.

What makes the components correct:

* *Release*: a nil result means that the images exist; no list names an image
  of an earlier release; a failure is reported and stops the later phases;
  `Read` returns, unless a build session hangs.
* *Shipping and login*: the id is set only when information and context of every worker are
  recorded and behind the login;
  a login failure is reported; connections are closed.
* *Dialing*: a dialer is connected, provisioned and confirmed; one connection
  at a time, none left behind.
* *Remote session*: the output of a command is its own; a nil result means the
  commands took effect; the call returns.
* *Provisioning*: a worker that is handed out runs the docker that was asked for, and a
  script that failed or was cut can be repeated.
* *Shipping of files*: a recorded build context is complete, what `.dockerignore` keeps and
  the whole Dockerfile, unless PowerShell excused a failure.
* *Lifecycle*: whatever happened, Read can build what terraform stores; what is published is of
  the resource itself and of the version that is recorded.

`PROJECT.json` lists the hazards line by line with the properties that cover
them, and those no property covers yet.

## 2. Modules

### ImageRead: the Read handler

One action per step of the handler or of a goroutine. `phase` is the position
of the handler; `build`, `push`, `manif` are the goroutines; `Joined` and
`AnyFailed` are `errgroup.Wait`.

| Code | Model |
|---|---|
| dial loop, 691-700 | `Dial(w)`, worker after worker; a failure returns before the deferred `Close` of 701-705 |
| `eg.Wait` at 807, 877, 973 with the tests of `push` and `manifest` | `EndBuild`, `EndPush`, `EndManifest` |
| build goroutine, 743-805 | `BuildOpen`, `BuildReply`, `BuildCut`, `BuildHangs` |
| push goroutine, 829-875 | `PushOpen`, `PushAttempt`, `PushReply`, `PushCut`, `PushGiveUp`; one session for all tags |
| choice of the manifest worker, 892-911 | `manifestWorker`: the first of those with the highest `os_build` |
| manifest goroutine, 923-971 | `ManifestOpen`, `ManifestCreated`, `ManifestPushed`, `ManifestCut`, `ManifestGiveUp`; a new session per attempt |

`local`, `registry`, `draft` and `index` are the effects of the docker
commands: the image under its tags on a worker, the image under
`<tag>-windows-<arch>-<release>` in the registry, the manifest list created on
the manifest worker and the one published. An image is `absent`, `stale` (of an
earlier release) or `fresh`. Workers with the same platform push under the same name.

Failures. A command that ends may fail, with or without its effect, and a
failing command says so on stderr (`Execute` sees nothing else of it: exit codes
are not transmitted). The `...Cut` actions are sessions cut short: the connection
broke or the shell died while the command ran, or the keepalive goroutine met the
end of the channel before the error was returned; by the code of `Execute` and
`PowerShell` (see RemoteSession) the outcome may be success. `intact[w]` records
that this never happened to worker `w`, so that the properties can say exactly
where the handler's result can be relied on. `BuildHangs` is a docker build that does not end, or whose
signal is torn: nothing but the end of its session gets the goroutine on. `LoseLink` breaks a connection at any
time. `PushGiveUp` and `ManifestGiveUp` are `RetryContext` returning on timeout or
cancellation; commands then left running are in `lateBuilds`, `latePushes` and
`lateLists` and end later, with or without effect, also after Read has returned.

*ImageRelease* is the abstract specification: build, upload and list in stages,
success after the last stage asked for, exceptions only for workers with a session
cut short. It has no goroutines, sessions, retries or late commands.
`ImageRead!ReleaseSpec` is it with `stage <- phase`.

### RemoteSession: one call of PowerShell

The call, its two goroutines and the readers of `Execute`, against a remote shell
that reads lines from `stdin` and prints on `wire["out"]` and `wire["err"]`.

| Code | Model |
|---|---|
| keepalive goroutine, ssh.go 120-153 | `KeepaliveTick`, `KeepalivePing`, `KeepaliveStop` |
| interaction goroutine, ssh.go 154-161 | `Commands` to `CloseReturns` |
| `eg.Wait` and the sentinel, ssh.go 162-166 | `group` (first error), `Return` |
| write of a command, powershell.go 329-336 | `ExecuteWrite`, `ExecuteWriteFails` |
| readers, powershell.go 343-400 | `Read(s)`, `ReadEOF(s)` |
| `eg.Wait` of Execute and the callers' look at stderr | `Executed`, `CommandSucceeds`, `CommandFails`, and `GiveUp` where they retry |
| the recovery of a panic, ssh.go 155 | `Panic`, the verdict `panic` |
| `Close` and its goroutine, powershell.go 407-424 | `CloseExit`, `WaiterSends`, `CloseReturns` |

A signal is read whole or (`Tearing`) in two pieces. A reader ends when a chunk is
the signal of its own attempt. The interaction is the callers' common shape: run
the commands in order, stop at (or, `retrying`, repeat) a command that printed on
stderr. Code around the commands may panic: the deferred `Close` runs if there is one, the
goroutine returns nil, and unless the shell was started nobody ends the session (`Unattended`).
The goroutine of `Close` sends on a channel without a buffer and blocks for ever if `Close` has
stopped waiting. The shell prints the signal on stdout, then on stderr, as the command
wrapper of line 332 has it.

*CommandSession* is the abstract specification, what a handler believes a session to be: a command takes effect
when it was reached, the next one is reached behind its effect, and success is reported behind the last. It has no
shell, streams, readers or goroutines, and two exceptions: `cut`, a stream ended before its signal, and `excused`,
the keepalive met the end of the channel or a panic was recovered. `RemoteSession!ContractSpec` is it with
`excused` so mapped.

### ImageCreate: Create, and Update as its caller

`Dial`, `CheckPaths`, then for each worker `Retrieve` and `ShipContext` unless the
attribute is recorded already, then the login goroutines. A login is three steps on
the shared variable, as in line 633 and 667-668: `SessionReturns` assigns `err`,
`LoginChecks` compares it with nil, `LoginWraps` wraps it (`errors.Wrapf` of nil is
nil). Docker login itself is idempotent and is only recorded in `loggedIn`.
`os_build` goes through `ToInt`, which turns a string into 0; `CurrentBuildNumber` is a
string in Windows. A masked failure while retrieving or shipping leaves a `partial`
attribute, which the code adds to the resource data like a complete one. `Hang` is a session of the shipping
loop that does not end; it goes on only when its connection does.
Init covers Create and Update; an update begins with attributes recorded for some
of the workers (those whose block did not change).

### DialRetry: dialWorkerBySSH under RetryContext

`Refresher` and `Waiter` are the two goroutines of `WaitForStateContext`, `Attempt`
is the function they repeat. A provisioning that reported success is followed by a
retryable error on purpose (line 1110): the host may restart. The waiter's grace
period, the channel of capacity one and the race of `select` between `cancelCh` and
the pause are modelled as they are; so is an attempt that outlives the call.
`server` and `intact` are history variables. A provisioning script that ends without
a message has done its work.

### Provisioning: the host below DialRetry

`Provisioning` extends `DialRetry` with the host and the script tools/docker.ps1 that the
`configure` step of an attempt runs there.

| Code | Model |
|---|---|
| docker.ps1 337-341, no version is asked for | `NothingAsked` |
| 343-385 | `InstallUnpigz`, `WriteConfig` |
| 388-411, docker is recent enough | `CheckVersion`, `Found` |
| 417-490, it is installed | `Download`, `RemoveStale`, `Expand`, `AddPath`, `Register` |
| 492-513 | `VerifyFeature` (with the restart of the host), `Start` |
| the session that runs it, image.go 1051-1110 | `RunScript`; `Cut` at any step; `EndScript` is DialRetry's `Configure` with the outcome the script had |
| docker info, image.go 1113-1141 | `ConfirmServer`: `Confirm` where docker runs |
| the restart | `RestartHost`, any time after the script, which breaks the connection (`dead`) |

The binaries are `none`, `stale`, `broken` (half expanded) or `good`; a daemon is what it was
started with. Errors the script ignores (`-ErrorAction Ignore`, empty `catch`) are outcomes of
its steps and put `overlooked` into the history variable `harm`, so that the properties can say
where they matter; the other members of `harm` name the two places where a cut or an error leaves
a host that no further run mends. Everything else DialRetry does is `Elsewhere`.

### BuildArchive, PlatformArgs and Shipping: the build context on its way to a worker

*BuildArchive.* `Archiver` is the goroutine of `ZipWithOptions`, `Copy` is `sshDialer.Copy`, and
between them is a pipe without a buffer: a writer is blocked (`archiver = "write"` or `"close"`)
until Copy has read all it offers. `todo` is the frontier of `filepath.Walk`. A line of
`.dockerignore` is a sequence of names or `*`; `Matches` and `Hits` are the matcher of the
vendored fileutils package, `Excepted` is the textual test of lines 156-166 that decides
whether the walk goes on below an excluded directory. Everything that can fail on the disk may
fail: a directory that cannot be listed (`Unlisted`), an entry that is missing, empty or
truncated (`Spoiled`); `damaged` records it. A link becomes an entry without contents, as
line 229 returns before the code for links.
`linked` is a build path that is itself a link to a directory: `Stat` in Create follows it, `Lstat` in the goroutine
(81-98) does not, and `Start` then offers one entry, `Link`, and walks nothing.

*PlatformArgs.* The loop of `InjectTargetPlatformArgsToDockerfile` over a `bufio.Scanner`. A line
is where it ends, behind its newline, and whether it agrees with `ARG ` as far as it goes; `start`, `limit` (`end` in
the code) and `size` are the scanner's indices into its buffer, `Fill` is one read with the moving and doubling before it,
`stale` says that what was read earlier lies behind `limit`. `Panics` is the condition under which
`bs[:4]` or `bs[4:]` is out of range: four bytes from the start of the line exceed the buffer, or
stale bytes complete an `ARG ` behind the last line.

*Shipping* composes the two to the session of image.go 502-603: the archive, its expansion, the
Dockerfile (injected, as it is, or closed before it is read), and the record. `Ends` is PowerShell: whatever the
interaction returned, and behind a panic, the result may be nil (ssh.go 155, 163), and Create records what the interaction had
put into the map by then (`info`): nothing, the directory, or both. `excused` remembers it. `Hang` is a command that does not end.

### Lifecycle: several resources over the runs of terraform

`stored[r]` is what terraform's state has of a resource, `data[r]` what an operation works on,
`kind` and `step` the operation and where it is. `Create`, `Update`, `Refresh` and `Delete` begin one;
`StoredAfter` is what the SDK stores of it: the data if it has an id, tainted after a failed
create, and the prior state after a failed update, whose id is cleared (line 983). `Killed` ends
everything and stores nothing. `Edit` is the user, who changes the sources or the workers. `allowed` is the list of registries in the provider; `Registries` replaces it when a
resource begins, by nil (`off`) if that has no registry blocks, and only `configure` brings it back. The inside
of an operation is cut into the steps at which resources meet: `Provision` renders the registries
the provider has at that moment and restarts the daemon, under any build that runs there;
`ShipArchive`, `Expand` and `ShipDockerfile` write files named after the id; `StartBuild` reads
them. An expansion leaves files of an earlier archive behind (`mixed`). *ImageReference* is
`ParseImage` and the id derived from it, over components of a name.

### How the models fit together

`DialRetry` justifies `Dial(w)` of ImageRead and ImageCreate (a dialer or an error;
that an error may leave a connection behind is stated there). `RemoteSession`
justifies the outcomes of a session in both: success, an error, or, when the
keepalive or a reader met the end of a channel, either. `CommandSession` is the
contract they rely on, `TrustedResult` what it says of the result; that a manifest is
pushed behind its creation, in one session, is the order of its commands. `ImageCreate` yields the `OSBuild` of the ImageRead
instances: 0 for every worker. `Shipping` is the inside of `ShipContext`: its
sessions end in nil, in an error, or hang, and what is recorded behind nil is all (`current`) or less (`partial`).
`Provisioning` is the inside of the dialing of Create. `Lifecycle` takes operations apart at
coarser steps than ImageCreate and ImageRead, whose order (provision, ship, log in, set the id,
build on all workers, publish) it keeps, and adds what neither has: other resources, the edits of
the user and what terraform stores in between. In Lifecycle a login and a dial are steps without effect, a
shipped file is complete (Shipping says when it is) and a build or publication takes place as
ImageRead says it does where sessions are not cut.

## 3. Runs

| Run | Instance | Shows |
|---|---|---|
| release | 2 workers of different releases, 1 tag; 80,418 states | all safety properties, the refinement, `Returns`, `FailureIsReported` |
| release_tags | 2 workers of one release, 2 tags, builds that end; 1,949,688 states | `IInv` with shared names and a loop of two turns |
| release_lost | as release | violated: an image lost with its connection is reported as pushed |
| session | 2 commands, with and without retries, up to 4 attempts, all faults, panics, torn signals | `IInv` (with `InStep` and `CommandsInOrder`), `OwnOutput`, `TrustedResult`, the refinement, `ReturnsUnlessTorn`, `LeftoversEnd` |
| session_masked | 1 command, no faults | violated: the error of the interaction is lost to the keepalive's io.EOF |
| session_torn | 1 command, torn signal | violated: PowerShell does not return |
| create | 2 workers, 2 registries | what holds behind the id, leaks, shipping, `Returns` |
| create_login_lost | 2 workers, 1 registry | violated: a login failure is overwritten |
| create_latest | 2 workers, the older first | violated: the worker of the latest release is not chosen |
| dial | up to 4 attempts on every host that has no docker or one that works, with and without a version asked for; 430,802 states | a dialer is ready, connections are not lost, provisioning happens once, `Returns`; `ReadyRunsNew`, `LeftRepeatable` |
| archive | 4 paths on 3 levels, one of them a link; up to 3 lines of `.dockerignore`; every Dockerfile of up to 3 lines; the tree or a link to it; 889,911 states | `ShippingIInv`, `DirectoryBehindAll`, `SuccessIsClosed`, `RecordedIsWhole`, `PanicsAtAnEdge`, `SessionEnds` |
| lifecycle | 2 resources on a common worker, with different ids and with the same, or 1 resource on 2 workers; both or one of them with registry blocks; 2 versions, 3 operations, failures and kills; 354,832 states | `StoredIsShipped`, `PublishedIsOwn`, `PublishesRecorded`, `ForeignLayersPushed` |

Bounds and why they are enough. Two workers are the smallest number with a race
between goroutines, with one failing and one succeeding, and with a choice of the
manifest worker; workers interact only through the registry and the join. Two tags
are the smallest number with a second turn of the push loop; the 1-tag instance
keeps the liveness check affordable. Two commands are what a manifest attempt
executes; four attempts let each of two commands fail once and the first fail again
after the streams broke. Four dial attempts are one failure, one provisioning, one
failed and one successful confirmation. Three lines of `.dockerignore` exclude, except and
exclude again, at every depth of a tree whose middle level can be both kept and skipped.
The scanner's buffers are 8 and 16 bytes instead of 4096 and 65536: lines of 0, 1, 4, 6 and 16 bytes (and their newlines) end
at, before and behind their edges, and three of them make a buffer move, double and overflow. The full
product of Dockerfiles and archives would show nothing, as they share no state: a Dockerfile other than `Plain`
is shipped only behind an archive that is undamaged, without patterns, of a directory, and expanded. Three operations of two
resources are a create, another one beside it, and what comes after a failure, an edit or a kill; two
versions are one that is recorded and one that is wanted.
`BuildsEnd` (MCImageRead) leaves hanging builds to the run release, as they say nothing of names and tags;
`EditsBound` (MCLifecycle) has the sources of both resources edited where they have registry blocks and ids of
their own, and of one elsewhere, as there the question is whose files and registries they meet. Both are the
CONSTRAINT of their run.
`MaxPatterns` bounds the initial states of BuildArchive, `Setups` those of Lifecycle; `MaxAttempts`
(RemoteSession, DialRetry), `MaxOps` and `MaxVersion` (Lifecycle) are the bounds in guards; all other state is
finite by itself.

Each property of a passing run has a mutant in `PROJECT.json`: an operator beside the
mutated definition, commented "Mutant", with a plausible slip in that code, under which
TLC finds the property violated. No mutant is part of `Next`.

Deadlock is checked in all runs but three. session_torn ends in the very state it is about:
everybody waits for a signal that was consumed in pieces. archive stops when the session has returned,
with the goroutine blocked for ever if Copy failed; that it stops nowhere else, but for a command that hangs, is `SessionEnds`.
lifecycle stops when terraform has nothing to do and `MaxOps` is reached.

Fairness. Goroutines are scheduled by the Go runtime, so their enabled steps are
eventually taken; timers of `RetryContext` fire (`PushGiveUp`, `ManifestGiveUp`,
`GiveUp`, `Timeout`, `GraceEnds`). No timeout surrounds the build and the shipping sessions, Execute does not stop on a
cancelled context (powershell.go 364), and it does not return behind a torn signal (session_torn) or a command that
does not end. So these sessions may hang, in a state of their own (`hung`), which no fairness obliges them to leave:
`Returns` of ImageRead and ImageCreate, `SessionEnds`, and `FailureIsReported` for a failed build, whose error
`errgroup.Wait` withholds until the other builds have ended, say what follows if no session stays there for ever
(`SessionsEnd` in ImageRead). A session that does not hang ends, and in ImageRead one that hangs ends with its connection
(`BuildProgress`). The remote
shell goes on with its input, and sshd ends a session whose channel was closed.
An SFTP request is answered or fails, and so does a read from the disk. Nothing is assumed of breaking connections, of unattended commands, of cancellations,
of a host, or, in DialRetry, of attempts. Lifecycle has safety properties only.

## 4. Findings

The runs that expect a violation state what a comment, a message or the documentation
says and show what the code does; `PROJECT.json` quotes the lines.

1. End of stream counts as end of command (powershell.go 357, 386): a lost push is a success.
2. `io.EOF` as the sign of success (ssh.go 163) also masks a failed interaction.
3. A signal split between two reads is never recognised (powershell.go 348, 377).
4. The login goroutines share `err` (image.go 633).
5. `os_build` is always 0 (image.go 469), so the first worker manifests.

`session`, `release`, `create` and `archive` state what remains true in spite of
them (`TrustedResult`, `SuccessIsComplete`, `LostToASuccess`, `RecordedIsWhole`).

More observations are stated by the conditions of properties that hold. In BuildArchive,
`linked`: a build path that is a symbolic link to a directory passes the test of Create, which follows it (image.go 397), and is
archived as the link alone, with success (archive.go 81-98).
`Compiles`: a line of `.dockerignore` that is no regular expression ends the walk and ships an
empty archive as a success (archive.go 136, 108). `LiteralExceptions`: an exception with a
wildcard does not save a file below an excluded directory (archive.go 162). A failed Copy may leave the
goroutine blocked for ever, as nobody closes the pipe; the test for
`io.ErrClosedPipe` at archive.go 180 never succeeds. `RecordedIsWhole` excepts a failing disk and
lines longer than the scanner's largest buffer, whose error is dropped (platform_args.go 30), and says that the Dockerfile, or everything, is missing from the record
only behind a failure or a panic for which PowerShell returned nil (findings 1 and 2); `PanicsAtAnEdge` says when the injection panics
(platform_args.go 31). `PublishedIsOwn` excepts resources with the same id on a worker (`Private`): the id
drops the first component of the repository, and (`PortHidesName`) everything behind the port of a registry when there is
no tag, as the last colon is then the port's (docker/image.go 45). `ForeignLayersPushed` excepts resources that were not the last
to begin, as they share the list of registries in the provider, and all that begin when one without registry blocks has begun
since the provider was configured (`dropped`): its nil list is assigned to the provider's (image.go 367-373), which from then on reads as
`push_foreign_layers` being off (366). `ReadyRunsNew` excepts the errors docker.ps1
ignores, and `LeftRepeatable` names the places where a host is left that another run of the script
does not mend: half expanded binaries on the path (471), and a docker on the path without the feature
of Windows (482-511), which the branch for a recent docker does not look at. `ReturnsUnlessTorn` excepts
a panic before the shell was started, behind which PowerShell returns only when its context is done.

## 5. Proofs

| Module | Theorems |
|---|---|
| ImageReadProofs | `TypeCorrect`, `Invariance`, `SuccessComplete`, `ListsFresh`, `SuccessQuiet`, `UploadsFresh` |
| ImageReadRefines | `Refinement`: `Spec => ReleaseSpec` |
| ImageCreateProofs | `Invariance`, `IdBehind`, `LoginLoss`, `DialLoopLeaks`, `ShippingOnce` |
| DialRetryProofs | `Invariance`, `DialerReady`, `SingleConnection`, `OnlyAbandonedLeak`, `ProvisioningOnce` |
| ProvisioningProofs | `ProvisioningDials`: `SpecProvisioning => Spec`; `HostInvariance`, `ReadyWorker`, `HostsStayRepeatable` |
| RemoteSessionProofs | `Invariance`, `TypeCorrect`, `SessionInStep`, `InOrder`, `OutputIsOwn`, `ResultTrusted`; `SessionKeepsContract`: `Spec => ContractSpec` |
| ShippingProofs | `SessionShips`: `SpecShipping => Spec`; `Invariance`, `RecordedWhole`, `PanicsOnlyAtAnEdge`, `ScannerAdvances`, `SuccessClosed`, `ArchiveIsWhatIsKept` |
| LifecycleProofs | `IdIsThere`, `PortHidesName`, `IdTellsApart`; `LifecycleInvariance`, `StoredAlwaysShipped`, `AlwaysPublishesOwn`, `RecordedIsPublished`, `ForeignLayersArePushed` |

They hold for any number of workers and tags, any assignment of platforms and builds,
any finite set of registries, any number of attempts and commands, any tree and any list of patterns,
any Dockerfile and any sizes of the scanner's buffers, the first of more than four bytes,
and any resources, images, versions and operations, from the named assumptions in the modules (at least one
worker and one tag, which the schema demands; builds are natural numbers; `NoList` is
not a list) and from nothing else.

*ImageRead.* `SuccessIsComplete` is not inductive: it speaks of the last step, and what
makes it true was established phases earlier. `IInv` adds `PhasesInOrder` (who can be
anything but idle in which phase, and that a goroutine of a later phase runs only
behind a complete earlier one), `BuiltIsFresh`, `PushedIsFresh` and `DraftsAreFresh`
(what each goroutine has achieved so far where sessions were intact), `ListsExist`,
`LateOrigins` (unattended commands belong to goroutines that failed or whose session
was cut short, so they cannot appear behind a nil result, and a late build never makes an
intact image stale) and `NilMeansNoFailure`. Each action is shown to preserve each part
it can disturb; uploads share one lemma for attended and late pushes. `manifestWorker` is a
CHOOSE; that it exists is a lemma by well-foundedness of the naturals.

*Refinement.* Every step maps to a step of ImageRelease or to a stutter: joins to `Begin`
or `Report`, replies and late endings to `Build`, `Upload` and `List`, cuts and lost links
to `Cut`. The guards of the abstract steps follow from `IInv`.

*DialRetry.* `IInv` says who owns the connection (`OwnsConnection`), that a success is the
last word of the refresher and the only source of a nil result (`SuccessIsLast`), and that
provisioning precedes confirmation (`ProvisionedFirst`).

*ImageCreate.* `LostToASuccess` needs `NilFromASession`: whenever `err` is nil, or a
goroutine has ended well, although its own session failed, some session has returned nil.
That is stable because a session returns once (`LoginsInPhase`). `PhasesInOrder` says what
the dial and shipping loops have done when the login phase begins.

*RemoteSession.* `InStep` and `TrustedResult` speak of moments between commands; what makes them true is
said of every moment: there is at most one command on stdin, it is that of the current attempt
(`StdinInOrder`), the streams carry only what it printed, the signal last and that of stderr behind that of
stdout (`StreamsInOrder`), and a command that ran and was not heard to complain had its effect
(`SilenceIsEffect`), `Heard` being the case that its complaint cannot have been lost. `GroupInOrder` traces a
nil result to the interaction, to the keepalive's end of the channel or to a recovered panic.

*SessionKeepsContract.* What the shell runs is a `TakeEffect`, a command found to be done a `Reach`, a reader's end of stream
`CutShort`, `Return` itself; everything else is a stutter or an `Excuse`. That the shell is never at another command than the
one that was reached, or at an earlier one only behind a stream cut short, is `ReachedInOrder`: both readers met the signal of a
command before the next one is written. `CommandsInOrder` follows.

*Provisioning.* Every step is a step of DialRetry or a stutter, so DialRetry's theorems hold of the
composition (`ProvisioningDials`). `HostIInv` adds what the steps of the script rely on (`ScriptInStep`), what a
script that was neither cut nor told lies leaves behind (`ProvisionedHost`), that a host restarts only for a feature
without which no docker runs, which is why a confirmed docker is not about to disappear
(`RestartsForFeature`), and that the path leads to a complete docker (`PathIsComplete`).

*Shipping.* `ArchiveIsWhatIsKept` rests on `Frontier`: what is kept and readable has been produced, or lies at or
below a path still to be visited. A step that skips an excluded directory keeps it because of the lemma that
pruning is safe: the last line that hits a kept path below an excluded directory is a literal exception
that begins with that directory, and `Excepted` finds it. `DirectoryLast` follows the entry of the directory
through the stages of the pipe. `RecordedIsWhole` and `PanicsAtAnEdge` rest on `ArgsIInv`. Its heart is `Position`: the beginning of the
next line in the Dockerfile, what the scanner holds and what is unread add up to the Dockerfile, so that a line found in the buffer is
that line of the file, and at the end of the input nothing is left but the lines that were written. `Layout` keeps the indices in order
and says that a buffer is only moved behind its middle, hence the bound on the Dockerfiles that can panic; `SessionInStep` puts
the injection behind a complete archive and the record behind what the interaction had put down, which is all that is left to rely
on when PowerShell excuses an error (`Ends`). (Lines are given by their ends and not by their lengths because a sum over the lines
could only be reasoned about by induction. In a buffer of four bytes or fewer any line could panic; that the first one is larger is
`SizesAssumption`.) `ScannerAdvances` is what can be proved of termination: every step makes progress in something that is finite.

*Lifecycle.* `IInv` ties what is recorded to the files on the workers (`StoredShipped`, `RecordedShipped`,
`ShippingInStep`), what is built to what is recorded (`BuiltFromRecorded`) and the daemons to the resource that began last,
as long as none without registry blocks did (`DaemonsAllow`). The step that needs most care is another resource's: it writes the same files
unless `Private` says that it cannot. The theorems about ids say where `Private` holds: images of one organisation in one registry are told apart
(`IdTellsApart`), those of different ones need not be.

Only model-checked: the liveness properties (`Returns` of three modules, `FailureIsReported`, `ReturnsUnlessTorn`, `LeftoversEnd`,
`SessionEnds`), as fairness and ENABLED are beyond the prover, and the runs that expect a violation. Every safety property of a
passing run is stated by a theorem. What stays informal are the seams named in "How the models fit together": each module is proved
against its own assumptions about the next.

## 6. What is not modelled

* The bytes of a stream: RemoteSession has chunks, and a signal torn in two. Which
  lengths of output tear a signal is left open.
* Detection of a dead peer: a connection that breaks is noticed (reads end, writes fail).
  One that silently loses its peer blocks in the kernel until TCP gives up.
* `**` in a line of `.dockerignore`, `IncludeSourceDir` and names to include, which no caller of ZipWithOptions sets, and entries
  larger than one read of the pipe (BuildArchive moves whole entries).
* The torn value of the shared interface `err`: a data race on two words; the model has the
  interleavings of whole values.
* Attributes half-filled by an earlier operation: an update starts from complete ones, as
  `StoredIsShipped` shows of Lifecycle, in which nothing masks an error. (Shipping says what
  is recorded when an error is masked; that a later Read then builds from it is not followed up in Lifecycle.)
* Docker command lines: strings without state. That build_arg is lost on the way (hazard at
  image.go 767) is a slip in one expression.
* `DialContext` and `GetImageDigest` with its HTTP client: nothing in the provider calls them. (A refused token
  request makes GetImageDigest return an empty digest and no error, as docker/image.go 111 wraps a nil.)
* The first line of Create without a `docker` block (hazard at image.go 366), and Create without the
  provisioning this option asks for.
* In docker.ps1: the merging of daemon.json, the comparison of versions and the choice of the download; two
  scripts at a time on one host.
* In Lifecycle: failures inside Read other than of a build (ImageRead has them), and edits of images, registries
  or options.
* The components listed as `not_modelled` in `PROJECT.json`, with the reason.

## 7. Plan

Done: all components that keep state or run concurrently are modelled, and the safety properties of all of them
are proved. What would come next:

1. CommandStream: `Execute` over a buffer of `B` bytes and a signal of `S` bytes, with the
   arithmetic of `TrimSuffix`: which lengths of output and splits lose a signal, and, as an
   abstract specification, the framing RemoteSession assumes. It would replace `Tearing`.
2. A refinement from ImageCreate followed by ImageRead to one resource of Lifecycle.
3. Two provisioning scripts at a time on one host (resources that are created together on a fresh worker).

Runs are few on purpose: a module that composes others takes their run over, with the safety and the
liveness properties under one specification.
