------------------------------ MODULE ImageRead ------------------------------
(***************************************************************************)
(* The Read handler of the windbag_image resource, which does the whole    *)
(* release: it dials every worker, builds the image on all of them, pushes *)
(* every tag from all of them and publishes one manifest list per tag from *)
(* the worker with the highest recorded OS build.  Create and Update end   *)
(* in it, and a plain refresh runs it too.                                 *)
(*                                                                         *)
(* Processes: the handler itself (phase), one goroutine per worker in the  *)
(* build and in the push phase, one goroutine per tag in the manifest      *)
(* phase, and the environment: connections that break, docker commands     *)
(* that fail, and timers.                                                  *)
(*                                                                         *)
(* A command that nobody waits for any more (its connection broke, or      *)
(* RetryContext returned while the attempt was still in flight) goes on    *)
(* running on the worker; the late* variables hold these commands.         *)
(***************************************************************************)
EXTENDS Naturals, FiniteSets

CONSTANTS
    NumWorkers,   \* number of `worker` blocks
    NumTags,      \* number of entries of `tag`
    Platform,     \* Platform[w]: the "windows-<arch>-<release>" suffix of w's tags
    OSBuild,      \* OSBuild[w]: os_build in the build_information of w
    NoList        \* stands for: this operation published no manifest list

Workers == 1 .. NumWorkers        \* position in the `worker` list
Tags == 1 .. NumTags              \* position in the `tag` list
Platforms == {Platform[w] : w \in Workers}

ASSUME NumWorkersAssumption == NumWorkers \in Nat \ {0}
ASSUME NumTagsAssumption == NumTags \in Nat \ {0}
ASSUME PlatformAssumption == DOMAIN Platform = Workers
ASSUME OSBuildAssumption == OSBuild \in [Workers -> Nat]

(* An image under a given name is missing, left by an earlier release, or  *)
(* the result of this operation's build.                                   *)
Versions == {"absent", "stale", "fresh"}

Lists == [Platforms -> Versions] \cup {NoList}

ASSUME NoListAssumption == NoList \notin [Platforms -> Versions]

(* The first worker, in list order, of the highest os_build.               *)
manifestWorker ==
    CHOOSE w \in Workers :
        \A v \in Workers : OSBuild[v] < OSBuild[w] \/ (OSBuild[v] = OSBuild[w] /\ w <= v)

VARIABLES
    opts,        \* the arguments push and manifest
    phase,       \* where the handler is: dial, build, push, manifest, done
    result,      \* what it returned: none, nil, error
    dialer,      \* workerDialers and the connections left open: none, open, closed
    link,        \* link[w]: the SSH connection to w works
    intact,      \* intact[w]: the connection to w and every session on it ended
                 \* in order, no failure masked (a history variable)
    build,       \* state of the build goroutine of each worker
    push,        \* state of the push goroutine of each worker
    pushTag,     \* the tag that goroutine is at
    manif,       \* state of the manifest goroutine of each tag
    local,       \* local[w]: the image under its tags on worker w
    registry,    \* registry[t][p]: the image named <tag t>-<p>
    draft,       \* draft[t]: manifest list created on manifestWorker, unpublished
    index,       \* index[t]: manifest list published for tag t
    lateBuilds,  \* workers on which an unattended docker build runs
    latePushes,  \* unattended docker pushes, <<worker, tag>>
    lateLists    \* unattended manifest attempts, <<step, tag>>

linkVars == <<dialer, link, intact>>
dataVars == <<local, registry, draft, index>>
lateVars == <<lateBuilds, latePushes, lateLists>>
vars == <<opts, phase, result, dialer, link, intact, build, push, pushTag,
          manif, local, registry, draft, index, lateBuilds, latePushes, lateLists>>

TypeOK ==
    /\ opts \in [push : BOOLEAN, manifest : BOOLEAN]
    /\ phase \in {"dial", "build", "push", "manifest", "done"}
    /\ result \in {"none", "nil", "error"}
    /\ dialer \in [Workers -> {"none", "open", "closed"}]
    /\ link \in [Workers -> BOOLEAN]
    /\ intact \in [Workers -> BOOLEAN]
    /\ build \in [Workers -> {"idle", "ready", "exec", "hung", "ok", "failed"}]
    /\ push \in [Workers -> {"idle", "ready", "wait", "exec", "broken", "ok", "failed"}]
    /\ pushTag \in [Workers -> Tags]
    /\ manif \in [Tags -> {"idle", "wait", "create", "publish", "ok", "failed"}]
    /\ local \in [Workers -> Versions]
    /\ registry \in [Tags -> [Platforms -> Versions]]
    /\ draft \in [Tags -> Lists]
    /\ index \in [Tags -> Lists]
    /\ lateBuilds \subseteq Workers
    /\ latePushes \subseteq Workers \X Tags
    /\ lateLists \subseteq {"create", "publish"} \X Tags

(* Either nothing of this image was released before, or all of it was.     *)
Init ==
    /\ opts \in [push : BOOLEAN, manifest : BOOLEAN]
    /\ phase = "dial"
    /\ result = "none"
    /\ dialer = [w \in Workers |-> "none"]
    /\ link = [w \in Workers |-> TRUE]
    /\ intact = [w \in Workers |-> TRUE]
    /\ build = [w \in Workers |-> "idle"]
    /\ push = [w \in Workers |-> "idle"]
    /\ pushTag = [w \in Workers |-> 1]
    /\ manif = [t \in Tags |-> "idle"]
    /\ \E prior \in {"absent", "stale"} :
          /\ local = [w \in Workers |-> prior]
          /\ registry = [t \in Tags |-> [p \in Platforms |-> prior]]
    /\ draft = [t \in Tags |-> NoList]
    /\ index = [t \in Tags |-> NoList]
    /\ lateBuilds = {}
    /\ latePushes = {}
    /\ lateLists = {}

-----------------------------------------------------------------------------
(* The handler.                                                            *)

(* Any return past the dial loop runs the deferred Close of every dialer.  *)
Return(r) ==
    /\ phase' = "done"
    /\ result' = r
    /\ dialer' = [w \in Workers |-> "closed"]

(* A failure in the dial loop returns before the defer is installed, so    *)
(* the workers dialed so far stay connected.                               *)
Dial(w) ==
    /\ phase = "dial"
    /\ dialer[w] = "none"
    /\ \A v \in 1 .. (w - 1) : dialer[v] = "open"
    /\ \/ /\ dialer' = [dialer EXCEPT ![w] = "open"]
          /\ UNCHANGED <<phase, result>>
       \/ /\ phase' = "done"
          /\ result' = "error"
          /\ UNCHANGED dialer
    /\ UNCHANGED <<opts, link, intact, build, push, pushTag, manif, dataVars, lateVars>>

StartBuild ==
    /\ phase = "dial"
    /\ \A w \in Workers : dialer[w] = "open"
    /\ phase' = "build"
    /\ build' = [w \in Workers |-> "ready"]
    /\ UNCHANGED <<opts, result, linkVars, push, pushTag, manif, dataVars, lateVars>>

(* Mutants: Wait returns with the first goroutine; its error is dropped;   *)
(* it is an error only when all goroutines failed.                         *)
JoinedFirst(task) == \E x \in DOMAIN task : task[x] \in {"ok", "failed"}
FailedDropped(task) == FALSE
AllFailed(task) == \A x \in DOMAIN task : task[x] = "failed"

(* errgroup.Wait: it returns when every goroutine of the group has         *)
(* returned, with the first error if there was one.                        *)
Joined(task) == \A x \in DOMAIN task : task[x] \in {"ok", "failed"}
AnyFailed(task) == \E x \in DOMAIN task : task[x] = "failed"

EndBuild ==
    /\ phase = "build"
    /\ Joined(build)
    /\ \/ /\ AnyFailed(build)
          /\ Return("error")
          /\ UNCHANGED push
       \/ /\ ~AnyFailed(build)
          /\ ~opts.push
          /\ Return("nil")
          /\ UNCHANGED push
       \/ /\ ~AnyFailed(build)
          /\ opts.push
          /\ phase' = "push"
          /\ push' = [w \in Workers |-> "ready"]
          /\ UNCHANGED <<result, dialer>>
    /\ UNCHANGED <<opts, link, intact, build, pushTag, manif, dataVars, lateVars>>

EndPush ==
    /\ phase = "push"
    /\ Joined(push)
    /\ \/ /\ AnyFailed(push)
          /\ Return("error")
          /\ UNCHANGED manif
       \/ /\ ~AnyFailed(push)
          /\ ~opts.manifest
          /\ Return("nil")
          /\ UNCHANGED manif
       \/ /\ ~AnyFailed(push)
          /\ opts.manifest
          /\ phase' = "manifest"
          /\ manif' = [t \in Tags |-> "wait"]
          /\ UNCHANGED <<result, dialer>>
    /\ UNCHANGED <<opts, link, intact, build, push, pushTag, dataVars, lateVars>>

EndManifest ==
    /\ phase = "manifest"
    /\ Joined(manif)
    /\ Return(IF AnyFailed(manif) THEN "error" ELSE "nil")
    /\ UNCHANGED <<opts, link, intact, build, push, pushTag, manif, dataVars, lateVars>>

-----------------------------------------------------------------------------
(* The build goroutine of worker w: one PowerShell session, one command,   *)
(* no retry, and no regard for a cancelled context.                        *)

buildFrame == UNCHANGED <<opts, phase, result, dialer, link, push, pushTag, manif,
                          registry, draft, index, latePushes, lateLists>>

BuildOpen(w) ==
    /\ build[w] = "ready"
    /\ \/ link[w] /\ build' = [build EXCEPT ![w] = "exec"]
       \/ build' = [build EXCEPT ![w] = "failed"]
    /\ UNCHANGED <<intact, local, lateBuilds>>
    /\ buildFrame

(* Mutant: stderr is not looked at.                                        *)
BuildReplyUnread(w) ==
    /\ build[w] = "exec"
    /\ link[w]
    /\ local' \in {local, [local EXCEPT ![w] = "fresh"]}
    /\ build' = [build EXCEPT ![w] = "ok"]
    /\ UNCHANGED <<intact, lateBuilds>>
    /\ buildFrame

(* The command ended and both streams delivered the signal.  Anything on   *)
(* stderr counts as a failure, whether or not the image was built.         *)
BuildReply(w) ==
    /\ build[w] = "exec"
    /\ link[w]
    /\ \/ /\ local' = [local EXCEPT ![w] = "fresh"]
          /\ build' = [build EXCEPT ![w] = "ok"]
       \/ /\ local' \in {local, [local EXCEPT ![w] = "fresh"]}
          /\ build' = [build EXCEPT ![w] = "failed"]
    /\ UNCHANGED <<intact, lateBuilds>>
    /\ buildFrame

(* The session is cut short.  The connection broke, or the remote shell    *)
(* exited, while the command ran: both readers see EOF, which Execute      *)
(* reports as success unless something was read from stderr.  Or the       *)
(* command failed and the keepalive goroutine saw the shell exit in the    *)
(* deferred Close before the error was returned: its io.EOF comes first    *)
(* and PowerShell returns nil.                                             *)
BuildCut(w) ==
    /\ build[w] \in {"exec", "hung"}
    /\ intact' = [intact EXCEPT ![w] = FALSE]
    /\ \E s \in {"ok", "failed"} : build' = [build EXCEPT ![w] = s]
    /\ lateBuilds' \in {lateBuilds, lateBuilds \cup {w}}
    /\ UNCHANGED local
    /\ buildFrame

(* The session hangs: docker build does not end, or the signal that it did *)
(* arrives in two reads.  No timeout surrounds the build and Execute does  *)
(* not stop on a cancelled context, so only a cut of the session ends it.  *)
BuildHangs(w) ==
    /\ build[w] = "exec"
    /\ link[w]
    /\ local' \in {local, [local EXCEPT ![w] = "fresh"]}
    /\ build' = [build EXCEPT ![w] = "hung"]
    /\ UNCHANGED <<intact, lateBuilds>>
    /\ buildFrame

-----------------------------------------------------------------------------
(* The push goroutine of worker w: one PowerShell session, the tags one by *)
(* one, each retried in that session until push_timeout.                   *)

pushFrame == UNCHANGED <<opts, phase, result, dialer, link, build, manif,
                         local, draft, index, lateBuilds, lateLists>>

PushOpen(w) ==
    /\ push[w] = "ready"
    /\ \/ link[w] /\ push' = [push EXCEPT ![w] = "wait"]
       \/ push' = [push EXCEPT ![w] = "failed"]
    /\ UNCHANGED <<intact, pushTag, registry, latePushes>>
    /\ pushFrame

(* Once the connection broke an attempt fails to write to stdin, a         *)
(* retryable error, and so will the next ones.                             *)
PushAttempt(w) ==
    /\ push[w] = "wait"
    /\ push' = [push EXCEPT ![w] = IF link[w] THEN "exec" ELSE "broken"]
    /\ UNCHANGED <<intact, pushTag, registry, latePushes>>
    /\ pushFrame

(* Mutant: the loop over the tags stops short.                             *)
NextTagStopsShort(w) ==
    IF pushTag[w] + 1 >= NumTags
    THEN /\ push' = [push EXCEPT ![w] = "ok"]
         /\ UNCHANGED pushTag
    ELSE /\ push' = [push EXCEPT ![w] = "wait"]
         /\ pushTag' = [pushTag EXCEPT ![w] = @ + 1]

NextTag(w) ==
    IF pushTag[w] = NumTags
    THEN /\ push' = [push EXCEPT ![w] = "ok"]
         /\ UNCHANGED pushTag
    ELSE /\ push' = [push EXCEPT ![w] = "wait"]
         /\ pushTag' = [pushTag EXCEPT ![w] = @ + 1]

Upload(w, t) == registry' = [registry EXCEPT ![t][Platform[w]] = local[w]]

PushReply(w) ==
    /\ push[w] = "exec"
    /\ link[w]
    /\ \/ /\ local[w] # "absent"
          /\ Upload(w, pushTag[w])
          /\ NextTag(w)
       \/ /\ push' = [push EXCEPT ![w] = "wait"]
          /\ UNCHANGED <<pushTag, registry>>
    /\ UNCHANGED <<intact, latePushes>>
    /\ pushFrame

(* The command is cut short: as for a build, Execute may report success.   *)
(* The session is not replaced, so every later attempt in it fails.        *)
PushCut(w) ==
    /\ push[w] = "exec"
    /\ intact' = [intact EXCEPT ![w] = FALSE]
    /\ \/ push' = [push EXCEPT ![w] = "broken"]
       \/ pushTag[w] = NumTags /\ push' = [push EXCEPT ![w] = "ok"]
    /\ latePushes' = latePushes \cup {<<w, pushTag[w]>>}
    /\ UNCHANGED <<pushTag, registry>>
    /\ pushFrame

(* Mutant: the timeout is only looked at when an attempt fails.            *)
PushGiveUpLate(w) ==
    /\ push[w] \in {"exec", "broken"}
    /\ push' = [push EXCEPT ![w] = "failed"]
    /\ UNCHANGED <<intact, pushTag, registry, latePushes>>
    /\ pushFrame

(* RetryContext gives up: push_timeout passed, or the context of the group *)
(* or of the operation was cancelled.  An attempt in flight is abandoned,  *)
(* not stopped.  Again an io.EOF of the keepalive goroutine that comes     *)
(* before the error turns it into success.                                 *)
PushGiveUp(w) ==
    /\ push[w] \in {"wait", "exec", "broken"}
    /\ \/ /\ push' = [push EXCEPT ![w] = "failed"]
          /\ UNCHANGED intact
       \/ /\ push' = [push EXCEPT ![w] = "ok"]
          /\ intact' = [intact EXCEPT ![w] = FALSE]
    /\ latePushes' = IF push[w] = "exec" THEN latePushes \cup {<<w, pushTag[w]>>}
                                         ELSE latePushes
    /\ UNCHANGED <<pushTag, registry>>
    /\ pushFrame

-----------------------------------------------------------------------------
(* The manifest goroutine of tag t, all on manifestWorker: every attempt   *)
(* opens a session of its own, creates the list and pushes it.             *)

manifFrame == UNCHANGED <<opts, phase, result, dialer, link, build, push, pushTag,
                          local, registry, lateBuilds, latePushes>>

ManifestOpen(t) ==
    /\ manif[t] = "wait"
    /\ link[manifestWorker]
    /\ manif' = [manif EXCEPT ![t] = "create"]
    /\ UNCHANGED <<intact, draft, index, lateLists>>
    /\ manifFrame

(* docker manifest create looks every source image up in the registry.     *)
Resolvable(t) == \A p \in Platforms : registry[t][p] # "absent"

ManifestCreated(t) ==
    /\ manif[t] = "create"
    /\ link[manifestWorker]
    /\ \/ /\ Resolvable(t)
          /\ draft' = [draft EXCEPT ![t] = registry[t]]
          /\ manif' = [manif EXCEPT ![t] = "publish"]
       \/ /\ manif' = [manif EXCEPT ![t] = "wait"]
          /\ UNCHANGED draft
    /\ UNCHANGED <<intact, index, lateLists>>
    /\ manifFrame

ManifestPushed(t) ==
    /\ manif[t] = "publish"
    /\ link[manifestWorker]
    /\ \/ /\ index' = [index EXCEPT ![t] = draft[t]]
          /\ manif' = [manif EXCEPT ![t] = "ok"]
       \/ /\ manif' = [manif EXCEPT ![t] = "wait"]
          /\ UNCHANGED index
    /\ UNCHANGED <<intact, draft, lateLists>>
    /\ manifFrame

(* An attempt is cut short, or fails: it is retried or, by the same        *)
(* masking as above, passes for a success.  The remote side may still      *)
(* finish the manifest push it was given.                                  *)
ManifestCut(t) ==
    /\ manif[t] \in {"create", "publish"}
    /\ intact' = [intact EXCEPT ![manifestWorker] = FALSE]
    /\ \E s \in {"ok", "wait"} : manif' = [manif EXCEPT ![t] = s]
    /\ \/ UNCHANGED lateLists
       \/ manif[t] = "publish" /\ lateLists' = lateLists \cup {<<"publish", t>>}
    /\ UNCHANGED <<draft, index>>
    /\ manifFrame

(* RetryContext gives up (manifest_timeout, cancelled group or operation). *)
(* The goroutine of an attempt in flight keeps going through its two       *)
(* commands.                                                               *)
ManifestGiveUp(t) ==
    /\ manif[t] \in {"wait", "create", "publish"}
    /\ manif' = [manif EXCEPT ![t] = "failed"]
    /\ lateLists' = IF manif[t] = "wait" THEN lateLists
                                         ELSE lateLists \cup {<<manif[t], t>>}
    /\ UNCHANGED <<intact, draft, index>>
    /\ manifFrame

-----------------------------------------------------------------------------
(* The environment.                                                        *)

LoseLink(w) ==
    /\ dialer[w] = "open"
    /\ phase # "done"
    /\ link[w]
    /\ link' = [link EXCEPT ![w] = FALSE]
    /\ intact' = [intact EXCEPT ![w] = FALSE]
    /\ UNCHANGED <<opts, phase, result, dialer, build, push, pushTag, manif,
                   dataVars, lateVars>>

lateFrame == UNCHANGED <<opts, phase, result, linkVars, build, push, pushTag, manif>>

(* An unattended command ends, with or without its effect.                 *)
LateBuildEnds(w) ==
    /\ w \in lateBuilds
    /\ lateBuilds' = lateBuilds \ {w}
    /\ local' \in {local, [local EXCEPT ![w] = "fresh"]}
    /\ UNCHANGED <<registry, draft, index, latePushes, lateLists>>
    /\ lateFrame

LatePushEnds(w, t) ==
    /\ <<w, t>> \in latePushes
    /\ latePushes' = latePushes \ {<<w, t>>}
    /\ (local[w] # "absent" /\ Upload(w, t)) \/ UNCHANGED registry
    /\ UNCHANGED <<local, draft, index, lateBuilds, lateLists>>
    /\ lateFrame

(* After its manifest create an abandoned attempt goes on to the push.     *)
LateCreateEnds(t) ==
    /\ <<"create", t>> \in lateLists
    /\ \/ /\ Resolvable(t)
          /\ draft' = [draft EXCEPT ![t] = registry[t]]
          /\ lateLists' = (lateLists \ {<<"create", t>>}) \cup {<<"publish", t>>}
       \/ /\ lateLists' = lateLists \ {<<"create", t>>}
          /\ UNCHANGED draft
    /\ UNCHANGED <<local, registry, index, lateBuilds, latePushes>>
    /\ lateFrame

LatePublishEnds(t) ==
    /\ <<"publish", t>> \in lateLists
    /\ lateLists' = lateLists \ {<<"publish", t>>}
    /\ index' \in {index, [index EXCEPT ![t] = draft[t]]}
    /\ UNCHANGED <<local, registry, draft, lateBuilds, latePushes>>
    /\ lateFrame

-----------------------------------------------------------------------------
Handler == StartBuild \/ EndBuild \/ EndPush \/ EndManifest \/ \E w \in Workers : Dial(w)

BuildStep(w) == BuildOpen(w) \/ BuildReply(w) \/ BuildHangs(w) \/ BuildCut(w)

PushStep(w) ==
    PushOpen(w) \/ PushAttempt(w) \/ PushReply(w) \/ PushCut(w) \/ PushGiveUp(w)

ManifestStep(t) ==
    \/ ManifestOpen(t) \/ ManifestCreated(t) \/ ManifestPushed(t)
    \/ ManifestCut(t) \/ ManifestGiveUp(t)

LateStep ==
    \/ \E w \in Workers : LateBuildEnds(w)
    \/ \E w \in Workers, t \in Tags : LatePushEnds(w, t)
    \/ \E t \in Tags : LateCreateEnds(t) \/ LatePublishEnds(t)

(* The handler returned and nothing it started is left running.            *)
Terminated ==
    /\ phase = "done"
    /\ lateBuilds = {} /\ latePushes = {} /\ lateLists = {}
    /\ UNCHANGED vars

Next ==
    \/ Handler
    \/ \E w \in Workers : BuildStep(w) \/ PushStep(w) \/ LoseLink(w)
    \/ \E t \in Tags : ManifestStep(t)
    \/ LateStep
    \/ Terminated

Spec == Init /\ [][Next]_vars

(* A build session that hangs goes on only once its connection is broken.  *)
BuildProgress(w) == (build[w] = "hung" => ~link[w]) /\ BuildStep(w)

(* The Go scheduler runs every goroutine; the timers of push and manifest  *)
(* fire; a build that does not hang ends, and one that hangs ends with its *)
(* connection.  Nothing obliges a connection to break, a hanging session   *)
(* or an unattended command to end.                                        *)
Fairness ==
    /\ WF_vars(Handler)
    /\ \A w \in Workers : WF_vars(BuildProgress(w)) /\ WF_vars(PushGiveUp(w))
                          /\ WF_vars(PushOpen(w))
    /\ \A t \in Tags : WF_vars(ManifestGiveUp(t))

FairSpec == Spec /\ Fairness
-----------------------------------------------------------------------------
(* Safety.                                                                 *)

Intact(p) == \A w \in Workers : Platform[w] = p => intact[w]
InRegistry(p) == \A t \in Tags : registry[t][p] = "fresh"

(* A nil result means, where nothing was cut short: every image was     *)
(* built; if asked to push, every tag of the platform is in the registry;  *)
(* if asked to manifest as well, every tag has its list.                   *)
SuccessIsComplete ==
    result = "nil" =>
        /\ \A w \in Workers : intact[w] => local[w] = "fresh"
        /\ opts.push => \A p \in Platforms : Intact(p) => InRegistry(p)
        /\ opts.push /\ opts.manifest /\ intact[manifestWorker] =>
              \A t \in Tags : index[t] # NoList

(* A manifest list this operation publishes never names the image of an    *)
(* earlier release for a platform with intact sessions: the lists are      *)
(* created behind the Wait of the push phase.                              *)
ListsAreFresh ==
    \A t \in Tags : index[t] # NoList =>
        \A p \in Platforms : Intact(p) => index[t][p] = "fresh"

(* After a nil result the only commands still running on the workers are   *)
(* those of sessions cut short: every abandoned attempt is an error.       *)
QuietOnSuccess ==
    result = "nil" =>
        /\ \A w \in lateBuilds : ~intact[w]
        /\ \A c \in latePushes : ~intact[c[1]]
        /\ lateLists # {} => ~intact[manifestWorker]

(* The registry is touched only after the Wait of the build phase saw      *)
(* every worker succeed (a release that fails on one worker leaves it      *)
(* alone), and an entry is then replaced by this operation's image, but    *)
(* for the platforms of sessions cut short.                                *)
UploadsAreFresh ==
    [][registry' # registry =>
          /\ \A w \in Workers : build[w] = "ok"
          /\ \A t \in Tags, p \in Platforms :
                registry'[t][p] # registry[t][p] /\ Intact(p) => registry'[t][p] = "fresh"]_vars

(* A nil result is what the program calls pushed on all workers.           *)
SuccessIsPushed ==
    result = "nil" /\ opts.push => \A p \in Platforms : InRegistry(p)

-----------------------------------------------------------------------------
(* The inductive invariant behind the safety properties.                   *)

(* Each phase starts behind the Wait of the one before it.                 *)
PhasesInOrder ==
    /\ phase = "dial" => \A w \in Workers : build[w] = "idle"
    /\ phase \in {"dial", "build"} => \A w \in Workers : push[w] = "idle"
    /\ phase \in {"dial", "build", "push"} => \A t \in Tags : manif[t] = "idle"
    /\ \A w \in Workers :
          push[w] # "idle" => opts.push /\ \A v \in Workers : build[v] = "ok"
    /\ \A t \in Tags : manif[t] # "idle" =>
          opts.push /\ opts.manifest /\ \A w \in Workers : push[w] = "ok"
    /\ \A w \in Workers : push[w] \in {"idle", "ready"} => pushTag[w] = 1
    /\ phase # "build" => \A w \in Workers : build[w] \in {"idle", "ok", "failed"}
    /\ phase # "push" => \A w \in Workers : push[w] \in {"idle", "ok", "failed"}
    /\ phase # "manifest" => \A t \in Tags : manif[t] \in {"idle", "ok", "failed"}
    /\ phase # "done" => result = "none"

(* What each goroutine has done while nothing was cut short.               *)
BuiltIsFresh ==
    \A w \in Workers : build[w] = "ok" /\ intact[w] => local[w] = "fresh"

PushedIsFresh ==
    \A w \in Workers : Intact(Platform[w]) =>
        \A t \in Tags : push[w] = "ok" \/ (push[w] # "idle" /\ t < pushTag[w]) =>
            registry[t][Platform[w]] = "fresh"

DraftsAreFresh ==
    \A t \in Tags : draft[t] # NoList =>
        \A p \in Platforms :
            draft[t][p] # "absent" /\ (Intact(p) => draft[t][p] = "fresh")

ListsExist ==
    \A t \in Tags :
        /\ manif[t] = "publish" \/ <<"publish", t>> \in lateLists => draft[t] # NoList
        /\ manif[t] = "ok" => index[t] # NoList \/ ~intact[manifestWorker]

(* Where the commands nobody waits for come from.                          *)
LateOrigins ==
    /\ \A w \in Workers : push[w] = "broken" \/ ~link[w] => ~intact[w]
    /\ \A w \in lateBuilds : ~intact[w] /\ build[w] # "idle"
    /\ \A c \in latePushes :
          push[c[1]] # "idle" /\ (~intact[c[1]] \/ push[c[1]] = "failed")
    /\ \A c \in lateLists :
          manif[c[2]] # "idle" /\ (~intact[manifestWorker] \/ manif[c[2]] = "failed")

NilMeansNoFailure ==
    result = "nil" =>
        /\ \A w \in Workers : build[w] = "ok"
        /\ opts.push => \A w \in Workers : push[w] = "ok"
        /\ ~opts.push => \A w \in Workers : push[w] = "idle"
        /\ opts.push /\ opts.manifest => \A t \in Tags : manif[t] = "ok"
        /\ ~(opts.push /\ opts.manifest) => \A t \in Tags : manif[t] = "idle"

IInv ==
    /\ TypeOK
    /\ PhasesInOrder
    /\ BuiltIsFresh
    /\ PushedIsFresh
    /\ DraftsAreFresh
    /\ ListsExist
    /\ ListsAreFresh
    /\ LateOrigins
    /\ NilMeansNoFailure

-----------------------------------------------------------------------------
(* Liveness.                                                               *)

(* No build session hangs for ever.                                        *)
SessionsEnd == \A w \in Workers : []<>(build[w] # "hung")

(* Read returns, whatever fails, but for a build session that hangs: push  *)
(* and manifest have a timeout of their own, the build has none.           *)
Returns == SessionsEnd => <>(phase = "done")

(* The failure of one goroutine is never lost among the others: it ends in *)
(* an error, and none of the later phases begins.  A failed build is told  *)
(* only behind the others, so not while the session of another one hangs.  *)
FailureIsReported ==
    /\ \A w \in Workers :
          SessionsEnd => (build[w] = "failed" ~> result = "error" /\ push[w] = "idle")
    /\ \A w \in Workers :
          push[w] = "failed" ~> result = "error" /\ \A t \in Tags : manif[t] = "idle"
    /\ \A t \in Tags : manif[t] = "failed" ~> result = "error"

-----------------------------------------------------------------------------
(* The handler carries out the staged release it promises.                 *)

Release == INSTANCE ImageRelease WITH stage <- phase

ReleaseSpec == Release!Spec
=============================================================================
