---------------------------- MODULE Provisioning ----------------------------
(***************************************************************************)
(* dialWorkerBySSH (DialRetry) and the host it dials: tools/docker.ps1     *)
(* runs there in the session of an attempt, and is run again by the next   *)
(* attempt when it failed.                                                 *)
(*                                                                         *)
(* The script writes daemon.json, and then restarts a docker that is       *)
(* recent enough, or installs one, with the Containers feature of Windows, *)
(* which may take a restart of the host.  It can be cut at every step, and *)
(* overlooks several errors.  A script that is cut stops.                  *)
(***************************************************************************)
EXTENDS DialRetry

VARIABLES
    version,     \* docker's version is configured
    script,      \* where it is, unpigz at first; then done, fatal, cut
    unpigz,      \* it is on the path
    config,      \* daemon.json: old (or missing), empty, new
    binaries,    \* docker's: none, stale, broken, good
    onPath,      \* the path of the machine leads to them
    registered,  \* docker is a service, and starts with the host
    daemon,      \* what dockerd was started with, or <<>>
    feature,     \* Containers: missing, pending (a restart), enabled
    restarting,  \* the host is about to restart
    dead,        \* the connection the restart has broken, or 0
    harm         \* what went wrong that matters (a history variable)

hostVars == <<unpigz, config, binaries, onPath, registered, daemon, feature, restarting>>
allVars == <<vars, version, script, hostVars, dead, harm>>

HostTypeOK ==
    /\ version \in BOOLEAN
    /\ script \in {"unpigz", "configure", "check", "found", "download", "remove", "expand",
                   "path", "register", "feature", "start", "done", "fatal", "cut"}
    /\ unpigz \in BOOLEAN /\ onPath \in BOOLEAN /\ registered \in BOOLEAN
    /\ restarting \in BOOLEAN
    /\ config \in {"old", "empty", "new"}
    /\ binaries \in {"none", "stale", "broken", "good"}
    /\ daemon \in {<<>>} \cup ({"old", "new"} \X {"stale", "good"})
    /\ feature \in {"missing", "pending", "enabled"}
    /\ dead \in 0 .. MaxAttempts
    /\ harm \subseteq {"overlooked", "feature", "broken"}

(* Without docker, or with one that works, registered or not.              *)
InitHost ==
    /\ version \in BOOLEAN
    /\ script = "unpigz"
    /\ unpigz \in BOOLEAN
    /\ config = "old"
    /\ binaries \in {"none", "stale", "good"}
    /\ onPath = (binaries # "none")
    /\ registered \in {FALSE, onPath}
    /\ daemon \in {<<>>} \cup (IF registered THEN {<<config, binaries>>} ELSE {})
    /\ feature \in {"enabled"} \cup (IF onPath THEN {} ELSE {"missing"})
    /\ restarting = FALSE
    /\ dead = 0
    /\ harm = {}

-----------------------------------------------------------------------------
(* Services.                                                               *)

(* dockerd does not start without the feature, nor on an empty daemon.json; *)
(* it may fail to for reasons of its own.                                  *)
CanStart(containers) ==
    containers = "enabled" /\ config # "empty" /\ binaries \in {"stale", "good"}

Started == <<config, binaries>>

Restarted(containers) ==
    {<<>>} \cup (IF registered /\ CanStart(containers) THEN {Started} ELSE {})

-----------------------------------------------------------------------------
(* The script.                                                             *)

Goto(here, next) == script = here /\ script' = next

(* An error ends it, on stderr.                                            *)
Throws(here) == Goto(here, "fatal")

(* Without a version the script leaves the host as it is.                  *)
NothingAsked ==
    /\ ~version
    /\ Goto("unpigz", "done")
    /\ UNCHANGED <<hostVars, harm>>

InstallUnpigz ==
    /\ version
    /\ \/ unpigz /\ Goto("unpigz", "configure") /\ UNCHANGED <<unpigz, daemon>>
       \/ /\ ~unpigz /\ Goto("unpigz", "configure")
          /\ unpigz' = TRUE
          /\ daemon' \in Restarted(feature) \cup {daemon}
       \/ ~unpigz /\ Throws("unpigz") /\ UNCHANGED <<unpigz, daemon>>
    /\ UNCHANGED <<config, binaries, onPath, registered, feature, restarting, harm>>

WriteConfig ==
    /\ \/ Goto("configure", "check") /\ config' = "new"
       \/ Throws("configure") /\ UNCHANGED config
    /\ UNCHANGED <<unpigz, binaries, onPath, registered, daemon, feature, restarting, harm>>

(* A dockerd that does not tell its version is an error.                   *)
CheckVersion ==
    /\ \/ onPath /\ binaries = "good" /\ Goto("check", "found")
       \/ onPath /\ binaries = "broken" /\ Throws("check")
       \/ (onPath => binaries \in {"none", "stale"}) /\ Goto("check", "download")
    /\ UNCHANGED <<hostVars, harm>>

(* Mutant: a docker that runs is left running.                             *)
FoundRunning ==
    /\ registered' = TRUE
    /\ \/ /\ Goto("found", "done")
          /\ CanStart(feature)
          /\ daemon' = IF daemon = <<>> THEN Started ELSE daemon
       \/ /\ Throws("found")
          /\ daemon' \in {<<>>, daemon}
    /\ UNCHANGED <<unpigz, config, binaries, onPath, feature, restarting, harm>>

(* A docker that is recent enough is registered if need be, and restarted  *)
(* with the new configuration.  Its feature is not looked at.              *)
Found ==
    /\ \/ /\ Goto("found", "done")
          /\ registered' = TRUE
          /\ CanStart(feature)
          /\ daemon' = Started
       \/ /\ Throws("found")
          /\ registered' \in {registered, TRUE}
          /\ daemon' \in {<<>>, daemon}
    /\ UNCHANGED <<unpigz, config, binaries, onPath, feature, restarting, harm>>

Download ==
    /\ Goto("download", "remove") \/ Throws("download")
    /\ UNCHANGED <<hostVars, harm>>

(* The error of stopping the stale docker is overlooked.                   *)
RemoveStale ==
    /\ \/ Goto("remove", "expand") /\ registered' \in {registered, FALSE} /\ daemon' = <<>>
          /\ UNCHANGED harm
       \/ /\ daemon # <<>> /\ Goto("remove", "expand")
          /\ harm' = harm \cup {"overlooked"}
          /\ UNCHANGED <<registered, daemon>>
       \/ Throws("remove") /\ daemon' \in {<<>>, daemon} /\ UNCHANGED <<registered, harm>>
    /\ UNCHANGED <<unpigz, config, binaries, onPath, feature, restarting>>

(* Mutant: expanding is tried once.                                        *)
ExpandOnce ==
    /\ Goto("expand", "path")
    /\ binaries' \in {binaries} \cup (IF daemon = <<>> THEN {"good"} ELSE {})
    /\ UNCHANGED <<unpigz, config, onPath, registered, daemon, feature, restarting, harm>>

(* Expanding is repeated while it fails, as it does on a running dockerd;  *)
(* but errors may be overlooked.                                           *)
Expand ==
    /\ Goto("expand", "path")
    /\ \/ daemon = <<>> /\ binaries' = "good" /\ UNCHANGED harm
       \/ UNCHANGED binaries /\ harm' = harm \cup {"overlooked"}
    /\ UNCHANGED <<unpigz, config, onPath, registered, daemon, feature, restarting>>

AddPath ==
    /\ Goto("path", "register")
    /\ onPath' = TRUE
    /\ UNCHANGED <<unpigz, config, binaries, registered, daemon, feature, restarting, harm>>

Register ==
    /\ \/ /\ Goto("register", "feature")
          /\ binaries \in {"stale", "good"}
          /\ registered' = TRUE
          /\ UNCHANGED harm
       \/ /\ Throws("register")
          /\ registered' \in {registered, TRUE}
          /\ harm' = harm \cup {"feature"}
    /\ UNCHANGED <<unpigz, config, binaries, onPath, daemon, feature, restarting>>

RestartNeeded == Goto("feature", "done") /\ restarting' = TRUE

Installed == IF feature = "missing" THEN {"pending"} ELSE {}

(* Mutant: the host is not restarted for the feature.                      *)
VerifyFeatureOnly ==
    /\ \/ Goto("feature", "start") /\ feature' \in {"enabled"} \cup Installed /\ UNCHANGED harm
       \/ Throws("feature") /\ harm' = harm \cup {"feature"} /\ UNCHANGED feature
    /\ UNCHANGED <<unpigz, config, binaries, onPath, registered, daemon, restarting>>

(* An error of the installation is overlooked, and restarts the host as    *)
(* well; an error of the restart ends the script.                          *)
VerifyFeature ==
    /\ \/ feature # "pending" /\ Goto("feature", "start") /\ feature' = "enabled"
          /\ UNCHANGED <<restarting, harm>>
       \/ feature # "enabled" /\ RestartNeeded /\ feature' = "pending" /\ UNCHANGED harm
       \/ RestartNeeded /\ harm' = harm \cup {"overlooked"} /\ UNCHANGED feature
       \/ /\ Throws("feature")
          /\ feature' \in {feature} \cup Installed
          /\ harm' = harm \cup {"feature"}
          /\ UNCHANGED restarting
    /\ UNCHANGED <<unpigz, config, binaries, onPath, registered, daemon>>

(* A docker that runs is left alone; whether it starts is overlooked.      *)
Start ==
    /\ Goto("start", "done") \/ Throws("start")
    /\ daemon' \in IF daemon = <<>> THEN Restarted(feature) ELSE {daemon}
    /\ UNCHANGED <<unpigz, config, binaries, onPath, registered, feature, restarting, harm>>

Script ==
    \/ NothingAsked \/ InstallUnpigz \/ WriteConfig \/ CheckVersion \/ Found \/ Download
    \/ RemoveStale \/ Expand \/ AddPath \/ Register \/ VerifyFeature \/ Start

During(steps, outcome) == IF script \in steps THEN {outcome} ELSE {}

(* The session ends in the middle of a step, which may have done its part. *)
Cut ==
    /\ script \notin {"fatal", "cut"}
    /\ script' = "cut"
    /\ config' \in {config} \cup During({"configure"}, "empty")
    /\ daemon' \in {daemon} \cup During({"remove", "found"}, <<>>)
    /\ registered' \in {registered} \cup During({"remove"}, FALSE)
                                   \cup During({"found", "register"}, TRUE)
    /\ binaries' \in {binaries} \cup During({"expand"}, "broken")
    /\ feature' \in {feature} \cup (IF script = "feature" THEN Installed ELSE {})
    /\ harm' = harm \cup During({"register", "feature"}, "feature")
                    \cup (IF binaries' = "broken" THEN {"broken"} ELSE {})
    /\ UNCHANGED <<unpigz, onPath, restarting>>

-----------------------------------------------------------------------------
(* The attempt and the host.                                               *)

RunScript ==
    /\ step = "configure"
    /\ (Script /\ w # dead) \/ Cut
    /\ UNCHANGED <<vars, version, dead>>

(* The attempt goes by what the session says: of a script that was cut,    *)
(* that it did its work or that it failed.                                 *)
EndScript ==
    /\ script \in {"done", "fatal", "cut"}
    /\ Configure
    /\ server' = IF script = "done" THEN "new" ELSE server
    /\ script = "done" => configuredBy' = attempt /\ intact' = intact
    /\ script = "fatal" => configuredBy' = configuredBy
    /\ script = "cut" => configuredBy' = configuredBy \/ intact' = FALSE
    /\ script' = "unpigz"
    /\ UNCHANGED <<version, hostVars, dead, harm>>

(* docker info succeeds where docker runs, or where its session was cut.   *)
ConfirmServer ==
    /\ Confirm
    /\ confirmedBy' = attempt /\ intact' = intact /\ intact => daemon # <<>> /\ w # dead
    /\ UNCHANGED <<version, script, hostVars, dead, harm>>

(* The feature is complete and docker started when the host is up again.   *)
RestartHost ==
    /\ restarting
    /\ script \in {"unpigz", "done", "fatal", "cut"}
    /\ restarting' = FALSE
    /\ feature' = IF feature = "pending" THEN "enabled" ELSE feature
    /\ daemon' \in Restarted(feature')
    /\ dead' = w
    /\ UNCHANGED <<vars, version, script, unpigz, config, binaries, onPath, registered, harm>>

Elsewhere(Step) == Step /\ UNCHANGED <<version, script, hostVars, dead, harm>>

Worker == RunScript \/ EndScript \/ ConfirmServer \/ RestartHost

NextProvisioning ==
    \/ Worker
    \/ Elsewhere(Refresher) \/ Elsewhere(DialFails) \/ Elsewhere(Dial)
    \/ Elsewhere(Waiter) \/ Elsewhere(Cancel) \/ Elsewhere(Terminated)

InitProvisioning == Init /\ InitHost

(* The timers of the waiter fire.  Nothing is assumed of the attempts and  *)
(* the host: a session may hang for ever.                                  *)
SpecProvisioning ==
    /\ InitProvisioning /\ [][NextProvisioning]_allVars
    /\ WF_allVars(Elsewhere(Timeout)) /\ WF_allVars(Elsewhere(GraceEnds))

-----------------------------------------------------------------------------
(* A worker that Create is handed runs docker, of the version and with the *)
(* configuration it asked for if it asked for a version, and is not about  *)
(* to restart, however often the script was cut or failed before it did    *)
(* its work, unless an error was overlooked.                               *)
ReadyRunsNew ==
    result = "nil" /\ configureDocker /\ intact /\ "overlooked" \notin harm =>
        /\ daemon # <<>> /\ ~restarting /\ w # dead
        /\ version => daemon = <<"new", "good">>

(* Another run of the script can do its work: it is not refused by a       *)
(* broken dockerd, nor will it take the branch that leaves out the feature *)
(* of Windows.                                                             *)
Repeatable ==
    onPath => binaries # "broken" /\ (binaries = "good" => feature = "enabled" \/ restarting)

(* A host is left like that only when the script was cut while it expanded *)
(* docker over an earlier one, or failed or was cut between adding docker  *)
(* to the path and the end of the feature's installation, or when that     *)
(* installation failed and nobody looked.                                  *)
LeftRepeatable == script \in {"unpigz", "check"} /\ harm = {} => Repeatable

-----------------------------------------------------------------------------
(* The inductive invariant these rest on.                                  *)

Overlooked == "overlooked" \in harm

Old == daemon \notin {<<>>, <<"new", "good">>}

(* What the steps before have done, in the script that runs.               *)
ScriptInStep ==
    /\ script # "unpigz" => step = "configure"
    /\ ~version => script \in {"unpigz", "done", "cut"}
    /\ script \in {"check", "found", "download", "remove", "expand", "path", "register",
                   "feature", "start", "done"} /\ version => config = "new"
    /\ script = "found" => binaries = "good"
    /\ version /\ ~Overlooked =>
          /\ script \in {"expand", "path", "register", "feature", "start"} => daemon = <<>>
          /\ script \in {"path", "register", "feature", "start", "done"} => binaries = "good"
          /\ script = "done" => ~Old

(* A script that was not cut leaves what it was asked for, and so does a   *)
(* restart; a confirmed docker runs.                                       *)
ProvisionedHost ==
    intact /\ ~Overlooked =>
        /\ version /\ configuredBy # 0 => config = "new" /\ binaries = "good" /\ ~Old
        /\ last = "success" /\ configureDocker =>
              daemon # <<>> /\ ~restarting /\ w # dead

(* Without the feature no docker runs, and the host restarts only for it.  *)
RestartsForFeature ==
    /\ daemon # <<>> => feature = "enabled"
    /\ restarting /\ ~Overlooked => feature = "pending"

(* The path leads to a docker whose feature is there, or is coming.        *)
PathIsComplete ==
    onPath /\ harm = {} /\ script \notin {"register", "feature"} =>
        binaries \in {"stale", "good"} /\ (feature = "enabled" \/ restarting)

HostIInv == HostTypeOK /\ ScriptInStep /\ ProvisionedHost /\ RestartsForFeature /\ PathIsComplete
=============================================================================
