------------------------------ MODULE Shipping ------------------------------
(***************************************************************************)
(* The session in which Create ships the build context to a worker: the    *)
(* archive (BuildArchive), its expansion, the Dockerfile with its platform *)
(* arguments (PlatformArgs), and then the record of where they are.        *)
(***************************************************************************)
EXTENDS BuildArchive, PlatformArgs

CONSTANT
    Plain     \* bound: the Dockerfile, shipped as it is, of all but a build path
              \* that is read without damage and has nothing in .dockerignore

ASSUME PlainAssumption == Plain \in Dockerfiles

VARIABLES
    session,    \* workdir: its directories are made; archive; open: the archive is
                \* expanded; inject, send; raw, closed: Copy reads the Dockerfile
                \* itself; hung: a command does not end; nil, error: returned
    expanded,   \* the archive at the worker: no, yes, or the end of the session
                \* passed for that of the command (cut)
    lines,      \* lines of the Dockerfile at the worker
    info,       \* what the interaction has put down: empty, the directory, or both
    recorded,   \* what Create records of it, or nothing
    excused     \* PowerShell returned nil for a failed or panicked interaction (a
                \* history variable)

sessionVars == <<session, expanded, lines, info, recorded, excused>>
allVars == <<vars, argsVars, sessionVars>>

InitShipping ==
    /\ Init /\ InitArgs
    /\ session = "workdir"
    /\ expanded = "no"
    /\ lines = 0
    /\ info = "empty" /\ recorded = "nothing"
    /\ excused = FALSE

(* What PowerShell returns for the interaction, which returned nil or an   *)
(* error, or panicked.  The first error of the group is the keepalive's    *)
(* if it comes before the interaction's, and its io.EOF stands for         *)
(* success: nil may come of anything, and so may an error.  For nil Create *)
(* records what is in the map.                                             *)
Ends(verdict) ==
    \/ /\ session' = "nil"
       /\ recorded' = info'
       /\ excused' = (verdict # "nil")
    \/ /\ session' = "error"
       /\ UNCHANGED <<recorded, excused>>

(* The end of the session passes for the end of a command, done or not.    *)
MakeWorkdir ==
    /\ copy = "prepare"
    /\ session \in {"workdir", "hung"}
    /\ session' = "archive"
    /\ UNCHANGED <<vars, argsVars, expanded, lines, info, recorded, excused>>

ShipArchive(Step) ==
    /\ session = "archive"
    /\ Step
    /\ UNCHANGED <<argsVars, sessionVars>>

(* Mutant: the error of Copy is not looked at.                             *)
ExpandUnchecked ==
    /\ session = "archive" /\ copy \in {"ok", "failed"}
    /\ session' = "open"
    /\ expanded' \in {"yes", "cut"}
    /\ info' = "directory"
    /\ UNCHANGED <<vars, argsVars, lines, recorded, excused>>

Expand ==
    /\ copy = "ok"
    /\ \/ session = "archive" /\ expanded' \in {"yes", "cut"}
       \/ session = "hung" /\ expanded' = "cut"
    /\ session' = "open"
    /\ info' = "directory"
    /\ UNCHANGED <<vars, argsVars, lines, recorded, excused>>

(* One of the two commands does not end, or its signal arrives in two      *)
(* reads; nothing but the end of the session goes on from there.           *)
Hang ==
    /\ \/ session = "workdir"
       \/ session = "archive" /\ copy = "ok"
    /\ session' = "hung"
    /\ UNCHANGED <<vars, argsVars, expanded, lines, info, recorded, excused>>

(* A command or a Copy that fails is the error of the interaction.         *)
Fails ==
    /\ \/ session \in {"workdir", "hung", "send", "raw", "closed"}
       \/ session = "archive" /\ copy \in {"ok", "failed"}
    /\ UNCHANGED <<vars, argsVars, expanded, lines, info>>
    /\ Ends("error")

(* The Dockerfile is opened.  An error of Open is left to whoever reads.   *)
(* Without the architecture of the worker nothing is injected, but the     *)
(* file closed before Copy reads it.                                       *)
OpenDockerfile ==
    /\ session = "open"
    /\ IF patterns = <<>> /\ damaged = {} /\ ~linked /\ expanded = "yes"
       THEN /\ \E f \in Dockerfiles : Open(f)
            /\ session' \in {"inject", "raw", "closed"}
       ELSE /\ Open(Plain)
            /\ session' = "raw"
    /\ UNCHANGED <<vars, expanded, lines, info, recorded, excused>>

InjectArgs ==
    /\ session = "inject"
    /\ Inject
    /\ UNCHANGED <<vars, sessionVars>>

Injected ==
    /\ session = "inject" /\ scan = "returned"
    /\ session' = "send"
    /\ UNCHANGED <<vars, argsVars, expanded, lines, info, recorded, excused>>

Sent ==
    /\ session \in {"send", "raw"}
    /\ lines' = IF session = "send" THEN written ELSE Len(file.lines)
    /\ info' = "both"
    /\ Ends("nil")
    /\ UNCHANGED <<vars, argsVars, expanded>>

(* A panic is recovered by PowerShell.                                     *)
Recovered ==
    /\ session = "inject" /\ scan = "panicked"
    /\ UNCHANGED <<vars, argsVars, expanded, lines, info>>
    /\ Ends("panic")

ShipDockerfile ==
    \/ MakeWorkdir \/ Expand \/ Hang \/ Fails \/ OpenDockerfile
    \/ InjectArgs \/ Injected \/ Sent \/ Recovered

NextShipping == ShipArchive(Archiver) \/ ShipArchive(Copy) \/ ShipDockerfile

(* The goroutines go on, disk and SFTP answer or fail, commands that do    *)
(* not hang end.  Nothing obliges a session that hangs to end.             *)
SpecShipping ==
    /\ InitShipping /\ [][NextShipping]_allVars
    /\ WF_allVars(ShipArchive(Archiver)) /\ WF_allVars(ShipArchive(Copy))
    /\ WF_allVars(session # "hung" /\ ShipDockerfile)

-----------------------------------------------------------------------------
(* Whatever PowerShell makes of the interaction: a directory is recorded   *)
(* for a worker only behind a complete archive that was expanded there,    *)
(* unless the session ended over its expansion.  The Dockerfile named with *)
(* it is whole, unless the disk failed or a line is longer than a scanner  *)
(* takes.  It is missing from the record, or the directory as well, only   *)
(* if a failure or a panic was excused.                                    *)
RecordedIsWhole ==
    /\ recorded \in {"directory", "both"} =>
          /\ remote # <<>> /\ Last(remote) = Directory
          /\ expanded \in {"yes", "cut"}
    /\ recorded = "both" /\ err \notin {"failed", "too long"} => lines = Len(file.lines)
    /\ recorded \in {"empty", "directory"} => excused

(* What the session has reached: the archive is complete before it is      *)
(* expanded, expanded before the Dockerfile is opened, and what is         *)
(* injected has been scanned.                                              *)
SessionInStep ==
    /\ session \in {"workdir", "archive", "open", "inject", "send", "raw", "closed", "hung",
                    "nil", "error"}
    /\ info \in {"empty", "directory", "both"}
    /\ info # "both" \/ session \in {"nil", "error"}
    /\ session \in {"workdir", "archive", "open", "hung"} => scan = "off"
    /\ session \in {"workdir", "archive", "hung"} => info = "empty"
    /\ session \in {"open", "inject", "send", "raw", "closed"} => info = "directory"
    /\ info # "empty" => copy = "ok" /\ expanded \in {"yes", "cut"}
    /\ session = "send" => scan = "returned"
    /\ session # "nil" => recorded = "nothing"

(* The inductive invariant behind these: that of the archive, of the       *)
(* injection and of the session.                                           *)
ShippingIInv == IInv /\ ArgsIInv /\ SessionInStep /\ RecordedIsWhole

(* The session ends, unless one of its commands hangs, and if its shell    *)
(* does when it is told to (RemoteSession says what becomes of one that    *)
(* does not).  When Copy failed the archive goroutine may be blocked for   *)
(* ever.                                                                   *)
SessionEnds == []<>(session # "hung") => <>(session \in {"nil", "error"})
=============================================================================
