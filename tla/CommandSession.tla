--------------------------- MODULE CommandSession ---------------------------
(***************************************************************************)
(* What one call of sshDialer.PowerShell promises to a handler that        *)
(* executes commands in it, without the shell, the streams, the readers    *)
(* and the goroutines: a command takes effect when it was reached, the     *)
(* next one is reached behind its effect, and success is reported behind   *)
(* the last one.  There are exceptions where a stream was cut short, and   *)
(* where the call was excused from waiting for the interaction's word.     *)
(***************************************************************************)
EXTENDS Naturals

CONSTANTS NumCommands

VARIABLES
    effects,  \* the commands that had their effect
    command,  \* the command that was reached
    cut,      \* a stream ended before its signal
    excused,  \* the end of the channel or a panic stands for a result
    result    \* none, nil, error

vars == <<effects, command, cut, excused, result>>

Init ==
    /\ effects = {}
    /\ command = 1
    /\ cut = FALSE
    /\ excused = FALSE
    /\ result = "none"

(* An earlier command is late only where nobody could wait for it.  The    *)
(* last one may outlive the call.                                          *)
TakeEffect ==
    /\ \E c \in 1 .. NumCommands :
          /\ c = command \/ (cut /\ c < command)
          /\ effects' = effects \cup {c}
    /\ UNCHANGED <<command, cut, excused, result>>

Reach ==
    /\ result = "none"
    /\ command <= NumCommands
    /\ cut \/ command \in effects
    /\ command' = command + 1
    /\ UNCHANGED <<effects, cut, excused, result>>

CutShort ==
    /\ cut' = TRUE
    /\ UNCHANGED <<effects, command, excused, result>>

Excuse ==
    /\ result = "none"
    /\ excused' = TRUE
    /\ UNCHANGED <<effects, command, cut, result>>

Return ==
    /\ result = "none"
    /\ result' = "error" \/ (result' = "nil" /\ (excused \/ command > NumCommands))
    /\ UNCHANGED <<effects, command, cut, excused>>

Next == TakeEffect \/ Reach \/ CutShort \/ Excuse \/ Return

Spec == Init /\ [][Next]_vars
=============================================================================
