---------------------------- MODULE RemoteSession ----------------------------
(***************************************************************************)
(* One call of sshDialer.PowerShell: an SSH session that runs a PowerShell *)
(* reading its commands from stdin, the interaction goroutine that         *)
(* executes a list of commands in it, the keepalive goroutine beside it,   *)
(* and the errgroup whose first error decides what the call returns.       *)
(*                                                                         *)
(* Execute writes a command followed by a signal to be printed on both     *)
(* output streams, and starts a reader per stream that collects the output *)
(* until the signal ends a read.  The interaction is the one of the        *)
(* windbag_image handlers: stop at the first command that fails or printed *)
(* something on stderr; where it retries, repeat that command until        *)
(* RetryContext gives up.                                                  *)
(***************************************************************************)
EXTENDS Naturals, Sequences

CONSTANTS
    NumCommands,   \* commands the interaction wants to execute
    MaxAttempts,   \* bound: how often Execute is called
    Faults,        \* the shell may die, the connection break, the interaction panic
    Tearing        \* a read may end inside a signal

ASSUME NumCommandsAssumption == NumCommands \in Nat \ {0}
ASSUME MaxAttemptsAssumption == MaxAttempts \in Nat /\ MaxAttempts >= NumCommands
ASSUME SwitchesAssumption == Faults \in BOOLEAN /\ Tearing \in BOOLEAN

Streams == {"out", "err"}
Attempts == 1 .. MaxAttempts
AllCommands == 1 .. NumCommands

(* What one read returns: output of an attempt, its whole signal at the    *)
(* end, or a piece of that signal.                                         *)
Chunks == [attempt : Attempts, kind : {"text", "signal", "piece"}]

(* A line of stdin: a command of an attempt, or the exit of Close.         *)
Exit == [attempt |-> 0, command |-> 0]
Lines == [attempt : Attempts, command : AllCommands] \cup {Exit}

VARIABLES
    channel,     \* the SSH channel: open, exited (the server closed it), lost
    shell,       \* the remote PowerShell: idle, run, signal, gone
    stdin,       \* lines written to the shell; it is at the first one
    wire,        \* wire[s]: what the shell printed on s and nobody read yet
    effects,     \* the commands that had their effect on the worker
    keepalive,   \* the keepalive goroutine: sleep, ping, nil, eof, error
    interaction, \* setup, ready, reading, closing, waiting, returned
    retrying,    \* whether the interaction retries a failed command
    verdict,     \* what it is about to return: none, nil, error, panic (recovered)
    waiter,      \* the goroutine of Close: off, wait, blocked (sending), ended
    attempt,     \* number of commands written to stdin
    command,     \* the command to execute next, or being executed
    reader,      \* reader[s]: off, reading, signal, eof
    said,        \* said[s]: attempts whose output is in the builder of s
    cut,         \* a reader met the end of its stream (a history variable)
    group,       \* the first error of the errgroup: none, eof, error
    ctx,         \* the context of the call: live, done
    result       \* what the call returned: none, nil, error

remoteVars == <<channel, shell, stdin, wire, effects>>
goVars == <<keepalive, interaction, retrying, verdict, waiter>>
execVars == <<attempt, command, reader, said, cut>>
callVars == <<group, ctx, result>>
vars == <<channel, shell, stdin, wire, effects, keepalive, interaction, retrying, verdict,
          waiter, attempt, command, reader, said, cut, group, ctx, result>>

TypeOK ==
    /\ channel \in {"open", "exited", "lost"}
    /\ shell \in {"idle", "run", "signal", "gone"}
    /\ stdin \in Seq(Lines)
    /\ wire \in [Streams -> Seq(Chunks)]
    /\ effects \subseteq AllCommands
    /\ keepalive \in {"sleep", "ping", "nil", "eof", "error"}
    /\ interaction \in {"setup", "ready", "reading", "closing", "waiting", "returned"}
    /\ retrying \in BOOLEAN
    /\ verdict \in {"none", "nil", "error", "panic"}
    /\ waiter \in {"off", "wait", "blocked", "ended"}
    /\ attempt \in 0 .. MaxAttempts
    /\ command \in 1 .. (NumCommands + 1)
    /\ reader \in [Streams -> {"off", "reading", "signal", "eof"}]
    /\ said \in [Streams -> SUBSET Attempts]
    /\ cut \in BOOLEAN
    /\ group \in {"none", "eof", "error"}
    /\ ctx \in {"live", "done"}
    /\ result \in {"none", "nil", "error"}

Init ==
    /\ channel = "open"
    /\ shell = "idle"
    /\ stdin = <<>>
    /\ wire = [s \in Streams |-> <<>>]
    /\ effects = {}
    /\ keepalive = "sleep"
    /\ interaction = "setup"
    /\ retrying \in BOOLEAN
    /\ verdict = "none"
    /\ waiter = "off"
    /\ attempt = 0
    /\ command = 1
    /\ reader = [s \in Streams |-> "off"]
    /\ said = [s \in Streams |-> {}]
    /\ cut = FALSE
    /\ group = "none"
    /\ ctx = "live"
    /\ result = "none"

-----------------------------------------------------------------------------
(* The group.  errgroup.WithContext: the first error is kept, and cancels  *)
(* the context of the members.                                             *)

Fails(err) == group' = IF group = "none" THEN err ELSE group

Cancelled == ctx = "done" \/ group # "none"

(* errgroup.Wait, the check for the sentinel, and the deferred Close of    *)
(* the session.                                                            *)
Return ==
    /\ result = "none"
    /\ keepalive \in {"nil", "eof", "error"}
    /\ interaction = "returned"
    /\ result' = IF group = "error" THEN "error" ELSE "nil"
    /\ UNCHANGED <<remoteVars, goVars, execVars, group, ctx>>

(* The operation is cancelled or runs out of time.                         *)
Cancel ==
    /\ ctx = "live"
    /\ ctx' = "done"
    /\ UNCHANGED <<remoteVars, goVars, execVars, group, result>>

-----------------------------------------------------------------------------
(* The keepalive goroutine: look at the context, send a request, wait      *)
(* sshKeepaliveSliding, and again.                                         *)

keepaliveFrame ==
    UNCHANGED <<remoteVars, interaction, retrying, verdict, waiter, execVars, ctx, result>>

KeepaliveTick ==
    /\ keepalive = "sleep"
    /\ ~Cancelled
    /\ keepalive' = "ping"
    /\ UNCHANGED group
    /\ keepaliveFrame

(* A request on a closed channel, or one whose channel closes before the   *)
(* answer, fails with io.EOF; on a broken connection also with the error   *)
(* of the transport.                                                       *)
KeepalivePing ==
    /\ keepalive = "ping"
    /\ \/ channel = "open" /\ keepalive' = "sleep" /\ UNCHANGED group
       \/ channel # "open" /\ keepalive' = "eof" /\ Fails("eof")
       \/ channel = "lost" /\ keepalive' = "error" /\ Fails("error")
    /\ keepaliveFrame

KeepaliveStop ==
    /\ keepalive = "sleep"
    /\ Cancelled
    /\ keepalive' = "nil"
    /\ UNCHANGED group
    /\ keepaliveFrame

-----------------------------------------------------------------------------
(* The interaction goroutine.                                              *)

interactionFrame == UNCHANGED <<channel, shell, wire, effects, keepalive, retrying, ctx, result>>

(* Commands takes over the streams and starts the shell.  Its error is     *)
(* returned at once: no Close is deferred yet.                             *)
Commands ==
    /\ interaction = "setup"
    /\ \/ /\ channel = "open"
          /\ interaction' = "ready"
          /\ UNCHANGED <<verdict, group>>
       \/ /\ interaction' = "returned"
          /\ verdict' = "error"
          /\ Fails("error")
    /\ UNCHANGED <<stdin, waiter, execVars>>
    /\ interactionFrame

(* Mutant: the signal is that of the attempt before.                       *)
ExecuteWriteStale ==
    /\ interaction = "ready"
    /\ attempt < MaxAttempts
    /\ channel = "open"
    /\ attempt' = attempt + 1
    /\ stdin' = Append(stdin, [attempt |-> attempt, command |-> command])
    /\ reader' = [s \in Streams |-> "reading"]
    /\ said' = [s \in Streams |-> {}]
    /\ interaction' = "reading"
    /\ UNCHANGED <<verdict, waiter, group, command, cut>>
    /\ interactionFrame

(* Execute writes the command and spawns the readers.                      *)
ExecuteWrite ==
    /\ interaction = "ready"
    /\ attempt < MaxAttempts
    /\ channel = "open"
    /\ attempt' = attempt + 1
    /\ stdin' = Append(stdin, [attempt |-> attempt + 1, command |-> command])
    /\ reader' = [s \in Streams |-> "reading"]
    /\ said' = [s \in Streams |-> {}]
    /\ interaction' = "reading"
    /\ UNCHANGED <<verdict, waiter, group, command, cut>>
    /\ interactionFrame

(* A write error ends a plain interaction; one that retries meets it again *)
(* and again until it gives up.                                            *)
ExecuteWriteFails ==
    /\ interaction = "ready"
    /\ channel # "open"
    /\ ~retrying
    /\ interaction' = "closing"
    /\ verdict' = "error"
    /\ UNCHANGED <<stdin, waiter, group, execVars>>
    /\ interactionFrame

(* One Read of a reader, of at most len(buf) bytes.  Only the signal of    *)
(* its own command at the very end of what it read stops it; anything else *)
(* is output.                                                              *)
ItsSignal(c) == c.kind = "signal" /\ c.attempt = attempt

Read(s) ==
    /\ reader[s] = "reading"
    /\ wire[s] # <<>>
    /\ wire' = [wire EXCEPT ![s] = Tail(@)]
    /\ \/ /\ ItsSignal(Head(wire[s]))
          /\ reader' = [reader EXCEPT ![s] = "signal"]
          /\ UNCHANGED said
       \/ /\ ~ItsSignal(Head(wire[s]))
          /\ said' = [said EXCEPT ![s] = @ \cup {Head(wire[s]).attempt}]
          /\ UNCHANGED reader
    /\ UNCHANGED <<channel, shell, stdin, effects, goVars, attempt, command, cut, callVars>>

(* Mutant: io.EOF does not leave the loop.                                 *)
ReadEOFAgain(s) ==
    /\ reader[s] = "reading"
    /\ wire[s] = <<>>
    /\ channel # "open"
    /\ cut' = TRUE
    /\ UNCHANGED <<remoteVars, goVars, attempt, command, reader, said, callVars>>

(* At io.EOF a reader ends like one that met its signal.                   *)
ReadEOF(s) ==
    /\ reader[s] = "reading"
    /\ wire[s] = <<>>
    /\ channel # "open"
    /\ reader' = [reader EXCEPT ![s] = "eof"]
    /\ cut' = TRUE
    /\ UNCHANGED <<remoteVars, goVars, attempt, command, said, callVars>>

(* Mutant: Execute returns when one reader ended.                          *)
ExecutedHalf == interaction = "reading" /\ \E s \in Streams : reader[s] # "reading"

(* Execute returns when both readers ended; the interaction then looks at  *)
(* stderr.                                                                 *)
Executed == interaction = "reading" /\ \A s \in Streams : reader[s] # "reading"

CommandSucceeds ==
    /\ Executed
    /\ said["err"] = {}
    /\ command' = command + 1
    /\ interaction' = IF command = NumCommands THEN "closing" ELSE "ready"
    /\ verdict' = IF command = NumCommands THEN "nil" ELSE verdict
    /\ UNCHANGED <<stdin, waiter, group, attempt, reader, said, cut>>
    /\ interactionFrame

CommandFails ==
    /\ Executed
    /\ said["err"] # {}
    /\ interaction' = IF retrying THEN "ready" ELSE "closing"
    /\ verdict' = IF retrying THEN verdict ELSE "error"
    /\ UNCHANGED <<stdin, waiter, group, execVars>>
    /\ interactionFrame

(* Mutant: a timeout is not an error.                                      *)
GiveUpSilently ==
    /\ retrying
    /\ interaction \in {"ready", "reading"}
    /\ interaction' = "closing"
    /\ verdict' = "nil"
    /\ UNCHANGED <<stdin, waiter, group, execVars>>
    /\ interactionFrame

(* RetryContext returns an error, and may leave an Execute behind.         *)
GiveUp ==
    /\ retrying
    /\ interaction \in {"ready", "reading"}
    /\ interaction' = "closing"
    /\ verdict' = "error"
    /\ UNCHANGED <<stdin, waiter, group, execVars>>
    /\ interactionFrame

(* The code around the commands panics.  The deferred Close, if there is    *)
(* one by then, still runs.                                                *)
Panic ==
    /\ Faults
    /\ \/ interaction = "setup" /\ interaction' = "returned"
       \/ /\ ~retrying
          /\ interaction = "ready" \/ Executed
          /\ interaction' = "closing"
    /\ verdict' = "panic"
    /\ UNCHANGED <<stdin, waiter, group, execVars>>
    /\ interactionFrame

(* Close: write exit and close stdin, then let a goroutine wait for the    *)
(* session ...                                                             *)
CloseExit ==
    /\ interaction = "closing"
    /\ interaction' = "waiting"
    /\ waiter' = "wait"
    /\ stdin' = IF channel = "open" THEN Append(stdin, Exit) ELSE stdin
    /\ UNCHANGED <<verdict, group, execVars>>
    /\ interactionFrame

(* ... which is over when its channel is.  The send needs a receiver.      *)
WaiterSends ==
    /\ waiter = "wait"
    /\ channel # "open"
    /\ waiter' = "blocked"
    /\ UNCHANGED <<remoteVars, keepalive, interaction, retrying, verdict, execVars, callVars>>

(* Mutant: io.EOF is returned in any case.                                 *)
CloseReturnsEOF ==
    /\ interaction = "waiting"
    /\ interaction' = "returned"
    /\ Fails("eof")
    /\ waiter' \in IF waiter = "blocked" THEN {"ended", "blocked"} ELSE {waiter}
    /\ UNCHANGED <<stdin, verdict, execVars>>
    /\ interactionFrame

(* Close receives, or stops waiting after two seconds.  The interaction    *)
(* returns its error or, to close the keepalive goroutine, io.EOF; a       *)
(* recovered panic makes the goroutine return nil.                         *)
CloseReturns ==
    /\ interaction = "waiting"
    /\ interaction' = "returned"
    /\ \/ verdict = "nil" /\ Fails("eof")
       \/ verdict = "error" /\ Fails("error")
       \/ verdict = "panic" /\ UNCHANGED group
    /\ waiter' \in IF waiter = "blocked" THEN {"ended", "blocked"} ELSE {waiter}
    /\ UNCHANGED <<stdin, verdict, execVars>>
    /\ interactionFrame

-----------------------------------------------------------------------------
(* The remote side.                                                        *)

shellFrame == UNCHANGED <<goVars, execVars, callVars>>

(* Output on a channel that is not open reaches nobody.                    *)
Prints(s, chunks) ==
    wire' = IF channel = "open" THEN [wire EXCEPT ![s] = @ \o chunks] ELSE wire

Text(a) == [attempt |-> a, kind |-> "text"]
Signals(a) ==
    {<<[attempt |-> a, kind |-> "signal"]>>}
        \cup (IF Tearing THEN {<<[attempt |-> a, kind |-> "piece"],
                                 [attempt |-> a, kind |-> "piece"]>>} ELSE {})

(* The shell reads a line: it starts a command, or exits.                  *)
ShellTakes ==
    /\ shell = "idle"
    /\ stdin # <<>>
    /\ \/ /\ Head(stdin) # Exit
          /\ shell' = "run"
          /\ UNCHANGED <<channel, stdin>>
       \/ /\ Head(stdin) = Exit
          /\ shell' = "gone"
          /\ stdin' = Tail(stdin)
          /\ channel' = IF channel = "open" THEN "exited" ELSE channel
    /\ UNCHANGED <<wire, effects>>
    /\ shellFrame

(* The command has its effect or a reason on stderr why not (or both),     *)
(* then the signal goes to stdout ...                                      *)
ShellRuns ==
    /\ shell = "run"
    /\ shell' = "signal"
    /\ LET a == Head(stdin).attempt IN
       \/ /\ effects' = effects \cup {Head(stdin).command}
          /\ \E sig \in Signals(a) : Prints("out", sig)
       \/ /\ effects' \in {effects, effects \cup {Head(stdin).command}}
          /\ \E sig \in Signals(a) :
                wire' = IF channel = "open"
                        THEN [wire EXCEPT !["out"] = @ \o sig, !["err"] = @ \o <<Text(a)>>]
                        ELSE wire
    /\ UNCHANGED <<channel, stdin>>
    /\ shellFrame

(* ... and to stderr.                                                      *)
ShellSignals ==
    /\ shell = "signal"
    /\ shell' = "idle"
    /\ stdin' = Tail(stdin)
    /\ \E sig \in Signals(Head(stdin).attempt) : Prints("err", sig)
    /\ UNCHANGED <<channel, effects>>
    /\ shellFrame

(* The server ends the session: the shell died, or PowerShell returned and *)
(* closed its side.                                                        *)
ShellDies ==
    /\ channel = "open"
    /\ Faults \/ result # "none"
    /\ channel' = "exited"
    /\ shell' = "gone"
    /\ UNCHANGED <<stdin, wire, effects>>
    /\ shellFrame

(* The connection breaks; the shell goes on with what it has.              *)
ConnectionLost ==
    /\ channel = "open"
    /\ Faults
    /\ channel' = "lost"
    /\ UNCHANGED <<shell, stdin, wire, effects>>
    /\ shellFrame

-----------------------------------------------------------------------------
Keepalive == KeepaliveTick \/ KeepalivePing \/ KeepaliveStop

Interaction ==
    \/ Commands \/ ExecuteWrite \/ ExecuteWriteFails \/ CommandSucceeds \/ CommandFails
    \/ CloseExit \/ CloseReturns \/ WaiterSends

Reader(s) == Read(s) \/ ReadEOF(s)

Shell == ShellTakes \/ ShellRuns \/ ShellSignals

(* The call returned and its session is over.                              *)
Terminated ==
    /\ result # "none"
    /\ channel # "open"
    /\ \A s \in Streams : reader[s] # "reading"
    /\ waiter # "wait"
    /\ UNCHANGED vars

Next ==
    \/ Return \/ Cancel \/ Keepalive \/ Interaction \/ GiveUp \/ Panic
    \/ \E s \in Streams : Reader(s)
    \/ Shell \/ ShellDies \/ ConnectionLost
    \/ Terminated

Spec == Init /\ [][Next]_vars

(* Goroutines are scheduled, timers fire, the remote shell goes on, and a  *)
(* server told to close a session does so.                                 *)
Fairness ==
    /\ WF_vars(Return)
    /\ WF_vars(Keepalive)
    /\ WF_vars(Interaction)
    /\ WF_vars(GiveUp)
    /\ \A s \in Streams : WF_vars(Reader(s))
    /\ WF_vars(Shell)
    /\ WF_vars(result # "none" /\ ShellDies)

FairSpec == Spec /\ Fairness

-----------------------------------------------------------------------------
(* Safety.                                                                 *)

(* Between two commands the session is in step: nothing of the earlier one *)
(* is left in the shell or on the streams, to be taken for the next one's. *)
InStep ==
    interaction = "ready" /\ channel = "open" =>
        /\ shell = "idle"
        /\ stdin = <<>>
        /\ \A s \in Streams : wire[s] = <<>>

(* The output Execute collects is the output of its own command.           *)
OwnOutput == \A s \in Streams : said[s] \subseteq {attempt}

(* A nil result is to be trusted unless the keepalive goroutine met the    *)
(* end of the channel or a panic was recovered: the interaction returned   *)
(* nil and, unless a reader met the end of its stream, every command had   *)
(* its effect.                                                             *)
TrustedResult ==
    result = "nil" /\ keepalive # "eof" =>
        \/ verdict = "panic"
        \/ verdict = "nil" /\ (~cut => effects = AllCommands)

(* The inductive invariant.  The shell has a command of the current        *)
(* attempt on its stdin until it printed both signals, with at most the    *)
(* exit of Close behind it.                                                *)
Pending == stdin # <<>> /\ Head(stdin) # Exit

StdinInOrder ==
    /\ \A i \in DOMAIN stdin :
          \/ stdin[i] = Exit /\ i = Len(stdin) /\ interaction \in {"waiting", "returned"}
          \/ /\ i = 1 /\ stdin[i].attempt = attempt
             /\ interaction = "reading" => stdin[i].command = command
    /\ shell \in {"run", "signal"} => Pending
    /\ channel = "open" => shell # "gone"

(* Nothing is printed before the command ran, the signal is printed last,  *)
(* the one of stderr behind the one of stdout.                             *)
Unprinted(s) ==
    Pending /\ (shell \in {"idle", "run"} \/ (shell = "signal" /\ s = "err"))

StreamsInOrder ==
    \A s \in Streams :
        /\ \A i \in DOMAIN wire[s] :
              /\ wire[s][i].attempt = attempt
              /\ wire[s][i].kind = "signal" => i = Len(wire[s]) /\ ~Unprinted(s)
        /\ shell \in {"idle", "run"} /\ Pending => wire[s] = <<>>
        /\ reader[s] = "signal" => wire[s] = <<>> /\ ~Unprinted(s)

(* What the readers of an Execute are at.                                  *)
ReadersInOrder ==
    /\ \A s \in Streams :
          /\ interaction \in {"setup", "ready"} => reader[s] # "reading"
          /\ interaction = "reading" => reader[s] # "off"
          /\ reader[s] = "eof" => channel # "open" /\ cut
    /\ interaction = "setup" =>
          /\ stdin = <<>> /\ command = 1
          /\ \A s \in Streams : wire[s] = <<>>

(* A command that ran and was not heard to complain had its effect, unless *)
(* the complaint was lost with the channel - and the signal behind it.     *)
Heard ==
    \/ channel = "open" \/ reader["err"] = "signal"
    \/ \E i \in DOMAIN wire["err"] : wire["err"][i].kind = "signal"

SilenceIsEffect ==
    /\ interaction = "reading" /\ ~Unprinted("out") /\ Heard
          /\ said["err"] = {} /\ (\A i \in DOMAIN wire["err"] : wire["err"][i].kind # "text")
          => command \in effects
    /\ ~cut => \A c \in 1 .. (command - 1) : c \in effects
    /\ interaction \in {"ready", "reading"} => command \in AllCommands

(* Who has put what into the group, and what the call made of it.          *)
GroupInOrder ==
    /\ interaction \in {"closing", "waiting", "returned"} <=> verdict # "none"
    /\ verdict = "nil" => command = NumCommands + 1
    /\ group = "eof" => keepalive = "eof" \/ (interaction = "returned" /\ verdict = "nil")
    /\ interaction = "returned" /\ verdict = "error" => group # "none"
    /\ result = "nil" => group # "error"
    /\ result # "none" => interaction = "returned" /\ keepalive \in {"nil", "eof", "error"}

(* Commands take effect in the order they are executed in: none before it  *)
(* was reached and, while no reader met the end of its stream, none before *)
(* another that comes first.                                               *)
CommandsInOrder ==
    \A c \in effects : c <= command /\ (~cut => \A b \in 1 .. (c - 1) : b \in effects)

(* The one that is about to take effect is the one that was reached; an    *)
(* earlier one only if nobody waits for it.                                *)
ReachedInOrder ==
    Pending /\ shell # "gone" =>
        Head(stdin).command = command \/ (cut /\ Head(stdin).command < command)

IInv ==
    /\ TypeOK /\ StdinInOrder /\ StreamsInOrder /\ ReadersInOrder
    /\ SilenceIsEffect /\ GroupInOrder /\ InStep /\ OwnOutput
    /\ CommandsInOrder /\ ReachedInOrder

(* To its caller all of this is a session that executes commands: they     *)
(* take effect in order, none is skipped, and success is reported behind   *)
(* the last, with the exceptions CommandSession names.                     *)
Contract == INSTANCE CommandSession
              WITH excused <- (keepalive = "eof" \/ verdict = "panic")
ContractSpec == Contract!Spec

(* PowerShell returns nil only if the interaction did: io.EOF is there to  *)
(* close the keepalive goroutine.                                          *)
ErrorIsReturned == result # "none" /\ verdict = "error" => result = "error"

(* Liveness.                                                               *)

(* PowerShell returns.                                                     *)
Returns == <>(result # "none")

(* The interaction panicked before it started the shell: nothing closes    *)
(* the channel, nothing fails in the group.                                *)
Unattended ==
    verdict = "panic" /\ waiter = "off" /\ channel = "open" /\ ctx = "live"

(* It does unless a signal arrives in pieces or nobody is left to end the  *)
(* session: dying shells, breaking connections, cancelled operations and   *)
(* panics with the shell running do not keep it.                           *)
ReturnsUnlessTorn ==
    \/ Returns
    \/ <>(\E s \in Streams : wire[s] # <<>> /\ Head(wire[s]).kind = "piece")
    \/ <>[]Unattended

(* The readers an abandoned Execute leaves behind end with the session,    *)
(* and the goroutine of Close learns of its end: if it is then blocked it  *)
(* is because Close had stopped waiting, and for ever.                     *)
LeftoversEnd ==
    result # "none" ~>
        /\ \A s \in Streams : reader[s] # "reading"
        /\ waiter # "wait"
=============================================================================
