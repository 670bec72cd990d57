------------------------- MODULE RemoteSessionProofs -------------------------
(***************************************************************************)
(* Proofs about RemoteSession, for any number of commands and attempts,    *)
(* with and without faults and torn signals.                               *)
(***************************************************************************)
EXTENDS RemoteSession, SequenceTheorems, TLAPS

(* All that the parts of the invariant about the streams look at.          *)
streamVars == <<remoteVars, execVars, interaction>>

StreamParts ==
    /\ StdinInOrder /\ StreamsInOrder /\ ReadersInOrder
    /\ SilenceIsEffect /\ InStep /\ OwnOutput

-----------------------------------------------------------------------------
(* Lines and chunks.                                                       *)

(* A line at the head of stdin that is not the exit is the command of the  *)
(* current attempt.                                                        *)
LEMMA PendingIsCurrent ==
    ASSUME TypeOK, StdinInOrder, Pending
    PROVE  /\ Head(stdin).attempt = attempt
           /\ attempt \in Attempts
           /\ Head(stdin).command \in AllCommands
           /\ interaction = "reading" => Head(stdin).command = command
<1>1. stdin \in Seq(Lines) /\ stdin # <<>> /\ Head(stdin) # Exit
  BY DEF TypeOK, Pending
<1>2. Len(stdin) \in Nat \ {0} /\ Head(stdin) = stdin[1] /\ 1 \in DOMAIN stdin
  BY <1>1, EmptySeq, LenProperties
<1>3. Head(stdin) \in [attempt : Attempts, command : AllCommands]
  BY <1>1, HeadTailProperties DEF Lines
<1>4. /\ stdin[1].attempt = attempt
      /\ interaction = "reading" => stdin[1].command = command
  BY <1>1, <1>2 DEF StdinInOrder
<1>5. QED
  BY <1>2, <1>3, <1>4

(* While a command is executed there is no exit on stdin.                  *)
LEMMA NoExitWhileReading ==
    ASSUME TypeOK, StdinInOrder, interaction \in {"ready", "reading", "closing"}, stdin # <<>>
    PROVE  interaction = "reading" => Pending
<1>1. Len(stdin) \in Nat \ {0} /\ Head(stdin) = stdin[1] /\ 1 \in DOMAIN stdin
  BY EmptySeq, LenProperties DEF TypeOK
<1>2. interaction = "reading" => stdin[1].command = command
  BY <1>1 DEF StdinInOrder
<1>3. QED
  BY <1>1, <1>2 DEF Pending, Exit, TypeOK

(* Behind the head of stdin there is nothing but the exit.                 *)
LEMMA TailOfStdin ==
    ASSUME TypeOK, StdinInOrder, stdin # <<>>
    PROVE  /\ Tail(stdin) \in Seq(Lines)
           /\ \A i \in DOMAIN Tail(stdin) :
                 /\ Tail(stdin)[i] = Exit /\ i = Len(Tail(stdin))
                 /\ interaction \in {"waiting", "returned"}
           /\ Tail(stdin) # <<>> => Head(Tail(stdin)) = Exit
<1>1. stdin \in Seq(Lines)
  BY DEF TypeOK
<1>2. /\ Tail(stdin) \in Seq(Lines)
      /\ Len(Tail(stdin)) = Len(stdin) - 1
      /\ \A i \in 1 .. Len(Tail(stdin)) : Tail(stdin)[i] = stdin[i + 1]
  BY <1>1, HeadTailProperties
<1>3. Len(stdin) \in Nat \ {0} /\ DOMAIN stdin = 1 .. Len(stdin)
      /\ DOMAIN Tail(stdin) = 1 .. Len(Tail(stdin))
  BY <1>1, <1>2, EmptySeq, LenProperties
<1>4. ASSUME NEW i \in DOMAIN Tail(stdin)
      PROVE  /\ Tail(stdin)[i] = Exit /\ i = Len(Tail(stdin))
             /\ interaction \in {"waiting", "returned"}
  <2>1. i + 1 \in DOMAIN stdin /\ i + 1 # 1 /\ Tail(stdin)[i] = stdin[i + 1]
    BY <1>2, <1>3
  <2>2. stdin[i + 1] = Exit /\ i + 1 = Len(stdin) /\ interaction \in {"waiting", "returned"}
    BY <2>1 DEF StdinInOrder
  <2>3. QED
    BY <2>1, <2>2, <1>2, <1>3
<1>5. ASSUME Tail(stdin) # <<>> PROVE Head(Tail(stdin)) = Exit
  <2>1. Len(Tail(stdin)) \in Nat \ {0} /\ Head(Tail(stdin)) = Tail(stdin)[1]
    BY <1>5, <1>2, EmptySeq
  <2>2. 1 \in DOMAIN Tail(stdin)
    BY <2>1, <1>3
  <2>3. Tail(stdin)[1] = Exit
    BY <2>2, <1>4
  <2>4. QED
    BY <2>1, <2>3
<1>6. QED
  BY <1>2, <1>4, <1>5

LEMMA SignalIsChunks ==
    ASSUME NEW a \in Attempts, NEW sig \in Signals(a)
    PROVE  /\ sig \in Seq(Chunks)
           /\ \A i \in DOMAIN sig :
                 /\ sig[i].attempt = a
                 /\ sig[i].kind = "signal" => i = Len(sig)
                 /\ sig[i].kind # "text"
<1> DEFINE whole == [attempt |-> a, kind |-> "signal"]
           piece == [attempt |-> a, kind |-> "piece"]
<1>1. whole \in Chunks /\ piece \in Chunks
  BY DEF Chunks
<1>2. CASE sig = <<whole>>
  BY <1>1, <1>2
<1>3. CASE sig = <<piece, piece>>
  BY <1>1, <1>3
<1>4. QED
  BY <1>2, <1>3 DEF Signals

-----------------------------------------------------------------------------
(* Types.                                                                  *)

LEMMA TypeStep == IInv /\ [Next]_vars => TypeOK'
<1> SUFFICES ASSUME IInv, [Next]_vars PROVE TypeOK'
  OBVIOUS
<1> USE DEF TypeOK, remoteVars, goVars, execVars, callVars
<1>0. TypeOK
  BY DEF IInv
<1>1. CASE Return \/ Cancel \/ Terminated \/ UNCHANGED vars
  BY <1>0, <1>1 DEF Return, Cancel, Terminated, vars
<1>2. CASE Keepalive
  BY <1>0, <1>2 DEF Keepalive, KeepaliveTick, KeepalivePing, KeepaliveStop, keepaliveFrame, Fails
<1>3. CASE Commands \/ ExecuteWriteFails \/ CommandFails \/ GiveUp \/ Panic \/ WaiterSends
  BY <1>0, <1>3 DEF Commands, ExecuteWriteFails, CommandFails, GiveUp, Panic, WaiterSends,
     interactionFrame, Fails
<1>4. CASE ExecuteWrite
  <2>1. attempt + 1 \in Attempts /\ command \in AllCommands
    BY <1>0, <1>4, MaxAttemptsAssumption DEF ExecuteWrite, Attempts, IInv, SilenceIsEffect
  <2>2. stdin' \in Seq(Lines)
    BY <1>0, <1>4, <2>1 DEF ExecuteWrite, Lines
  <2>3. QED
    BY <1>0, <1>4, <2>1, <2>2, MaxAttemptsAssumption DEF ExecuteWrite, interactionFrame, Attempts
<1>5. CASE CommandSucceeds
  <2>1. command \in AllCommands
    BY <1>5 DEF CommandSucceeds, Executed, IInv, SilenceIsEffect
  <2>2. QED
    BY <1>0, <1>5, <2>1, NumCommandsAssumption DEF CommandSucceeds, interactionFrame, AllCommands
<1>6. CASE CloseExit
  <2>1. stdin' \in Seq(Lines)
    BY <1>0, <1>6 DEF CloseExit, Lines
  <2>2. QED
    BY <1>0, <1>6, <2>1 DEF CloseExit, interactionFrame
<1>7. CASE CloseReturns
  BY <1>0, <1>7 DEF CloseReturns, interactionFrame, Fails
<1>8. ASSUME NEW s \in Streams, Read(s) PROVE TypeOK'
  <2>1. wire[s] \in Seq(Chunks) /\ wire[s] # <<>>
    BY <1>0, <1>8 DEF Read
  <2>2. Tail(wire[s]) \in Seq(Chunks) /\ Head(wire[s]) \in Chunks
    BY <2>1, HeadTailProperties
  <2>3. wire' \in [Streams -> Seq(Chunks)]
    BY <1>0, <1>8, <2>2 DEF Read
  <2>4. Head(wire[s]).attempt \in Attempts
    BY <2>2 DEF Chunks
  <2>5. said' \in [Streams -> SUBSET Attempts]
    <3>1. said[s] \cup {Head(wire[s]).attempt} \in SUBSET Attempts
      BY <1>0, <2>4
    <3>2. QED
      BY <1>0, <1>8, <3>1 DEF Read
  <2>6. reader' \in [Streams -> {"off", "reading", "signal", "eof"}]
    BY <1>0, <1>8 DEF Read
  <2>7. QED
    BY <1>0, <1>8, <2>3, <2>5, <2>6 DEF Read
<1>9. ASSUME NEW s \in Streams, ReadEOF(s) PROVE TypeOK'
  BY <1>0, <1>9 DEF ReadEOF
<1>10. CASE ShellTakes
  <2>1. Tail(stdin) \in Seq(Lines)
    BY <1>0, <1>10, HeadTailProperties DEF ShellTakes
  <2>2. stdin' \in Seq(Lines)
    BY <1>0, <1>10, <2>1 DEF ShellTakes
  <2>3. channel' \in {"open", "exited", "lost"} /\ shell' \in {"idle", "run", "signal", "gone"}
    BY <1>0, <1>10 DEF ShellTakes
  <2>4. QED
    BY <1>0, <1>10, <2>2, <2>3 DEF ShellTakes, shellFrame
<1>11. CASE ShellRuns
  <2>1. Pending
    BY <1>11 DEF ShellRuns, IInv, StdinInOrder
  <2>2. Head(stdin).attempt \in Attempts /\ Head(stdin).command \in AllCommands
    BY <1>0, <2>1, PendingIsCurrent DEF IInv
  <2>3. <<Text(Head(stdin).attempt)>> \in Seq(Chunks)
    BY <2>2 DEF Text, Chunks
  <2>4. \A sig \in Signals(Head(stdin).attempt), s \in Streams :
           /\ wire[s] \o sig \in Seq(Chunks)
           /\ wire[s] \o <<Text(Head(stdin).attempt)>> \in Seq(Chunks)
    BY <1>0, <2>2, <2>3, SignalIsChunks, ConcatProperties
  <2>5. wire' \in [Streams -> Seq(Chunks)]
    BY <1>0, <1>11, <2>4 DEF ShellRuns, Prints, Streams
  <2>6. QED
    BY <1>0, <1>11, <2>2, <2>5 DEF ShellRuns, shellFrame
<1>12. CASE ShellSignals
  <2>1. Pending
    BY <1>12 DEF ShellSignals, IInv, StdinInOrder
  <2>2. Head(stdin).attempt \in Attempts /\ Tail(stdin) \in Seq(Lines)
    BY <1>0, <2>1, PendingIsCurrent, TailOfStdin DEF IInv, Pending
  <2>3. \A sig \in Signals(Head(stdin).attempt) : wire["err"] \o sig \in Seq(Chunks)
    BY <1>0, <2>2, SignalIsChunks, ConcatProperties DEF Streams
  <2>4. wire' \in [Streams -> Seq(Chunks)]
    BY <1>0, <1>12, <2>3 DEF ShellSignals, Prints, Streams
  <2>5. QED
    BY <1>0, <1>12, <2>2, <2>4 DEF ShellSignals, shellFrame
<1>13. CASE ShellDies \/ ConnectionLost
  BY <1>0, <1>13 DEF ShellDies, ConnectionLost, shellFrame
<1>14. QED
  BY <1>1, <1>2, <1>3, <1>4, <1>5, <1>6, <1>7, <1>8, <1>9, <1>10, <1>11, <1>12, <1>13
     DEF Next, Interaction, Reader, Shell

-----------------------------------------------------------------------------
(* The parts about the streams.                                            *)

(* What they look at is left alone by most of the call.                    *)
LEMMA StreamsUntouched ==
    ASSUME StreamParts, UNCHANGED streamVars
    PROVE  StreamParts'
BY DEF StreamParts, streamVars, remoteVars, execVars, StdinInOrder, StreamsInOrder, ReadersInOrder,
   SilenceIsEffect, InStep, OwnOutput, Pending, Unprinted, Heard

(* The interaction ends, or goes on to end.                                *)
LEMMA InteractionEnds ==
    ASSUME StreamParts, UNCHANGED <<remoteVars, execVars>>,
           interaction' \in {"closing", "waiting", "returned"},
           interaction \in {"waiting", "returned"} => interaction' \in {"waiting", "returned"}
    PROVE  StreamParts'
<1> USE DEF StreamParts, remoteVars, execVars
<1>1. StdinInOrder'
  BY DEF StdinInOrder, Pending
<1>2. StreamsInOrder' /\ OwnOutput'
  BY DEF StreamsInOrder, Pending, Unprinted, OwnOutput
<1>3. ReadersInOrder' /\ InStep'
  BY DEF ReadersInOrder, InStep
<1>4. SilenceIsEffect'
  BY DEF SilenceIsEffect
<1>5. QED
  BY <1>1, <1>2, <1>3, <1>4

(* Both readers met the signal of the command, or the channel is gone: the *)
(* streams are empty and the shell waits for the next line.                *)
LEMMA ExecutedInStep ==
    ASSUME TypeOK, StreamParts, Executed, channel = "open"
    PROVE  shell = "idle" /\ stdin = <<>> /\ \A s \in Streams : wire[s] = <<>>
<1>1. \A s \in Streams : reader[s] = "signal"
  BY DEF Executed, StreamParts, ReadersInOrder, TypeOK
<1>2. \A s \in Streams : wire[s] = <<>> /\ ~Unprinted(s)
  BY <1>1 DEF StreamParts, StreamsInOrder
<1>3. ~Pending
  BY <1>2 DEF Unprinted, Streams, StreamParts, StdinInOrder, TypeOK
<1>4. stdin = <<>>
  BY <1>3, NoExitWhileReading DEF StreamParts, Executed
<1>5. shell = "idle"
  BY <1>3 DEF StreamParts, StdinInOrder, TypeOK
<1>6. QED
  BY <1>2, <1>4, <1>5

LEMMA CommandsParts ==
    ASSUME IInv, Commands, interaction' = "ready"
    PROVE  StreamParts'
<1> USE DEF IInv, Commands, interactionFrame, execVars
<1>1. channel = "open" /\ interaction = "setup"
  OBVIOUS
<1>2. shell = "idle" /\ stdin = <<>> /\ command = 1 /\ \A s \in Streams : wire[s] = <<>>
  BY <1>1 DEF ReadersInOrder, StdinInOrder, Pending, TypeOK
<1>3. StdinInOrder' /\ StreamsInOrder' /\ OwnOutput'
  BY <1>1, <1>2 DEF StdinInOrder, StreamsInOrder, Pending, Unprinted, OwnOutput
<1>4. ReadersInOrder' /\ InStep'
  BY <1>1, <1>2 DEF ReadersInOrder, InStep
<1>5. SilenceIsEffect'
  BY <1>1, <1>2, NumCommandsAssumption DEF SilenceIsEffect, AllCommands
<1>6. QED
  BY <1>3, <1>4, <1>5 DEF StreamParts

(* The command is the only line of an idle shell with empty streams.       *)
LEMMA ExecuteWriteParts ==
    ASSUME IInv, ExecuteWrite
    PROVE  StreamParts'
<1> DEFINE line == [attempt |-> attempt + 1, command |-> command]
<1> USE DEF IInv, ExecuteWrite, interactionFrame
<1>1. shell = "idle" /\ stdin = <<>> /\ \A s \in Streams : wire[s] = <<>>
  BY DEF InStep
<1>2. command \in AllCommands /\ attempt \in Nat
  BY MaxAttemptsAssumption DEF SilenceIsEffect, TypeOK
<1>3. stdin' = <<line>> /\ line # Exit /\ interaction' = "reading"
  BY <1>1, <1>2 DEF Exit, AllCommands
<1>4. Pending' /\ \A s \in Streams : Unprinted(s)'
  BY <1>1, <1>3 DEF Pending, Unprinted
<1>5. StdinInOrder'
  BY <1>1, <1>3, <1>4 DEF StdinInOrder
<1>6. StreamsInOrder' /\ OwnOutput'
  BY <1>1 DEF StreamsInOrder, OwnOutput
<1>7. ReadersInOrder' /\ InStep'
  BY <1>3 DEF ReadersInOrder, InStep
<1>8. SilenceIsEffect'
  BY <1>2, <1>4 DEF SilenceIsEffect, Streams
<1>9. QED
  BY <1>5, <1>6, <1>7, <1>8 DEF StreamParts

(* What a command said nothing against is done.                            *)
LEMMA CommandSucceedsParts ==
    ASSUME IInv, CommandSucceeds
    PROVE  StreamParts'
<1> USE DEF IInv, CommandSucceeds, interactionFrame
<1>1. TypeOK /\ StreamParts /\ Executed
  BY DEF StreamParts
<1>2. interaction = "reading" /\ interaction' \in {"closing", "ready"} /\ command \in AllCommands
  BY DEF Executed, SilenceIsEffect
<1>3. StdinInOrder'
  BY <1>2 DEF StdinInOrder, Pending
<1>4. StreamsInOrder' /\ OwnOutput'
  BY DEF StreamsInOrder, Pending, Unprinted, OwnOutput
<1>5. ReadersInOrder'
  BY <1>2 DEF ReadersInOrder, Executed
<1>6. InStep'
  BY <1>1, ExecutedInStep DEF InStep
<1>7. SilenceIsEffect'
  <2>1. ASSUME ~cut PROVE command \in effects
    <3>1. reader["err"] = "signal" /\ reader["out"] = "signal"
      BY <1>2, <2>1 DEF ReadersInOrder, Executed, TypeOK, Streams
    <3>2. wire["err"] = <<>> /\ ~Unprinted("out")
      BY <3>1 DEF StreamsInOrder, Streams
    <3>3. \A i \in DOMAIN wire["err"] : wire["err"][i].kind # "text"
      BY <3>2
    <3>4. QED
      BY <1>2, <3>1, <3>2, <3>3 DEF SilenceIsEffect, Heard
  <2>2. ~cut => \A c \in 1 .. (command' - 1) : c \in effects
    BY <1>2, <2>1, NumCommandsAssumption DEF SilenceIsEffect, AllCommands
  <2>3. interaction' = "ready" => command' \in AllCommands
    BY <1>2, NumCommandsAssumption DEF AllCommands
  <2>4. QED
    BY <1>2, <2>2, <2>3 DEF SilenceIsEffect
<1>8. QED
  BY <1>3, <1>4, <1>5, <1>6, <1>7 DEF StreamParts

LEMMA CommandFailsParts ==
    ASSUME IInv, CommandFails
    PROVE  StreamParts'
<1> USE DEF IInv, CommandFails, interactionFrame, execVars
<1>1. TypeOK /\ StreamParts /\ Executed /\ interaction = "reading"
  BY DEF StreamParts, Executed
<1>2. CASE interaction' = "closing"
  BY <1>1, <1>2, InteractionEnds DEF remoteVars
<1>3. CASE interaction' = "ready"
  <2>1. StdinInOrder'
    BY <1>1, <1>3 DEF StdinInOrder, Pending
  <2>2. StreamsInOrder' /\ OwnOutput'
    BY DEF StreamsInOrder, Pending, Unprinted, OwnOutput
  <2>3. ReadersInOrder'
    BY <1>1, <1>3 DEF ReadersInOrder, Executed
  <2>4. InStep'
    BY <1>1, ExecutedInStep DEF InStep
  <2>5. SilenceIsEffect'
    BY <1>1, <1>3 DEF SilenceIsEffect
  <2>6. QED
    BY <2>1, <2>2, <2>3, <2>4, <2>5 DEF StreamParts
<1>4. QED
  BY <1>2, <1>3

(* The exit goes behind the line the shell is at.                          *)
LEMMA CloseExitParts ==
    ASSUME IInv, CloseExit
    PROVE  StreamParts'
<1> USE DEF IInv, CloseExit, interactionFrame, execVars
<1>1. stdin \in Seq(Lines) /\ Exit \in Lines
  BY DEF TypeOK, Lines
<1>2. Len(stdin) \in Nat /\ DOMAIN stdin = 1 .. Len(stdin)
  BY <1>1, LenProperties
<1>3. CASE stdin' = stdin
  <2>1. StdinInOrder'
    BY <1>3 DEF StdinInOrder, Pending
  <2>2. StreamsInOrder' /\ OwnOutput' /\ ReadersInOrder' /\ SilenceIsEffect' /\ InStep'
    BY <1>3 DEF StreamsInOrder, Pending, Unprinted, OwnOutput, ReadersInOrder, SilenceIsEffect, InStep
  <2>3. QED
    BY <2>1, <2>2 DEF StreamParts
<1>4. CASE stdin' = Append(stdin, Exit)
  <2>1. /\ stdin' \in Seq(Lines) /\ Len(stdin') = Len(stdin) + 1
        /\ DOMAIN stdin' = 1 .. Len(stdin) + 1
        /\ \A i \in 1 .. Len(stdin) : stdin'[i] = stdin[i]
        /\ stdin'[Len(stdin) + 1] = Exit
    BY <1>1, <1>2, <1>4
  <2>2. Pending' = Pending
    <3>1. CASE stdin = <<>>
      BY <1>2, <2>1, <3>1 DEF Pending
    <3>2. CASE stdin # <<>>
      BY <1>1, <1>2, <2>1, <3>2, EmptySeq DEF Pending
    <3>3. QED
      BY <3>1, <3>2
  <2>3. StdinInOrder'
    <3>1. ASSUME NEW i \in DOMAIN stdin'
          PROVE  \/ stdin'[i] = Exit /\ i = Len(stdin') /\ interaction' \in {"waiting", "returned"}
                 \/ /\ i = 1 /\ stdin'[i].attempt = attempt
                    /\ interaction' = "reading" => stdin'[i].command = command
      <4>1. CASE i = Len(stdin) + 1
        BY <2>1, <4>1
      <4>2. CASE i \in DOMAIN stdin
        BY <1>2, <2>1, <4>2 DEF StdinInOrder
      <4>3. QED
        BY <1>2, <2>1, <4>1, <4>2
    <3>2. QED
      BY <2>2, <3>1 DEF StdinInOrder
  <2>4. StreamsInOrder' /\ OwnOutput' /\ ReadersInOrder' /\ SilenceIsEffect' /\ InStep'
    BY <2>2 DEF StreamsInOrder, Unprinted, OwnOutput, ReadersInOrder, SilenceIsEffect, InStep
  <2>5. QED
    BY <2>3, <2>4 DEF StreamParts
<1>5. QED
  BY <1>3, <1>4

(* A reader takes what is at the head of its stream.                       *)
LEMMA ReadParts ==
    ASSUME IInv, NEW s \in Streams, Read(s)
    PROVE  StreamParts'
<1> USE DEF IInv, Read, goVars
<1>1. wire[s] \in Seq(Chunks) /\ wire[s] # <<>> /\ wire \in [Streams -> Seq(Chunks)]
  BY DEF TypeOK
<1>2. /\ Len(Tail(wire[s])) = Len(wire[s]) - 1
      /\ \A i \in 1 .. Len(Tail(wire[s])) : Tail(wire[s])[i] = wire[s][i + 1]
      /\ Tail(wire[s]) \in Seq(Chunks)
  BY <1>1, HeadTailProperties
<1>3. /\ Len(wire[s]) \in Nat \ {0} /\ DOMAIN wire[s] = 1 .. Len(wire[s])
      /\ DOMAIN Tail(wire[s]) = 1 .. Len(Tail(wire[s]))
      /\ 1 \in DOMAIN wire[s] /\ Head(wire[s]) = wire[s][1]
  BY <1>1, <1>2, EmptySeq, LenProperties
<1>4. \A i \in DOMAIN Tail(wire[s]) : i + 1 \in DOMAIN wire[s] /\ Tail(wire[s])[i] = wire[s][i + 1]
  BY <1>2, <1>3
<1>5. /\ wire'[s] = Tail(wire[s])
      /\ \A t \in Streams \ {s} : wire'[t] = wire[t] /\ reader'[t] = reader[t] /\ said'[t] = said[t]
  BY <1>1 DEF TypeOK
<1>6. Head(wire[s]).attempt = attempt
  BY <1>3 DEF StreamsInOrder
<1>7. \/ /\ Head(wire[s]).kind = "signal" /\ reader'[s] = "signal" /\ said' = said
      \/ /\ Head(wire[s]).kind # "signal" /\ reader' = reader /\ said'[s] = said[s] \cup {attempt}
  BY <1>6 DEF ItsSignal, TypeOK
<1>8. Head(wire[s]).kind = "signal" => wire'[s] = <<>> /\ ~Unprinted(s)
  <2>1. Head(wire[s]).kind = "signal" => 1 = Len(wire[s]) /\ ~Unprinted(s)
    BY <1>3 DEF StreamsInOrder
  <2>2. Len(wire[s]) = 1 => Tail(wire[s]) = <<>>
    <3>1. Tail(wire[s]) # <<>> => Len(Tail(wire[s])) \in Nat \ {0}
      BY <1>2, EmptySeq
    <3>2. QED
      BY <1>2, <3>1
  <2>3. QED
    BY <1>5, <2>1, <2>2
<1>9. StdinInOrder' /\ InStep' /\ \A t \in Streams : Unprinted(t)' = Unprinted(t)
  <2>1. StdinInOrder'
    BY DEF StdinInOrder, Pending
  <2>2. \A t \in Streams : Unprinted(t)' = Unprinted(t)
    BY DEF Unprinted, Pending
  <2>3. InStep'
    BY DEF InStep, ReadersInOrder
  <2>4. QED
    BY <2>1, <2>2, <2>3
<1>10. StreamsInOrder'
  <2>0. ASSUME NEW i \in DOMAIN Tail(wire[s])
        PROVE  /\ Tail(wire[s])[i].attempt = attempt
               /\ Tail(wire[s])[i].kind = "signal" => i = Len(Tail(wire[s])) /\ ~Unprinted(s)
    <3> HIDE DEF IInv, Read, goVars
    <3>1. i \in 1 .. Len(Tail(wire[s])) /\ i + 1 \in DOMAIN wire[s] /\ Tail(wire[s])[i] = wire[s][i + 1]
      BY <1>3, <1>4
    <3>2. /\ wire[s][i + 1].attempt = attempt
          /\ wire[s][i + 1].kind = "signal" => i + 1 = Len(wire[s]) /\ ~Unprinted(s)
      BY <3>1 DEF IInv, StreamsInOrder
    <3>3. i + 1 = Len(wire[s]) => i = Len(Tail(wire[s]))
      BY <1>2, <1>3, <3>1
    <3>4. QED
      BY <3>1, <3>2, <3>3
  <2>1. ASSUME NEW t \in Streams, NEW i \in DOMAIN wire'[t]
        PROVE  /\ wire'[t][i].attempt = attempt
               /\ wire'[t][i].kind = "signal" => i = Len(wire'[t]) /\ ~Unprinted(t)
    <3>1. CASE t = s
      BY <1>5, <2>0, <2>1, <3>1
    <3>2. CASE t # s
      BY <1>5, <2>1, <3>2 DEF StreamsInOrder
    <3>3. QED
      BY <3>1, <3>2
  <2>2. ASSUME NEW t \in Streams
        PROVE  /\ shell \in {"idle", "run"} /\ Pending => wire'[t] = <<>>
               /\ reader'[t] = "signal" => wire'[t] = <<>> /\ ~Unprinted(t)
    BY <1>1, <1>5, <1>7, <1>8 DEF StreamsInOrder
  <2>3. Pending' = Pending
    BY DEF Pending
  <2>4. QED
    BY <1>9, <2>1, <2>2, <2>3 DEF StreamsInOrder
<1>11. ReadersInOrder'
  BY <1>5, <1>7 DEF ReadersInOrder, TypeOK
<1>12. OwnOutput'
  BY <1>5, <1>7 DEF OwnOutput
<1>13. SilenceIsEffect'
  <2>1. CASE s = "out"
    <3>1. wire'["err"] = wire["err"] /\ reader'["err"] = reader["err"] /\ said'["err"] = said["err"]
      BY <1>5, <2>1 DEF Streams
    <3>2. Heard' = Heard
      BY <3>1 DEF Heard
    <3>3. QED
      BY <1>9, <3>1, <3>2 DEF SilenceIsEffect, Streams
  <2>2. CASE s = "err"
    <3>1. ASSUME said'["err"] = {}, Heard',
                 \A i \in DOMAIN wire'["err"] : wire'["err"][i].kind # "text"
          PROVE  /\ Heard /\ said["err"] = {}
                 /\ \A i \in DOMAIN wire["err"] : wire["err"][i].kind # "text"
      <4>1. Head(wire["err"]).kind = "signal" /\ said["err"] = {}
        BY <1>7, <2>2, <3>1
      <4>2. DOMAIN wire["err"] = {1}
        BY <1>3, <2>2, <4>1 DEF StreamsInOrder
      <4>3. QED
        BY <1>3, <2>2, <4>1, <4>2 DEF Heard
    <3>2. Unprinted("out")' = Unprinted("out")
      BY <1>9 DEF Streams
    <3>3. QED
      BY <3>1, <3>2 DEF SilenceIsEffect
  <2>3. QED
    BY <2>1, <2>2 DEF Streams
<1>14. QED
  BY <1>9, <1>10, <1>11, <1>12, <1>13 DEF StreamParts

(* A reader ends with its stream.                                          *)
LEMMA ReadEOFParts ==
    ASSUME IInv, NEW s \in Streams, ReadEOF(s)
    PROVE  StreamParts'
<1> USE DEF IInv, ReadEOF, goVars, remoteVars
<1>1. /\ reader'[s] = "eof" /\ reader[s] = "reading" /\ channel # "open" /\ cut'
      /\ \A t \in Streams \ {s} : reader'[t] = reader[t]
  BY DEF TypeOK
<1>2. StdinInOrder' /\ OwnOutput' /\ InStep'
  BY DEF StdinInOrder, Pending, OwnOutput, InStep
<1>3. StreamsInOrder'
  BY <1>1 DEF StreamsInOrder, Pending, Unprinted
<1>4. ReadersInOrder'
  BY <1>1 DEF ReadersInOrder
<1>5. SilenceIsEffect'
  BY <1>1 DEF SilenceIsEffect, Heard, Unprinted, Pending, Streams
<1>6. QED
  BY <1>2, <1>3, <1>4, <1>5 DEF StreamParts

(* The shell starts a line: nothing is printed yet.  Or it exits: nothing  *)
(* is printed any more.                                                    *)
LEMMA ShellTakesParts ==
    ASSUME IInv, ShellTakes
    PROVE  StreamParts'
<1> USE DEF IInv, ShellTakes, shellFrame, goVars, execVars
<1>1. CASE Head(stdin) # Exit
  <2>1. Pending /\ Pending' /\ shell' = "run" /\ UNCHANGED <<channel, stdin, wire, effects>>
    BY <1>1 DEF Pending
  <2>2. \A s \in Streams : Unprinted(s) /\ Unprinted(s)' /\ wire[s] = <<>>
    BY <2>1 DEF Unprinted, StreamsInOrder
  <2>3. StdinInOrder' /\ InStep' /\ OwnOutput'
    BY <2>1 DEF StdinInOrder, InStep, OwnOutput
  <2>4. StreamsInOrder' /\ ReadersInOrder' /\ SilenceIsEffect'
    BY <2>1, <2>2 DEF StreamsInOrder, ReadersInOrder, SilenceIsEffect, Streams
  <2>5. QED
    BY <2>3, <2>4 DEF StreamParts
<1>2. CASE Head(stdin) = Exit
  <2>1. /\ ~Pending /\ shell' = "gone" /\ stdin' = Tail(stdin) /\ channel' # "open"
        /\ channel # "open" => channel' = channel
    BY <1>2 DEF Pending
  <2>2. /\ \A i \in DOMAIN stdin' : stdin'[i] = Exit /\ i = Len(stdin') /\ interaction \in {"waiting", "returned"}
        /\ ~Pending'
    BY <2>1, TailOfStdin DEF Pending
  <2>3. interaction # "reading" /\ interaction # "setup"
    BY <2>1, NoExitWhileReading DEF ReadersInOrder
  <2>4. StdinInOrder' /\ InStep' /\ OwnOutput'
    BY <2>1, <2>2 DEF StdinInOrder, InStep, OwnOutput
  <2>5. StreamsInOrder'
    BY <2>1, <2>2 DEF StreamsInOrder, Unprinted
  <2>6. ReadersInOrder' /\ SilenceIsEffect'
    BY <2>1, <2>3 DEF ReadersInOrder, SilenceIsEffect
  <2>7. QED
    BY <2>4, <2>5, <2>6 DEF StreamParts
<1>3. QED
  BY <1>1, <1>2

(* The command ran: what it complained of, then the signal, on streams     *)
(* that were empty.                                                        *)
LEMMA ShellRunsParts ==
    ASSUME IInv, ShellRuns
    PROVE  StreamParts'
<1> DEFINE a == Head(stdin).attempt
<1> USE DEF IInv, ShellRuns, shellFrame, goVars, execVars
<1>1. Pending /\ Pending' /\ shell = "run" /\ shell' = "signal"
  BY DEF StdinInOrder, Pending
<1>2. /\ a = attempt /\ a \in Attempts
      /\ interaction = "reading" => Head(stdin).command = command
  BY <1>1, PendingIsCurrent
<1>3. \A s \in Streams : Unprinted(s) /\ wire[s] = <<>> /\ reader[s] # "signal"
  BY <1>1 DEF Unprinted, StreamsInOrder
<1>4. Unprinted("err")' /\ ~Unprinted("out")'
  BY <1>1 DEF Unprinted
<1>5. /\ interaction \notin {"setup", "ready"} \/ channel # "open"
      /\ interaction # "setup"
  BY <1>1 DEF InStep, ReadersInOrder, Pending
<1>6. PICK sig \in Signals(a) \cup {<<>>}, complaint \in {<<>>, <<Text(a)>>} :
         /\ wire'["out"] = sig /\ wire'["err"] = complaint
         /\ channel # "open" => sig = <<>> /\ complaint = <<>>
         /\ \/ complaint # <<>> \/ channel # "open"
            \/ effects' = effects \cup {Head(stdin).command}
         /\ effects \subseteq effects'
  <2>1. CASE channel # "open"
    <3>1. wire' = wire /\ effects \subseteq effects'
      BY <2>1 DEF Prints
    <3>2. QED
      BY <1>3, <2>1, <3>1 DEF Streams
  <2>2. CASE channel = "open"
    <3>1. ASSUME effects' = effects \cup {Head(stdin).command},
                 NEW sig \in Signals(a), Prints("out", sig)
          PROVE  /\ wire'["out"] = sig /\ wire'["err"] = <<>>
                 /\ effects \subseteq effects'
      <4>1. sig \in Seq(Chunks)
        BY <1>2, SignalIsChunks
      <4>2. <<>> \o sig = sig
        BY <4>1, ConcatEmptySeq
      <4>3. QED
        BY <1>3, <2>2, <3>1, <4>2 DEF Prints, TypeOK, Streams
    <3>2. ASSUME effects' \in {effects, effects \cup {Head(stdin).command}},
                 NEW sig \in Signals(a),
                 wire' = [wire EXCEPT !["out"] = @ \o sig, !["err"] = @ \o <<Text(a)>>]
          PROVE  /\ wire'["out"] = sig /\ wire'["err"] = <<Text(a)>>
                 /\ effects \subseteq effects'
      <4>0. Text(a) \in Chunks
        BY <1>2 DEF Text, Chunks
      <4>1. sig \in Seq(Chunks) /\ <<Text(a)>> \in Seq(Chunks)
        BY <1>2, <4>0, SignalIsChunks
      <4>2. <<>> \o sig = sig /\ <<>> \o <<Text(a)>> = <<Text(a)>>
        BY <4>1, ConcatEmptySeq
      <4>3. QED
        BY <1>3, <3>2, <4>2 DEF TypeOK, Streams
    <3>3. \/ /\ effects' = effects \cup {Head(stdin).command}
             /\ \E sig \in Signals(a) : Prints("out", sig)
          \/ /\ effects' \in {effects, effects \cup {Head(stdin).command}}
             /\ \E sig \in Signals(a) :
                  wire' = [wire EXCEPT !["out"] = @ \o sig, !["err"] = @ \o <<Text(a)>>]
      BY <2>2
    <3>4. <<Text(a)>> # <<>>
      OBVIOUS
    <3>5. QED
      BY <2>2, <3>1, <3>2, <3>3, <3>4
  <2>3. QED
    BY <2>1, <2>2
<1>7. \A i \in DOMAIN sig : sig[i].attempt = attempt /\ (sig[i].kind = "signal" => i = Len(sig))
  BY <1>2, <1>6, SignalIsChunks
<1>8. \A i \in DOMAIN complaint : complaint[i].attempt = attempt /\ complaint[i].kind = "text"
  BY <1>2, <1>6 DEF Text
<1>9. StdinInOrder' /\ InStep' /\ OwnOutput'
  BY <1>1, <1>5 DEF StdinInOrder, InStep, OwnOutput
<1>10. StreamsInOrder'
  BY <1>1, <1>3, <1>4, <1>6, <1>7, <1>8 DEF StreamsInOrder, Streams
<1>11. ReadersInOrder'
  BY <1>5 DEF ReadersInOrder
<1>12. SilenceIsEffect'
  <2>1. ASSUME interaction = "reading", Heard',
               \A i \in DOMAIN wire'["err"] : wire'["err"][i].kind # "text"
        PROVE  command \in effects'
    <3>1. complaint = <<>>
      BY <1>6, <2>1 DEF Text
    <3>2. channel = "open"
      BY <1>3, <1>6, <2>1, <3>1 DEF Heard, Streams
    <3>3. QED
      BY <1>2, <1>6, <2>1, <3>1, <3>2
  <2>2. ~cut => \A c \in 1 .. (command - 1) : c \in effects'
    BY <1>6 DEF SilenceIsEffect
  <2>3. QED
    BY <2>1, <2>2 DEF SilenceIsEffect
<1>13. QED
  BY <1>9, <1>10, <1>11, <1>12 DEF StreamParts

(* The signal of stderr is the last the shell prints for a command.        *)
LEMMA ShellSignalsParts ==
    ASSUME IInv, ShellSignals
    PROVE  StreamParts'
<1> DEFINE a == Head(stdin).attempt
<1> USE DEF IInv, ShellSignals, shellFrame, goVars, execVars
<1>1. Pending /\ shell = "signal" /\ shell' = "idle" /\ stdin' = Tail(stdin)
  BY DEF StdinInOrder
<1>2. /\ \A i \in DOMAIN stdin' : stdin'[i] = Exit /\ i = Len(stdin') /\ interaction \in {"waiting", "returned"}
      /\ ~Pending'
  BY <1>1, TailOfStdin DEF Pending
<1>3. a = attempt /\ a \in Attempts
  BY <1>1, PendingIsCurrent
<1>4. Unprinted("err") /\ ~Unprinted("out") /\ reader["err"] # "signal"
      /\ \A s \in Streams : ~Unprinted(s)'
  BY <1>1, <1>2 DEF Unprinted, StreamsInOrder, Streams
<1>5. /\ interaction \notin {"setup", "ready"} \/ channel # "open"
      /\ interaction # "setup"
  BY <1>1 DEF InStep, ReadersInOrder, Pending
<1>6. PICK sig \in Signals(a) : Prints("err", sig)
  OBVIOUS
<1>7. /\ sig \in Seq(Chunks) /\ wire["err"] \in Seq(Chunks)
      /\ \A i \in DOMAIN sig :
            /\ sig[i].attempt = attempt /\ sig[i].kind # "text"
            /\ sig[i].kind = "signal" => i = Len(sig)
  BY <1>3, <1>6, SignalIsChunks DEF TypeOK, Streams
<1>8. wire'["out"] = wire["out"]
      /\ wire'["err"] = IF channel = "open" THEN wire["err"] \o sig ELSE wire["err"]
  BY <1>6 DEF Prints, TypeOK, Streams
<1>9. \A i \in DOMAIN wire["err"] : wire["err"][i].attempt = attempt /\ wire["err"][i].kind # "signal"
  BY <1>4 DEF StreamsInOrder, Streams
<1>10. LET both == wire["err"] \o sig IN
       /\ \A i \in DOMAIN both : both[i].attempt = attempt /\ (both[i].kind = "signal" => i = Len(both))
       /\ (\A i \in DOMAIN both : both[i].kind # "text") => \A i \in DOMAIN wire["err"] : wire["err"][i].kind # "text"
  <2> DEFINE both == wire["err"] \o sig
  <2> HIDE DEF IInv, ShellSignals, a
  <2>1. /\ Len(wire["err"]) \in Nat /\ Len(sig) \in Nat
        /\ DOMAIN wire["err"] = 1 .. Len(wire["err"]) /\ DOMAIN sig = 1 .. Len(sig)
    BY <1>7, LenProperties
  <2>2. /\ Len(both) = Len(wire["err"]) + Len(sig)
        /\ DOMAIN both = 1 .. Len(wire["err"]) + Len(sig)
        /\ \A i \in 1 .. Len(wire["err"]) + Len(sig) :
              both[i] = IF i <= Len(wire["err"]) THEN wire["err"][i] ELSE sig[i - Len(wire["err"])]
    BY <1>7, <2>1, ConcatProperties, LenProperties
  <2>3. ASSUME NEW i \in DOMAIN both
        PROVE  both[i].attempt = attempt /\ (both[i].kind = "signal" => i = Len(both))
    <3>1. CASE i <= Len(wire["err"])
      BY <1>9, <2>1, <2>2, <3>1
    <3>2. CASE ~(i <= Len(wire["err"]))
      <4>1. PICK j \in DOMAIN sig : both[i] = sig[j] /\ i = Len(wire["err"]) + j
        <5>1. i - Len(wire["err"]) \in DOMAIN sig /\ both[i] = sig[i - Len(wire["err"])]
          BY <2>1, <2>2, <3>2
        <5>2. i = Len(wire["err"]) + (i - Len(wire["err"]))
          BY <2>1, <2>2
        <5>3. QED
          BY <5>1, <5>2
      <4>2. sig[j].attempt = attempt /\ (sig[j].kind = "signal" => j = Len(sig))
        BY <1>7
      <4>3. QED
        BY <2>2, <4>1, <4>2
    <3>3. QED
      BY <3>1, <3>2
  <2>4. \A i \in DOMAIN wire["err"] : i \in DOMAIN both /\ both[i] = wire["err"][i]
    BY <2>1, <2>2
  <2>5. QED
    BY <2>3, <2>4
<1>11. StdinInOrder' /\ InStep' /\ OwnOutput'
  BY <1>1, <1>2, <1>5 DEF StdinInOrder, InStep, OwnOutput
<1>12. StreamsInOrder'
  BY <1>1, <1>2, <1>4, <1>8, <1>9, <1>10 DEF StreamsInOrder, Streams
<1>13. ReadersInOrder'
  BY <1>5 DEF ReadersInOrder
<1>14. SilenceIsEffect'
  BY <1>4, <1>8, <1>10 DEF SilenceIsEffect, Heard, Streams
<1>15. QED
  BY <1>11, <1>12, <1>13, <1>14 DEF StreamParts

(* The end of the channel: what the shell has not printed is never heard.  *)
LEMMA ChannelEndsParts ==
    ASSUME IInv, ShellDies \/ ConnectionLost
    PROVE  StreamParts'
<1> USE DEF IInv, ShellDies, ConnectionLost, shellFrame, goVars, execVars
<1>1. channel = "open" /\ channel' # "open" /\ UNCHANGED <<stdin, wire, effects, reader, said, cut>>
  OBVIOUS
<1>2. StdinInOrder' /\ InStep' /\ OwnOutput'
  BY DEF StdinInOrder, InStep, OwnOutput, Pending
<1>3. StreamsInOrder' /\ ReadersInOrder'
  BY DEF StreamsInOrder, ReadersInOrder, Unprinted, Pending
<1>4. SilenceIsEffect'
  <2>1. ASSUME Unprinted("out"), Heard' PROVE Unprinted("out")'
    BY <1>1, <2>1 DEF Heard, Unprinted, StreamsInOrder, Streams
  <2>2. Heard
    BY <1>1 DEF Heard
  <2>3. QED
    BY <1>1, <2>1, <2>2 DEF SilenceIsEffect
<1>5. QED
  BY <1>2, <1>3, <1>4 DEF StreamParts

LEMMA StreamStep == IInv /\ [Next]_vars => StreamParts'
<1> SUFFICES ASSUME IInv, [Next]_vars PROVE StreamParts'
  OBVIOUS
<1>0. TypeOK /\ StreamParts
  BY DEF IInv, StreamParts
<1>1. CASE Return \/ Cancel \/ Terminated \/ UNCHANGED vars
  BY <1>0, <1>1, StreamsUntouched
     DEF Return, Cancel, Terminated, vars, streamVars, remoteVars, goVars, execVars
<1>2. CASE Keepalive \/ WaiterSends
  BY <1>0, <1>2, StreamsUntouched
     DEF Keepalive, KeepaliveTick, KeepalivePing, KeepaliveStop, keepaliveFrame, WaiterSends, streamVars
<1>3. CASE Commands
  <2>1. CASE interaction' = "ready"
    BY <1>3, <2>1, CommandsParts
  <2>2. CASE interaction' # "ready"
    BY <1>0, <1>3, <2>2, InteractionEnds DEF Commands, interactionFrame, remoteVars
  <2>3. QED
    BY <2>1, <2>2
<1>4. CASE ExecuteWriteFails \/ GiveUp \/ Panic \/ CloseReturns
  BY <1>0, <1>4, InteractionEnds
     DEF ExecuteWriteFails, GiveUp, Panic, CloseReturns, Executed, interactionFrame, remoteVars
<1>5. CASE ExecuteWrite
  BY <1>5, ExecuteWriteParts
<1>6. CASE CommandSucceeds
  BY <1>6, CommandSucceedsParts
<1>7. CASE CommandFails
  BY <1>7, CommandFailsParts
<1>8. CASE CloseExit
  BY <1>8, CloseExitParts
<1>9. ASSUME NEW s \in Streams, Reader(s) PROVE StreamParts'
  BY <1>9, ReadParts, ReadEOFParts DEF Reader
<1>10. CASE Shell
  BY <1>10, ShellTakesParts, ShellRunsParts, ShellSignalsParts DEF Shell
<1>11. CASE ShellDies \/ ConnectionLost
  BY <1>11, ChannelEndsParts
<1>12. QED
  BY <1>1, <1>2, <1>3, <1>4, <1>5, <1>6, <1>7, <1>8, <1>9, <1>10, <1>11 DEF Next, Interaction

-----------------------------------------------------------------------------
(* The part about the group.                                               *)

(* The group keeps its first error.                                        *)
LEMMA GroupStep == IInv /\ [Next]_vars => GroupInOrder'
<1> SUFFICES ASSUME IInv, [Next]_vars PROVE GroupInOrder'
  OBVIOUS
<1> USE DEF GroupInOrder, remoteVars, goVars, execVars, callVars
<1>0. TypeOK /\ GroupInOrder
  BY DEF IInv
<1>1. CASE Return \/ Cancel \/ Terminated \/ UNCHANGED vars
  BY <1>0, <1>1 DEF Return, Cancel, Terminated, vars, TypeOK
<1>2. CASE Keepalive
  BY <1>0, <1>2 DEF Keepalive, KeepaliveTick, KeepalivePing, KeepaliveStop, keepaliveFrame, Fails, TypeOK
<1>3. CASE Commands \/ ExecuteWrite \/ ExecuteWriteFails \/ CommandFails \/ GiveUp \/ Panic
  BY <1>0, <1>3
     DEF Commands, ExecuteWrite, ExecuteWriteFails, CommandFails, GiveUp, Panic, Executed,
         interactionFrame, Fails, TypeOK
<1>4. CASE CommandSucceeds
  BY <1>0, <1>4 DEF CommandSucceeds, Executed, interactionFrame
<1>5. CASE CloseExit \/ CloseReturns \/ WaiterSends
  BY <1>0, <1>5 DEF CloseExit, CloseReturns, WaiterSends, interactionFrame, Fails, TypeOK
<1>6. ASSUME NEW s \in Streams, Reader(s) PROVE GroupInOrder'
  BY <1>0, <1>6 DEF Reader, Read, ReadEOF
<1>7. CASE Shell \/ ShellDies \/ ConnectionLost
  BY <1>0, <1>7 DEF Shell, ShellTakes, ShellRuns, ShellSignals, ShellDies, ConnectionLost, shellFrame
<1>8. QED
  BY <1>1, <1>2, <1>3, <1>4, <1>5, <1>6, <1>7 DEF Next, Interaction

-----------------------------------------------------------------------------
(* The parts about the order of commands.                                  *)

OrderParts == CommandsInOrder /\ ReachedInOrder

(* They look at little.                                                    *)
LEMMA OrderUntouched ==
    ASSUME OrderParts, UNCHANGED <<stdin, effects, command, cut>>,
           shell' = shell \/ shell' = "gone" \/ shell # "gone"
    PROVE  OrderParts'
BY DEF OrderParts, CommandsInOrder, ReachedInOrder, Pending

(* A command is only left behind on stdin by readers that were cut short.  *)
LEMMA CommandSucceedsInOrder ==
    ASSUME IInv, CommandSucceeds
    PROVE  OrderParts'
<1> USE DEF IInv, CommandSucceeds, interactionFrame
<1>1. /\ interaction = "reading" /\ command \in Nat /\ command' = command + 1
      /\ UNCHANGED <<shell, stdin, effects, cut>>
  BY NumCommandsAssumption DEF Executed, TypeOK
<1>2. CommandsInOrder'
  <2>1. \A c \in effects : c \in Nat /\ c <= command
    BY DEF CommandsInOrder, TypeOK, AllCommands
  <2>2. \A c \in effects : c <= command'
    BY <1>1, <2>1
  <2>3. QED
    BY <1>1, <2>2 DEF CommandsInOrder
<1>3. ASSUME Pending, shell # "gone" PROVE cut /\ Head(stdin).command < command'
  <2>1. Head(stdin).command = command
    BY <1>1, <1>3, PendingIsCurrent
  <2>2. \E s \in Streams : Unprinted(s)
    BY <1>3 DEF Unprinted, TypeOK, Streams
  <2>3. PICK s \in Streams : reader[s] # "signal"
    BY <2>2 DEF StreamsInOrder
  <2>4. reader[s] = "eof"
    BY <1>1, <2>3 DEF Executed, ReadersInOrder, TypeOK
  <2>5. cut
    BY <2>4 DEF ReadersInOrder
  <2>6. QED
    BY <1>1, <2>1, <2>5
<1>4. ReachedInOrder'
  BY <1>1, <1>3 DEF ReachedInOrder, Pending
<1>5. QED
  BY <1>2, <1>4 DEF OrderParts

(* The command at the head of stdin takes effect, behind all before it.    *)
LEMMA ShellRunsInOrder ==
    ASSUME IInv, ShellRuns
    PROVE  /\ \/ effects' = effects
              \/ effects' = effects \cup {Head(stdin).command}
           /\ Head(stdin).command \in AllCommands
           /\ Head(stdin).command = command \/ (cut /\ Head(stdin).command < command)
           /\ OrderParts'
<1> DEFINE h == Head(stdin).command
<1> USE DEF IInv, ShellRuns, shellFrame, execVars, goVars
<1>1. /\ Pending /\ shell # "gone" /\ UNCHANGED <<stdin, command, cut>>
      /\ effects' = effects \/ effects' = effects \cup {h}
  BY DEF StdinInOrder
<1>2. h \in AllCommands
  BY <1>1, PendingIsCurrent
<1>3. h = command \/ (cut /\ h < command)
  BY <1>1 DEF ReachedInOrder
<1>4. h <= command
  BY <1>2, <1>3 DEF AllCommands, TypeOK
<1>5. ~cut => \A b \in 1 .. (h - 1) : b \in effects
  BY <1>3 DEF SilenceIsEffect
<1>6. CommandsInOrder'
  <2> SUFFICES ASSUME NEW c \in effects \cup {h}
               PROVE  c <= command /\ (~cut => \A b \in 1 .. (c - 1) : b \in effects)
    BY <1>1 DEF CommandsInOrder
  <2>1. QED
    BY <1>4, <1>5 DEF CommandsInOrder
<1>7. ReachedInOrder'
  BY <1>1, <1>3 DEF ReachedInOrder, Pending
<1>8. QED
  BY <1>1, <1>2, <1>3, <1>6, <1>7 DEF OrderParts

LEMMA OrderStep == IInv /\ [Next]_vars => OrderParts'
<1> SUFFICES ASSUME IInv, [Next]_vars PROVE OrderParts'
  OBVIOUS
<1> USE DEF remoteVars, goVars, execVars, callVars
<1>0. TypeOK /\ OrderParts
  BY DEF IInv, OrderParts
<1>1. CASE Return \/ Cancel \/ Terminated \/ UNCHANGED vars
  <2>1. UNCHANGED <<stdin, effects, command, cut, shell>>
    BY <1>1 DEF Return, Cancel, Terminated, vars
  <2>2. QED
    BY <1>0, <2>1, OrderUntouched
<1>2. CASE Keepalive \/ WaiterSends
  <2>1. UNCHANGED <<stdin, effects, command, cut, shell>>
    BY <1>2 DEF Keepalive, KeepaliveTick, KeepalivePing, KeepaliveStop, keepaliveFrame, WaiterSends
  <2>2. QED
    BY <1>0, <2>1, OrderUntouched
<1>3. CASE Commands \/ ExecuteWriteFails \/ CommandFails \/ GiveUp \/ Panic \/ CloseReturns
  <2>1. UNCHANGED <<stdin, effects, command, cut, shell>>
    BY <1>3 DEF Commands, ExecuteWriteFails, CommandFails, GiveUp, Panic, CloseReturns, interactionFrame
  <2>2. QED
    BY <1>0, <2>1, OrderUntouched
<1>4. CASE ExecuteWrite
  <2> DEFINE line == [attempt |-> attempt + 1, command |-> command]
  <2>1. stdin = <<>>
    BY <1>4 DEF ExecuteWrite, IInv, InStep
  <2>2. stdin' = <<line>> /\ UNCHANGED <<effects, command, cut>>
    BY <1>4, <2>1 DEF ExecuteWrite, interactionFrame
  <2>3. Head(stdin').command = command'
    BY <2>2
  <2>4. QED
    BY <1>0, <2>2, <2>3 DEF OrderParts, CommandsInOrder, ReachedInOrder
<1>5. CASE CommandSucceeds
  BY <1>5, CommandSucceedsInOrder
<1>6. CASE CloseExit
  <2>1. UNCHANGED <<effects, command, cut, shell>>
    BY <1>6 DEF CloseExit, interactionFrame
  <2>2. stdin' = stdin \/ stdin' = Append(stdin, Exit)
    BY <1>6 DEF CloseExit
  <2>3. Exit \in Lines /\ stdin \in Seq(Lines)
    BY <1>0 DEF Lines, TypeOK
  <2>4. ASSUME Pending' PROVE Pending /\ Head(stdin') = Head(stdin)
    <3>1. CASE stdin = <<>>
      <4>1. stdin' = <<>> \/ stdin' = <<Exit>>
        BY <2>2, <3>1
      <4>2. QED
        BY <2>4, <4>1 DEF Pending
    <3>2. CASE stdin # <<>>
      <4>1. Head(Append(stdin, Exit)) = Head(stdin)
        BY <2>3, <3>2, EmptySeq, LenProperties, AppendProperties
      <4>2. QED
        BY <2>2, <2>4, <3>2, <4>1 DEF Pending
    <3>3. QED
      BY <3>1, <3>2
  <2>5. QED
    BY <1>0, <2>1, <2>4 DEF OrderParts, CommandsInOrder, ReachedInOrder
<1>7. ASSUME NEW s \in Streams, Reader(s) PROVE OrderParts'
  <2>1. UNCHANGED <<stdin, effects, command, shell>> /\ (cut' = cut \/ cut' = TRUE)
    BY <1>7 DEF Reader, Read, ReadEOF
  <2>2. QED
    BY <1>0, <2>1 DEF OrderParts, CommandsInOrder, ReachedInOrder, Pending
<1>8. CASE ShellTakes
  <2>1. UNCHANGED <<effects, command, cut>> /\ (shell' = "gone" \/ stdin' = stdin) /\ shell # "gone"
    BY <1>8 DEF ShellTakes, shellFrame
  <2>2. QED
    BY <1>0, <2>1 DEF OrderParts, CommandsInOrder, ReachedInOrder, Pending
<1>9. CASE ShellRuns
  BY <1>9, ShellRunsInOrder
<1>10. CASE ShellSignals
  <2>1. UNCHANGED <<effects, command, cut>> /\ stdin' = Tail(stdin) /\ stdin # <<>>
    BY <1>10 DEF ShellSignals, shellFrame, IInv, StdinInOrder, Pending
  <2>2. ~Pending'
    BY <1>0, <2>1, TailOfStdin DEF Pending, IInv
  <2>3. QED
    BY <1>0, <2>1, <2>2 DEF OrderParts, CommandsInOrder, ReachedInOrder
<1>11. CASE ShellDies \/ ConnectionLost
  <2>1. UNCHANGED <<stdin, effects, command, cut>> /\ (shell' = shell \/ shell' = "gone")
    BY <1>11 DEF ShellDies, ConnectionLost, shellFrame
  <2>2. QED
    BY <1>0, <2>1, OrderUntouched
<1>12. QED
  BY <1>1, <1>2, <1>3, <1>4, <1>5, <1>6, <1>7, <1>8, <1>9, <1>10, <1>11 DEF Next, Interaction, Shell

-----------------------------------------------------------------------------
(* The theorems.                                                           *)

LEMMA Initially == Init => IInv
<1> SUFFICES ASSUME Init PROVE IInv
  OBVIOUS
<1>1. TypeOK
  <2>1. stdin \in Seq(Lines) /\ wire \in [Streams -> Seq(Chunks)]
    BY EmptySeq DEF Init
  <2>2. said \in [Streams -> SUBSET Attempts]
    BY DEF Init
  <2>3. reader \in [Streams -> {"off", "reading", "signal", "eof"}]
    BY DEF Init
  <2>4. attempt \in 0 .. MaxAttempts /\ command \in 1 .. (NumCommands + 1)
    BY NumCommandsAssumption, MaxAttemptsAssumption DEF Init
  <2>5. QED
    BY <2>1, <2>2, <2>3, <2>4 DEF Init, TypeOK
<1>2. StdinInOrder /\ StreamsInOrder /\ OwnOutput
  BY DEF Init, StdinInOrder, StreamsInOrder, OwnOutput, Pending
<1>3. ReadersInOrder /\ InStep /\ GroupInOrder
  BY DEF Init, ReadersInOrder, InStep, GroupInOrder
<1>4. SilenceIsEffect
  BY NumCommandsAssumption DEF Init, SilenceIsEffect, AllCommands
<1>5. CommandsInOrder /\ ReachedInOrder
  BY DEF Init, CommandsInOrder, ReachedInOrder, Pending
<1>6. QED
  BY <1>1, <1>2, <1>3, <1>4, <1>5 DEF IInv

(* The inductive invariant: the shell has at most the command being        *)
(* executed on its stdin and prints its signals last, the readers are in   *)
(* step with it, silence on stderr up to a signal means that the command   *)
(* had its effect, and the group has the errors it should have.            *)
THEOREM Invariance == Spec => []IInv
<1>1. IInv /\ [Next]_vars => IInv'
  <2> SUFFICES ASSUME IInv, [Next]_vars PROVE IInv'
    OBVIOUS
  <2>1. TypeOK' /\ StreamParts' /\ GroupInOrder' /\ OrderParts'
    BY TypeStep, StreamStep, GroupStep, OrderStep
  <2>2. QED
    BY <2>1 DEF IInv, StreamParts, OrderParts
<1>2. QED
  BY Initially, <1>1, PTL DEF Spec

(* Commands take effect in the order they are executed in, none before it  *)
(* was reached; while the streams last none is skipped.                    *)
THEOREM InOrder == Spec => []CommandsInOrder
<1>1. IInv => CommandsInOrder
  BY DEF IInv
<1>2. QED
  BY <1>1, Invariance, PTL

(* The state of a call of PowerShell stays within its types.               *)
THEOREM TypeCorrect == Spec => []TypeOK
<1>1. IInv => TypeOK
  BY DEF IInv
<1>2. QED
  BY <1>1, Invariance, PTL

(* Between two commands nothing of the first is left in the shell or on    *)
(* the streams.                                                            *)
THEOREM SessionInStep == Spec => []InStep
<1>1. IInv => InStep
  BY DEF IInv
<1>2. QED
  BY <1>1, Invariance, PTL

(* Output collected by Execute is never that of another command.           *)
THEOREM OutputIsOwn == Spec => []OwnOutput
<1>1. IInv => OwnOutput
  BY DEF IInv
<1>2. QED
  BY <1>1, Invariance, PTL

(* A nil result is to be trusted unless the keepalive goroutine met the    *)
(* end of the channel, a reader did, or a panic was recovered.             *)
THEOREM ResultTrusted == Spec => []TrustedResult
<1>1. IInv => TrustedResult
  <2> SUFFICES ASSUME IInv, result = "nil", keepalive # "eof", verdict # "panic"
               PROVE  verdict = "nil" /\ (~cut => effects = AllCommands)
    BY DEF TrustedResult
  <2>1. /\ verdict \in {"nil", "error"} /\ group \in {"none", "eof"}
        /\ interaction = "returned"
    BY DEF IInv, GroupInOrder, TypeOK
  <2>2. verdict = "nil" /\ command = NumCommands + 1
    BY <2>1 DEF IInv, GroupInOrder
  <2>3. ~cut => AllCommands \subseteq effects
    BY <2>2, NumCommandsAssumption DEF IInv, SilenceIsEffect, AllCommands
  <2>4. QED
    BY <2>2, <2>3 DEF IInv, TypeOK
<1>2. QED
  BY <1>1, Invariance, PTL
-----------------------------------------------------------------------------
(* The refinement: a call is the session its caller believes it to be.     *)

CVars == Contract!vars
Excused == keepalive = "eof" \/ verdict = "panic"
seenVars == <<effects, command, cut, result>>

LEMMA ContractInit == Init => Contract!Init
BY DEF Init, Contract!Init

(* A step that shows nothing else is a stutter or an excuse, which only a  *)
(* call that has not returned finds.                                       *)
LEMMA ExcuseRefines ==
    ASSUME UNCHANGED seenVars, Excused' = Excused \/ (result = "none" /\ Excused')
    PROVE  [Contract!Next]_CVars
BY DEF Excused, seenVars, CVars, Contract!vars, Contract!Next, Contract!Excuse

(* A nil of the group is the interaction's behind its last command, or     *)
(* there is an excuse for it.                                              *)
LEMMA ReturnRefines ==
    ASSUME IInv, Return
    PROVE  Contract!Next
<1>1. /\ result = "none" /\ result' \in {"nil", "error"}
      /\ UNCHANGED <<effects, command, cut, keepalive, verdict>>
  BY DEF Return, remoteVars, goVars, execVars
<1>2. ASSUME result' = "nil", ~Excused PROVE command > NumCommands
  <2>1. verdict \in {"nil", "error"} /\ group \in {"none", "eof"}
    BY <1>2 DEF Return, Excused, IInv, TypeOK, GroupInOrder
  <2>2. verdict = "nil"
    BY <1>2, <2>1 DEF Return, Excused, IInv, GroupInOrder
  <2>3. QED
    BY <2>2, NumCommandsAssumption DEF IInv, GroupInOrder
<1>3. Contract!Return
  BY <1>1, <1>2 DEF Excused, Contract!Return
<1>4. QED
  BY <1>3 DEF Contract!Next

(* The next command is reached behind the effect of the one before it.     *)
LEMMA ReachRefines ==
    ASSUME IInv, CommandSucceeds
    PROVE  [Contract!Next]_CVars
<1> USE DEF CommandSucceeds, interactionFrame
<1>1. /\ interaction = "reading" /\ command \in AllCommands /\ command' = command + 1
      /\ UNCHANGED <<effects, cut, result, keepalive>>
  BY DEF Executed, IInv, SilenceIsEffect
<1>2. verdict' # "panic" /\ verdict # "panic"
  BY <1>1 DEF IInv, GroupInOrder
<1>3. result = "none"
  BY <1>1 DEF IInv, GroupInOrder
<1>4. cut \/ command \in effects
  <2>1. SilenceIsEffect'
    BY CommandSucceedsParts DEF StreamParts
  <2>2. ~cut => \A c \in 1 .. (command' - 1) : c \in effects
    BY <1>1, <2>1 DEF SilenceIsEffect
  <2>3. command \in 1 .. (command' - 1)
    BY <1>1 DEF AllCommands
  <2>4. QED
    BY <2>2, <2>3
<1>5. command <= NumCommands
  BY <1>1 DEF AllCommands
<1>6. Contract!Reach
  BY <1>1, <1>2, <1>3, <1>4, <1>5 DEF Contract!Reach
<1>7. QED
  BY <1>6 DEF Contract!Next

(* The shell runs the command that was reached, or one nobody waits for.   *)
LEMMA EffectRefines ==
    ASSUME IInv, ShellRuns
    PROVE  [Contract!Next]_CVars
<1> DEFINE h == Head(stdin).command
<1>1. UNCHANGED <<command, cut, result, keepalive, verdict>>
  BY DEF ShellRuns, shellFrame, goVars, execVars, callVars
<1>2. /\ effects' = effects \/ effects' = effects \cup {h}
      /\ h \in 1 .. NumCommands
      /\ h = command \/ (cut /\ h < command)
  BY ShellRunsInOrder DEF AllCommands
<1>3. CASE effects' = effects
  BY <1>1, <1>3, ExcuseRefines DEF Excused, seenVars
<1>4. CASE effects' = effects \cup {h}
  <2>1. Contract!TakeEffect
    BY <1>1, <1>2, <1>4 DEF Contract!TakeEffect
  <2>2. QED
    BY <2>1 DEF Contract!Next
<1>5. QED
  BY <1>2, <1>3, <1>4

LEMMA ReaderRefines ==
    ASSUME NEW s \in Streams, Reader(s)
    PROVE  [Contract!Next]_CVars
<1>1. UNCHANGED <<effects, command, result, keepalive, verdict>> /\ (cut' = cut \/ cut' = TRUE)
  BY DEF Reader, Read, ReadEOF, goVars, callVars, remoteVars
<1>2. CASE cut' = cut
  BY <1>1, <1>2, ExcuseRefines DEF Excused, seenVars
<1>3. CASE cut' = TRUE
  <2>1. Contract!CutShort
    BY <1>1, <1>3 DEF Contract!CutShort
  <2>2. QED
    BY <2>1 DEF Contract!Next
<1>4. QED
  BY <1>1, <1>2, <1>3

LEMMA RefineStep == IInv /\ [Next]_vars => [Contract!Next]_CVars
<1> SUFFICES ASSUME IInv, [Next]_vars PROVE [Contract!Next]_CVars
  OBVIOUS
<1> USE DEF remoteVars, goVars, execVars, callVars
<1>0. TypeOK /\ GroupInOrder
  BY DEF IInv
<1>1. CASE Return
  BY <1>1, ReturnRefines
<1>2. CASE Cancel \/ Terminated \/ WaiterSends \/ UNCHANGED vars
  <2>1. UNCHANGED <<effects, command, cut, result, keepalive, verdict>>
    BY <1>2 DEF Cancel, Terminated, WaiterSends, vars
  <2>2. QED
    BY <2>1, ExcuseRefines DEF Excused, seenVars
<1>3. CASE Keepalive
  <2>1. /\ UNCHANGED <<effects, command, cut, result, verdict>>
        /\ keepalive # "eof" /\ keepalive \in {"sleep", "ping"}
    BY <1>3 DEF Keepalive, KeepaliveTick, KeepalivePing, KeepaliveStop, keepaliveFrame
  <2>2. result = "none"
    BY <1>0, <2>1 DEF GroupInOrder, TypeOK
  <2>3. QED
    BY <2>1, <2>2, ExcuseRefines DEF Excused, seenVars
<1>4. CASE Commands \/ ExecuteWrite \/ ExecuteWriteFails \/ CommandFails \/ GiveUp \/ Panic
  <2>1. /\ UNCHANGED <<effects, command, cut, result, keepalive>>
        /\ interaction \in {"setup", "ready", "reading"}
    BY <1>4 DEF Commands, ExecuteWrite, ExecuteWriteFails, CommandFails, GiveUp, Panic, Executed,
       interactionFrame
  <2>2. result = "none" /\ verdict = "none"
    BY <1>0, <2>1 DEF GroupInOrder, TypeOK
  <2>3. QED
    BY <2>1, <2>2, ExcuseRefines DEF Excused, seenVars
<1>5. CASE CommandSucceeds
  BY <1>5, ReachRefines
<1>6. CASE CloseExit \/ CloseReturns
  <2>1. UNCHANGED <<effects, command, cut, result, keepalive, verdict>>
    BY <1>6 DEF CloseExit, CloseReturns, interactionFrame
  <2>2. QED
    BY <2>1, ExcuseRefines DEF Excused, seenVars
<1>7. ASSUME NEW s \in Streams, Reader(s) PROVE [Contract!Next]_CVars
  BY <1>7, ReaderRefines
<1>8. CASE ShellTakes \/ ShellSignals \/ ShellDies \/ ConnectionLost
  <2>1. UNCHANGED <<effects, command, cut, result, keepalive, verdict>>
    BY <1>8 DEF ShellTakes, ShellSignals, ShellDies, ConnectionLost, shellFrame
  <2>2. QED
    BY <2>1, ExcuseRefines DEF Excused, seenVars
<1>9. CASE ShellRuns
  BY <1>9, EffectRefines
<1>10. QED
  BY <1>1, <1>2, <1>3, <1>4, <1>5, <1>6, <1>7, <1>8, <1>9 DEF Next, Interaction, Shell

(* Every call of PowerShell, with its shell, its streams and its           *)
(* goroutines, is a session that executes commands in order, skips none,   *)
(* and reports success behind the last, with the exceptions the contract   *)
(* names.                                                                  *)
THEOREM SessionKeepsContract == Spec => ContractSpec
<1>1. Init => Contract!Init
  BY ContractInit
<1>2. IInv /\ [Next]_vars => [Contract!Next]_CVars
  BY RefineStep
<1>3. Spec => Contract!Init /\ [][Contract!Next]_CVars
  BY <1>1, <1>2, Invariance, PTL DEF Spec
<1>4. QED
  BY <1>3 DEF ContractSpec, Contract!Spec, CVars
=============================================================================
