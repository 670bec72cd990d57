---------------------------- MODULE PlatformArgs ----------------------------
(***************************************************************************)
(* docker.InjectTargetPlatformArgsToDockerfile: a Dockerfile is scanned    *)
(* line by line through the buffer of a bufio.Scanner and written anew.    *)
(*                                                                         *)
(* The first four bytes of every line are sliced, however short the line:  *)
(* up to the capacity of what the scanner returns, the rest of its buffer, *)
(* that works on what lies there; beyond it is a panic.  The error of the  *)
(* scanner is not asked for.                                               *)
(***************************************************************************)
EXTENDS Naturals, Sequences, SequencesExt

CONSTANTS
    Dockerfiles,    \* their lines, and whether the last one ends in a newline
    StartBufSize,   \* bufio: size of the first buffer (4096)
    MaxTokenSize    \* bufio: size of the largest (65536)

commandArg == 4     \* the length of "ARG "

(* Where line i begins, and its length without the newline.                *)
Begin(f, i) == IF i = 1 THEN 0 ELSE f.lines[i - 1].end
LengthOf(f, i) == f.lines[i].end - Begin(f, i) - 1

(* A line is given by where it ends, behind its newline.  It agrees if as  *)
(* far as it goes it begins with "ARG ".                                   *)
ASSUME DockerfilesAssumption ==
    \A f \in Dockerfiles :
        /\ f.lines \in Seq([end : Nat \ {0}, agrees : BOOLEAN]) /\ f.ended \in BOOLEAN
        /\ \A i, j \in DOMAIN f.lines : i < j => f.lines[i].end < f.lines[j].end
        /\ ~f.ended => f.lines # <<>> /\ LengthOf(f, Len(f.lines)) > 0
ASSUME SizesAssumption ==
    /\ StartBufSize \in Nat /\ commandArg < StartBufSize
    /\ MaxTokenSize \in Nat /\ StartBufSize <= MaxTokenSize

VARIABLES
    file,      \* the Dockerfile
    unread,    \* bytes of it that have not been read
    scan,      \* off, scanning, returned, panicked
    size,      \* the size of the scanner's buffer
    start,     \* where what has not been scanned begins in it
    limit,     \* and where it ends
    stale,     \* behind that limit is what was read earlier
    err,       \* of the scanner: none, eof, failed, too long
    written    \* lines written

bufferVars == <<size, start, limit, stale>>
argsVars == <<file, unread, scan, bufferVars, err, written>>

InitArgs ==
    /\ file = [lines |-> <<>>, ended |-> TRUE]
    /\ unread = 0
    /\ scan = "off"
    /\ size = 0 /\ start = 0 /\ limit = 0 /\ stale = FALSE
    /\ err = "none"
    /\ written = 0

Total(f) == Begin(f, Len(f.lines) + 1) - IF f.ended THEN 0 ELSE 1

(* The scanner gets a Dockerfile.                                          *)
Open(f) ==
    /\ scan = "off"
    /\ scan' = "scanning"
    /\ file' = f
    /\ unread' = Total(f)
    /\ UNCHANGED <<bufferVars, err, written>>

-----------------------------------------------------------------------------
held == limit - start
Line == file.lines[written + 1]
lineLength == LengthOf(file, written + 1)

(* The line is in the buffer, with its newline.                            *)
Whole == held > 0 /\ lineLength < held

Length == IF Whole THEN lineLength ELSE held

(* Behind an error the rest is a line.                                     *)
Scanned == scan = "scanning" /\ held > 0 /\ (Whole \/ err # "none")

(* Mutant: the name of an argument is looked for one byte too far.         *)
PanicsBehindArg ==
    \/ start + commandArg > size
    \/ Length = commandArg /\ Line.agrees
    \/ Length < commandArg /\ ~Whole /\ stale /\ Line.agrees

(* The slice exceeds the buffer; or it says "ARG " with the help of bytes  *)
(* behind the last line, which is then sliced behind its end.              *)
Panics ==
    \/ start + commandArg > size
    \/ Length < commandArg /\ ~Whole /\ stale /\ Line.agrees

Panic ==
    /\ Scanned /\ Panics
    /\ scan' = "panicked"
    /\ UNCHANGED <<file, unread, bufferVars, err, written>>

(* A line is written, with the platform if it is an ARG for one.  (What is *)
(* behind the last line may also say something else.)                      *)
WriteLine ==
    /\ Scanned /\ (Panics => start + commandArg <= size)
    /\ start' = IF Whole THEN start + Length + 1 ELSE limit
    /\ written' = written + 1
    /\ UNCHANGED <<file, unread, scan, size, limit, stale, err>>

(* Space is made before a read by moving what is held to the front, else   *)
(* by doubling the buffer.                                                 *)
Moves == start > 0 /\ (limit = size \/ 2 * start > size)
Full == ~Moves /\ limit = size
Doubled == CHOOSE n \in {StartBufSize, 2 * size, MaxTokenSize} :
              n = IF size = 0 THEN StartBufSize
                  ELSE IF 2 * size > MaxTokenSize THEN MaxTokenSize ELSE 2 * size

Needs == scan = "scanning" /\ ~Whole /\ err = "none"

Fill ==
    /\ Needs
    /\ Full => size < MaxTokenSize
    /\ LET room == IF Full THEN Doubled ELSE size
           last == IF Moves \/ Full THEN held ELSE limit
       IN  /\ size' = room
           /\ start' = IF Moves \/ Full THEN 0 ELSE start
           /\ stale' = (~Full /\ (stale \/ Moves))
           /\ \/ /\ unread > 0
                 /\ limit' = IF unread < room - last THEN last + unread ELSE room
                 /\ unread' = unread - (limit' - last)
                 /\ UNCHANGED err
              \/ /\ err' \in {"failed"} \cup (IF unread = 0 THEN {"eof"} ELSE {})
                 /\ limit' = last
                 /\ UNCHANGED unread
    /\ UNCHANGED <<file, scan, written>>

(* A line longer than the largest buffer ends the scan.                    *)
TooLong ==
    /\ Needs
    /\ Full /\ size >= MaxTokenSize
    /\ err' = "too long"
    /\ scan' = "returned"
    /\ UNCHANGED <<file, unread, bufferVars, written>>

(* Mutant: the scan goes on behind an error that is not the end.            *)
FinishAtEOF ==
    /\ scan = "scanning" /\ held = 0 /\ err = "eof"
    /\ scan' = "returned"
    /\ UNCHANGED <<file, unread, bufferVars, err, written>>

Finish ==
    /\ scan = "scanning" /\ held = 0 /\ err # "none"
    /\ scan' = "returned"
    /\ UNCHANGED <<file, unread, bufferVars, err, written>>

Inject == Panic \/ WriteLine \/ Fill \/ TooLong \/ Finish

-----------------------------------------------------------------------------
(* A panic needs a line shorter than "ARG ", or one cut short by a failing *)
(* disk, and a Dockerfile that reaches into the second half of the first   *)
(* buffer.                                                                 *)
PanicsAtAnEdge ==
    scan = "panicked" =>
        /\ err = "failed" \/ \E i \in DOMAIN file.lines : LengthOf(file, i) < commandArg
        /\ 2 * Total(file) > StartBufSize

(* Every step gets the scanner on: it stops, or meets an error, or reads   *)
(* something, or writes a line of what it holds.  (None of these can       *)
(* happen for ever; nowhere does it read into a full buffer.)              *)
Advances ==
    \/ scan' # "scanning"
    \/ err = "none" /\ err' # "none"
    \/ err' = err /\ unread' < unread
    \/ UNCHANGED <<err, unread>> /\ held' < held

-----------------------------------------------------------------------------
(* The inductive invariant that rests on.                                  *)

ArgsTypeOK ==
    /\ file \in Dockerfiles \/ (scan = "off" /\ file = [lines |-> <<>>, ended |-> TRUE])
    /\ scan \in {"off", "scanning", "returned", "panicked"}
    /\ unread \in Nat /\ size \in Nat /\ start \in Nat /\ limit \in Nat /\ written \in Nat
    /\ stale \in BOOLEAN
    /\ err \in {"none", "eof", "failed", "too long"}

(* Nothing is in the buffer twice, and what is moved in it comes from      *)
(* behind its middle.                                                      *)
Layout ==
    /\ start <= limit /\ limit <= size
    /\ limit + unread <= Total(file)
    /\ size = 0 \/ StartBufSize <= size
    /\ stale => 2 * Total(file) > StartBufSize

(* What is held and what is unread are the lines not yet written, as long  *)
(* as there is something held, and until there is an error.                *)
Position ==
    scan # "off" /\ (held > 0 \/ err = "none") =>
        /\ written <= Len(file.lines)
        /\ Begin(file, written + 1) + held + unread = Total(file)

AtEnd ==
    /\ scan = "off" => size = 0 /\ ~stale /\ written = 0 /\ err = "none"
    /\ scan \in {"scanning", "panicked"} => err # "too long"
    /\ scan = "returned" => err # "none" /\ (held = 0 \/ err = "too long")
    /\ err = "eof" => unread = 0 /\ (held = 0 => written = Len(file.lines))

ArgsIInv == ArgsTypeOK /\ Layout /\ Position /\ AtEnd /\ PanicsAtAnEdge
=============================================================================
