---------------------------- MODULE BuildArchive ----------------------------
(***************************************************************************)
(* The build path on its way to a worker.  docker.ZipWithOptions starts a  *)
(* goroutine that walks the build path, leaves out what .dockerignore      *)
(* excludes and writes a zip archive to a pipe; sshDialer.Copy reads the   *)
(* pipe and writes a remote file through SFTP.                             *)
(*                                                                         *)
(* The goroutine only logs its errors: Copy, and Create behind it, see a   *)
(* well-formed archive whatever is missing from it.  Copy reads to the     *)
(* end or stops at an error of its own, and never closes the pipe.         *)
(*                                                                         *)
(* The build path may be a symbolic link to a directory: Create, which     *)
(* follows it, takes it for one, and the goroutine, which does not,        *)
(* archives the link and nothing behind it.                                *)
(***************************************************************************)
EXTENDS Naturals, Sequences, SequencesExt

CONSTANTS
    Names,        \* of files and directories
    Paths,        \* what is under the build path, as sequences of names
    Kind,         \* Kind[p]: dir, file or link (a symbolic link)
    Globs,        \* the patterns of .dockerignore, as sequences of names or "*"
    BadGlobs,     \* those of Globs that do not compile to a regular expression
    MaxPatterns   \* bound: lines of .dockerignore

ASSUME PathsAssumption ==
    /\ Paths \subseteq Seq(Names) \ {<<>>}
    /\ Kind \in [Paths -> {"dir", "file", "link"}]
    /\ \A p \in Paths : \A n \in 1 .. Len(p) - 1 :
          SubSeq(p, 1, n) \in Paths /\ Kind[SubSeq(p, 1, n)] = "dir"
ASSUME GlobsAssumption ==
    Globs \subseteq Seq(Names \cup {"*"}) \ {<<>>} /\ BadGlobs \subseteq Globs /\ "*" \notin Names
ASSUME MaxPatternsAssumption == MaxPatterns \in Nat

Contents == {"none", "whole", "partial", "empty"}

(* An entry of the archive, the entry of a build path that is a link, and  *)
(* the central directory that ends the archive.                            *)
Entries == [path : Paths, content : Contents]
Link == [path |-> <<>>, content |-> "empty"]
Directory == [path |-> <<>>, content |-> "none"]

VARIABLES
    patterns,   \* the lines of .dockerignore
    linked,     \* the build path is a symbolic link
    archiver,   \* the goroutine: off, walk, write (blocked), close (likewise), ended
    todo,       \* paths the walk has come across and not visited
    buffer,     \* what the zip writer holds and Copy has not read
    damaged,    \* what could not be read from the disk (a history variable)
    copy,       \* prepare, create, read, write, ok, failed
    chunk,      \* what Copy read last
    remote      \* the remote file

diskVars == <<patterns, linked, todo, damaged>>
vars == <<patterns, linked, archiver, todo, buffer, damaged, copy, chunk, remote>>

Lines == [exclusion : BOOLEAN, dirs : Globs]

TypeOK ==
    /\ patterns \in Seq(Lines)
    /\ linked \in BOOLEAN
    /\ archiver \in {"off", "walk", "write", "close", "ended"}
    /\ todo \subseteq Paths
    /\ buffer \in Seq(Entries \cup {Link, Directory})
    /\ damaged \subseteq Paths \cup {<<>>}
    /\ copy \in {"prepare", "create", "read", "write", "ok", "failed"}
    /\ chunk \in Seq(Entries \cup {Link, Directory})
    /\ remote \in Seq(Entries \cup {Link, Directory})

Init ==
    /\ \E n \in 0 .. MaxPatterns : patterns \in [1 .. n -> Lines]
    /\ linked \in BOOLEAN
    /\ archiver = "off"
    /\ todo = {}
    /\ buffer = <<>>
    /\ damaged = {}
    /\ copy = "prepare"
    /\ chunk = <<>>
    /\ remote = <<>>

-----------------------------------------------------------------------------
(* Patterns.                                                               *)

(* A line hits a path if it matches the path or one of its parents.        *)
Hits(line, p) ==
    /\ Len(line.dirs) <= Len(p)
    /\ \A i \in DOMAIN line.dirs : line.dirs[i] \in {"*", p[i]}

(* The last line that hits decides: no exception comes behind.             *)
Matches(p) ==
    \E i \in DOMAIN patterns :
        /\ Hits(patterns[i], p)
        /\ ~patterns[i].exclusion
        /\ \A j \in (i + 1) .. Len(patterns) : Hits(patterns[j], p) => ~patterns[j].exclusion

(* A line that does not compile is an error of every match.                *)
Compiles == \A i \in DOMAIN patterns : patterns[i].dirs \notin BadGlobs

(* Mutant: an excluded directory is skipped whatever exceptions there are. *)
NeverExcepted(p) == FALSE

(* The text of some exception begins with the directory.                   *)
Excepted(p) ==
    \E i \in DOMAIN patterns : patterns[i].exclusion /\ IsPrefix(p, patterns[i].dirs)

-----------------------------------------------------------------------------
(* The goroutine.                                                          *)

(* Mutant: the build path itself becomes an entry.                         *)
RootIncluded == {<<>>}

Children(p) == {c \in Paths : Len(c) = Len(p) + 1 /\ IsPrefix(p, c)}
Roots == Children(<<>>)

(* GetBuildpathArchive: an unreadable .dockerignore is an error, a build   *)
(* path that cannot be listed is an empty archive.  One that is not itself *)
(* a directory is replaced by its parent and included by its own name,     *)
(* which no pattern excludes: the walk consists of the link.               *)
Start ==
    /\ copy = "prepare"
    /\ \/ copy' = "failed" /\ UNCHANGED <<archiver, todo, buffer, damaged>>
       \/ /\ copy' = "create"
          /\ archiver' = "walk"
          /\ \/ ~linked /\ todo' = Roots /\ UNCHANGED <<buffer, damaged>>
             \/ linked /\ buffer' = <<Link>> /\ UNCHANGED <<todo, damaged>>
             \/ damaged' = {<<>>} /\ UNCHANGED <<todo, buffer>>
    /\ UNCHANGED <<patterns, linked, chunk, remote>>

(* Depth first.                                                            *)
Visiting(p) ==
    /\ archiver = "walk"
    /\ p \in todo
    /\ \A q \in todo : Len(q) <= Len(p)

walkFrame == UNCHANGED <<patterns, linked, copy, chunk, remote>>

(* What cannot be listed is left out with everything below.                *)
Unlisted(p) ==
    /\ Visiting(p)
    /\ todo' = todo \ {p}
    /\ damaged' = damaged \cup {p}
    /\ UNCHANGED <<archiver, buffer>>
    /\ walkFrame

(* The error of the match ends the walk.                                   *)
Mismatch(p) ==
    /\ Visiting(p)
    /\ ~Compiles
    /\ todo' = {}
    /\ UNCHANGED <<archiver, buffer, damaged>>
    /\ walkFrame

(* Excluded paths are not added; the walk goes on below an excluded        *)
(* directory only for an exception.                                        *)
Exclude(p) ==
    /\ Visiting(p)
    /\ Compiles
    /\ Matches(p)
    /\ todo' = (todo \ {p}) \cup (IF Excepted(p) THEN Children(p) ELSE {})
    /\ UNCHANGED <<archiver, buffer, damaged>>
    /\ walkFrame

(* Only regular files have contents: the branch for links is behind a      *)
(* return.                                                                 *)
Content(p) == IF Kind[p] = "file" THEN "whole" ELSE "none"

(* What addZipFile leaves in the archive when it fails: no entry, or one   *)
(* with less than the file.                                                *)
Spoiled(p) ==
    {<<>>} \cup (IF Kind[p] = "file"
                 THEN {<<[path |-> p, content |-> c]>> : c \in {"partial", "empty"}}
                 ELSE {})

(* The walk goes on unless the entry fills the buffer of the zip writer.   *)
Add(p) ==
    /\ Visiting(p)
    /\ Compiles
    /\ ~Matches(p)
    /\ todo' = (todo \ {p}) \cup Children(p)
    /\ \/ /\ buffer' = Append(buffer, [path |-> p, content |-> Content(p)])
          /\ UNCHANGED damaged
       \/ /\ \E e \in Spoiled(p) : buffer' = buffer \o e
          /\ damaged' = damaged \cup {p}
    /\ archiver' \in {"walk", "write"}
    /\ archiver' = "write" => buffer' # <<>>
    /\ walkFrame

(* The deferred Close of the zip writer writes the directory.              *)
EndWalk ==
    /\ archiver = "walk"
    /\ todo = {}
    /\ buffer' = Append(buffer, Directory)
    /\ archiver' = "close"
    /\ UNCHANGED <<todo, damaged>>
    /\ walkFrame

-----------------------------------------------------------------------------
(* Copy.                                                                   *)

CreateFile ==
    /\ copy = "create"
    /\ copy' \in {"read", "failed"}
    /\ UNCHANGED <<archiver, diskVars, buffer, chunk, remote>>

(* All that was written has been read.                                     *)
Drained == IF archiver = "close" THEN "ended" ELSE "walk"

(* A read takes what the blocked writer offers, or a part of it.           *)
Read ==
    /\ copy = "read"
    /\ archiver \in {"write", "close"}
    /\ \E n \in 1 .. Len(buffer) :
          /\ chunk' = SubSeq(buffer, 1, n)
          /\ buffer' = SubSeq(buffer, n + 1, Len(buffer))
          /\ archiver' = IF n = Len(buffer) THEN Drained ELSE archiver
    /\ copy' = "write"
    /\ UNCHANGED <<diskVars, remote>>

(* Mutant: a failed write is overlooked.                                   *)
WriteLossy ==
    /\ copy = "write"
    /\ remote' = remote \o chunk \/ UNCHANGED remote
    /\ copy' = "read"
    /\ chunk' = <<>>
    /\ UNCHANGED <<archiver, diskVars, buffer>>

Write ==
    /\ copy = "write"
    /\ \/ remote' = remote \o chunk /\ copy' = "read"
       \/ UNCHANGED remote /\ copy' = "failed"
    /\ chunk' = <<>>
    /\ UNCHANGED <<archiver, diskVars, buffer>>

ReadEOF ==
    /\ copy = "read"
    /\ archiver = "ended"
    /\ copy' = "ok"
    /\ UNCHANGED <<archiver, diskVars, buffer, chunk, remote>>

-----------------------------------------------------------------------------
Archiver ==
    \/ EndWalk
    \/ \E p \in todo : Unlisted(p) \/ Mismatch(p) \/ Exclude(p) \/ Add(p)

Copy == Start \/ CreateFile \/ Read \/ Write \/ ReadEOF

(* There is no step for the end: Copy has returned, and after a failed     *)
(* Copy the writer stays blocked for ever.                                 *)
Next == Archiver \/ Copy

Spec == Init /\ [][Next]_vars

-----------------------------------------------------------------------------
(* Properties.                                                             *)

(* What .dockerignore keeps, according to its lines alone.                 *)
Kept == {p \in Paths : ~Matches(p)}

(* Nothing on the way to p, nor p, failed to be read.                      *)
Readable(p) == \A d \in damaged : ~IsPrefix(d, p)

LiteralExceptions ==
    \A i \in DOMAIN patterns :
        patterns[i].exclusion => \A j \in DOMAIN patterns[i].dirs : patterns[i].dirs[j] # "*"

Shipped == ToSet(remote)

(* An archive that has its directory has nothing but what .dockerignore    *)
(* keeps, and has all of it whole, except what could not be read.          *)
(* Pruning excluded directories loses nothing as long as exceptions are    *)
(* literal; a line that does not compile loses everything.  And of a build *)
(* path that is a link nothing is shipped but the link.                    *)
DirectoryBehindAll ==
    Directory \in Shipped =>
        IF linked THEN Shipped \subseteq {Link, Directory}
        ELSE /\ \A e \in Shipped \ {Directory} : e.path \in Kept
             /\ Compiles /\ LiteralExceptions =>
                   \A p \in Kept : Readable(p) => [path |-> p, content |-> Content(p)] \in Shipped

(* Copy succeeds only with the whole stream: the directory is last, and    *)
(* nothing is left in the pipe.                                            *)
SuccessIsClosed ==
    copy = "ok" => /\ remote # <<>> /\ Last(remote) = Directory
                   /\ buffer = <<>> /\ archiver = "ended"

-----------------------------------------------------------------------------
(* The inductive invariant these rest on.                                  *)

(* All that was produced, while Copy does not fail.                        *)
Stream == Shipped \cup ToSet(chunk) \cup ToSet(buffer)

OnlyKept ==
    IF linked THEN Stream \subseteq {Link, Directory}
    ELSE \A e \in Stream \ {Directory} : e.path \in Kept

(* What is kept and readable has been produced, or is still to be visited  *)
(* or below what is.                                                       *)
Frontier ==
    ~linked /\ copy # "failed" /\ archiver # "off" /\ Compiles /\ LiteralExceptions =>
        \A p \in Kept : Readable(p) =>
            [path |-> p, content |-> Content(p)] \in Stream \/ \E q \in todo : IsPrefix(q, p)

(* The directory is the end of what was produced, and only of that.        *)
EndsIn(stream, directory) ==
    \A i \in DOMAIN stream : stream[i] = Directory <=> directory /\ i = Len(stream)

DirectoryLast ==
    /\ EndsIn(buffer, archiver = "close")
    /\ EndsIn(chunk, archiver = "ended")
    /\ EndsIn(remote, archiver = "ended" /\ copy \in {"read", "ok"})
    /\ archiver \in {"close", "ended"} => todo = {}
    /\ archiver = "close" => buffer # <<>>
    /\ archiver = "ended" => buffer = <<>>
    /\ copy = "write" <=> chunk # <<>>
    /\ archiver = "ended" /\ copy \in {"read", "ok"} => remote # <<>>

CopyInStep ==
    /\ archiver = "off" => copy \in {"prepare", "failed"} /\ remote = <<>> /\ buffer = <<>>
    /\ copy = "prepare" => archiver = "off"
    /\ copy = "create" => remote = <<>> /\ archiver # "ended"
    /\ copy = "ok" => archiver = "ended"
    /\ linked => todo = {}

IInv == TypeOK /\ OnlyKept /\ Frontier /\ DirectoryLast /\ CopyInStep
=============================================================================
