--------------------------- MODULE ShippingProofs ---------------------------
(***************************************************************************)
(* What a worker is shipped, for every tree, .dockerignore and Dockerfile. *)
(*                                                                         *)
(* The walk's promise is an invariant over what was produced (Stream) and  *)
(* what is still to be visited (Frontier): a path that is kept and can be  *)
(* read is in the one or below the other.  Pruning an excluded directory   *)
(* preserves it because a literal exception below the directory begins     *)
(* with it.                                                                *)
(*                                                                         *)
(* The scanner's is one over positions in the Dockerfile: what it holds    *)
(* and has not read are the lines not yet written (Position).  A line is   *)
(* therefore found where it stands in the file, a rest behind an error is  *)
(* the last line or a piece of one, and at the end all are written.        *)
(***************************************************************************)
EXTENDS Shipping, TLAPS, SequenceTheorems

Items == Entries \cup {Link, Directory}

-----------------------------------------------------------------------------
(* Sequences.                                                              *)

LEMMA PrefixPointwise ==
    ASSUME NEW S, NEW p \in Seq(S), NEW q \in Seq(S)
    PROVE  IsPrefix(p, q) <=> Len(p) <= Len(q) /\ \A i \in 1 .. Len(p) : p[i] = q[i]
  <1>1. Len(p) \in Nat /\ Len(q) \in Nat  BY LenProperties
  <1>2. CASE Len(p) > Len(q)  BY <1>1, <1>2 DEF IsPrefix
  <1>3. CASE Len(p) <= Len(q)
    <2>1. SubSeq(p, 1, Len(p)) = p  BY SubSeqFull
    <2>2. /\ SubSeq(q, 1, Len(p)) \in Seq(S)
          /\ Len(SubSeq(q, 1, Len(p))) = Len(p)
          /\ \A i \in 1 .. Len(p) : SubSeq(q, 1, Len(p))[i] = q[i]
      <3>1. \A i \in 1 .. Len(p) : q[i] \in S  BY <1>1, <1>3, ElementOfSeq
      <3>2. /\ SubSeq(q, 1, Len(p)) \in Seq(S)
            /\ Len(SubSeq(q, 1, Len(p))) = IF 1 <= Len(p) THEN Len(p) - 1 + 1 ELSE 0
            /\ \A i \in 1 .. Len(p) - 1 + 1 : SubSeq(q, 1, Len(p))[i] = q[1 + i - 1]
        BY <1>1, <3>1, SubSeqProperties
      <3>  QED  BY <1>1, <3>2
    <2>3. IsPrefix(p, q) <=> p = SubSeq(q, 1, Len(p))  BY <1>3, <2>1 DEF IsPrefix
    <2>4. (\A i \in 1 .. Len(p) : p[i] = SubSeq(q, 1, Len(p))[i]) => p = SubSeq(q, 1, Len(p))
      BY <2>2, SeqEqual
    <2>  QED  BY <1>3, <2>2, <2>3, <2>4
  <1>  QED  BY <1>1, <1>2, <1>3

LEMMA ToSetAppend ==
    ASSUME NEW S, NEW s \in Seq(S), NEW e \in S
    PROVE  ToSet(Append(s, e)) = ToSet(s) \cup {e}
  <1>1. /\ Len(s) \in Nat /\ DOMAIN s = 1 .. Len(s)
        /\ DOMAIN Append(s, e) = 1 .. Len(s) + 1
    BY AppendProperties, LenProperties
  <1>2. /\ \A i \in 1 .. Len(s) : Append(s, e)[i] = s[i]
        /\ Append(s, e)[Len(s) + 1] = e
    BY AppendProperties
  <1>  QED  BY <1>1, <1>2 DEF ToSet

LEMMA ToSetConcat ==
    ASSUME NEW S, NEW s \in Seq(S), NEW t \in Seq(S)
    PROVE  ToSet(s \o t) = ToSet(s) \cup ToSet(t)
  <1>1. /\ Len(s) \in Nat /\ DOMAIN s = 1 .. Len(s)
        /\ Len(t) \in Nat /\ DOMAIN t = 1 .. Len(t)
        /\ DOMAIN (s \o t) = 1 .. Len(s) + Len(t)
    BY ConcatProperties, LenProperties
  <1>2. \A i \in 1 .. Len(s) : (s \o t)[i] = s[i]  BY <1>1, ConcatProperties
  <1>3. \A i \in 1 .. Len(t) : (s \o t)[Len(s) + i] = t[i]
    <2>1. \A k \in 1 .. Len(s) + Len(t) : (s \o t)[k] = IF k <= Len(s) THEN s[k] ELSE t[k - Len(s)]
      BY ConcatProperties
    <2>2. SUFFICES ASSUME NEW i \in 1 .. Len(t) PROVE (s \o t)[Len(s) + i] = t[i]  OBVIOUS
    <2>3. Len(s) + i \in 1 .. Len(s) + Len(t) /\ ~(Len(s) + i <= Len(s)) /\ (Len(s) + i) - Len(s) = i
      BY <1>1
    <2>  QED  BY <2>1, <2>3
  <1>4. ToSet(s \o t) \subseteq ToSet(s) \cup ToSet(t)
    <2>1. SUFFICES ASSUME NEW k \in 1 .. Len(s) + Len(t) PROVE (s \o t)[k] \in ToSet(s) \cup ToSet(t)
      BY <1>1 DEF ToSet
    <2>2. CASE k <= Len(s)  BY <1>1, <1>2, <2>2 DEF ToSet
    <2>3. CASE k > Len(s)
      <3>1. k - Len(s) \in 1 .. Len(t) /\ Len(s) + (k - Len(s)) = k  BY <1>1, <2>3
      <3>  QED  BY <1>1, <1>3, <3>1 DEF ToSet
    <2>  QED  BY <1>1, <2>2, <2>3
  <1>5. ToSet(s) \subseteq ToSet(s \o t)
    <2>1. 1 .. Len(s) \subseteq 1 .. Len(s) + Len(t)  BY <1>1
    <2>  QED  BY <1>1, <1>2, <2>1 DEF ToSet
  <1>6. ToSet(t) \subseteq ToSet(s \o t)
    <2>1. \A i \in 1 .. Len(t) : Len(s) + i \in 1 .. Len(s) + Len(t)  BY <1>1
    <2>  QED  BY <1>1, <1>3, <2>1 DEF ToSet
  <1>  QED  BY <1>4, <1>5, <1>6

LEMMA Split ==
    ASSUME NEW S, NEW s \in Seq(S), NEW n \in 1 .. Len(s)
    PROVE  LET front == SubSeq(s, 1, n)
               rest == SubSeq(s, n + 1, Len(s))
           IN  /\ front \in Seq(S) /\ rest \in Seq(S)
               /\ Len(front) = n /\ Len(rest) = Len(s) - n
               /\ \A i \in 1 .. n : front[i] = s[i]
               /\ \A i \in 1 .. Len(s) - n : rest[i] = s[n + i]
               /\ ToSet(s) = ToSet(front) \cup ToSet(rest)
  <1> DEFINE front == SubSeq(s, 1, n)
             rest == SubSeq(s, n + 1, Len(s))
  <1>1. Len(s) \in Nat /\ n \in Nat /\ n <= Len(s) /\ n >= 1  BY LenProperties
  <1>2. front \in Seq(S) /\ Len(front) = n /\ \A i \in 1 .. n : front[i] = s[i]
    <2>1. \A i \in 1 .. n : s[i] \in S  BY <1>1, ElementOfSeq
    <2>2. /\ front \in Seq(S)
          /\ Len(front) = IF 1 <= n THEN n - 1 + 1 ELSE 0
          /\ \A i \in 1 .. n - 1 + 1 : front[i] = s[1 + i - 1]
      BY <1>1, <2>1, SubSeqProperties
    <2>  QED  BY <1>1, <2>2
  <1>3. rest \in Seq(S) /\ Len(rest) = Len(s) - n /\ \A i \in 1 .. Len(s) - n : rest[i] = s[n + i]
    <2>1. \A i \in n + 1 .. Len(s) : s[i] \in S  BY <1>1, ElementOfSeq
    <2>2. /\ rest \in Seq(S)
          /\ Len(rest) = IF n + 1 <= Len(s) THEN Len(s) - (n + 1) + 1 ELSE 0
          /\ \A i \in 1 .. Len(s) - (n + 1) + 1 : rest[i] = s[(n + 1) + i - 1]
      BY <1>1, <2>1, SubSeqProperties
    <2>3. \A i \in 1 .. Len(s) - n : (n + 1) + i - 1 = n + i  BY <1>1
    <2>4. Len(s) - (n + 1) + 1 = Len(s) - n  BY <1>1
    <2>5. \A i \in 1 .. Len(s) - n : rest[i] = s[n + i]  BY <2>2, <2>3, <2>4
    <2>6. Len(rest) = Len(s) - n  BY <1>1, <2>2
    <2>  QED  BY <2>2, <2>5, <2>6
  <1>4. ToSet(s) = ToSet(front \o rest)
    <2>1. SubSeq(s, 1, n) \o SubSeq(s, n + 1, Len(s)) = SubSeq(s, 1, Len(s))
      BY <1>1, ConcatAdjacentSubSeq
    <2>  QED  BY <2>1, SubSeqFull
  <1>5. ToSet(front \o rest) = ToSet(front) \cup ToSet(rest)  BY <1>2, <1>3, ToSetConcat
  <1>  QED  BY <1>2, <1>3, <1>4, <1>5

-----------------------------------------------------------------------------
(* Paths and patterns.                                                     *)

Wild == Names \cup {"*"}

LEMMA PathsAreSeq ==
    /\ \A p \in Paths : p \in Seq(Names) /\ p \in Seq(Wild) /\ p # <<>> /\ Len(p) \in Nat \ {0}
    /\ <<>> \in Seq(Names) /\ <<>> \in Seq(Wild) /\ Len(<<>>) = 0
  <1>1. \A p \in Paths : p \in Seq(Names) /\ p # <<>>  BY PathsAssumption
  <1>2. \A p \in Paths : p \in Seq(Wild)  BY <1>1, SeqMonotonic DEF Wild
  <1>  QED  BY <1>1, <1>2, EmptySeq

LEMMA DirectoryIsNoEntry == Directory \notin Entries
  BY PathsAreSeq DEF Directory, Entries

LEMMA LinkIsNoDirectory == Link # Directory /\ Link \in Items /\ Directory \in Items
  <1>1. Link.content # Directory.content  BY DEF Link, Directory
  <1>  QED  BY <1>1 DEF Items

(* What comes before a path is one of its parents or the path itself.      *)
LEMMA PrefixIsPath ==
    ASSUME NEW p \in Paths, NEW q \in Paths \cup {<<>>}
    PROVE  IsPrefix(q, p) <=> Len(q) <= Len(p) /\ \A i \in 1 .. Len(q) : q[i] = p[i]
  <1>1. p \in Seq(Names) /\ q \in Seq(Names)  BY PathsAreSeq
  <1>2. \A s, t \in Seq(Names) :
            IsPrefix(s, t) <=> Len(s) <= Len(t) /\ \A i \in 1 .. Len(s) : s[i] = t[i]
    BY PrefixPointwise
  <1>  QED  BY <1>1, <1>2

LEMMA RootBefore == \A p \in Paths : IsPrefix(<<>>, p)
  BY PathsAreSeq, PrefixIsPath

LEMMA PrefixOfItself == \A p \in Paths : IsPrefix(p, p)
  BY PathsAreSeq, PrefixIsPath

(* A path strictly below another is one of its children or below one.      *)
LEMMA Below ==
    ASSUME NEW p \in Paths, NEW q \in Paths \cup {<<>>}, IsPrefix(q, p), p # q
    PROVE  \E c \in Children(q) : IsPrefix(c, p)
  <1> DEFINE c == SubSeq(p, 1, Len(q) + 1)
  <1>1. /\ p \in Seq(Names) /\ q \in Seq(Names) /\ Len(p) \in Nat /\ Len(q) \in Nat
        /\ Len(p) # 0
    BY PathsAreSeq
  <1>2. Len(q) <= Len(p) /\ \A i \in 1 .. Len(q) : q[i] = p[i]  BY PrefixIsPath
  <1>3. Len(q) # Len(p)  BY <1>1, <1>2, SeqEqual
  <1>4. Len(q) + 1 \in 1 .. Len(p)  BY <1>1, <1>2, <1>3
  <1>5. c \in Seq(Names) /\ Len(c) = Len(q) + 1 /\ \A i \in 1 .. Len(q) + 1 : c[i] = p[i]
    BY <1>1, <1>4, Split
  <1>6. c \in Paths
    <2>1. CASE Len(q) + 1 = Len(p)  BY <1>1, <2>1, SubSeqFull
    <2>2. CASE Len(q) + 1 # Len(p)
      <3>1. Len(q) + 1 \in 1 .. Len(p) - 1  BY <1>1, <1>4, <2>2
      <3>  QED  BY <3>1, PathsAssumption
    <2>  QED  BY <2>1, <2>2
  <1> HIDE DEF c
  <1>7. IsPrefix(c, p)
    <2>1. Len(c) <= Len(p) /\ \A i \in 1 .. Len(c) : c[i] = p[i]  BY <1>1, <1>4, <1>5
    <2>  QED  BY <1>1, <1>5, <2>1, PrefixPointwise, Zenon
  <1>8. IsPrefix(q, c)
    <2>1. \A i \in 1 .. Len(q) : i \in 1 .. Len(q) + 1  BY <1>1
    <2>2. \A i \in 1 .. Len(q) : q[i] = c[i]  BY <1>2, <1>5, <2>1
    <2>3. Len(q) <= Len(c)  BY <1>1, <1>5
    <2>  QED  BY <1>1, <1>5, <2>2, <2>3, PrefixPointwise, Zenon
  <1>9. c \in Children(q)  BY <1>5, <1>6, <1>8 DEF Children
  <1>  QED  BY <1>7, <1>9

(* An excluded directory below which no exception begins hides nothing     *)
(* that .dockerignore keeps.                                               *)
LEMMA Pruned ==
    ASSUME TypeOK, NEW p \in Paths, NEW q \in Paths,
           IsPrefix(q, p), Matches(q), ~Excepted(q), LiteralExceptions
    PROVE  Matches(p)
  <1>1. /\ p \in Seq(Wild) /\ q \in Seq(Wild)
        /\ Len(p) \in Nat /\ Len(q) \in Nat /\ Len(q) <= Len(p)
        /\ \A i \in 1 .. Len(q) : q[i] = p[i]
    BY PathsAreSeq, PrefixIsPath
  <1>2. /\ Len(patterns) \in Nat /\ DOMAIN patterns = 1 .. Len(patterns)
        /\ \A i \in DOMAIN patterns : patterns[i].dirs \in Seq(Wild)
    <2>1. patterns \in Seq(Lines)  BY DEF TypeOK
    <2>2. Len(patterns) \in Nat /\ DOMAIN patterns = 1 .. Len(patterns)  BY <2>1, LenProperties
    <2>3. \A i \in DOMAIN patterns : patterns[i] \in Lines  BY <2>1, <2>2, ElementOfSeq
    <2>4. Globs \subseteq Seq(Wild)  BY GlobsAssumption DEF Wild
    <2>  QED  BY <2>2, <2>3, <2>4 DEF Lines
  <1>3. PICK i \in DOMAIN patterns :
            /\ Hits(patterns[i], q)
            /\ ~patterns[i].exclusion
            /\ \A j \in (i + 1) .. Len(patterns) : Hits(patterns[j], q) => ~patterns[j].exclusion
    BY DEF Matches
  <1>4. Hits(patterns[i], p)
    <2>1. /\ Len(patterns[i].dirs) \in Nat
          /\ DOMAIN patterns[i].dirs = 1 .. Len(patterns[i].dirs)
      BY <1>2, LenProperties
    <2>2. \A k \in DOMAIN patterns[i].dirs : k \in 1 .. Len(q)  BY <1>1, <1>3, <2>1 DEF Hits
    <2>  QED  BY <1>1, <1>3, <2>1, <2>2 DEF Hits
  <1>5. ASSUME NEW j \in (i + 1) .. Len(patterns), Hits(patterns[j], p), patterns[j].exclusion
        PROVE  FALSE
    <2> DEFINE dirs == patterns[j].dirs
    <2>1. j \in DOMAIN patterns  BY <1>2
    <2>2. dirs \in Seq(Wild) /\ Len(dirs) \in Nat /\ DOMAIN dirs = 1 .. Len(dirs)
      BY <1>2, <2>1, LenProperties
    <2>3. Len(dirs) <= Len(p) /\ \A k \in 1 .. Len(dirs) : dirs[k] = p[k]
      BY <1>5, <2>1, <2>2 DEF Hits, LiteralExceptions
    <2>4. CASE Len(dirs) <= Len(q)
      <3>1. \A k \in 1 .. Len(dirs) : k \in 1 .. Len(q)  BY <1>1, <2>2, <2>4
      <3>2. \A k \in 1 .. Len(dirs) : dirs[k] = q[k]  BY <1>1, <2>3, <3>1
      <3>3. Hits(patterns[j], q)  BY <2>2, <2>4, <3>2 DEF Hits
      <3>  QED  BY <1>3, <1>5, <3>3
    <2>5. CASE Len(q) < Len(dirs)
      <3>1. \A k \in 1 .. Len(q) : k \in 1 .. Len(dirs)  BY <1>1, <2>2, <2>5
      <3>2. \A k \in 1 .. Len(q) : q[k] = dirs[k]  BY <1>1, <2>3, <3>1
      <3>3. Len(q) <= Len(dirs)  BY <1>1, <2>2, <2>5
      <3>4. IsPrefix(q, dirs)  BY <1>1, <2>2, <3>2, <3>3, PrefixPointwise, Zenon
      <3>  QED  BY <1>5, <2>1, <3>4 DEF Excepted
    <2>  QED  BY <1>1, <2>2, <2>4, <2>5
  <1>  QED  BY <1>3, <1>4, <1>5 DEF Matches

-----------------------------------------------------------------------------
(* The stream.                                                             *)

(* What an entry of Add is.                                                *)
LEMMA SpoiledIs ==
    ASSUME NEW p \in Paths, NEW e \in Spoiled(p)
    PROVE  /\ e \in Seq(Items)
           /\ \A i \in DOMAIN e : e[i] \in Entries /\ e[i].path = p /\ e[i] # Directory
           /\ \A x \in ToSet(e) : x.path = p
  <1>1. CASE e = <<>>
    <2>1. e \in Seq(Items) /\ Len(e) = 0  BY <1>1, EmptySeq
    <2>2. DOMAIN e = {}  BY <1>1
    <2>  QED  BY <2>1, <2>2 DEF ToSet
  <1>2. ASSUME NEW c \in {"partial", "empty"}, e = <<[path |-> p, content |-> c]>>
        PROVE  /\ e \in Seq(Items)
               /\ \A i \in DOMAIN e : e[i] \in Entries /\ e[i].path = p /\ e[i] # Directory
               /\ \A x \in ToSet(e) : x.path = p
    <2>1. [path |-> p, content |-> c] \in Entries  BY DEF Entries, Contents
    <2>2. DOMAIN e = 1 .. 1 /\ e[1] = [path |-> p, content |-> c]  BY <1>2
    <2>3. e \in Seq(Items)  BY <1>2, <2>1 DEF Items
    <2>  QED  BY <2>1, <2>2, <2>3, DirectoryIsNoEntry DEF ToSet
  <1>3. e = <<>> \/ \E c \in {"partial", "empty"} : e = <<[path |-> p, content |-> c]>>
    BY DEF Spoiled
  <1>  QED  BY <1>1, <1>2, <1>3

LEMMA AddedIs ==
    ASSUME NEW p \in Paths
    PROVE  /\ [path |-> p, content |-> Content(p)] \in Entries
           /\ [path |-> p, content |-> Content(p)] \in Items
           /\ [path |-> p, content |-> Content(p)] # Directory
  BY DirectoryIsNoEntry DEF Entries, Items, Contents, Content

LEMMA TypeStep == TypeOK /\ Next => TypeOK'
  <1> SUFFICES ASSUME TypeOK, Next PROVE TypeOK'
    OBVIOUS
  <1>1. CASE Start
    <2>1. Roots \subseteq Paths  BY DEF Roots, Children
    <2>2. <<Link>> \in Seq(Items)  BY LinkIsNoDirectory
    <2>3. buffer' \in Seq(Items)  BY <1>1, <2>2 DEF Start, TypeOK, Items
    <2>  QED  BY <1>1, <2>1, <2>3 DEF Start, TypeOK, Items
  <1>2. CASE CreateFile  BY <1>2 DEF CreateFile, TypeOK, diskVars
  <1>3. CASE Read
    <2>1. PICK n \in 1 .. Len(buffer) :
              /\ chunk' = SubSeq(buffer, 1, n)
              /\ buffer' = SubSeq(buffer, n + 1, Len(buffer))
              /\ archiver' = IF n = Len(buffer) THEN Drained ELSE archiver
      BY <1>3 DEF Read
    <2>2. chunk' \in Seq(Items) /\ buffer' \in Seq(Items)  BY <2>1, Split DEF TypeOK, Items
    <2>3. archiver' \in {"off", "walk", "write", "close", "ended"}  BY <2>1 DEF Drained, TypeOK
    <2>  QED  BY <1>3, <2>2, <2>3 DEF Read, TypeOK, diskVars, Items
  <1>4. CASE Write
    <2>1. remote \o chunk \in Seq(Items)  BY ConcatProperties DEF TypeOK, Items
    <2>2. <<>> \in Seq(Items)  BY EmptySeq
    <2>  QED  BY <1>4, <2>1, <2>2 DEF Write, TypeOK, diskVars, Items
  <1>5. CASE ReadEOF  BY <1>5 DEF ReadEOF, TypeOK, diskVars
  <1>6. CASE EndWalk
    <2>1. Directory \in Items  BY DEF Items
    <2>2. Append(buffer, Directory) \in Seq(Items)  BY <2>1, AppendProperties DEF TypeOK, Items
    <2>  QED  BY <1>6, <2>2 DEF EndWalk, walkFrame, TypeOK, Items
  <1>7. ASSUME NEW p \in todo, Unlisted(p) \/ Mismatch(p) PROVE TypeOK'
    BY <1>7 DEF Unlisted, Mismatch, Visiting, walkFrame, TypeOK
  <1>8. ASSUME NEW p \in todo, Exclude(p) PROVE TypeOK'
    <2>1. Children(p) \subseteq Paths  BY DEF Children
    <2>  QED  BY <1>8, <2>1 DEF Exclude, Visiting, walkFrame, TypeOK
  <1>9. ASSUME NEW p \in todo, Add(p) PROVE TypeOK'
    <2>1. Children(p) \subseteq Paths /\ p \in Paths  BY DEF Children, TypeOK
    <2>2. Append(buffer, [path |-> p, content |-> Content(p)]) \in Seq(Items)
      BY <2>1, AddedIs, AppendProperties DEF TypeOK, Items
    <2>3. \A e \in Spoiled(p) : buffer \o e \in Seq(Items)
      BY <2>1, SpoiledIs, ConcatProperties DEF TypeOK, Items
    <2>4. buffer' \in Seq(Items)  BY <1>9, <2>2, <2>3 DEF Add
    <2>5. todo' \subseteq Paths /\ damaged' \subseteq Paths \cup {<<>>}
      BY <1>9, <2>1 DEF Add, TypeOK
    <2>  QED  BY <1>9, <2>4, <2>5 DEF Add, walkFrame, TypeOK, Items
  <1>  QED  BY <1>1, <1>2, <1>3, <1>4, <1>5, <1>6, <1>7, <1>8, <1>9 DEF Next, Archiver, Copy

(* What the buffer loses is in the chunk,                                  *)
(* and what the chunk loses is written unless Copy fails.                  *)
LEMMA StreamOfRead ==
    ASSUME TypeOK, DirectoryLast, Read PROVE Stream' = Stream
  <1>1. PICK n \in 1 .. Len(buffer) :
            /\ chunk' = SubSeq(buffer, 1, n)
            /\ buffer' = SubSeq(buffer, n + 1, Len(buffer))
    BY DEF Read
  <1>2. ToSet(buffer) = ToSet(chunk') \cup ToSet(buffer')  BY <1>1, Split DEF TypeOK
  <1>3. chunk = <<>> /\ remote' = remote  BY DEF Read, DirectoryLast
  <1>4. ToSet(chunk) = {}  BY <1>3 DEF ToSet
  <1>  QED  BY <1>2, <1>3, <1>4 DEF Stream, Shipped

LEMMA StreamOfWrite ==
    ASSUME TypeOK, Write PROVE Stream' = Stream \/ (copy' = "failed" /\ Stream' \subseteq Stream)
  <1>1. chunk' = <<>> /\ buffer' = buffer  BY DEF Write
  <1>2. ToSet(chunk') = {} /\ ToSet(buffer') = ToSet(buffer)  BY <1>1 DEF ToSet
  <1>3. CASE remote' = remote \o chunk
    <2>1. ToSet(remote') = ToSet(remote) \cup ToSet(chunk)  BY <1>3, ToSetConcat DEF TypeOK
    <2>  QED  BY <1>2, <2>1 DEF Stream, Shipped
  <1>4. CASE remote' = remote /\ copy' = "failed"
    <2>1. ToSet(remote') = ToSet(remote)  BY <1>4
    <2>  QED  BY <1>2, <1>4, <2>1 DEF Stream, Shipped
  <1>  QED  BY <1>3, <1>4 DEF Write

LEMMA StreamOfAdd ==
    ASSUME TypeOK, NEW p \in todo, Add(p)
    PROVE  /\ Stream \subseteq Stream'
           /\ \A x \in Stream' : x \in Stream \/ x.path = p
           /\ [path |-> p, content |-> Content(p)] \in Stream' \/ p \in damaged'
  <1>1. p \in Paths /\ chunk' = chunk /\ remote' = remote  BY DEF Add, walkFrame, TypeOK
  <1>2. ToSet(chunk') = ToSet(chunk) /\ ToSet(remote') = ToSet(remote)  BY <1>1
  <1>3. CASE buffer' = Append(buffer, [path |-> p, content |-> Content(p)])
    <2> DEFINE x == [path |-> p, content |-> Content(p)]
    <2>1. x \in Items /\ buffer \in Seq(Items)  BY <1>1, AddedIs DEF TypeOK, Items
    <2>2. ToSet(buffer') = ToSet(buffer) \cup {x}
      <3> HIDE DEF x
      <3>  QED  BY <1>3, <2>1, ToSetAppend DEF x
    <2>3. x.path = p  OBVIOUS
    <2>  QED  BY <1>2, <2>2, <2>3 DEF Stream, Shipped
  <1>4. ASSUME NEW e \in Spoiled(p), buffer' = buffer \o e, damaged' = damaged \cup {p}
        PROVE  /\ Stream \subseteq Stream'
               /\ \A x \in Stream' : x \in Stream \/ x.path = p
               /\ p \in damaged'
    <2>1. e \in Seq(Items)  BY <1>1, SpoiledIs
    <2>2. ToSet(buffer') = ToSet(buffer) \cup ToSet(e)  BY <1>4, <2>1, ToSetConcat DEF TypeOK, Items
    <2>3. \A x \in ToSet(e) : x.path = p  BY <1>1, SpoiledIs
    <2>  QED  BY <1>2, <1>4, <2>2, <2>3 DEF Stream, Shipped
  <1>  QED  BY <1>3, <1>4 DEF Add

LEMMA StreamOfEndWalk ==
    ASSUME TypeOK, EndWalk PROVE Stream' = Stream \cup {Directory}
  <1>1. ToSet(buffer') = ToSet(buffer) \cup {Directory}  BY ToSetAppend DEF EndWalk, TypeOK
  <1>2. ToSet(chunk') = ToSet(chunk) /\ ToSet(remote') = ToSet(remote)  BY DEF EndWalk, walkFrame
  <1>  QED  BY <1>1, <1>2 DEF Stream, Shipped

LEMMA StreamOfOthers ==
    ASSUME UNCHANGED <<buffer, chunk, remote>> PROVE Stream' = Stream
  BY DEF Stream, Shipped

-----------------------------------------------------------------------------
(* The parts of the invariant.                                             *)

LEMMA MatchesStays ==
    ASSUME UNCHANGED patterns
    PROVE  /\ \A p : Matches(p)' <=> Matches(p)
           /\ Kept' = Kept
           /\ Compiles' <=> Compiles
           /\ LiteralExceptions' <=> LiteralExceptions
  BY DEF Matches, Hits, Kept, Compiles, LiteralExceptions

LEMMA PatternsStay == Next => UNCHANGED <<patterns, linked>>
  BY DEF Next, Archiver, Copy, Start, CreateFile, Read, Write, ReadEOF, EndWalk,
         Unlisted, Mismatch, Exclude, Add, walkFrame, diskVars

LEMMA OnlyKeptStep == TypeOK /\ OnlyKept /\ DirectoryLast /\ CopyInStep /\ Next => OnlyKept'
  <1> SUFFICES ASSUME TypeOK, OnlyKept, DirectoryLast, CopyInStep, Next PROVE OnlyKept'
    OBVIOUS
  <1>1. Kept' = Kept /\ linked' = linked  BY PatternsStay, MatchesStays
  <1>2. CASE Stream' \subseteq Stream \cup {Directory}  BY <1>1, <1>2 DEF OnlyKept
  <1>3. ASSUME NEW p \in todo, Add(p) PROVE OnlyKept'
    <2>1. \A x \in Stream' : x \in Stream \/ x.path = p  BY <1>3, StreamOfAdd
    <2>2. p \in Kept /\ ~linked  BY <1>3 DEF Add, Kept, TypeOK, CopyInStep
    <2>  QED  BY <1>1, <2>1, <2>2 DEF OnlyKept
  <1>8. CASE Start
    <2>1. /\ UNCHANGED <<chunk, remote>>
          /\ ~linked => buffer' = buffer
          /\ buffer' = buffer \/ buffer' = <<Link>>
      BY <1>8 DEF Start
    <2>2. CASE buffer' = buffer  BY <1>2, <2>1, <2>2, StreamOfOthers
    <2>3. CASE linked /\ buffer' = <<Link>>
      <3>1. ToSet(buffer') = {Link}  BY <2>3 DEF ToSet
      <3>2. Stream' \subseteq Stream \cup {Link}  BY <2>1, <3>1 DEF Stream, Shipped
      <3>  QED  BY <1>1, <2>3, <3>2 DEF OnlyKept
    <2>  QED  BY <2>1, <2>2, <2>3
  <1>4. CASE CreateFile \/ ReadEOF \/ \E p \in todo : Unlisted(p) \/ Mismatch(p) \/ Exclude(p)
    <2>1. UNCHANGED <<buffer, chunk, remote>>
      BY <1>4 DEF CreateFile, ReadEOF, Unlisted, Mismatch, Exclude, walkFrame
    <2>  QED  BY <1>2, <2>1, StreamOfOthers
  <1>5. CASE Read  BY <1>2, <1>5, StreamOfRead
  <1>6. CASE Write  BY <1>2, <1>6, StreamOfWrite
  <1>7. CASE EndWalk  BY <1>2, <1>7, StreamOfEndWalk
  <1>  QED  BY <1>3, <1>4, <1>5, <1>6, <1>7, <1>8 DEF Next, Archiver, Copy

(* p has been produced or is to be visited.                                *)
Covered(p) ==
    [path |-> p, content |-> Content(p)] \in Stream \/ \E q \in todo : IsPrefix(q, p)

LEMMA FrontierStep == TypeOK /\ Frontier /\ DirectoryLast /\ Next => Frontier'
  <1> SUFFICES ASSUME TypeOK, Frontier, DirectoryLast, Next,
                      ~linked', copy' # "failed", archiver' # "off", Compiles', LiteralExceptions',
                      NEW p \in Kept', Readable(p)'
               PROVE  Covered(p)'
    BY DEF Frontier, Covered
  <1>1. ~linked /\ Compiles /\ LiteralExceptions /\ p \in Kept /\ p \in Paths /\ ~Matches(p)
    BY PatternsStay, MatchesStays DEF Kept
  <1>2. ASSUME copy # "failed", archiver # "off", damaged \subseteq damaged' PROVE Covered(p)
    <2>1. Readable(p)  BY <1>2 DEF Readable
    <2>  QED  BY <1>1, <1>2, <2>1 DEF Frontier, Covered
  <1>3. ASSUME copy # "failed", archiver # "off", damaged \subseteq damaged',
               Stream \subseteq Stream', todo' = todo
        PROVE  Covered(p)'
    BY <1>2, <1>3 DEF Covered
  <1>4. CASE Start
    <2>1. CASE todo' = Roots
      <3>1. \E c \in Roots : IsPrefix(c, p)
        BY <1>1, Below, RootBefore, PathsAreSeq DEF Roots
      <3>  QED  BY <2>1, <3>1 DEF Covered
    <2>2. CASE damaged' = {<<>>}  BY <1>1, <2>2, RootBefore DEF Readable
    <2>  QED  BY <1>1, <1>4, <2>1, <2>2 DEF Start
  <1>5. CASE CreateFile \/ ReadEOF
    <2>1. UNCHANGED <<buffer, chunk, remote, archiver, todo, damaged>> /\ copy # "failed"
      BY <1>5 DEF CreateFile, ReadEOF, diskVars
    <2>  QED  BY <1>3, <2>1, StreamOfOthers
  <1>6. CASE Read
    <2>1. UNCHANGED <<todo, damaged>> /\ copy # "failed" /\ archiver # "off"
      BY <1>6 DEF Read, diskVars
    <2>  QED  BY <1>3, <1>6, <2>1, StreamOfRead
  <1>7. CASE Write
    <2>1. UNCHANGED <<todo, damaged, archiver>> /\ copy # "failed"
      BY <1>7 DEF Write, diskVars
    <2>2. Stream' = Stream  BY <1>7, StreamOfWrite
    <2>  QED  BY <1>3, <2>1, <2>2
  <1>8. CASE EndWalk
    <2>1. UNCHANGED <<todo, damaged, copy>> /\ archiver # "off"
      BY <1>8 DEF EndWalk, walkFrame
    <2>  QED  BY <1>3, <1>8, <2>1, StreamOfEndWalk
  <1>9. ASSUME NEW q \in todo, Unlisted(q) PROVE Covered(p)'
    <2>1. /\ UNCHANGED <<buffer, chunk, remote, archiver, copy>> /\ archiver # "off"
          /\ todo' = todo \ {q} /\ damaged' = damaged \cup {q}
      BY <1>9 DEF Unlisted, Visiting, walkFrame
    <2>2. Covered(p)  BY <1>2, <2>1
    <2>3. ~IsPrefix(q, p)  BY <2>1 DEF Readable
    <2>  QED  BY <2>1, <2>2, <2>3, StreamOfOthers DEF Covered
  <1>10. ASSUME NEW q \in todo, Mismatch(q) PROVE Covered(p)'
    BY <1>1, <1>10 DEF Mismatch
  <1>11. ASSUME NEW q \in todo, Exclude(q) PROVE Covered(p)'
    <2>1. /\ UNCHANGED <<buffer, chunk, remote, archiver, copy, damaged>> /\ archiver # "off"
          /\ todo' = (todo \ {q}) \cup (IF Excepted(q) THEN Children(q) ELSE {})
          /\ Matches(q) /\ q \in Paths
      BY <1>11 DEF Exclude, Visiting, walkFrame, TypeOK
    <2>2. Covered(p)  BY <1>2, <2>1
    <2>3. ASSUME IsPrefix(q, p) PROVE \E c \in Children(q) : IsPrefix(c, p) /\ Excepted(q)
      <3>1. p # q  BY <1>1, <2>1
      <3>2. Excepted(q)  BY <1>1, <2>1, <2>3, Pruned
      <3>  QED  BY <1>1, <2>1, <2>3, <3>1, <3>2, Below
    <2>  QED  BY <2>1, <2>2, <2>3, StreamOfOthers DEF Covered
  <1>12. ASSUME NEW q \in todo, Add(q) PROVE Covered(p)'
    <2>1. /\ copy' = copy /\ archiver # "off" /\ damaged \subseteq damaged'
          /\ todo' = (todo \ {q}) \cup Children(q) /\ q \in Paths
      BY <1>12 DEF Add, Visiting, walkFrame, TypeOK
    <2>2. Covered(p)  BY <1>2, <2>1
    <2>3. Stream \subseteq Stream'  BY <1>12, StreamOfAdd
    <2>4. CASE p = q
      <3>1. q \notin damaged'  BY <1>1, <2>4, PrefixOfItself DEF Readable
      <3>  QED  BY <1>12, <2>4, <3>1, StreamOfAdd DEF Covered, Content
    <2>5. CASE IsPrefix(q, p) /\ p # q
      <3>1. \E c \in Children(q) : IsPrefix(c, p)  BY <1>1, <2>1, <2>5, Below
      <3>  QED  BY <2>1, <3>1 DEF Covered
    <2>6. CASE ~IsPrefix(q, p)  BY <2>1, <2>2, <2>3, <2>6 DEF Covered, Content
    <2>  QED  BY <2>4, <2>5, <2>6
  <1>  QED  BY <1>4, <1>5, <1>6, <1>7, <1>8, <1>9, <1>10, <1>11, <1>12 DEF Next, Archiver, Copy

-----------------------------------------------------------------------------
(* Where the directory is.                                                 *)

LEMMA EndsEmpty == \A b \in BOOLEAN : EndsIn(<<>>, b)
  BY DEF EndsIn

LEMMA EndsInDirectory ==
    ASSUME NEW s \in Seq(Items), EndsIn(s, FALSE)
    PROVE  EndsIn(Append(s, Directory), TRUE)
  <1>1. Directory \in Items  BY DEF Items
  <1>2. /\ Len(Append(s, Directory)) = Len(s) + 1
        /\ DOMAIN Append(s, Directory) = 1 .. Len(s) + 1
        /\ \A i \in 1 .. Len(s) : Append(s, Directory)[i] = s[i]
        /\ Append(s, Directory)[Len(s) + 1] = Directory
    BY <1>1, AppendProperties, LenProperties
  <1>3. Len(s) \in Nat /\ DOMAIN s = 1 .. Len(s)  BY LenProperties
  <1>  QED  BY <1>2, <1>3 DEF EndsIn

LEMMA EndsConcat ==
    ASSUME NEW s \in Seq(Items), NEW t \in Seq(Items), NEW b \in BOOLEAN,
           EndsIn(s, FALSE), EndsIn(t, b), b => t # <<>>
    PROVE  EndsIn(s \o t, b)
  <1>1. /\ Len(s) \in Nat /\ DOMAIN s = 1 .. Len(s)
        /\ Len(t) \in Nat /\ DOMAIN t = 1 .. Len(t)
        /\ b => Len(t) # 0
        /\ Len(s \o t) = Len(s) + Len(t) /\ DOMAIN (s \o t) = 1 .. Len(s) + Len(t)
    BY ConcatProperties, LenProperties, EmptySeq
  <1>2. \A i \in 1 .. Len(s) + Len(t) : (s \o t)[i] = IF i <= Len(s) THEN s[i] ELSE t[i - Len(s)]
    BY ConcatProperties
  <1>3. SUFFICES ASSUME NEW i \in 1 .. Len(s) + Len(t)
                 PROVE  (s \o t)[i] = Directory <=> b /\ i = Len(s) + Len(t)
    BY <1>1 DEF EndsIn
  <1>4. CASE i <= Len(s)
    <2>1. i \in DOMAIN s /\ (s \o t)[i] = s[i]  BY <1>1, <1>2, <1>4
    <2>2. s[i] # Directory  BY <2>1 DEF EndsIn
    <2>  QED  BY <1>1, <1>4, <2>1, <2>2
  <1>5. CASE i > Len(s)
    <2>1. i - Len(s) \in DOMAIN t /\ (s \o t)[i] = t[i - Len(s)]  BY <1>1, <1>2, <1>5
    <2>2. t[i - Len(s)] = Directory <=> b /\ i - Len(s) = Len(t)  BY <2>1 DEF EndsIn
    <2>  QED  BY <1>1, <2>1, <2>2
  <1>  QED  BY <1>1, <1>4, <1>5

(* Positions in the two parts of a sequence.                               *)
LEMMA Places ==
    ASSUME NEW k \in Nat, NEW n \in 1 .. k
    PROVE  /\ \A i \in 1 .. n : i \in 1 .. k /\ (i = k => n = k /\ i = n)
           /\ \A i \in 1 .. k - n : n + i \in 1 .. k /\ (n + i = k => i = k - n)
                                  /\ (i = k - n => n + i = k)
  OBVIOUS

LEMMA EndsSplit ==
    ASSUME NEW s \in Seq(Items), NEW b \in BOOLEAN, EndsIn(s, b), NEW n \in 1 .. Len(s)
    PROVE  /\ EndsIn(SubSeq(s, 1, n), b /\ n = Len(s))
           /\ EndsIn(SubSeq(s, n + 1, Len(s)), b)
  <1> DEFINE front == SubSeq(s, 1, n)
             rest == SubSeq(s, n + 1, Len(s))
  <1>1. /\ Len(s) \in Nat /\ n \in Nat /\ n >= 1 /\ n <= Len(s) /\ DOMAIN s = 1 .. Len(s)
    BY LenProperties
  <1>2. /\ front \in Seq(Items) /\ rest \in Seq(Items)
        /\ Len(front) = n /\ Len(rest) = Len(s) - n
        /\ \A i \in 1 .. n : front[i] = s[i]
        /\ \A i \in 1 .. Len(s) - n : rest[i] = s[n + i]
    BY Split
  <1> HIDE DEF front, rest
  <1>3. DOMAIN front = 1 .. n /\ DOMAIN rest = 1 .. Len(s) - n  BY <1>2, LenProperties
  <1>4. EndsIn(front, b /\ n = Len(s))
    <2>1. SUFFICES ASSUME NEW i \in 1 .. n PROVE front[i] = Directory <=> b /\ n = Len(s) /\ i = n
      BY <1>2, <1>3 DEF EndsIn
    <2>2. i \in DOMAIN s  BY <1>1
    <2>3. s[i] = Directory <=> b /\ i = Len(s)  BY <2>2 DEF EndsIn
    <2>4. front[i] = s[i]  BY <1>2
    <2>5. i = Len(s) => n = Len(s) /\ i = n  BY <1>1, Places
    <2>6. n = Len(s) /\ i = n => i = Len(s)  OBVIOUS
    <2>  QED  BY <2>3, <2>4, <2>5, <2>6, Zenon
  <1>5. EndsIn(rest, b)
    <2>1. SUFFICES ASSUME NEW i \in 1 .. Len(s) - n PROVE rest[i] = Directory <=> b /\ i = Len(s) - n
      BY <1>2, <1>3 DEF EndsIn
    <2>2. n + i \in DOMAIN s  BY <1>1
    <2>3. s[n + i] = Directory <=> b /\ n + i = Len(s)  BY <2>2 DEF EndsIn
    <2>4. rest[i] = s[n + i]  BY <1>2
    <2>5. n + i = Len(s) => i = Len(s) - n  BY <1>1, Places
    <2>6. i = Len(s) - n => n + i = Len(s)  BY <1>1, Places
    <2>  QED  BY <2>3, <2>4, <2>5, <2>6, Zenon
  <1>  QED  BY <1>4, <1>5 DEF front, rest

LEMMA DirectoryLastStep == TypeOK /\ DirectoryLast /\ CopyInStep /\ Next => DirectoryLast'
  <1> SUFFICES ASSUME TypeOK, DirectoryLast, CopyInStep, Next PROVE DirectoryLast'
    OBVIOUS
  <1>1. buffer \in Seq(Items) /\ chunk \in Seq(Items) /\ remote \in Seq(Items)
    BY DEF TypeOK, Items
  <1>2. CASE Start
    <2>1. /\ UNCHANGED <<chunk, remote>> /\ archiver = "off" /\ copy = "prepare"
          /\ archiver' \in {"off", "walk"} /\ copy' \in {"failed", "create"}
          /\ buffer' = buffer \/ buffer' = <<Link>>
      BY <1>2 DEF Start, CopyInStep
    <2>2. \A i \in DOMAIN <<Link>> : <<Link>>[i] # Directory  BY LinkIsNoDirectory
    <2>3. EndsIn(<<Link>>, FALSE)  BY <2>2 DEF EndsIn
    <2>4. EndsIn(buffer, FALSE)  BY <2>1 DEF DirectoryLast, EndsIn
    <2>5. EndsIn(buffer', FALSE)  BY <2>1, <2>3, <2>4 DEF EndsIn
    <2>  QED  BY <2>1, <2>5 DEF DirectoryLast, EndsIn
  <1>3. CASE CreateFile
    <2>1. /\ UNCHANGED <<archiver, todo, buffer, chunk, remote>> /\ archiver # "ended"
          /\ copy = "create" /\ copy' \in {"read", "failed"}
      BY <1>3 DEF CreateFile, CopyInStep, diskVars
    <2>  QED  BY <2>1 DEF DirectoryLast, EndsIn
  <1>4. CASE Read
    <2>1. PICK n \in 1 .. Len(buffer) :
              /\ chunk' = SubSeq(buffer, 1, n)
              /\ buffer' = SubSeq(buffer, n + 1, Len(buffer))
              /\ archiver' = IF n = Len(buffer) THEN Drained ELSE archiver
      BY <1>4 DEF Read
    <2>2. /\ UNCHANGED <<todo, remote>> /\ copy = "read" /\ copy' = "write"
          /\ archiver \in {"write", "close"}
      BY <1>4 DEF Read, diskVars
    <2>3. /\ EndsIn(chunk', archiver = "close" /\ n = Len(buffer))
          /\ EndsIn(buffer', archiver = "close")
      <3>1. EndsIn(buffer, archiver = "close")  BY DEF DirectoryLast
      <3>2. (archiver = "close") \in BOOLEAN  OBVIOUS
      <3>  QED  BY <1>1, <2>1, <3>1, <3>2, EndsSplit
    <2>4. /\ Len(chunk') = n /\ Len(buffer') = Len(buffer) - n
          /\ chunk' \in Seq(Items) /\ buffer' \in Seq(Items)
      BY <1>1, <2>1, Split
    <2>5. Len(buffer) \in Nat /\ n \in Nat /\ n >= 1 /\ n <= Len(buffer)  BY <1>1, LenProperties
    <2>6. chunk' # <<>> /\ (n # Len(buffer) => buffer' # <<>>)
      BY <2>4, <2>5, EmptySeq
    <2>7. n = Len(buffer) => buffer' = <<>>
      BY <2>1, <2>5, SubSeqEmpty
    <2>8. EndsIn(remote', FALSE)  BY <2>2 DEF DirectoryLast, EndsIn
    <2>9. CASE n # Len(buffer)
      <3>1. archiver' = archiver  BY <2>1, <2>9
      <3>  QED  BY <2>2, <2>3, <2>6, <2>8, <2>9, <3>1 DEF DirectoryLast, EndsIn
    <2>10. CASE n = Len(buffer) /\ archiver = "close"
      <3>1. archiver' = "ended"  BY <2>1, <2>10 DEF Drained
      <3>2. todo' = {}  BY <2>2, <2>10 DEF DirectoryLast
      <3>3. EndsIn(buffer', FALSE)  BY <2>7, <2>10, EndsEmpty
      <3>  QED  BY <2>2, <2>3, <2>6, <2>7, <2>8, <2>10, <3>1, <3>2, <3>3 DEF DirectoryLast, EndsIn
    <2>11. CASE n = Len(buffer) /\ archiver = "write"
      <3>1. archiver' = "walk"  BY <2>1, <2>11 DEF Drained
      <3>  QED  BY <2>2, <2>3, <2>6, <2>8, <2>11, <3>1 DEF DirectoryLast, EndsIn
    <2>  QED  BY <2>2, <2>9, <2>10, <2>11
  <1>5. CASE Write
    <2>1. /\ UNCHANGED <<archiver, todo, buffer>> /\ copy = "write" /\ chunk' = <<>>
      BY <1>5 DEF Write, diskVars
    <2>2. EndsIn(remote, FALSE) /\ EndsIn(chunk, archiver = "ended") /\ chunk # <<>>
      BY <2>1 DEF DirectoryLast, EndsIn
    <2>3. EndsIn(chunk', archiver' = "ended")  BY <2>1, EndsEmpty
    <2>4. CASE remote' = remote \o chunk /\ copy' = "read"
      <3>1. (archiver = "ended") \in BOOLEAN  OBVIOUS
      <3>2. EndsIn(remote', archiver = "ended")  BY <1>1, <2>2, <2>4, <3>1, EndsConcat
      <3>3. remote' # <<>>  BY <1>1, <2>2, <2>4, ConcatEqualIffEmpty
      <3>  QED  BY <2>1, <2>2, <2>3, <2>4, <3>2, <3>3 DEF DirectoryLast, EndsIn
    <2>5. CASE remote' = remote /\ copy' = "failed"
      BY <2>1, <2>2, <2>3, <2>5 DEF DirectoryLast, EndsIn
    <2>  QED  BY <1>5, <2>4, <2>5 DEF Write
  <1>6. CASE ReadEOF
    <2>1. /\ UNCHANGED <<archiver, todo, buffer, chunk, remote>> /\ archiver = "ended"
          /\ copy = "read" /\ copy' = "ok"
      BY <1>6 DEF ReadEOF, diskVars
    <2>  QED  BY <2>1 DEF DirectoryLast, EndsIn
  <1>7. CASE EndWalk
    <2>1. /\ UNCHANGED <<todo, chunk, remote, copy>> /\ archiver = "walk" /\ archiver' = "close"
          /\ todo = {} /\ buffer' = Append(buffer, Directory)
      BY <1>7 DEF EndWalk, walkFrame
    <2>2. EndsIn(buffer, FALSE)  BY <2>1 DEF DirectoryLast, EndsIn
    <2>3. EndsIn(buffer', TRUE)  BY <1>1, <2>1, <2>2, EndsInDirectory
    <2>4. buffer' # <<>>
      <3>1. Directory \in Items  BY DEF Items
      <3>  QED  BY <1>1, <2>1, <3>1, AppendProperties
    <2>  QED  BY <2>1, <2>3, <2>4 DEF DirectoryLast, EndsIn
  <1>8. ASSUME NEW p \in todo, Unlisted(p) \/ Mismatch(p) \/ Exclude(p) PROVE DirectoryLast'
    <2>1. UNCHANGED <<archiver, buffer, chunk, remote, copy>> /\ archiver = "walk"
      BY <1>8 DEF Unlisted, Mismatch, Exclude, Visiting, walkFrame
    <2>  QED  BY <2>1 DEF DirectoryLast, EndsIn
  <1>9. ASSUME NEW p \in todo, Add(p) PROVE DirectoryLast'
    <2>1. /\ UNCHANGED <<chunk, remote, copy>> /\ archiver = "walk"
          /\ archiver' \in {"walk", "write"} /\ p \in Paths
      BY <1>9 DEF Add, Visiting, walkFrame, TypeOK
    <2>2. EndsIn(buffer, FALSE)  BY <2>1 DEF DirectoryLast, EndsIn
    <2>3. EndsIn(buffer', FALSE)
      <3>1. ASSUME NEW e \in Seq(Items), \A i \in DOMAIN e : e[i] # Directory, buffer' = buffer \o e
            PROVE  EndsIn(buffer', FALSE)
        <4>1. EndsIn(e, FALSE)  BY <3>1 DEF EndsIn
        <4>  QED  BY <1>1, <2>2, <3>1, <4>1, EndsConcat
      <3>2. CASE buffer' = Append(buffer, [path |-> p, content |-> Content(p)])
        <4> DEFINE x == [path |-> p, content |-> Content(p)]
        <4>1. x \in Items /\ x # Directory  BY <2>1, AddedIs
        <4> HIDE DEF x
        <4>2. buffer' = buffer \o <<x>>  BY <1>1, <3>2, <4>1, AppendIsConcat DEF x
        <4>3. <<x>> \in Seq(Items)  BY <4>1
        <4>4. \A i \in DOMAIN <<x>> : <<x>>[i] = x  OBVIOUS
        <4>5. \A i \in DOMAIN <<x>> : <<x>>[i] # Directory  BY <4>1, <4>4, Zenon
        <4>6. EndsIn(<<x>>, FALSE)  BY <4>5 DEF EndsIn
        <4>  QED  BY <1>1, <2>2, <4>2, <4>3, <4>6, EndsConcat
      <3>3. CASE \E e \in Spoiled(p) : buffer' = buffer \o e
        <4>1. PICK e \in Spoiled(p) : buffer' = buffer \o e  BY <3>3
        <4>2. e \in Seq(Items) /\ \A i \in DOMAIN e : e[i] # Directory  BY <2>1, SpoiledIs
        <4>  QED  BY <3>1, <4>1, <4>2
      <3>  QED  BY <1>9, <3>2, <3>3 DEF Add
    <2>  QED  BY <2>1, <2>3 DEF DirectoryLast, EndsIn
  <1>  QED  BY <1>2, <1>3, <1>4, <1>5, <1>6, <1>7, <1>8, <1>9 DEF Next, Archiver, Copy

LEMMA CopyInStepStep == DirectoryLast /\ CopyInStep /\ Next => CopyInStep'
  <1> SUFFICES ASSUME DirectoryLast, CopyInStep, Next PROVE CopyInStep'
    OBVIOUS
  <1>1. CASE Copy
    BY <1>1 DEF Copy, Start, CreateFile, Read, Drained, Write, ReadEOF, diskVars, CopyInStep, DirectoryLast
  <1>2. CASE EndWalk  BY <1>2 DEF EndWalk, walkFrame, CopyInStep
  <1>3. ASSUME NEW p \in todo, Unlisted(p) \/ Mismatch(p) \/ Exclude(p) \/ Add(p) PROVE CopyInStep'
    <2>1. /\ UNCHANGED <<remote, copy, linked>>
          /\ archiver = "walk" /\ archiver' \in {"walk", "write"}
      BY <1>3 DEF Unlisted, Mismatch, Exclude, Add, Visiting, walkFrame
    <2>2. ~linked  BY DEF CopyInStep
    <2>  QED  BY <2>1, <2>2 DEF CopyInStep
  <1>  QED  BY <1>1, <1>2, <1>3 DEF Next, Archiver

-----------------------------------------------------------------------------
(* The Dockerfile.                                                         *)

EmptyFile == [lines |-> <<>>, ended |-> TRUE]

(* Lines lie one behind the other, and each of them begins within the      *)
(* file, which ends with the last one or just before its newline.          *)
LEMMA LinesLaid ==
    ASSUME NEW f \in Dockerfiles
    PROVE  /\ Len(f.lines) \in Nat /\ Total(f) \in Nat
           /\ \A i \in 1 .. Len(f.lines) + 1 : Begin(f, i) \in Nat
           /\ \A i \in 1 .. Len(f.lines) :
                 LengthOf(f, i) \in Nat /\ Begin(f, i) + LengthOf(f, i) + 1 = Begin(f, i + 1)
           /\ \A i \in 1 .. Len(f.lines) : Begin(f, i) < Total(f)
           /\ Total(f) <= Begin(f, Len(f.lines) + 1) /\ Begin(f, Len(f.lines) + 1) <= Total(f) + 1
  <1> DEFINE n == Len(f.lines)
             e(i) == f.lines[i].end
  <1>1. /\ f.lines \in Seq([end : Nat \ {0}, agrees : BOOLEAN]) /\ f.ended \in BOOLEAN
        /\ \A i, j \in DOMAIN f.lines : i < j => f.lines[i].end < f.lines[j].end
        /\ ~f.ended => f.lines # <<>> /\ LengthOf(f, Len(f.lines)) > 0
    BY DockerfilesAssumption
  <1>2. n \in Nat /\ DOMAIN f.lines = 1 .. n  BY <1>1, LenProperties
  <1>3. \A i \in 1 .. n : e(i) \in Nat /\ e(i) > 0
    <2>1. \A i \in 1 .. n : f.lines[i] \in [end : Nat \ {0}, agrees : BOOLEAN]
      BY <1>1, <1>2, ElementOfSeq
    <2>  QED  BY <2>1
  <1>4. \A i, j \in 1 .. n : i < j => e(i) < e(j)  BY <1>1, <1>2
  <1>5. ~f.ended => n > 0 /\ LengthOf(f, n) > 0
    <2>1. n = 0 => f.lines = <<>>  BY <1>1, EmptySeq
    <2>  QED  BY <1>1, <1>2, <2>1
  <1>6. Begin(f, 1) = 0 /\ \A i \in 1 .. n : Begin(f, i + 1) = e(i)
    <2>1. SUFFICES ASSUME NEW i \in 1 .. n PROVE Begin(f, i + 1) = e(i)  BY DEF Begin
    <2>2. i + 1 # 1 /\ (i + 1) - 1 = i  BY <1>2
    <2>  QED  BY <2>2 DEF Begin
  <1>7. \A i \in 1 .. n : LengthOf(f, i) = e(i) - Begin(f, i) - 1  BY DEF LengthOf
  <1>8. Total(f) = Begin(f, n + 1) - IF f.ended THEN 0 ELSE 1  BY DEF Total
  <1> HIDE DEF n, e
  <1>9. \A i \in 1 .. n + 1 : Begin(f, i) \in Nat
    <2>1. SUFFICES ASSUME NEW i \in 1 .. n + 1 PROVE Begin(f, i) \in Nat  OBVIOUS
    <2>2. i = 1 \/ (i - 1 \in 1 .. n /\ (i - 1) + 1 = i)  BY <1>2
    <2>3. CASE i = 1  BY <1>6, <2>3
    <2>4. CASE i - 1 \in 1 .. n /\ (i - 1) + 1 = i
      <3>1. Begin(f, (i - 1) + 1) = e(i - 1)  BY <1>6, <2>4
      <3>  QED  BY <1>3, <2>4, <3>1
    <2>  QED  BY <2>2, <2>3, <2>4
  <1>10. \A i \in 1 .. n : Begin(f, i) < e(i)
    <2>1. SUFFICES ASSUME NEW i \in 1 .. n PROVE Begin(f, i) < e(i)  OBVIOUS
    <2>2. i = 1 \/ (i - 1 \in 1 .. n /\ (i - 1) + 1 = i /\ i - 1 < i)  BY <1>2
    <2>3. CASE i = 1  BY <1>3, <1>6, <2>3
    <2>4. CASE i - 1 \in 1 .. n /\ (i - 1) + 1 = i /\ i - 1 < i
      <3>1. Begin(f, (i - 1) + 1) = e(i - 1)  BY <1>6, <2>4
      <3>  QED  BY <1>4, <2>4, <3>1
    <2>  QED  BY <2>2, <2>3, <2>4
  <1>11. \A i \in 1 .. n :
            LengthOf(f, i) \in Nat /\ Begin(f, i) + LengthOf(f, i) + 1 = Begin(f, i + 1)
    <2>1. SUFFICES ASSUME NEW i \in 1 .. n
                   PROVE  LengthOf(f, i) \in Nat /\ Begin(f, i) + LengthOf(f, i) + 1 = Begin(f, i + 1)
      OBVIOUS
    <2>2. i \in 1 .. n + 1  BY <1>2
    <2>3. Begin(f, i) \in Nat /\ e(i) \in Nat /\ Begin(f, i) < e(i)  BY <1>3, <1>9, <1>10, <2>2
    <2>4. LengthOf(f, i) = e(i) - Begin(f, i) - 1 /\ Begin(f, i + 1) = e(i)  BY <1>6, <1>7
    <2>  QED  BY <2>3, <2>4
  <1>12. \A i \in 1 .. n : Begin(f, i) <= Begin(f, n)
    <2>1. SUFFICES ASSUME NEW i \in 1 .. n PROVE Begin(f, i) <= Begin(f, n)  OBVIOUS
    <2>2. n \in 1 .. n + 1 /\ i \in 1 .. n + 1  BY <1>2
    <2>3. Begin(f, n) \in Nat /\ Begin(f, i) \in Nat  BY <1>9, <2>2
    <2>4. CASE i = n  BY <2>3, <2>4
    <2>5. CASE i = 1  BY <1>6, <2>3, <2>5
    <2>6. CASE i # 1 /\ i # n
      <3>1. /\ i - 1 \in 1 .. n /\ n - 1 \in 1 .. n /\ i - 1 < n - 1
            /\ (i - 1) + 1 = i /\ (n - 1) + 1 = n
        BY <1>2, <2>6
      <3>2. Begin(f, (i - 1) + 1) = e(i - 1) /\ Begin(f, (n - 1) + 1) = e(n - 1)  BY <1>6, <3>1
      <3>3. e(i - 1) < e(n - 1) /\ e(i - 1) \in Nat /\ e(n - 1) \in Nat  BY <1>3, <1>4, <3>1
      <3>  QED  BY <3>1, <3>2, <3>3
    <2>  QED  BY <2>4, <2>5, <2>6
  <1>13. n + 1 \in 1 .. n + 1 /\ Begin(f, n + 1) \in Nat  BY <1>2, <1>9
  <1>14. n > 0 => Begin(f, n) < Total(f)
    <2>1. SUFFICES ASSUME n > 0 PROVE Begin(f, n) < Total(f)  OBVIOUS
    <2>2. n \in 1 .. n /\ n \in 1 .. n + 1  BY <1>2, <2>1
    <2>3. /\ Begin(f, n) \in Nat /\ LengthOf(f, n) \in Nat
          /\ Begin(f, n) + LengthOf(f, n) + 1 = Begin(f, n + 1)
      BY <1>9, <1>11, <2>2
    <2>4. CASE f.ended  BY <1>8, <2>3, <2>4
    <2>5. CASE ~f.ended  BY <1>5, <1>8, <2>3, <2>5
    <2>  QED  BY <2>4, <2>5
  <1>15. Total(f) \in Nat /\ Total(f) <= Begin(f, n + 1) /\ Begin(f, n + 1) <= Total(f) + 1
    <2>1. CASE f.ended  BY <1>8, <1>13, <2>1
    <2>2. CASE ~f.ended
      <3>1. n > 0 /\ n \in 1 .. n + 1  BY <1>2, <1>5, <2>2
      <3>2. Begin(f, n) \in Nat /\ Begin(f, n) < Total(f)  BY <1>9, <1>14, <3>1
      <3>  QED  BY <1>8, <1>13, <2>2, <3>2
    <2>  QED  BY <2>1, <2>2
  <1>16. \A i \in 1 .. n : Begin(f, i) < Total(f)
    <2>1. SUFFICES ASSUME NEW i \in 1 .. n PROVE Begin(f, i) < Total(f)  OBVIOUS
    <2>2. n > 0 /\ i \in 1 .. n + 1 /\ n \in 1 .. n + 1  BY <1>2
    <2>3. Begin(f, i) \in Nat /\ Begin(f, n) \in Nat  BY <1>9, <2>2
    <2>  QED  BY <1>12, <1>14, <1>15, <2>2, <2>3
  <1>  QED  BY <1>2, <1>9, <1>11, <1>15, <1>16 DEF n

LEMMA EmptyLaid == Total(EmptyFile) = 0
  BY EmptySeq DEF EmptyFile, Total, Begin

(* Where the scanner is: something held is of a line not yet written, and  *)
(* behind the last byte there is no line.                                  *)
LEMMA LineThere ==
    ASSUME NEW f \in Dockerfiles, NEW w \in Nat, NEW h \in Nat, w <= Len(f.lines),
           Begin(f, w + 1) + h = Total(f)
    PROVE  h > 0 <=> w < Len(f.lines)
  <1>1. /\ Len(f.lines) \in Nat /\ Total(f) \in Nat
        /\ \A i \in 1 .. Len(f.lines) + 1 : Begin(f, i) \in Nat
        /\ \A i \in 1 .. Len(f.lines) : Begin(f, i) < Total(f)
        /\ Total(f) <= Begin(f, Len(f.lines) + 1)
    BY LinesLaid
  <1>2. w + 1 \in 1 .. Len(f.lines) + 1 /\ Begin(f, w + 1) \in Nat  BY <1>1
  <1>3. h > 0 => w < Len(f.lines)
    <2>1. w = Len(f.lines) => Begin(f, w + 1) >= Total(f)  BY <1>1, <1>2
    <2>  QED  BY <1>1, <1>2, <2>1
  <1>4. w < Len(f.lines) => h > 0
    <2>1. w < Len(f.lines) => w + 1 \in 1 .. Len(f.lines)  BY <1>1
    <2>  QED  BY <1>1, <1>2, <2>1
  <1>  QED  BY <1>3, <1>4

-----------------------------------------------------------------------------
(* The injection.                                                          *)

LEMMA ArgsInit == InitArgs => ArgsIInv
  <1> SUFFICES ASSUME InitArgs PROVE ArgsIInv
    OBVIOUS
  <1>1. /\ file = EmptyFile /\ unread = 0 /\ scan = "off" /\ size = 0 /\ start = 0 /\ limit = 0
        /\ stale = FALSE /\ err = "none" /\ written = 0
    BY DEF InitArgs, EmptyFile
  <1>2. ArgsTypeOK  BY <1>1 DEF ArgsTypeOK, EmptyFile
  <1>3. Layout  BY <1>1, EmptyLaid DEF Layout
  <1>4. Position /\ AtEnd /\ PanicsAtAnEdge  BY <1>1 DEF Position, AtEnd, PanicsAtAnEdge
  <1>  QED  BY <1>2, <1>3, <1>4 DEF ArgsIInv

LEMMA OpenStep ==
    ASSUME ArgsIInv, NEW f \in Dockerfiles, Open(f)
    PROVE  ArgsIInv'
  <1>1. /\ scan = "off" /\ scan' = "scanning" /\ file' = f /\ unread' = Total(f)
        /\ size' = size /\ start' = start /\ limit' = limit /\ stale' = stale
        /\ err' = err /\ written' = written
    BY DEF Open, bufferVars
  <1>2. size = 0 /\ start = 0 /\ limit = 0 /\ written = 0 /\ err = "none" /\ stale \in BOOLEAN
    BY <1>1 DEF ArgsIInv, ArgsTypeOK, Layout, AtEnd
  <1>3. ~stale  BY <1>1 DEF ArgsIInv, AtEnd
  <1>4. Total(f) \in Nat /\ Begin(f, 1) = 0 /\ Len(f.lines) \in Nat  BY LinesLaid DEF Begin
  <1>5. held' = 0  BY <1>1, <1>2 DEF held
  <1>6. ArgsTypeOK'  BY <1>1, <1>2, <1>4 DEF ArgsTypeOK
  <1>7. Layout'  BY <1>1, <1>2, <1>3, <1>4 DEF Layout
  <1>8. Position'
    <2>1. Begin(f, 0 + 1) + 0 + Total(f) = Total(f)  BY <1>4
    <2>  QED  BY <1>1, <1>2, <1>4, <1>5, <2>1 DEF Position
  <1>9. AtEnd' /\ PanicsAtAnEdge'  BY <1>1, <1>2 DEF AtEnd, PanicsAtAnEdge
  <1>  QED  BY <1>6, <1>7, <1>8, <1>9 DEF ArgsIInv

(* The line the scanner is at, while something is held: unless the end of  *)
(* the file was reached within it, it has a newline.                       *)
LEMMA HeldLine ==
    ASSUME ArgsIInv, scan # "off", held > 0
    PROVE  /\ file \in Dockerfiles /\ Len(file.lines) \in Nat /\ written + 1 \in 1 .. Len(file.lines)
           /\ held \in Nat /\ lineLength \in Nat /\ Begin(file, written + 1) \in Nat
           /\ Begin(file, written + 1) + held + unread = Total(file)
           /\ Begin(file, written + 1) + lineLength + 1 = Begin(file, (written + 1) + 1)
           /\ ~Whole /\ unread = 0 => lineLength = held /\ written + 1 = Len(file.lines)
  <1>1. file \in Dockerfiles  BY DEF ArgsIInv, ArgsTypeOK
  <1>2. start \in Nat /\ limit \in Nat /\ start <= limit /\ unread \in Nat /\ written \in Nat
    BY DEF ArgsIInv, ArgsTypeOK, Layout
  <1>3. held \in Nat /\ held + unread \in Nat  BY <1>2 DEF held
  <1>4. written <= Len(file.lines) /\ Begin(file, written + 1) + held + unread = Total(file)
    BY DEF ArgsIInv, Position
  <1>5. /\ Len(file.lines) \in Nat /\ Total(file) \in Nat
        /\ \A i \in 1 .. Len(file.lines) + 1 : Begin(file, i) \in Nat
        /\ \A i \in 1 .. Len(file.lines) :
              LengthOf(file, i) \in Nat /\ Begin(file, i) + LengthOf(file, i) + 1 = Begin(file, i + 1)
        /\ \A i \in 1 .. Len(file.lines) : Begin(file, i) < Total(file)
        /\ Begin(file, Len(file.lines) + 1) <= Total(file) + 1
    BY <1>1, LinesLaid
  <1>6. written + 1 \in 1 .. Len(file.lines) + 1 /\ Begin(file, written + 1) \in Nat
    BY <1>2, <1>4, <1>5
  <1>7. written < Len(file.lines)
    <2>1. Begin(file, written + 1) + (held + unread) = Total(file)  BY <1>2, <1>3, <1>4, <1>6
    <2>2. held + unread > 0  BY <1>2, <1>3
    <2>  QED  BY <1>1, <1>2, <1>3, <1>4, <2>1, <2>2, LineThere
  <1>8. written + 1 \in 1 .. Len(file.lines)  BY <1>2, <1>5, <1>7
  <1>9. /\ lineLength \in Nat
        /\ Begin(file, written + 1) + lineLength + 1 = Begin(file, (written + 1) + 1)
    BY <1>5, <1>8 DEF lineLength
  <1>10. ASSUME ~Whole, unread = 0
         PROVE  lineLength = held /\ written + 1 = Len(file.lines)
    <2>1. lineLength >= held  BY <1>3, <1>9, <1>10 DEF Whole
    <2>2. Begin(file, (written + 1) + 1) >= Total(file) + 1
      BY <1>3, <1>4, <1>6, <1>9, <1>10, <2>1
    <2>3. written + 1 = Len(file.lines)
      <3>1. written + 1 < Len(file.lines) => (written + 1) + 1 \in 1 .. Len(file.lines)
        BY <1>2, <1>5
      <3>2. written + 1 < Len(file.lines) => Begin(file, (written + 1) + 1) < Total(file)
        BY <1>5, <3>1
      <3>3. Begin(file, (written + 1) + 1) \in Nat  BY <1>6, <1>9
      <3>  QED  BY <1>5, <1>8, <2>2, <3>2, <3>3
    <2>4. Begin(file, (written + 1) + 1) <= Total(file) + 1  BY <1>5, <2>3
    <2>5. lineLength <= held  BY <1>3, <1>4, <1>5, <1>6, <1>9, <1>10, <2>4
    <2>  QED  BY <1>3, <1>9, <2>1, <2>3, <2>5
  <1>  QED  BY <1>1, <1>3, <1>4, <1>5, <1>6, <1>8, <1>9, <1>10

LEMMA PanicStep == ArgsIInv /\ Panic => ArgsIInv'
  <1> SUFFICES ASSUME ArgsIInv, Panic PROVE ArgsIInv'
    OBVIOUS
  <1>1. /\ scan = "scanning" /\ scan' = "panicked" /\ Scanned /\ Panics
        /\ file' = file /\ unread' = unread /\ size' = size /\ start' = start /\ limit' = limit
        /\ stale' = stale /\ err' = err /\ written' = written
    BY DEF Panic, Scanned, bufferVars
  <1>2. held > 0 /\ (Whole \/ err # "none")  BY <1>1 DEF Scanned
  <1>3. /\ file \in Dockerfiles /\ written + 1 \in 1 .. Len(file.lines)
        /\ held \in Nat /\ lineLength \in Nat
        /\ ~Whole /\ unread = 0 => lineLength = held
    BY <1>1, <1>2, HeldLine
  <1>4. /\ start \in Nat /\ limit \in Nat /\ size \in Nat /\ start <= limit /\ limit <= size /\ unread \in Nat
        /\ (size = 0 \/ StartBufSize <= size) /\ limit + unread <= Total(file)
        /\ (stale => 2 * Total(file) > StartBufSize)
    BY DEF ArgsIInv, ArgsTypeOK, Layout
  <1>5. Total(file) \in Nat /\ StartBufSize \in Nat /\ 4 < StartBufSize
    BY <1>3, LinesLaid, SizesAssumption DEF commandArg
  <1>6. start + 4 > size \/ (Length < 4 /\ ~Whole /\ stale)
    BY <1>1 DEF Panics, commandArg
  <1>7. err = "failed" \/ lineLength < 4
    <2>1. start + 4 > size => held < 4  BY <1>4 DEF held
    <2>2. CASE Whole
      <3>1. lineLength < held  BY <2>2 DEF Whole
      <3>  QED  BY <1>3, <1>6, <2>1, <2>2, <3>1
    <2>3. CASE ~Whole /\ err # "failed"
      <3>1. err = "eof"  BY <1>1, <1>2, <2>3 DEF ArgsIInv, ArgsTypeOK, AtEnd
      <3>2. lineLength = held  BY <1>3, <2>3, <3>1 DEF ArgsIInv, AtEnd
      <3>3. Length = held  BY <2>3 DEF Length
      <3>  QED  BY <1>6, <2>1, <3>2, <3>3
    <2>  QED  BY <2>2, <2>3
  <1>8. 2 * Total(file) > StartBufSize
    <2>1. CASE start + 4 > size
      <3>1. start < limit  BY <1>2, <1>4 DEF held
      <3>2. size # 0 /\ limit + 2 >= size /\ Total(file) >= limit  BY <1>4, <1>5, <2>1, <3>1
      <3>  QED  BY <1>4, <1>5, <3>2
    <2>2. CASE stale  BY <1>4, <2>2
    <2>  QED  BY <1>6, <2>1, <2>2
  <1>9. PanicsAtAnEdge'
    <2>1. \A i : LengthOf(file', i) = LengthOf(file, i)  BY <1>1
    <2>2. err' = "failed" \/ \E i \in DOMAIN file'.lines : LengthOf(file', i) < commandArg
      <3>1. CASE err = "failed"  BY <1>1, <3>1
      <3>2. CASE lineLength < 4
        <4>1. DOMAIN file.lines = 1 .. Len(file.lines)
          BY <1>3, DockerfilesAssumption, LenProperties
        <4>2. LengthOf(file, written + 1) < commandArg  BY <3>2 DEF lineLength, commandArg
        <4>  QED  BY <1>1, <1>3, <4>1, <4>2
      <3>  QED  BY <1>7, <3>1, <3>2
    <2>3. 2 * Total(file') > StartBufSize  BY <1>1, <1>8
    <2>  QED  BY <2>2, <2>3 DEF PanicsAtAnEdge
  <1>10. ArgsTypeOK'  BY <1>1, <1>3 DEF ArgsIInv, ArgsTypeOK
  <1>11. Layout'  BY <1>1 DEF ArgsIInv, Layout
  <1>12. Position'
    <2>1. held' = held  BY <1>1 DEF held
    <2>  QED  BY <1>1, <2>1 DEF ArgsIInv, Position
  <1>13. AtEnd'
    <2>1. held' = held  BY <1>1 DEF held
    <2>  QED  BY <1>1, <2>1 DEF ArgsIInv, AtEnd
  <1>  QED  BY <1>9, <1>10, <1>11, <1>12, <1>13 DEF ArgsIInv

LEMMA WriteLineStep == ArgsIInv /\ WriteLine => ArgsIInv'
  <1> SUFFICES ASSUME ArgsIInv, WriteLine PROVE ArgsIInv'
    OBVIOUS
  <1>1. /\ scan = "scanning" /\ scan' = scan /\ Scanned
        /\ start' = (IF Whole THEN start + Length + 1 ELSE limit) /\ written' = written + 1
        /\ file' = file /\ unread' = unread /\ size' = size /\ limit' = limit
        /\ stale' = stale /\ err' = err
    BY DEF WriteLine, Scanned
  <1>2. held > 0 /\ (Whole \/ err # "none")  BY <1>1 DEF Scanned
  <1>3. /\ file \in Dockerfiles /\ Len(file.lines) \in Nat /\ written + 1 \in 1 .. Len(file.lines)
        /\ held \in Nat /\ lineLength \in Nat /\ Begin(file, written + 1) \in Nat
        /\ Begin(file, written + 1) + held + unread = Total(file)
        /\ Begin(file, written + 1) + lineLength + 1 = Begin(file, (written + 1) + 1)
        /\ ~Whole /\ unread = 0 => lineLength = held /\ written + 1 = Len(file.lines)
    BY <1>1, <1>2, HeldLine
  <1>4. /\ start \in Nat /\ limit \in Nat /\ size \in Nat /\ start <= limit /\ limit <= size /\ unread \in Nat
        /\ written \in Nat /\ stale \in BOOLEAN /\ err \in {"none", "eof", "failed", "too long"}
        /\ err # "too long" /\ (err = "eof" => unread = 0)
    BY <1>1 DEF ArgsIInv, ArgsTypeOK, Layout, AtEnd
  <1>5. /\ start' \in Nat /\ start' <= limit /\ held' \in Nat
        /\ Whole => held' = held - lineLength - 1
        /\ ~Whole => held' = 0
    <2>1. CASE Whole
      <3>1. lineLength < held /\ start' = start + lineLength + 1  BY <1>1, <2>1 DEF Whole, Length
      <3>2. held' = limit - (start + lineLength + 1)  BY <1>1, <3>1 DEF held
      <3>3. held = limit - start  BY DEF held
      <3>4. lineLength \in Nat /\ start \in Nat /\ limit \in Nat  BY <1>3, <1>4
      <3>5. start' \in Nat /\ start' <= limit /\ held' \in Nat /\ held' = held - lineLength - 1
        BY <3>1, <3>2, <3>3, <3>4
      <3>  QED  BY <2>1, <3>5, Zenon
    <2>2. CASE ~Whole
      <3>1. start' = limit /\ held' = limit - limit  BY <1>1, <2>2 DEF held
      <3>2. limit \in Nat  BY <1>4
      <3>3. start' \in Nat /\ start' <= limit /\ held' \in Nat /\ held' = 0  BY <3>1, <3>2
      <3>  QED  BY <2>2, <3>3, Zenon
    <2>  QED  BY <2>1, <2>2
  <1>6. Whole => Begin(file, written' + 1) + held' + unread = Total(file)
    <2> SUFFICES ASSUME Whole PROVE Begin(file, written' + 1) + held' + unread = Total(file)
      OBVIOUS
    <2>1. Begin(file, written' + 1) = Begin(file, (written + 1) + 1)  BY <1>1
    <2>2. held' = held - lineLength - 1  BY <1>5
    <2>3. /\ held \in Nat /\ lineLength \in Nat /\ unread \in Nat /\ Begin(file, written + 1) \in Nat
          /\ Begin(file, written + 1) + held + unread = Total(file)
          /\ Begin(file, written + 1) + lineLength + 1 = Begin(file, (written + 1) + 1)
      BY <1>3, <1>4
    <2>  QED  BY <2>1, <2>2, <2>3
  <1>7. ArgsTypeOK'
    <2>1. written' \in Nat /\ start' \in Nat
      <3>1. written' = written + 1 /\ written \in Nat  BY <1>1, <1>4
      <3>2. start' \in Nat  BY <1>5
      <3>  QED  BY <3>1, <3>2
    <2>2. ArgsTypeOK  BY DEF ArgsIInv
    <2>3. file \in Dockerfiles  BY <1>3
    <2>  QED  BY <1>1, <2>1, <2>2, <2>3 DEF ArgsTypeOK
  <1>8. Layout'
    <2>1. Layout  BY DEF ArgsIInv
    <2>  QED  BY <1>1, <1>5, <2>1 DEF Layout
  <1>9. Position'
    <2> SUFFICES ASSUME held' > 0 \/ err' = "none"
                 PROVE  /\ written' <= Len(file'.lines)
                        /\ Begin(file', written' + 1) + held' + unread' = Total(file')
      BY DEF Position
    <2>1. Whole  BY <1>1, <1>2, <1>5
    <2>2. written' <= Len(file.lines)  BY <1>1, <1>3
    <2>  QED  BY <1>1, <1>6, <2>1, <2>2
  <1>10. AtEnd'
    <2>1. err = "eof" /\ held' = 0 => written' = Len(file.lines)
      <3> SUFFICES ASSUME err = "eof", held' = 0 PROVE written' = Len(file.lines)
        OBVIOUS
      <3>1. CASE ~Whole  BY <1>1, <1>3, <1>4, <3>1
      <3>2. CASE Whole
        <4>1. /\ written' \in Nat /\ written' <= Len(file.lines)
              /\ Begin(file, written' + 1) \in Nat
          BY <1>1, <1>3, <1>4
        <4>2. Begin(file, written' + 1) + 0 = Total(file)  BY <1>4, <1>6, <3>2, <4>1
        <4>3. 0 > 0 <=> written' < Len(file.lines)  BY <1>3, <4>1, <4>2, LineThere
        <4>  QED  BY <1>3, <4>1, <4>3
      <3>  QED  BY <3>1, <3>2
    <2>  QED  BY <1>1, <1>4, <2>1 DEF AtEnd
  <1>11. PanicsAtAnEdge'  BY <1>1 DEF PanicsAtAnEdge
  <1>  QED  BY <1>7, <1>8, <1>9, <1>10, <1>11 DEF ArgsIInv

LEMMA DoubledIs ==
    ASSUME NEW s \in Nat, size = s
    PROVE  Doubled = IF s = 0 THEN StartBufSize
                     ELSE IF 2 * s > MaxTokenSize THEN MaxTokenSize ELSE 2 * s
  <1> DEFINE d == IF s = 0 THEN StartBufSize
                  ELSE IF 2 * s > MaxTokenSize THEN MaxTokenSize ELSE 2 * s
  <1>1. d \in {StartBufSize, 2 * size, MaxTokenSize}  OBVIOUS
  <1>2. Doubled = CHOOSE n \in {StartBufSize, 2 * size, MaxTokenSize} : n = d
    BY DEF Doubled
  <1> HIDE DEF d
  <1>3. Doubled = d  BY <1>1, <1>2
  <1>  QED  BY <1>3 DEF d

(* Making room loses nothing of what is held, and what is read follows it. *)
LEMMA RoomIs ==
    ASSUME ArgsIInv, Full => size < MaxTokenSize, err = "none", scan # "off",
           NEW room, room = (IF Full THEN Doubled ELSE size),
           NEW last, last = (IF Moves \/ Full THEN held ELSE limit),
           NEW s, s = (IF Moves \/ Full THEN 0 ELSE start)
    PROVE  /\ room \in Nat /\ last \in Nat /\ s \in Nat /\ held \in Nat
           /\ s <= last /\ last <= room /\ last - s = held /\ last <= limit
           /\ StartBufSize <= room
  <1>1. /\ start \in Nat /\ limit \in Nat /\ size \in Nat /\ start <= limit /\ limit <= size
        /\ (size = 0 \/ StartBufSize <= size)
    BY DEF ArgsIInv, ArgsTypeOK, Layout
  <1>2. StartBufSize \in Nat /\ 4 < StartBufSize /\ MaxTokenSize \in Nat /\ StartBufSize <= MaxTokenSize
    BY SizesAssumption DEF commandArg
  <1>3. held = limit - start /\ held \in Nat  BY <1>1 DEF held
  <1>4. CASE Full
    <2>1. limit = size /\ size < MaxTokenSize  BY <1>4 DEF Full
    <2>2. room = Doubled /\ last = held /\ s = 0  BY <1>4
    <2>3. room \in Nat /\ size <= room /\ StartBufSize <= room  BY <1>1, <1>2, <2>1, <2>2, DoubledIs
    <2>  QED  BY <1>1, <1>3, <2>1, <2>2, <2>3
  <1>5. CASE ~Full
    <2>1. room = size  BY <1>5
    <2>2. StartBufSize <= size
      <3>1. size = 0 => start = 0 /\ limit = size  BY <1>1
      <3>2. size = 0 => ~Moves
        <4>1. size = 0 => ~(start > 0)  BY <3>1
        <4>  QED  BY <4>1 DEF Moves
      <3>3. size # 0  BY <1>5, <3>1, <3>2 DEF Full
      <3>  QED  BY <1>1, <3>3
    <2>3. CASE Moves
      <3>1. last = held /\ s = 0  BY <2>3
      <3>  QED  BY <1>1, <1>3, <2>1, <2>2, <3>1
    <2>4. CASE ~Moves
      <3>1. last = limit /\ s = start  BY <1>5, <2>4
      <3>  QED  BY <1>1, <1>3, <2>1, <2>2, <3>1
    <2>  QED  BY <2>3, <2>4
  <1>  QED  BY <1>4, <1>5

(* A buffer is only moved when it is behind its middle.                    *)
LEMMA MovedIsLong == ArgsIInv /\ scan # "off" /\ Moves => 2 * Total(file) > StartBufSize
  <1> SUFFICES ASSUME ArgsIInv, scan # "off", Moves PROVE 2 * Total(file) > StartBufSize
    OBVIOUS
  <1>1. /\ start \in Nat /\ limit \in Nat /\ size \in Nat /\ start <= limit /\ limit <= size
        /\ (size = 0 \/ StartBufSize <= size) /\ unread \in Nat /\ limit + unread <= Total(file)
        /\ file \in Dockerfiles
    BY DEF ArgsIInv, ArgsTypeOK, Layout
  <1>2. Total(file) \in Nat /\ StartBufSize \in Nat  BY <1>1, LinesLaid, SizesAssumption
  <1>3. start > 0 /\ (limit = size \/ 2 * start > size)  BY DEF Moves
  <1>  QED  BY <1>1, <1>2, <1>3

LEMMA FillStep == ArgsIInv /\ Fill => ArgsIInv'
  <1> SUFFICES ASSUME ArgsIInv, Fill PROVE ArgsIInv'
    OBVIOUS
  <1>0. PICK room, last, s : /\ room = (IF Full THEN Doubled ELSE size)
                             /\ last = (IF Moves \/ Full THEN held ELSE limit)
                             /\ s = (IF Moves \/ Full THEN 0 ELSE start)
    OBVIOUS
  <1>1. /\ scan = "scanning" /\ err = "none" /\ (Full => size < MaxTokenSize)
        /\ size' = room /\ start' = s /\ stale' = (~Full /\ (stale \/ Moves))
        /\ file' = file /\ scan' = scan /\ written' = written
    BY <1>0 DEF Fill, Needs
  <1>2. \/ /\ unread > 0
           /\ limit' = IF unread < room - last THEN last + unread ELSE room
           /\ unread' = unread - (limit' - last)
           /\ err' = err
        \/ /\ err' = "failed" \/ (err' = "eof" /\ unread = 0)
           /\ limit' = last
           /\ unread' = unread
    BY <1>0 DEF Fill
  <1>3. /\ room \in Nat /\ last \in Nat /\ s \in Nat /\ held \in Nat
        /\ s <= last /\ last <= room /\ last - s = held /\ last <= limit
        /\ StartBufSize <= room
    BY <1>0, <1>1, RoomIs
  <1>4. unread \in Nat /\ limit \in Nat /\ limit + unread <= Total(file) /\ written \in Nat
    BY DEF ArgsIInv, ArgsTypeOK, Layout
  <1>5. file \in Dockerfiles /\ Total(file) \in Nat
    <2>1. file \in Dockerfiles  BY <1>1 DEF ArgsIInv, ArgsTypeOK
    <2>  QED  BY <2>1, LinesLaid
  <1>6. /\ written <= Len(file.lines) /\ Begin(file, written + 1) \in Nat
        /\ Begin(file, written + 1) + held + unread = Total(file)
    <2>1. written <= Len(file.lines) /\ Begin(file, written + 1) + held + unread = Total(file)
      BY <1>1 DEF ArgsIInv, Position
    <2>2. Len(file.lines) \in Nat /\ \A i \in 1 .. Len(file.lines) + 1 : Begin(file, i) \in Nat
      BY <1>5, LinesLaid
    <2>3. written + 1 \in 1 .. Len(file.lines) + 1  BY <1>4, <2>1, <2>2
    <2>  QED  BY <2>1, <2>2, <2>3
  <1>7. /\ limit' \in Nat /\ unread' \in Nat /\ s <= limit' /\ limit' <= room
        /\ limit' + unread' <= Total(file)
        /\ limit' - s \in Nat /\ Begin(file, written + 1) + (limit' - s) + unread' = Total(file)
    <2>1. \/ limit' = (IF unread < room - last THEN last + unread ELSE room)
             /\ unread' = unread - (limit' - last)
          \/ limit' = last /\ unread' = unread
      BY <1>2
    <2>2. /\ room \in Nat /\ last \in Nat /\ s \in Nat /\ held \in Nat /\ unread \in Nat
          /\ Begin(file, written + 1) \in Nat /\ Total(file) \in Nat /\ limit \in Nat
      BY <1>3, <1>4, <1>5, <1>6
    <2>3. s <= last /\ last <= room /\ last - s = held /\ last <= limit  BY <1>3
    <2>4. limit + unread <= Total(file) /\ Begin(file, written + 1) + held + unread = Total(file)
      BY <1>4, <1>6
    <2>5. \A l, v :
             \/ l = (IF unread < room - last THEN last + unread ELSE room) /\ v = unread - (l - last)
             \/ l = last /\ v = unread
             =>
             /\ l \in Nat /\ v \in Nat /\ s <= l /\ l <= room /\ l + v <= Total(file)
             /\ l - s \in Nat /\ Begin(file, written + 1) + (l - s) + v = Total(file)
      <3> SUFFICES ASSUME NEW l, NEW v,
                   \/ l = (IF unread < room - last THEN last + unread ELSE room) /\ v = unread - (l - last)
                   \/ l = last /\ v = unread
                   PROVE
                   /\ l \in Nat /\ v \in Nat /\ s <= l /\ l <= room /\ l + v <= Total(file)
                   /\ l - s \in Nat /\ Begin(file, written + 1) + (l - s) + v = Total(file)
        OBVIOUS
      <3>1. CASE l = last /\ v = unread  BY <2>2, <2>3, <2>4, <3>1
      <3>2. CASE l = last + unread /\ v = unread - (l - last) /\ unread < room - last
        BY <2>2, <2>3, <2>4, <3>2
      <3>3. CASE l = room /\ v = unread - (l - last) /\ ~(unread < room - last)
        BY <2>2, <2>3, <2>4, <3>3
      <3>  QED  BY <3>1, <3>2, <3>3
    <2>  QED  BY <2>1, <2>5, Zenon
  <1>8. held' \in Nat /\ Begin(file, written + 1) + held' + unread' = Total(file)
    <2>1. held' = limit' - s  BY <1>1 DEF held
    <2>  QED  BY <1>7, <2>1, Zenon
  <1>9. err' \in {"none", "eof", "failed"} /\ (err' = "eof" => unread = 0 /\ unread' = unread)
    BY <1>1, <1>2
  <1>10. stale' \in BOOLEAN /\ (stale' => 2 * Total(file) > StartBufSize)
    <2>1. stale' \in BOOLEAN  BY <1>1
    <2>2. stale' => stale \/ Moves  BY <1>1
    <2>3. stale => 2 * Total(file) > StartBufSize  BY DEF ArgsIInv, Layout
    <2>4. Moves => 2 * Total(file) > StartBufSize  BY <1>1, MovedIsLong
    <2>  QED  BY <2>1, <2>2, <2>3, <2>4, Zenon
  <1>11. ArgsTypeOK'
    <2>1. start' \in Nat /\ size' \in Nat /\ limit' \in Nat /\ unread' \in Nat /\ written' \in Nat
      BY <1>1, <1>3, <1>4, <1>7
    <2>2. file' \in Dockerfiles /\ scan' = "scanning"  BY <1>1, <1>5
    <2>  QED  BY <1>9, <1>10, <2>1, <2>2 DEF ArgsTypeOK
  <1>12. Layout'
    <2>1. start' <= limit' /\ limit' <= size' /\ StartBufSize <= size'  BY <1>1, <1>3, <1>7, Zenon
    <2>2. limit' + unread' <= Total(file)  BY <1>7
    <2>3. file' = file  BY <1>1
    <2>  QED  BY <1>10, <2>1, <2>2, <2>3 DEF Layout
  <1>13. Position'
    <2>1. Begin(file, written + 1) + held' + unread' = Total(file)  BY <1>8
    <2>2. file' = file /\ written' = written  BY <1>1
    <2>3. written <= Len(file.lines)  BY <1>6
    <2>  QED  BY <2>1, <2>2, <2>3, Zenon DEF Position
  <1>14. AtEnd'
    <2>1. err' = "eof" /\ held' = 0 => written' = Len(file'.lines)
      <3> SUFFICES ASSUME err' = "eof", held' = 0 PROVE written = Len(file.lines)
        BY <1>1
      <3>1. unread = 0 /\ unread' = 0  BY <1>9
      <3>2. Begin(file, written + 1) + 0 = Total(file)  BY <1>3, <1>6, <1>8, <3>1
      <3>3. 0 > 0 <=> written < Len(file.lines)  BY <1>4, <1>5, <1>6, <3>2, LineThere
      <3>4. Len(file.lines) \in Nat  BY <1>5, LinesLaid
      <3>  QED  BY <1>4, <1>6, <3>3, <3>4
    <2>  QED  BY <1>1, <1>9, <2>1 DEF AtEnd
  <1>15. PanicsAtAnEdge'  BY <1>1 DEF PanicsAtAnEdge
  <1>  QED  BY <1>11, <1>12, <1>13, <1>14, <1>15 DEF ArgsIInv

LEMMA ReturnStep == ArgsIInv /\ (TooLong \/ Finish) => ArgsIInv'
  <1> SUFFICES ASSUME ArgsIInv, TooLong \/ Finish PROVE ArgsIInv'
    OBVIOUS
  <1>1. /\ scan = "scanning" /\ scan' = "returned"
        /\ file' = file /\ unread' = unread /\ size' = size /\ start' = start /\ limit' = limit
        /\ stale' = stale /\ written' = written
        /\ \/ err = "none" /\ err' = "too long"
           \/ held = 0 /\ err # "none" /\ err' = err
    BY DEF TooLong, Finish, Needs, bufferVars
  <1>2. held' = held  BY <1>1 DEF held
  <1>3. ArgsTypeOK' /\ Layout'  BY <1>1 DEF ArgsIInv, ArgsTypeOK, Layout
  <1>4. Position'  BY <1>1, <1>2 DEF ArgsIInv, Position
  <1>5. AtEnd'  BY <1>1, <1>2 DEF ArgsIInv, AtEnd
  <1>6. PanicsAtAnEdge'  BY <1>1 DEF PanicsAtAnEdge
  <1>  QED  BY <1>3, <1>4, <1>5, <1>6 DEF ArgsIInv

LEMMA InjectStep == ArgsIInv /\ Inject => ArgsIInv'
  BY PanicStep, WriteLineStep, FillStep, ReturnStep DEF Inject

LEMMA ArgsStays == ArgsIInv /\ UNCHANGED argsVars => ArgsIInv'
  <1> SUFFICES ASSUME ArgsIInv, UNCHANGED argsVars PROVE ArgsIInv'
    OBVIOUS
  <1>1. /\ file' = file /\ unread' = unread /\ scan' = scan /\ size' = size /\ start' = start
        /\ limit' = limit /\ stale' = stale /\ err' = err /\ written' = written
    BY DEF argsVars, bufferVars
  <1>2. held' = held  BY <1>1 DEF held
  <1>3. ArgsTypeOK' /\ Layout'  BY <1>1 DEF ArgsIInv, ArgsTypeOK, Layout
  <1>4. Position' /\ AtEnd'  BY <1>1, <1>2 DEF ArgsIInv, Position, AtEnd
  <1>5. PanicsAtAnEdge'  BY <1>1 DEF ArgsIInv, PanicsAtAnEdge
  <1>  QED  BY <1>3, <1>4, <1>5 DEF ArgsIInv

-----------------------------------------------------------------------------
(* The session.                                                            *)

LEMMA Closed == IInv => SuccessIsClosed
  <1> SUFFICES ASSUME IInv, copy = "ok" PROVE SuccessIsClosed
    BY DEF SuccessIsClosed
  <1>1. archiver = "ended" /\ remote # <<>> /\ buffer = <<>> /\ EndsIn(remote, TRUE)
    BY DEF IInv, DirectoryLast, CopyInStep, EndsIn
  <1>2. Len(remote) \in DOMAIN remote
    <2>1. remote \in Seq(Items)  BY DEF IInv, TypeOK, Items
    <2>  QED  BY <1>1, <2>1, LenProperties, EmptySeq
  <1>3. Last(remote) = Directory  BY <1>1, <1>2 DEF EndsIn, Last
  <1>  QED  BY <1>1, <1>3 DEF SuccessIsClosed

LEMMA SessionInit == InitShipping => ArgsIInv /\ SessionInStep /\ RecordedIsWhole
  <1> SUFFICES ASSUME InitShipping PROVE ArgsIInv /\ SessionInStep /\ RecordedIsWhole
    OBVIOUS
  <1>1. ArgsIInv  BY ArgsInit DEF InitShipping
  <1>2. SessionInStep  BY DEF InitShipping, InitArgs, SessionInStep
  <1>3. RecordedIsWhole  BY DEF InitShipping, RecordedIsWhole
  <1>  QED  BY <1>1, <1>2, <1>3

(* What is injected and has been scanned to the end is the whole file.     *)
LEMMA ScannedIsWhole ==
    ASSUME ArgsIInv, scan = "returned", err \notin {"failed", "too long"}
    PROVE  written = Len(file.lines)
  <1>1. err = "eof" /\ held = 0  BY DEF ArgsIInv, ArgsTypeOK, AtEnd
  <1>  QED  BY <1>1 DEF ArgsIInv, AtEnd

LEMMA ArgsStep == ArgsIInv /\ NextShipping => ArgsIInv'
  <1> SUFFICES ASSUME ArgsIInv, NextShipping PROVE ArgsIInv'
    OBVIOUS
  <1>1. CASE UNCHANGED argsVars  BY <1>1, ArgsStays
  <1>2. CASE OpenDockerfile
    <2>1. \E f \in Dockerfiles : Open(f)
      BY <1>2, PlainAssumption DEF OpenDockerfile
    <2>  QED  BY <2>1, OpenStep
  <1>3. CASE InjectArgs  BY <1>3, InjectStep DEF InjectArgs
  <1>  QED  BY <1>1, <1>2, <1>3
         DEF NextShipping, ShipArchive, ShipDockerfile, MakeWorkdir, Expand, Hang, Fails, Injected,
             Sent, Recovered

(* The record depends on nothing the archive and the injection go on with, *)
(* as long as nothing is recorded.                                         *)
LEMMA NothingRecorded ==
    ASSUME recorded' = "nothing" PROVE RecordedIsWhole'
  BY DEF RecordedIsWhole

(* Whatever PowerShell makes of it, the record is what the interaction had *)
(* put down, behind the archive if there is a directory in it.             *)
LEMMA EndStep ==
    ASSUME IInv, SessionInStep, session \notin {"nil", "error"}, NEW verdict, Ends(verdict),
           UNCHANGED <<vars, expanded, scan>>, info' \in {info, "both"},
           info' = "both" => info = "directory",
           info' = "both" /\ err' \notin {"failed", "too long"} => lines' = Len(file'.lines),
           verdict = "nil" => info' = "both"
    PROVE  SessionInStep' /\ RecordedIsWhole'
  <1>1. /\ recorded = "nothing" /\ info \in {"empty", "directory", "both"}
        /\ info # "both"
        /\ info # "empty" => copy = "ok" /\ expanded \in {"yes", "cut"}
    BY DEF SessionInStep
  <1>2. copy' = copy /\ remote' = remote /\ expanded' = expanded  BY DEF vars
  <1>3. info' # "empty" => info # "empty"  BY <1>1
  <1>4. CASE session' = "error" /\ recorded' = recorded
    <2>1. SessionInStep'  BY <1>1, <1>2, <1>3, <1>4 DEF SessionInStep
    <2>  QED  BY <1>1, <1>4, <2>1, NothingRecorded
  <1>5. CASE session' = "nil" /\ recorded' = info' /\ excused' = (verdict # "nil")
    <2>1. SessionInStep'  BY <1>1, <1>2, <1>3, <1>5 DEF SessionInStep
    <2>2. info' # "empty" => remote # <<>> /\ Last(remote) = Directory
      BY <1>1, <1>3, Closed DEF SuccessIsClosed
    <2>3. RecordedIsWhole'  BY <1>1, <1>2, <1>3, <1>5, <2>2 DEF RecordedIsWhole, Last
    <2>  QED  BY <2>1, <2>3
  <1>  QED  BY <1>4, <1>5 DEF Ends

LEMMA SessionStep ==
    IInv /\ ArgsIInv /\ SessionInStep /\ RecordedIsWhole /\ NextShipping
      => SessionInStep' /\ RecordedIsWhole'
  <1> SUFFICES ASSUME IInv, ArgsIInv, SessionInStep, RecordedIsWhole, NextShipping
               PROVE  SessionInStep' /\ RecordedIsWhole'
    OBVIOUS
  <1>0. ASSUME session \notin {"nil", "error"}, recorded' = recorded PROVE RecordedIsWhole'
    BY <1>0, NothingRecorded DEF SessionInStep
  <1>1. ASSUME session = "archive", UNCHANGED <<argsVars, sessionVars>>
        PROVE  SessionInStep' /\ RecordedIsWhole'
    <2>1. UNCHANGED <<session, recorded, scan, info>>
      BY <1>1 DEF argsVars, sessionVars
    <2>2. info = "empty"  BY <1>1 DEF SessionInStep
    <2>  QED  BY <1>0, <1>1, <2>1, <2>2 DEF SessionInStep
  <1>2. CASE MakeWorkdir
    <2>1. /\ session \in {"workdir", "hung"} /\ session' = "archive" /\ copy = "prepare"
          /\ UNCHANGED <<info, recorded, scan, copy>>
      BY <1>2 DEF MakeWorkdir, vars, argsVars
    <2>  QED  BY <1>0, <2>1 DEF SessionInStep
  <1>3. CASE Expand
    <2>1. /\ session \in {"archive", "hung"} /\ session' = "open" /\ copy = "ok"
          /\ expanded' \in {"yes", "cut"} /\ info' = "directory"
          /\ UNCHANGED <<recorded, scan, copy>>
      BY <1>3 DEF Expand, vars, argsVars
    <2>  QED  BY <1>0, <2>1 DEF SessionInStep
  <1>4. CASE Hang
    <2>1. /\ session \in {"workdir", "archive"} /\ session' = "hung"
          /\ UNCHANGED <<info, recorded, scan, copy, expanded>>
      BY <1>4 DEF Hang, vars, argsVars
    <2>  QED  BY <1>0, <2>1 DEF SessionInStep
  <1>5. CASE Fails
    <2>1. /\ session \notin {"nil", "error"} /\ Ends("error") /\ info' = info
          /\ UNCHANGED <<vars, expanded, scan>>
      BY <1>5 DEF Fails, argsVars
    <2>2. info' # "both"  BY <2>1 DEF SessionInStep
    <2>  QED  BY <2>1, <2>2, EndStep
  <1>6. CASE OpenDockerfile
    <2>1. /\ session = "open" /\ session' \in {"inject", "raw", "closed"}
          /\ UNCHANGED <<info, recorded, copy, expanded>>
      BY <1>6 DEF OpenDockerfile, vars
    <2>2. scan' = "scanning"  BY <1>6 DEF OpenDockerfile, Open
    <2>  QED  BY <1>0, <2>1, <2>2 DEF SessionInStep
  <1>7. CASE InjectArgs
    <2>1. /\ session = "inject" /\ UNCHANGED <<session, info, recorded, copy, expanded>>
      BY <1>7 DEF InjectArgs, vars, sessionVars
    <2>  QED  BY <1>0, <2>1 DEF SessionInStep
  <1>8. CASE Injected
    <2>1. /\ session = "inject" /\ session' = "send" /\ scan = "returned"
          /\ UNCHANGED <<info, recorded, copy, expanded, scan>>
      BY <1>8 DEF Injected, vars, argsVars
    <2>  QED  BY <1>0, <2>1 DEF SessionInStep
  <1>9. CASE Sent
    <2>1. /\ session \in {"send", "raw"} /\ info' = "both" /\ Ends("nil")
          /\ lines' = (IF session = "send" THEN written ELSE Len(file.lines))
          /\ UNCHANGED <<vars, expanded, scan, err, file>>
      BY <1>9 DEF Sent, argsVars
    <2>2. info = "directory" /\ (session = "send" => scan = "returned")
      BY <2>1 DEF SessionInStep
    <2>3. err' \notin {"failed", "too long"} => lines' = Len(file'.lines)
      BY <2>1, <2>2, ScannedIsWhole
    <2>  QED  BY <2>1, <2>2, <2>3, EndStep
  <1>10. CASE Recovered
    <2>1. /\ session = "inject" /\ Ends("panic") /\ info' = info
          /\ UNCHANGED <<vars, expanded, scan>>
      BY <1>10 DEF Recovered, argsVars
    <2>2. info' # "both"  BY <2>1 DEF SessionInStep
    <2>  QED  BY <2>1, <2>2, EndStep
  <1>  QED  BY <1>1, <1>2, <1>3, <1>4, <1>5, <1>6, <1>7, <1>8, <1>9, <1>10
         DEF NextShipping, ShipArchive, ShipDockerfile

LEMMA SessionStays ==
    SessionInStep /\ RecordedIsWhole /\ UNCHANGED allVars => SessionInStep' /\ RecordedIsWhole'
  <1> SUFFICES ASSUME SessionInStep, RecordedIsWhole, UNCHANGED allVars
               PROVE  SessionInStep' /\ RecordedIsWhole'
    OBVIOUS
  <1>1. /\ session' = session /\ lines' = lines /\ recorded' = recorded /\ scan' = scan
        /\ expanded' = expanded /\ info' = info /\ excused' = excused
        /\ copy' = copy /\ remote' = remote /\ err' = err /\ file' = file
    BY DEF allVars, vars, argsVars, sessionVars
  <1>  QED  BY <1>1 DEF SessionInStep, RecordedIsWhole, Last

-----------------------------------------------------------------------------
(* The theorems.                                                           *)

LEMMA InitIInv == Init => IInv
  <1> SUFFICES ASSUME Init PROVE IInv
    OBVIOUS
  <1>1. <<>> \in Seq(Items)  BY EmptySeq
  <1>2. TypeOK
    <2>1. patterns \in Seq(Lines)  BY MaxPatternsAssumption DEF Init
    <2>  QED  BY <1>1, <2>1 DEF Init, TypeOK, Items
  <1>3. Stream = {}  BY DEF Init, Stream, Shipped, ToSet
  <1>4. OnlyKept /\ Frontier  BY <1>3 DEF Init, OnlyKept, Frontier
  <1>5. DirectoryLast /\ CopyInStep  BY EndsEmpty DEF Init, DirectoryLast, CopyInStep, EndsIn
  <1>  QED  BY <1>2, <1>4, <1>5 DEF IInv

LEMMA NextIInv == IInv /\ [Next]_vars => IInv'
  <1>1. IInv /\ Next => IInv'
    BY TypeStep, OnlyKeptStep, FrontierStep, DirectoryLastStep, CopyInStepStep DEF IInv
  <1>2. ASSUME IInv, UNCHANGED vars PROVE IInv'
    <2>1. UNCHANGED <<patterns, linked, archiver, todo, buffer, damaged, copy, chunk, remote>>
      BY <1>2 DEF vars
    <2>2. /\ Stream' = Stream /\ Kept' = Kept /\ (Compiles' <=> Compiles)
          /\ (LiteralExceptions' <=> LiteralExceptions)
      BY <2>1, StreamOfOthers, MatchesStays
    <2>3. TypeOK' /\ CopyInStep'  BY <1>2, <2>1 DEF IInv, TypeOK, CopyInStep
    <2>4. OnlyKept'  BY <1>2, <2>1, <2>2 DEF IInv, OnlyKept
    <2>5. \A p : Readable(p)' <=> Readable(p)  BY <2>1 DEF Readable
    <2>6. Frontier'
      <3> SUFFICES ASSUME ~linked', copy' # "failed", archiver' # "off",
                          Compiles', LiteralExceptions',
                          NEW p \in Kept', Readable(p)'
                   PROVE  Covered(p)'
        BY DEF Frontier, Covered
      <3>1. Covered(p)  BY <1>2, <2>1, <2>2, <2>5 DEF IInv, Frontier, Covered
      <3>  QED  BY <2>1, <2>2, <3>1 DEF Covered, Content
    <2>7. DirectoryLast'  BY <1>2, <2>1 DEF IInv, DirectoryLast
    <2>  QED  BY <2>3, <2>4, <2>6, <2>7 DEF IInv
  <1>  QED  BY <1>1, <1>2

(* In a session the archive is made and copied as BuildArchive says: no    *)
(* other step of the session touches it.                                   *)
THEOREM SessionShips == SpecShipping => Spec
  <1>1. InitShipping => Init  BY DEF InitShipping
  <1>2. [NextShipping]_allVars => [Next]_vars
    <2>1. NextShipping => [Next]_vars
      BY DEF NextShipping, ShipArchive, Next, ShipDockerfile, MakeWorkdir, Expand, Hang, Fails,
             OpenDockerfile, InjectArgs, Injected, Sent, Recovered
    <2>2. UNCHANGED allVars => UNCHANGED vars  BY DEF allVars
    <2>  QED  BY <2>1, <2>2
  <1>  QED  BY <1>1, <1>2, PTL DEF SpecShipping, Spec

LEMMA ArchiveInvariance == SpecShipping => []IInv
  <1>1. Spec => []IInv  BY InitIInv, NextIInv, PTL DEF Spec
  <1>  QED  BY <1>1, SessionShips, PTL

(* The inductive invariant.  Of the archive: nothing .dockerignore         *)
(* excludes is produced, what it keeps is produced or still to be visited, *)
(* the directory ends the stream.  Of the injection: what the scanner      *)
(* holds and what is unread are the lines not yet written.  Of the         *)
(* session: the Dockerfile comes behind a complete archive and its         *)
(* expansion, and the record is what the interaction had put down when it  *)
(* ended, whether PowerShell excuses an error of it or not.                *)
THEOREM Invariance == SpecShipping => []ShippingIInv
  <1> DEFINE Rest == ArgsIInv /\ SessionInStep /\ RecordedIsWhole
  <1>1. InitShipping => Rest  BY SessionInit
  <1>2. IInv /\ Rest /\ [NextShipping]_allVars => Rest'
    <2>1. IInv /\ Rest /\ NextShipping => Rest'  BY ArgsStep, SessionStep
    <2>2. Rest /\ UNCHANGED allVars => Rest'  BY ArgsStays, SessionStays DEF allVars
    <2>  QED  BY <2>1, <2>2
  <1>3. ShippingIInv <=> IInv /\ Rest  BY DEF ShippingIInv
  <1>  QED  BY <1>1, <1>2, <1>3, ArchiveInvariance, PTL DEF SpecShipping

(* The scanner never reads into a full buffer: moving or doubling makes    *)
(* room, or there is some.                                                 *)
LEMMA RoomIsLeft ==
    ASSUME ArgsIInv, Full => size < MaxTokenSize, err = "none", scan # "off",
           NEW room, room = (IF Full THEN Doubled ELSE size),
           NEW last, last = (IF Moves \/ Full THEN held ELSE limit)
    PROVE  last < room
  <1>1. /\ start \in Nat /\ limit \in Nat /\ size \in Nat /\ start <= limit /\ limit <= size
    BY DEF ArgsIInv, ArgsTypeOK, Layout
  <1>2. StartBufSize \in Nat /\ 4 < StartBufSize /\ MaxTokenSize \in Nat /\ StartBufSize <= MaxTokenSize
    BY SizesAssumption DEF commandArg
  <1>3. held = limit - start /\ held \in Nat  BY <1>1 DEF held
  <1>4. CASE Full
    <2>1. limit = size /\ size < MaxTokenSize  BY <1>4 DEF Full
    <2>2. room = Doubled /\ last = held  BY <1>4
    <2>3. room \in Nat /\ size < room  BY <1>1, <1>2, <2>1, <2>2, DoubledIs
    <2>  QED  BY <1>1, <1>3, <2>1, <2>2, <2>3
  <1>5. CASE ~Full /\ Moves
    <2>1. start > 0  BY <1>5 DEF Moves
    <2>2. room = size /\ last = held  BY <1>5
    <2>  QED  BY <1>1, <1>3, <2>1, <2>2
  <1>6. CASE ~Full /\ ~Moves
    <2>1. limit # size  BY <1>6 DEF Full
    <2>2. room = size /\ last = limit  BY <1>6
    <2>  QED  BY <1>1, <2>1, <2>2
  <1>  QED  BY <1>4, <1>5, <1>6

LEMMA FillAdvances == ArgsIInv /\ Fill => Advances
  <1> SUFFICES ASSUME ArgsIInv, Fill PROVE Advances
    OBVIOUS
  <1>0. PICK room, last : /\ room = (IF Full THEN Doubled ELSE size)
                          /\ last = (IF Moves \/ Full THEN held ELSE limit)
    OBVIOUS
  <1>1. scan = "scanning" /\ err = "none" /\ (Full => size < MaxTokenSize)  BY DEF Fill, Needs
  <1>2. \/ /\ unread > 0
           /\ limit' = IF unread < room - last THEN last + unread ELSE room
           /\ unread' = unread - (limit' - last)
           /\ err' = err
        \/ err' # "none"
    BY <1>0 DEF Fill
  <1>3. last < room /\ room \in Nat /\ last \in Nat /\ unread \in Nat
    <2>1. last < room  BY <1>0, <1>1, RoomIsLeft
    <2>2. PICK s : s = (IF Moves \/ Full THEN 0 ELSE start)  OBVIOUS
    <2>3. room \in Nat /\ last \in Nat  BY <1>0, <1>1, <2>2, RoomIs
    <2>  QED  BY <2>1, <2>3 DEF ArgsIInv, ArgsTypeOK
  <1>4. \A l, v : /\ unread > 0
                  /\ l = (IF unread < room - last THEN last + unread ELSE room)
                  /\ v = unread - (l - last)
                  => v < unread
    BY <1>3
  <1>  QED  BY <1>1, <1>2, <1>4, Zenon DEF Advances

LEMMA WriteLineAdvances == ArgsIInv /\ WriteLine => Advances
  <1> SUFFICES ASSUME ArgsIInv, WriteLine PROVE Advances
    OBVIOUS
  <1>1. /\ UNCHANGED <<err, unread, limit>> /\ held > 0
        /\ start' = IF Whole THEN start + Length + 1 ELSE limit
        /\ Whole => Length = lineLength
    BY DEF WriteLine, Scanned, Length
  <1>2. start \in Nat /\ limit \in Nat /\ start <= limit  BY DEF ArgsIInv, ArgsTypeOK, Layout
  <1>3. Whole => lineLength \in Nat
    <2> SUFFICES ASSUME Whole PROVE lineLength \in Nat
      OBVIOUS
    <2>  QED  BY HeldLine DEF WriteLine, Scanned
  <1>4. \A s, n : (n \in Nat /\ s = start + n + 1) \/ s = limit => (limit - start > 0 => limit - s < limit - start)
    BY <1>2
  <1>5. held = limit - start /\ held' = limit - start'  BY <1>1 DEF held
  <1>6. held' < held
    <2>1. CASE Whole  BY <1>1, <1>3, <1>4, <1>5, <2>1, Zenon
    <2>2. CASE ~Whole  BY <1>1, <1>4, <1>5, <2>2, Zenon
    <2>  QED  BY <2>1, <2>2
  <1>  QED  BY <1>1, <1>6 DEF Advances

(* The injection cannot loop: each of its steps gets the scanner on.       *)
THEOREM ScannerAdvances == SpecShipping => [][InjectArgs => Advances]_allVars
  <1>1. ArgsIInv /\ InjectArgs => Advances
    <2>1. ArgsIInv /\ (Panic \/ TooLong \/ Finish) => Advances
      BY DEF Panic, TooLong, Finish, Advances
    <2>  QED  BY <2>1, FillAdvances, WriteLineAdvances DEF InjectArgs, Inject
  <1>2. ShippingIInv /\ [NextShipping]_allVars => [InjectArgs => Advances]_allVars
    BY <1>1 DEF ShippingIInv
  <1>  QED  BY <1>2, Invariance, PTL DEF SpecShipping

(* A directory that is recorded is behind a complete archive, also when an *)
(* error or a panic came back as nil, and the Dockerfile named with it is  *)
(* whole: every buffer size, every Dockerfile, wherever reads and the      *)
(* session fail.  Without a failure or a panic that was excused neither is *)
(* missing from the record.                                                *)
THEOREM RecordedWhole == SpecShipping => []RecordedIsWhole
  <1>1. ShippingIInv => RecordedIsWhole  BY DEF ShippingIInv
  <1>  QED  BY <1>1, Invariance, PTL

(* A panic of the injection needs a line shorter than "ARG ", or one cut   *)
(* short by a failing disk, and a Dockerfile of more than half the first   *)
(* buffer.                                                                 *)
THEOREM PanicsOnlyAtAnEdge == SpecShipping => []PanicsAtAnEdge
  <1>1. ShippingIInv => PanicsAtAnEdge  BY DEF ShippingIInv, ArgsIInv
  <1>  QED  BY <1>1, Invariance, PTL

(* A nil error of Copy means that the whole stream was written.            *)
THEOREM SuccessClosed == SpecShipping => []SuccessIsClosed
  BY ArchiveInvariance, Closed, PTL

(* What a complete archive of a build path that is itself a directory      *)
(* holds is what the lines of .dockerignore say, for every tree and every  *)
(* .dockerignore that compiles and has no wildcard in an exception;        *)
(* whatever the lines, it holds nothing more.  Of a build path that is a   *)
(* symbolic link it holds no more than the link.                           *)
THEOREM ArchiveIsWhatIsKept == SpecShipping => []DirectoryBehindAll
  <1>1. IInv => DirectoryBehindAll
    <2> SUFFICES ASSUME IInv, Directory \in Shipped
                 PROVE  IF linked THEN Shipped \subseteq {Link, Directory}
                        ELSE /\ \A e \in Shipped \ {Directory} : e.path \in Kept
                             /\ Compiles /\ LiteralExceptions =>
                                   \A p \in Kept : Readable(p) =>
                                      [path |-> p, content |-> Content(p)] \in Shipped
      BY DEF DirectoryBehindAll
    <2>1. archiver = "ended" /\ copy \in {"read", "ok"}
      <3>1. PICK i \in DOMAIN remote : remote[i] = Directory  BY DEF Shipped, ToSet
      <3>2. EndsIn(remote, archiver = "ended" /\ copy \in {"read", "ok"})  BY DEF IInv, DirectoryLast
      <3>  QED  BY <3>1, <3>2 DEF EndsIn
    <2>2. todo = {} /\ buffer = <<>> /\ chunk = <<>>  BY <2>1 DEF IInv, DirectoryLast
    <2>3. Stream = Shipped  BY <2>2 DEF Stream, ToSet
    <2>  QED  BY <2>1, <2>2, <2>3 DEF IInv, OnlyKept, Frontier
  <1>  QED  BY <1>1, ArchiveInvariance, PTL
=============================================================================
