--------------------------- MODULE ImageReference ---------------------------
(***************************************************************************)
(* docker.ParseImage, and the id of a windbag_image derived from it.       *)
(*                                                                         *)
(* An image is written as components between slashes; a component may have *)
(* a colon with something behind it: the port of a registry, or the tag.   *)
(***************************************************************************)
EXTENDS Naturals, Sequences, FiniteSetsExt

CONSTANTS
    Words,      \* what stands between slashes and colons
    NoColon,    \* a component has no colon
    DockerHub, Library, Latest  \* the defaults: docker.io, library, latest

ASSUME ReferenceAssumption == NoColon \notin Words /\ {DockerHub, Library, Latest} \subseteq Words

Component == [word : Words, colon : Words \cup {NoColon}]
Plain(word) == [word |-> word, colon |-> NoColon]

Colons(image) == {i \in DOMAIN image : image[i].colon # NoColon}

(* The tag is everything behind the last colon, slashes included.          *)
TagOf(image) ==
    IF Colons(image) = {} THEN <<Plain(Latest)>>
    ELSE LET last == Max(Colons(image))
         IN  <<Plain(image[last].colon)>> \o SubSeq(image, last + 1, Len(image))

PathOf(image) ==
    IF Colons(image) = {} THEN image
    ELSE LET last == Max(Colons(image))
         IN  [SubSeq(image, 1, last) EXCEPT ![last].colon = NoColon]

(* Three components and more begin with a registry, fewer never do.        *)
ParseImage(image) ==
    LET path == PathOf(image) IN
    [registry   |-> IF Len(path) >= 3 THEN path[1] ELSE Plain(DockerHub),
     repository |-> IF Len(path) >= 3 THEN Tail(path)
                    ELSE IF Len(path) = 2 THEN path
                    ELSE <<Plain(Library)>> \o path,
     tag        |-> TagOf(image)]

(* The id is the repository without its first component.                   *)
resourceWindbagImageID(image) == Tail(ParseImage(image).repository)
=============================================================================
