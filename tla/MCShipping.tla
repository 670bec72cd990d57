----------------------------- MODULE MCShipping -----------------------------
(* A tree of three levels, with a link, and patterns that exclude and      *)
(* except at each of them; Dockerfiles of up to three lines that end at,   *)
(* before and behind the edges of buffers of 8 and 16 bytes.               *)
EXTENDS Shipping

TreeNames == {"a", "b", "c", "d", "("}
Tree == {<<"a">>, <<"a", "b">>, <<"a", "b", "c">>, <<"d">>}

TreeKind == [p \in Tree |-> IF p \in {<<"a">>, <<"a", "b">>} THEN "dir"
                            ELSE IF p = <<"d">> THEN "link" ELSE "file"]

TreeGlobs == {<<"a">>, <<"a", "b", "c">>, <<"*", "b">>, <<"(">>}
BadTreeGlobs == {<<"(">>}

(* With its newline a line has 1, 2, 5, 7 or 17 bytes.                     *)
Sizes == {1, 2, 5, 7, 17}
SomeEnds ==
    {<<>>} \cup {<<a>> : a \in Sizes} \cup {<<a, a + b>> : a, b \in Sizes}
    \cup {<<a, a + b, a + b + c>> : a, b, c \in Sizes}

SomeLines ==
    UNION {{[i \in DOMAIN e |-> [end |-> e[i], agrees |-> g[i]]] : g \in [DOMAIN e -> BOOLEAN]} :
           e \in SomeEnds}

SomeDockerfiles ==
    {f \in [lines : SomeLines, ended : BOOLEAN] :
        ~f.ended => f.lines # <<>> /\ LengthOf(f, Len(f.lines)) > 0}

PlainDockerfile == [lines |-> <<[end |-> 7, agrees |-> TRUE]>>, ended |-> TRUE]
=============================================================================
