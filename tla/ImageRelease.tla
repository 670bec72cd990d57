---------------------------- MODULE ImageRelease ----------------------------
(***************************************************************************)
(* What one Read of the windbag_image resource promises, without the       *)
(* goroutines, sessions and retries that carry it out: a release in        *)
(* stages.  Images are built, then uploaded, then listed; a stage begins   *)
(* when the one before it is complete, success is reported only after the  *)
(* last stage the arguments ask for, and only a connection or a command    *)
(* cut short makes an exception for its worker.                            *)
(***************************************************************************)
EXTENDS Naturals

CONSTANTS NumWorkers, NumTags, Platform, OSBuild, NoList

VARIABLES opts, stage, result, intact, local, registry, index

Workers == 1 .. NumWorkers
Tags == 1 .. NumTags
Platforms == {Platform[w] : w \in Workers}
Versions == {"absent", "stale", "fresh"}

vars == <<opts, stage, result, intact, local, registry, index>>

Init ==
    /\ opts \in [push : BOOLEAN, manifest : BOOLEAN]
    /\ stage = "dial"
    /\ result = "none"
    /\ intact = [w \in Workers |-> TRUE]
    /\ \E prior \in {"absent", "stale"} :
          /\ local = [w \in Workers |-> prior]
          /\ registry = [t \in Tags |-> [p \in Platforms |-> prior]]
    /\ index = [t \in Tags |-> NoList]

(* Where nothing was cut short.                                            *)
Intact(p) == \A w \in Workers : Platform[w] = p => intact[w]

Built == \A w \in Workers : intact[w] => local[w] = "fresh"
Uploaded == \A p \in Platforms, t \in Tags : Intact(p) => registry[t][p] = "fresh"
Listed == (\A w \in Workers : intact[w]) => \A t \in Tags : index[t] # NoList

(* An intact worker builds in the build stage only; on another one a build *)
(* may end at any later time.                                              *)
Build(w) ==
    /\ stage = "build" \/ (stage # "dial" /\ ~intact[w])
    /\ local' = [local EXCEPT ![w] = "fresh"]
    /\ UNCHANGED <<opts, stage, result, intact, registry, index>>

Upload(w, t) ==
    /\ stage \in {"push", "manifest", "done"}
    /\ opts.push
    /\ local[w] = "fresh" \/ (local[w] = "stale" /\ ~intact[w])
    /\ registry' = [registry EXCEPT ![t][Platform[w]] = local[w]]
    /\ UNCHANGED <<opts, stage, result, intact, local, index>>

List(t) ==
    /\ stage \in {"manifest", "done"}
    /\ opts.push /\ opts.manifest
    /\ \E l \in [Platforms -> {"stale", "fresh"}] :
          /\ \A p \in Platforms : Intact(p) => l[p] = "fresh"
          /\ index' = [index EXCEPT ![t] = l]
    /\ UNCHANGED <<opts, stage, result, intact, local, registry>>

Begin ==
    /\ \/ stage = "dial" /\ stage' = "build"
       \/ stage = "build" /\ Built /\ opts.push /\ stage' = "push"
       \/ stage = "push" /\ Uploaded /\ opts.manifest /\ stage' = "manifest"
    /\ UNCHANGED <<opts, result, intact, local, registry, index>>

Complete ==
    \/ stage = "build" /\ Built /\ ~opts.push
    \/ stage = "push" /\ Uploaded /\ ~opts.manifest
    \/ stage = "manifest" /\ Listed

Report ==
    /\ stage # "done"
    /\ stage' = "done"
    /\ result' = "error" \/ (Complete /\ result' = "nil")
    /\ UNCHANGED <<opts, intact, local, registry, index>>

Cut(w) ==
    /\ stage # "done"
    /\ intact' = [intact EXCEPT ![w] = FALSE]
    /\ UNCHANGED <<opts, stage, result, local, registry, index>>

Next ==
    \/ Begin
    \/ Report
    \/ \E w \in Workers : Build(w) \/ Cut(w) \/ \E t \in Tags : Upload(w, t)
    \/ \E t \in Tags : List(t)

Spec == Init /\ [][Next]_vars
=============================================================================
