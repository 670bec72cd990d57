-------------------------- MODULE ImageReadRefines --------------------------
(***************************************************************************)
(* ImageRead implements ImageRelease: every step of the handler, of its    *)
(* goroutines and of the commands they left behind is a step of the staged *)
(* release or changes nothing in it.                                       *)
(***************************************************************************)
EXTENDS ImageReadProofs

RVars == Release!vars

(* An untouched operation is an untouched release.                         *)
LEMMA RefineInit == Init => Release!Init
BY DEF Init, Release!Init, Release!Workers, Release!Tags, Release!Platforms, Workers, Tags,
       Platforms

(* Both modules read the same constants.                                   *)
LEMMA SameConstants ==
    /\ Release!Workers = Workers
    /\ Release!Tags = Tags
    /\ Release!Platforms = Platforms
    /\ \A p : Release!Intact(p) <=> Intact(p)
BY DEF Release!Workers, Release!Tags, Release!Platforms, Workers, Tags, Platforms,
       Release!Intact, Intact

(* A phase whose goroutines all returned nil completes the stage of the    *)
(* release: the Waits of Read stand between the right things.              *)
LEMMA SameStages ==
    ASSUME IInv
    PROVE  /\ (\A w \in Workers : build[w] = "ok") => Release!Built
           /\ opts.push /\ (\A w \in Workers : push[w] = "ok") => Release!Uploaded
           /\ (\A t \in Tags : manif[t] = "ok") => Release!Listed
<1>1. (\A w \in Workers : build[w] = "ok") => Release!Built
  BY SameConstants DEF IInv, BuiltIsFresh, Release!Built
<1>2. ASSUME \A w \in Workers : push[w] = "ok", NEW p \in Platforms, Intact(p), NEW t \in Tags
      PROVE  registry[t][p] = "fresh"
  <2>1. PICK w \in Workers : Platform[w] = p
    BY DEF Platforms
  <2>2. QED
    BY <1>2, <2>1 DEF IInv, PushedIsFresh
<1>3. (\A w \in Workers : push[w] = "ok") => Release!Uploaded
  BY <1>2, SameConstants DEF Release!Uploaded
<1>4. (\A t \in Tags : manif[t] = "ok") => Release!Listed
  BY SameConstants, ManifestWorkerExists DEF IInv, ListsExist, Release!Listed
<1>5. QED
  BY <1>1, <1>3, <1>4

(* A docker push, awaited or abandoned, is an upload of the release.       *)
LEMMA UploadRefines ==
    ASSUME IInv, NEW w \in Workers, NEW t \in Tags, push[w] # "idle",
           local[w] # "absent", Upload(w, t),
           UNCHANGED <<opts, phase, result, intact, local, index>>
    PROVE  Release!Next
<1>1. opts.push /\ phase \in {"push", "manifest", "done"} /\ build[w] = "ok"
  BY DEF IInv, TypeOK, PhasesInOrder
<1>2. local[w] = "fresh" \/ (local[w] = "stale" /\ ~intact[w])
  BY <1>1 DEF IInv, TypeOK, Versions, BuiltIsFresh
<1>3. Release!Upload(w, t)
  BY <1>1, <1>2 DEF Release!Upload, Upload
<1>4. QED
  BY <1>3, SameConstants DEF Release!Next

(* A docker manifest push publishes a list the release allows.             *)
LEMMA ListRefines ==
    ASSUME IInv, NEW t \in Tags, manif[t] # "idle", draft[t] # NoList,
           index' = [index EXCEPT ![t] = draft[t]],
           UNCHANGED <<opts, phase, result, intact, local, registry>>
    PROVE  Release!Next
<1>1. opts.push /\ opts.manifest /\ phase \in {"manifest", "done"}
  BY DEF IInv, TypeOK, PhasesInOrder
<1>2. draft[t] \in [Platforms -> Versions]
  BY DEF IInv, TypeOK, Lists
<1>3. \A p \in Platforms : draft[t][p] \in {"stale", "fresh"}
  BY <1>2 DEF IInv, DraftsAreFresh, Versions
<1>4. draft[t] \in [Platforms -> {"stale", "fresh"}]
  BY <1>2, <1>3
<1>5. \A p \in Platforms : Intact(p) => draft[t][p] = "fresh"
  BY DEF IInv, DraftsAreFresh
<1>6. Release!List(t)
  BY <1>1, <1>4, <1>5, SameConstants DEF Release!List
<1>7. QED
  BY <1>6, SameConstants DEF Release!Next

(* A session cut short only clears intact.                                 *)
LEMMA CutRefines ==
    ASSUME NEW w \in Workers, phase # "done", intact' = [intact EXCEPT ![w] = FALSE],
           UNCHANGED <<opts, phase, result, local, registry, index>>
    PROVE  Release!Next
BY SameConstants DEF Release!Next, Release!Cut

(* A docker build that ends is a build of the release.                     *)
LEMMA BuildRefines ==
    ASSUME NEW w \in Workers, phase = "build" \/ (phase # "dial" /\ ~intact[w]),
           local' = [local EXCEPT ![w] = "fresh"],
           UNCHANGED <<opts, phase, result, intact, registry, index>>
    PROVE  Release!Next
BY SameConstants DEF Release!Next, Release!Build

(* Every step of Read is a step of the release or changes nothing in it.   *)
LEMMA RefineStep == IInv /\ [Next]_vars => [Release!Next]_RVars
<1> SUFFICES ASSUME IInv, [Next]_vars PROVE [Release!Next]_RVars
  OBVIOUS
<1>a. TypeOK /\ PhasesInOrder
  BY DEF IInv
<1> USE DEF RVars, Release!vars
<1>1. ASSUME NEW w \in Workers, Dial(w) PROVE [Release!Next]_RVars
  BY <1>1 DEF Dial, linkVars, dataVars, Release!Next, Release!Report
<1>2. ASSUME StartBuild PROVE [Release!Next]_RVars
  BY <1>2 DEF StartBuild, linkVars, dataVars, Release!Next, Release!Begin
<1>3. ASSUME EndBuild PROVE [Release!Next]_RVars
  <2>1. CASE AnyFailed(build)
    BY <1>3, <2>1 DEF EndBuild, Return, dataVars, Release!Next, Release!Report
  <2>2. CASE ~AnyFailed(build)
    <3>1. \A w \in Workers : build[w] = "ok"
      BY <1>3, <2>2, <1>a DEF EndBuild, Joined, AnyFailed, TypeOK
    <3>2. Release!Built
      BY <3>1, SameStages
    <3>3. QED
      BY <1>3, <2>2, <3>2 DEF EndBuild, Return, dataVars, Release!Next, Release!Report,
                              Release!Complete, Release!Begin
  <2>3. QED
    BY <2>1, <2>2
<1>4. ASSUME EndPush PROVE [Release!Next]_RVars
  <2>1. CASE AnyFailed(push)
    BY <1>4, <2>1 DEF EndPush, Return, dataVars, Release!Next, Release!Report
  <2>2. CASE ~AnyFailed(push)
    <3>1. \A w \in Workers : push[w] = "ok"
      BY <1>4, <2>2, <1>a DEF EndPush, Joined, AnyFailed, TypeOK
    <3>2. opts.push
      BY <3>1, <1>a, NumWorkersAssumption DEF PhasesInOrder, Workers
    <3>3. Release!Uploaded
      BY <3>1, <3>2, SameStages
    <3>4. QED
      BY <1>4, <2>2, <3>3 DEF EndPush, Return, dataVars, Release!Next, Release!Report,
                              Release!Complete, Release!Begin
  <2>3. QED
    BY <2>1, <2>2
<1>5. ASSUME EndManifest PROVE [Release!Next]_RVars
  <2>1. CASE AnyFailed(manif)
    BY <1>5, <2>1 DEF EndManifest, Return, dataVars, Release!Next, Release!Report
  <2>2. CASE ~AnyFailed(manif)
    <3>1. \A t \in Tags : manif[t] = "ok"
      BY <1>5, <2>2, <1>a DEF EndManifest, Joined, AnyFailed, TypeOK
    <3>2. Release!Listed
      BY <3>1, SameStages
    <3>3. QED
      BY <1>5, <2>2, <3>2 DEF EndManifest, Return, dataVars, Release!Next, Release!Report,
                              Release!Complete
  <2>3. QED
    BY <2>1, <2>2
<1>6. ASSUME NEW w \in Workers, BuildOpen(w) PROVE [Release!Next]_RVars
  BY <1>6 DEF BuildOpen, buildFrame
<1>7. ASSUME NEW w \in Workers, BuildReply(w) PROVE [Release!Next]_RVars
  <2>1. phase = "build"
    BY <1>7, <1>a DEF BuildReply, PhasesInOrder
  <2>2. CASE local' = local
    BY <1>7, <2>2 DEF BuildReply, buildFrame
  <2>3. CASE local' = [local EXCEPT ![w] = "fresh"]
    BY <1>7, <2>1, <2>3, BuildRefines DEF BuildReply, buildFrame
  <2>4. QED
    BY <1>7, <2>2, <2>3 DEF BuildReply
<1>8. ASSUME NEW w \in Workers, BuildCut(w) PROVE [Release!Next]_RVars
  <2>1. phase # "done"
    BY <1>8, <1>a DEF BuildCut, PhasesInOrder
  <2>2. QED
    BY <1>8, <2>1, CutRefines DEF BuildCut, buildFrame
<1>hang. ASSUME NEW w \in Workers, BuildHangs(w) PROVE [Release!Next]_RVars
  <2>1. phase = "build"
    BY <1>hang, <1>a DEF BuildHangs, PhasesInOrder
  <2>2. CASE local' = local
    BY <1>hang, <2>2 DEF BuildHangs, buildFrame
  <2>3. CASE local' = [local EXCEPT ![w] = "fresh"]
    BY <1>hang, <2>1, <2>3, BuildRefines DEF BuildHangs, buildFrame
  <2>4. QED
    BY <1>hang, <2>2, <2>3 DEF BuildHangs
<1>9. ASSUME NEW w \in Workers, PushOpen(w) PROVE [Release!Next]_RVars
  BY <1>9 DEF PushOpen, pushFrame
<1>10. ASSUME NEW w \in Workers, PushAttempt(w) PROVE [Release!Next]_RVars
  BY <1>10 DEF PushAttempt, pushFrame
<1>11. ASSUME NEW w \in Workers, PushReply(w) PROVE [Release!Next]_RVars
  <2>1. push[w] # "idle" /\ pushTag[w] \in Tags
    BY <1>11, <1>a DEF PushReply, TypeOK
  <2>2. CASE registry' = registry
    BY <1>11, <2>2 DEF PushReply, pushFrame
  <2>3. CASE local[w] # "absent" /\ Upload(w, pushTag[w])
    BY <1>11, <2>1, <2>3, UploadRefines DEF PushReply, pushFrame
  <2>4. QED
    BY <1>11, <2>2, <2>3 DEF PushReply
<1>12. ASSUME NEW w \in Workers, PushCut(w) PROVE [Release!Next]_RVars
  <2>1. phase # "done"
    BY <1>12, <1>a DEF PushCut, PhasesInOrder
  <2>2. QED
    BY <1>12, <2>1, CutRefines DEF PushCut, pushFrame
<1>13. ASSUME NEW w \in Workers, PushGiveUp(w) PROVE [Release!Next]_RVars
  <2>1. CASE UNCHANGED intact
    BY <1>13, <2>1 DEF PushGiveUp, pushFrame
  <2>2. CASE intact' = [intact EXCEPT ![w] = FALSE]
    <3>1. phase # "done"
      BY <1>13, <1>a DEF PushGiveUp, PhasesInOrder
    <3>2. QED
      BY <1>13, <2>2, <3>1, CutRefines DEF PushGiveUp, pushFrame
  <2>3. QED
    BY <1>13, <2>1, <2>2 DEF PushGiveUp
<1>14. ASSUME NEW t \in Tags, ManifestOpen(t) PROVE [Release!Next]_RVars
  BY <1>14 DEF ManifestOpen, manifFrame
<1>15. ASSUME NEW t \in Tags, ManifestCreated(t) PROVE [Release!Next]_RVars
  BY <1>15 DEF ManifestCreated, manifFrame
<1>16. ASSUME NEW t \in Tags, ManifestPushed(t) PROVE [Release!Next]_RVars
  <2>1. CASE index' = index
    BY <1>16, <2>1 DEF ManifestPushed, manifFrame
  <2>2. CASE index' = [index EXCEPT ![t] = draft[t]]
    <3>1. manif[t] # "idle" /\ draft[t] # NoList
      BY <1>16 DEF ManifestPushed, IInv, ListsExist
    <3>2. QED
      BY <1>16, <2>2, <3>1, ListRefines DEF ManifestPushed, manifFrame
  <2>3. QED
    BY <1>16, <2>1, <2>2 DEF ManifestPushed
<1>17. ASSUME NEW t \in Tags, ManifestCut(t) PROVE [Release!Next]_RVars
  <2>1. phase # "done"
    BY <1>17, <1>a DEF ManifestCut, PhasesInOrder
  <2>2. QED
    BY <1>17, <2>1, CutRefines, ManifestWorkerExists DEF ManifestCut, manifFrame
<1>18. ASSUME NEW t \in Tags, ManifestGiveUp(t) PROVE [Release!Next]_RVars
  BY <1>18 DEF ManifestGiveUp, manifFrame
<1>19. ASSUME NEW w \in Workers, LoseLink(w) PROVE [Release!Next]_RVars
  BY <1>19, CutRefines DEF LoseLink, dataVars
<1>20. ASSUME NEW w \in Workers, LateBuildEnds(w) PROVE [Release!Next]_RVars
  <2>1. phase # "dial" /\ ~intact[w]
    BY <1>20 DEF LateBuildEnds, IInv, LateOrigins, PhasesInOrder
  <2>2. CASE local' = local
    BY <1>20, <2>2 DEF LateBuildEnds, lateFrame, linkVars
  <2>3. CASE local' = [local EXCEPT ![w] = "fresh"]
    BY <1>20, <2>1, <2>3, BuildRefines DEF LateBuildEnds, lateFrame, linkVars
  <2>4. QED
    BY <1>20, <2>2, <2>3 DEF LateBuildEnds
<1>21. ASSUME NEW w \in Workers, NEW t \in Tags, LatePushEnds(w, t) PROVE [Release!Next]_RVars
  <2>1. push[w] # "idle"
    BY <1>21 DEF LatePushEnds, IInv, LateOrigins
  <2>2. CASE registry' = registry
    BY <1>21, <2>2 DEF LatePushEnds, lateFrame, linkVars
  <2>3. CASE local[w] # "absent" /\ Upload(w, t)
    BY <1>21, <2>1, <2>3, UploadRefines DEF LatePushEnds, lateFrame, linkVars
  <2>4. QED
    BY <1>21, <2>2, <2>3 DEF LatePushEnds
<1>22. ASSUME NEW t \in Tags, LateCreateEnds(t) PROVE [Release!Next]_RVars
  BY <1>22 DEF LateCreateEnds, lateFrame, linkVars
<1>23. ASSUME NEW t \in Tags, LatePublishEnds(t) PROVE [Release!Next]_RVars
  <2>1. CASE index' = index
    BY <1>23, <2>1 DEF LatePublishEnds, lateFrame, linkVars
  <2>2. CASE index' = [index EXCEPT ![t] = draft[t]]
    <3>1. manif[t] # "idle" /\ draft[t] # NoList
      BY <1>23 DEF LatePublishEnds, IInv, ListsExist, LateOrigins
    <3>2. QED
      BY <1>23, <2>2, <3>1, ListRefines DEF LatePublishEnds, lateFrame, linkVars
  <2>3. QED
    BY <1>23, <2>1, <2>2 DEF LatePublishEnds
<1>24. CASE UNCHANGED vars
  BY <1>24 DEF vars
<1>25. QED
  BY <1>1, <1>2, <1>3, <1>4, <1>5, <1>6, <1>7, <1>8, <1>hang, <1>9, <1>10, <1>11, <1>12, <1>13, <1>14, <1>15, <1>16, <1>17, <1>18, <1>19, <1>20, <1>21, <1>22, <1>23, <1>24
     DEF Next, Handler, BuildStep, PushStep, ManifestStep, LateStep, Terminated

(* The release keeps the promise of the abstract one.                      *)
THEOREM Refinement == Spec => ReleaseSpec
<1>1. Init => Release!Init
  BY RefineInit
<1>2. IInv /\ [Next]_vars => [Release!Next]_RVars
  BY RefineStep
<1>3. Spec => Release!Init /\ [][Release!Next]_RVars
  BY <1>1, <1>2, Invariance, PTL DEF Spec
<1>4. QED
  BY <1>3 DEF ReleaseSpec, Release!Spec, RVars
=============================================================================
