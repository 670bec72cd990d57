--------------------------- MODULE ImageReadProofs ---------------------------
(***************************************************************************)
(* Proofs about ImageRead, for any number of workers and tags, any         *)
(* platforms and any recorded OS builds.                                   *)
(***************************************************************************)
EXTENDS ImageRead, WellFoundedInduction, TLAPS

-----------------------------------------------------------------------------
(* The choice of the manifest worker.                                      *)

(* Every non-empty set of numbers has a least one.                         *)
LEMMA LeastNumber ==
    ASSUME NEW T, T \subseteq Nat, T # {}
    PROVE  \E n \in T : \A m \in T : n <= m
<1> DEFINE LT == OpToRel(<, Nat)
<1>1. \E n \in T : \A m \in T : ~ (<<m, n>> \in LT)
  BY NatLessThanWellFounded, WFMin
<1>2. \A m, n \in Nat : m < n => <<m, n>> \in LT
  BY DEF OpToRel
<1> HIDE DEF LT
<1>3. PICK n \in T : \A m \in T : ~ (<<m, n>> \in LT)
  BY <1>1
<1>4. \A m \in T : m \in Nat /\ n \in Nat /\ ~(m < n)
  BY <1>2, <1>3
<1>5. \A m \in T : n <= m
  BY <1>4
<1>6. QED
  BY <1>5

IsFirstOfHighest(w, n) ==
    /\ w \in 1 .. n
    /\ \A v \in 1 .. n : OSBuild[v] < OSBuild[w] \/ (OSBuild[v] = OSBuild[w] /\ w <= v)

(* The list of workers is never empty, so there is a manifest worker.      *)
LEMMA ManifestWorkerExists == manifestWorker \in Workers
<1> DEFINE T == {n \in 1 .. NumWorkers : ~ \E w \in 1 .. n : IsFirstOfHighest(w, n)}
<1>1. T = {}
  <2> SUFFICES ASSUME T # {} PROVE FALSE
    OBVIOUS
  <2>1. PICK n \in T : \A m \in T : n <= m
    <3>1. T \subseteq Nat
      OBVIOUS
    <3>2. QED
      BY <3>1, LeastNumber
  <2>2. n # 1
    <3>1. IsFirstOfHighest(1, 1)
      BY NumWorkersAssumption, OSBuildAssumption DEF IsFirstOfHighest, Workers
    <3>2. QED
      BY <3>1
  <2>3. PICK w \in 1 .. (n - 1) : IsFirstOfHighest(w, n - 1)
    <3>1. n - 1 \in 1 .. NumWorkers /\ n - 1 \notin T
      BY <2>1, <2>2, NumWorkersAssumption
    <3>2. QED
      BY <3>1
  <2>4. \E x \in 1 .. n : IsFirstOfHighest(x, n)
    <3>1. n \in 1 .. NumWorkers /\ w \in 1 .. n /\ w < n /\ n \in 1 .. n
      BY <2>1, NumWorkersAssumption
    <3>2. \A v \in 1 .. n : v \in 1 .. (n - 1) \/ v = n
      BY <3>1
    <3>3. \A v \in 1 .. n : OSBuild[v] \in Nat /\ v \in Nat
      BY <3>1, OSBuildAssumption, NumWorkersAssumption DEF Workers
    <3>4. CASE OSBuild[w] < OSBuild[n]
      <4>1. \A v \in 1 .. n : v = n \/ OSBuild[v] < OSBuild[n]
        BY <2>3, <3>1, <3>2, <3>3, <3>4 DEF IsFirstOfHighest
      <4>2. IsFirstOfHighest(n, n)
        BY <3>1, <3>3, <4>1 DEF IsFirstOfHighest
      <4>3. QED
        BY <3>1, <4>2
    <3>5. CASE ~(OSBuild[w] < OSBuild[n])
      <4>1. OSBuild[n] < OSBuild[w] \/ (OSBuild[n] = OSBuild[w] /\ w <= n)
        BY <3>1, <3>3, <3>5
      <4>2. IsFirstOfHighest(w, n)
        BY <2>3, <3>1, <3>2, <4>1 DEF IsFirstOfHighest
      <4>3. QED
        BY <3>1, <4>2
    <3>6. QED
      BY <3>4, <3>5
  <2>5. QED
    BY <2>1, <2>4
<1>2. \E w \in Workers : IsFirstOfHighest(w, NumWorkers)
  BY <1>1, NumWorkersAssumption DEF Workers
<1>3. QED
  BY <1>2 DEF manifestWorker, IsFirstOfHighest, Workers

-----------------------------------------------------------------------------
(* Type correctness.                                                       *)

(* The initial values have their types.                                    *)
LEMMA TypeInit == Init => TypeOK
BY NumTagsAssumption DEF Init, TypeOK, Versions, Tags, Lists

(* A docker push keeps the type of the registry.                           *)
LEMMA UploadType ==
    ASSUME TypeOK, NEW w \in Workers, NEW t \in Tags, Upload(w, t)
    PROVE  registry' \in [Tags -> [Platforms -> Versions]]
<1>1. registry \in [Tags -> [Platforms -> Versions]] /\ local[w] \in Versions
  BY DEF TypeOK
<1>2. Platform[w] \in Platforms
  BY DEF Platforms
<1>3. [registry[t] EXCEPT ![Platform[w]] = local[w]] \in [Platforms -> Versions]
  BY <1>1, <1>2
<1>4. QED
  BY <1>1, <1>3 DEF Upload

(* A docker push writes one entry, the worker's image under its platform.  *)
LEMMA UploadEffect ==
    ASSUME TypeOK, NEW w \in Workers, NEW t \in Tags, Upload(w, t),
           NEW x \in Tags, NEW p \in Platforms
    PROVE  registry'[x][p] = IF x = t /\ p = Platform[w] THEN local[w] ELSE registry[x][p]
<1>1. registry \in [Tags -> [Platforms -> Versions]]
  BY DEF TypeOK
<1>2. registry'[x] = IF x = t THEN [registry[t] EXCEPT ![Platform[w]] = local[w]]
                              ELSE registry[x]
  BY <1>1 DEF Upload
<1>3. registry[t] \in [Platforms -> Versions]
  BY <1>1
<1>4. QED
  BY <1>2, <1>3

(* Every step keeps the types.                                             *)
LEMMA TypeStep == TypeOK /\ [Next]_vars => TypeOK'
<1> SUFFICES ASSUME TypeOK, [Next]_vars PROVE TypeOK'
  OBVIOUS
<1> USE DEF TypeOK
<1>1. ASSUME NEW w \in Workers, Dial(w) PROVE TypeOK'
  BY <1>1 DEF Dial, dataVars, lateVars
<1>2. ASSUME StartBuild PROVE TypeOK'
  BY <1>2 DEF StartBuild, linkVars, dataVars, lateVars
<1>3. ASSUME EndBuild PROVE TypeOK'
  BY <1>3 DEF EndBuild, Return, dataVars, lateVars
<1>4. ASSUME EndPush PROVE TypeOK'
  BY <1>4 DEF EndPush, Return, dataVars, lateVars
<1>5. ASSUME EndManifest PROVE TypeOK'
  BY <1>5 DEF EndManifest, Return, dataVars, lateVars
<1>6. ASSUME NEW w \in Workers, BuildOpen(w) PROVE TypeOK'
  BY <1>6 DEF BuildOpen, buildFrame
<1>7. ASSUME NEW w \in Workers, BuildReply(w) PROVE TypeOK'
  <2>1. local' \in [Workers -> Versions]
    BY <1>7 DEF BuildReply, Versions
  <2>2. QED
    BY <1>7, <2>1 DEF BuildReply, buildFrame
<1>8. ASSUME NEW w \in Workers, BuildCut(w) PROVE TypeOK'
  BY <1>8 DEF BuildCut, buildFrame
<1>hang. ASSUME NEW w \in Workers, BuildHangs(w) PROVE TypeOK'
  <2>1. local' \in [Workers -> Versions]
    BY <1>hang DEF BuildHangs, Versions
  <2>2. QED
    BY <1>hang, <2>1 DEF BuildHangs, buildFrame
<1>9. ASSUME NEW w \in Workers, PushOpen(w) PROVE TypeOK'
  BY <1>9 DEF PushOpen, pushFrame
<1>10. ASSUME NEW w \in Workers, PushAttempt(w) PROVE TypeOK'
  BY <1>10 DEF PushAttempt, pushFrame
<1>11. ASSUME NEW w \in Workers, PushReply(w) PROVE TypeOK'
  <2>1. push' \in [Workers -> {"idle", "ready", "wait", "exec", "broken", "ok", "failed"}]
    <3>1. \E x \in {"wait", "ok"} : push' = [push EXCEPT ![w] = x]
      BY <1>11 DEF PushReply, NextTag
    <3>2. QED
      BY <3>1
  <2>2. pushTag' \in [Workers -> Tags]
    <3>1. pushTag' = pushTag \/ (pushTag[w] # NumTags /\ pushTag' = [pushTag EXCEPT ![w] = @ + 1])
      BY <1>11 DEF PushReply, NextTag
    <3>2. pushTag[w] # NumTags => pushTag[w] + 1 \in Tags
      BY NumTagsAssumption DEF Tags
    <3>3. QED
      BY <3>1, <3>2
  <2>3. registry' \in [Tags -> [Platforms -> Versions]]
    BY <1>11, UploadType DEF PushReply
  <2>4. QED
    BY <1>11, <2>1, <2>2, <2>3 DEF PushReply, pushFrame
<1>12. ASSUME NEW w \in Workers, PushCut(w) PROVE TypeOK'
  <2>1. latePushes' \subseteq Workers \X Tags
    BY <1>12 DEF PushCut
  <2>2. QED
    BY <1>12, <2>1 DEF PushCut, pushFrame
<1>13. ASSUME NEW w \in Workers, PushGiveUp(w) PROVE TypeOK'
  <2>1. latePushes' \subseteq Workers \X Tags
    BY <1>13 DEF PushGiveUp
  <2>2. QED
    BY <1>13, <2>1 DEF PushGiveUp, pushFrame
<1>14. ASSUME NEW t \in Tags, ManifestOpen(t) PROVE TypeOK'
  BY <1>14 DEF ManifestOpen, manifFrame
<1>15. ASSUME NEW t \in Tags, ManifestCreated(t) PROVE TypeOK'
  <2>1. draft' \in [Tags -> Lists]
    BY <1>15 DEF ManifestCreated, Lists
  <2>2. manif' \in [Tags -> {"idle", "wait", "create", "publish", "ok", "failed"}]
    <3>1. PICK s \in {"publish", "wait"} : manif' = [manif EXCEPT ![t] = s]
      BY <1>15 DEF ManifestCreated
    <3>2. QED
      BY <3>1
  <2>3. UNCHANGED <<opts, phase, result, dialer, link, intact, build, push, pushTag, local,
                    registry, index, lateBuilds, latePushes, lateLists>>
    BY <1>15 DEF ManifestCreated, manifFrame
  <2>4. QED
    BY <2>1, <2>2, <2>3
<1>16. ASSUME NEW t \in Tags, ManifestPushed(t) PROVE TypeOK'
  <2>1. index' \in [Tags -> Lists]
    BY <1>16 DEF ManifestPushed
  <2>2. manif' \in [Tags -> {"idle", "wait", "create", "publish", "ok", "failed"}]
    <3>1. PICK s \in {"ok", "wait"} : manif' = [manif EXCEPT ![t] = s]
      BY <1>16 DEF ManifestPushed
    <3>2. QED
      BY <3>1
  <2>3. UNCHANGED <<opts, phase, result, dialer, link, intact, build, push, pushTag, local,
                    registry, draft, lateBuilds, latePushes, lateLists>>
    BY <1>16 DEF ManifestPushed, manifFrame
  <2>4. QED
    BY <2>1, <2>2, <2>3
<1>17. ASSUME NEW t \in Tags, ManifestCut(t) PROVE TypeOK'
  <2>1. lateLists' \subseteq {"create", "publish"} \X Tags
    BY <1>17 DEF ManifestCut
  <2>2. /\ manif' \in [Tags -> {"idle", "wait", "create", "publish", "ok", "failed"}]
        /\ intact' \in [Workers -> BOOLEAN]
    <3>1. PICK s \in {"ok", "wait"} : manif' = [manif EXCEPT ![t] = s]
      BY <1>17 DEF ManifestCut
    <3>2. intact' = [intact EXCEPT ![manifestWorker] = FALSE]
      BY <1>17 DEF ManifestCut
    <3>3. QED
      BY <3>1, <3>2
  <2>3. UNCHANGED <<opts, phase, result, dialer, link, build, push, pushTag, local,
                    registry, draft, index, lateBuilds, latePushes>>
    BY <1>17 DEF ManifestCut, manifFrame
  <2>4. QED
    BY <2>1, <2>2, <2>3
<1>18. ASSUME NEW t \in Tags, ManifestGiveUp(t) PROVE TypeOK'
  <2>1. lateLists' \subseteq {"create", "publish"} \X Tags
    BY <1>18 DEF ManifestGiveUp
  <2>2. QED
    BY <1>18, <2>1 DEF ManifestGiveUp, manifFrame
<1>19. ASSUME NEW w \in Workers, LoseLink(w) PROVE TypeOK'
  BY <1>19 DEF LoseLink, dataVars, lateVars
<1>20. ASSUME NEW w \in Workers, LateBuildEnds(w) PROVE TypeOK'
  <2>1. local' \in [Workers -> Versions]
    BY <1>20 DEF LateBuildEnds, Versions
  <2>2. QED
    BY <1>20, <2>1 DEF LateBuildEnds, lateFrame, linkVars
<1>21. ASSUME NEW w \in Workers, NEW t \in Tags, LatePushEnds(w, t) PROVE TypeOK'
  <2>1. registry' \in [Tags -> [Platforms -> Versions]]
    BY <1>21, UploadType DEF LatePushEnds
  <2>2. QED
    BY <1>21, <2>1 DEF LatePushEnds, lateFrame, linkVars
<1>22. ASSUME NEW t \in Tags, LateCreateEnds(t) PROVE TypeOK'
  <2>1. draft' \in [Tags -> Lists]
    BY <1>22 DEF LateCreateEnds, Lists
  <2>2. lateLists' \subseteq {"create", "publish"} \X Tags
    BY <1>22 DEF LateCreateEnds
  <2>3. QED
    BY <1>22, <2>1, <2>2 DEF LateCreateEnds, lateFrame, linkVars
<1>23. ASSUME NEW t \in Tags, LatePublishEnds(t) PROVE TypeOK'
  <2>1. index' \in [Tags -> Lists]
    BY <1>23 DEF LatePublishEnds
  <2>2. lateLists' \subseteq {"create", "publish"} \X Tags
    BY <1>23 DEF LatePublishEnds
  <2>3. QED
    BY <1>23, <2>1, <2>2 DEF LatePublishEnds, lateFrame, linkVars
<1>24. CASE UNCHANGED vars
  BY <1>24 DEF vars
<1>25. QED
  BY <1>1, <1>2, <1>3, <1>4, <1>5, <1>6, <1>7, <1>8, <1>hang, <1>9, <1>10, <1>11, <1>12, <1>13, <1>14, <1>15, <1>16, <1>17, <1>18, <1>19, <1>20, <1>21, <1>22, <1>23, <1>24
     DEF Next, Handler, BuildStep, PushStep, ManifestStep, LateStep, Terminated

(* Type correctness, for every instance.                                   *)
THEOREM TypeCorrect == Spec => []TypeOK
<1>1. Init => TypeOK
  BY TypeInit
<1>2. TypeOK /\ [Next]_vars => TypeOK'
  BY TypeStep
<1>3. QED
  BY <1>1, <1>2, PTL DEF Spec

(* The phases stay in order: each begins behind an errgroup.Wait.          *)
LEMMA PhasesStep == IInv /\ [Next]_vars => PhasesInOrder'
<1> SUFFICES ASSUME TypeOK, PhasesInOrder, LateOrigins, [Next]_vars PROVE PhasesInOrder'
  BY DEF IInv
<1> USE DEF TypeOK, PhasesInOrder, Joined, AnyFailed, LateOrigins
<1>1. ASSUME NEW w \in Workers, Dial(w) PROVE PhasesInOrder'
  BY <1>1 DEF Dial, dataVars, lateVars
<1>2. ASSUME StartBuild PROVE PhasesInOrder'
  BY <1>2 DEF StartBuild, linkVars, dataVars, lateVars
<1>3. ASSUME EndBuild PROVE PhasesInOrder'
  BY <1>3 DEF EndBuild, Return, dataVars, lateVars
<1>4. ASSUME EndPush PROVE PhasesInOrder'
  <2>1. CASE AnyFailed(push)
    BY <1>4, <2>1 DEF EndPush, Return, dataVars, lateVars
  <2>2. CASE ~AnyFailed(push) /\ ~opts.manifest
    BY <1>4, <2>2 DEF EndPush, Return, dataVars, lateVars
  <2>3. CASE ~AnyFailed(push) /\ opts.manifest
    <3>1. \A v \in Workers : push[v] = "ok"
      BY <1>4, <2>3 DEF EndPush
    <3>2. opts.push
      BY <3>1, NumWorkersAssumption DEF Workers
    <3>3. QED
      BY <1>4, <2>3, <3>1, <3>2 DEF EndPush, dataVars, lateVars
  <2>4. QED
    BY <2>1, <2>2, <2>3
<1>5. ASSUME EndManifest PROVE PhasesInOrder'
  BY <1>5 DEF EndManifest, Return, dataVars, lateVars
<1>6. ASSUME NEW w \in Workers, BuildOpen(w) PROVE PhasesInOrder'
  BY <1>6 DEF BuildOpen, buildFrame
<1>7. ASSUME NEW w \in Workers, BuildReply(w) PROVE PhasesInOrder'
  BY <1>7 DEF BuildReply, buildFrame
<1>8. ASSUME NEW w \in Workers, BuildCut(w) PROVE PhasesInOrder'
  BY <1>8 DEF BuildCut, buildFrame
<1>hang. ASSUME NEW w \in Workers, BuildHangs(w) PROVE PhasesInOrder'
  BY <1>hang DEF BuildHangs, buildFrame
<1>9. ASSUME NEW w \in Workers, PushOpen(w) PROVE PhasesInOrder'
  <2>1. phase = "push" /\ \A v \in Workers : push'[v] # "idle" => push[v] # "idle"
    BY <1>9 DEF PushOpen
  <2>2. \A v \in Workers : push'[v] \in {"idle", "ready"} => push'[v] = push[v]
    BY <1>9 DEF PushOpen
  <2>3. UNCHANGED <<opts, phase, result, build, manif, pushTag>>
    BY <1>9 DEF PushOpen, pushFrame
  <2>4. QED
    BY <2>1, <2>2, <2>3
<1>10. ASSUME NEW w \in Workers, PushAttempt(w) PROVE PhasesInOrder'
  BY <1>10 DEF PushAttempt, pushFrame
<1>11. ASSUME NEW w \in Workers, PushReply(w) PROVE PhasesInOrder'
  <2>1. \E s \in {"ok", "wait"} : push' = [push EXCEPT ![w] = s]
    BY <1>11 DEF PushReply, NextTag
  <2>2. \A v \in Workers \ {w} : push'[v] = push[v] /\ pushTag'[v] = pushTag[v]
    BY <1>11 DEF PushReply, NextTag
  <2>3. phase = "push" /\ push[w] # "idle" /\ push'[w] \in {"ok", "wait"}
    BY <1>11, <2>1 DEF PushReply
  <2>4. UNCHANGED <<opts, phase, result, build, manif>>
    BY <1>11 DEF PushReply, pushFrame
  <2>5. QED
    BY <2>2, <2>3, <2>4
<1>12. ASSUME NEW w \in Workers, PushCut(w) PROVE PhasesInOrder'
  <2>1. phase = "push" /\ \A v \in Workers : push'[v] # "idle" => push[v] # "idle"
    BY <1>12 DEF PushCut
  <2>2. \A v \in Workers : push'[v] \in {"idle", "ready"} => push'[v] = push[v]
    BY <1>12 DEF PushCut
  <2>3. UNCHANGED <<opts, phase, result, build, manif, pushTag>>
    BY <1>12 DEF PushCut, pushFrame
  <2>4. QED
    BY <2>1, <2>2, <2>3
<1>13. ASSUME NEW w \in Workers, PushGiveUp(w) PROVE PhasesInOrder'
  BY <1>13 DEF PushGiveUp, pushFrame
<1>14. ASSUME NEW t \in Tags, ManifestOpen(t) PROVE PhasesInOrder'
  BY <1>14 DEF ManifestOpen, manifFrame
<1>15. ASSUME NEW t \in Tags, ManifestCreated(t) PROVE PhasesInOrder'
  BY <1>15 DEF ManifestCreated, manifFrame
<1>16. ASSUME NEW t \in Tags, ManifestPushed(t) PROVE PhasesInOrder'
  BY <1>16 DEF ManifestPushed, manifFrame
<1>17. ASSUME NEW t \in Tags, ManifestCut(t) PROVE PhasesInOrder'
  BY <1>17 DEF ManifestCut, manifFrame
<1>18. ASSUME NEW t \in Tags, ManifestGiveUp(t) PROVE PhasesInOrder'
  BY <1>18 DEF ManifestGiveUp, manifFrame
<1>19. ASSUME NEW w \in Workers, LoseLink(w) PROVE PhasesInOrder'
  BY <1>19 DEF LoseLink, dataVars, lateVars
<1>20. ASSUME NEW w \in Workers, LateBuildEnds(w) PROVE PhasesInOrder'
  BY <1>20 DEF LateBuildEnds, lateFrame, linkVars
<1>21. ASSUME NEW w \in Workers, NEW t \in Tags, LatePushEnds(w, t) PROVE PhasesInOrder'
  BY <1>21 DEF LatePushEnds, lateFrame, linkVars, Upload
<1>22. ASSUME NEW t \in Tags, LateCreateEnds(t) PROVE PhasesInOrder'
  BY <1>22 DEF LateCreateEnds, lateFrame, linkVars
<1>23. ASSUME NEW t \in Tags, LatePublishEnds(t) PROVE PhasesInOrder'
  BY <1>23 DEF LatePublishEnds, lateFrame, linkVars
<1>24. CASE UNCHANGED vars
  BY <1>24 DEF vars
<1>25. QED
  BY <1>1, <1>2, <1>3, <1>4, <1>5, <1>6, <1>7, <1>8, <1>hang, <1>9, <1>10, <1>11, <1>12, <1>13, <1>14, <1>15, <1>16, <1>17, <1>18, <1>19, <1>20, <1>21, <1>22, <1>23, <1>24
     DEF Next, Handler, BuildStep, PushStep, ManifestStep, LateStep, Terminated

(* A push goroutine that gives up fails, or its failure was masked.        *)
LEMMA GiveUpEffect ==
    ASSUME TypeOK, NEW w \in Workers, PushGiveUp(w)
    PROVE  /\ \A v \in Workers : intact'[v] => intact[v]
           /\ \A v \in Workers \ {w} : push'[v] = push[v]
           /\ push[w] # "idle"
           /\ push'[w] = "failed" \/ (push'[w] = "ok" /\ ~intact'[w])
<1>1. push'[w] \in {"ok", "failed"} /\ (push'[w] = "ok" => ~intact'[w])
  BY DEF PushGiveUp, TypeOK
<1>2. \A v \in Workers : intact'[v] => intact[v]
  BY DEF PushGiveUp, TypeOK
<1>3. QED
  BY <1>1, <1>2 DEF PushGiveUp, TypeOK

(* A goroutine that reports a build on an intact worker has built there.   *)
LEMMA BuiltStep == IInv /\ [Next]_vars => BuiltIsFresh'
<1> SUFFICES ASSUME TypeOK, BuiltIsFresh, PhasesInOrder, [Next]_vars PROVE BuiltIsFresh'
  BY DEF IInv
<1> USE DEF TypeOK, BuiltIsFresh, PhasesInOrder
<1>1. ASSUME NEW w \in Workers, Dial(w) PROVE BuiltIsFresh'
  BY <1>1 DEF Dial, dataVars, lateVars
<1>2. ASSUME StartBuild PROVE BuiltIsFresh'
  BY <1>2 DEF StartBuild, linkVars, dataVars, lateVars
<1>3. ASSUME EndBuild PROVE BuiltIsFresh'
  BY <1>3 DEF EndBuild, Return, dataVars, lateVars
<1>4. ASSUME EndPush PROVE BuiltIsFresh'
  BY <1>4 DEF EndPush, Return, dataVars, lateVars
<1>5. ASSUME EndManifest PROVE BuiltIsFresh'
  BY <1>5 DEF EndManifest, Return, dataVars, lateVars
<1>6. ASSUME NEW w \in Workers, BuildOpen(w) PROVE BuiltIsFresh'
  BY <1>6 DEF BuildOpen, buildFrame
<1>7. ASSUME NEW w \in Workers, BuildReply(w) PROVE BuiltIsFresh'
  BY <1>7 DEF BuildReply, buildFrame
<1>8. ASSUME NEW w \in Workers, BuildCut(w) PROVE BuiltIsFresh'
  BY <1>8 DEF BuildCut, buildFrame
<1>hang. ASSUME NEW w \in Workers, BuildHangs(w) PROVE BuiltIsFresh'
  BY <1>hang DEF BuildHangs, buildFrame
<1>9. ASSUME NEW w \in Workers, PushOpen(w) PROVE BuiltIsFresh'
  BY <1>9 DEF PushOpen, pushFrame
<1>10. ASSUME NEW w \in Workers, PushAttempt(w) PROVE BuiltIsFresh'
  BY <1>10 DEF PushAttempt, pushFrame
<1>11. ASSUME NEW w \in Workers, PushReply(w) PROVE BuiltIsFresh'
  BY <1>11 DEF PushReply, pushFrame, Upload, NextTag
<1>12. ASSUME NEW w \in Workers, PushCut(w) PROVE BuiltIsFresh'
  BY <1>12 DEF PushCut, pushFrame
<1>13. ASSUME NEW w \in Workers, PushGiveUp(w) PROVE BuiltIsFresh'
  BY <1>13, GiveUpEffect DEF PushGiveUp, pushFrame
<1>14. ASSUME NEW t \in Tags, ManifestOpen(t) PROVE BuiltIsFresh'
  BY <1>14 DEF ManifestOpen, manifFrame
<1>15. ASSUME NEW t \in Tags, ManifestCreated(t) PROVE BuiltIsFresh'
  BY <1>15 DEF ManifestCreated, manifFrame
<1>16. ASSUME NEW t \in Tags, ManifestPushed(t) PROVE BuiltIsFresh'
  BY <1>16 DEF ManifestPushed, manifFrame
<1>17. ASSUME NEW t \in Tags, ManifestCut(t) PROVE BuiltIsFresh'
  BY <1>17 DEF ManifestCut, manifFrame
<1>18. ASSUME NEW t \in Tags, ManifestGiveUp(t) PROVE BuiltIsFresh'
  BY <1>18 DEF ManifestGiveUp, manifFrame
<1>19. ASSUME NEW w \in Workers, LoseLink(w) PROVE BuiltIsFresh'
  BY <1>19 DEF LoseLink, dataVars, lateVars
<1>20. ASSUME NEW w \in Workers, LateBuildEnds(w) PROVE BuiltIsFresh'
  BY <1>20 DEF LateBuildEnds, lateFrame, linkVars
<1>21. ASSUME NEW w \in Workers, NEW t \in Tags, LatePushEnds(w, t) PROVE BuiltIsFresh'
  BY <1>21 DEF LatePushEnds, lateFrame, linkVars, Upload
<1>22. ASSUME NEW t \in Tags, LateCreateEnds(t) PROVE BuiltIsFresh'
  BY <1>22 DEF LateCreateEnds, lateFrame, linkVars
<1>23. ASSUME NEW t \in Tags, LatePublishEnds(t) PROVE BuiltIsFresh'
  BY <1>23 DEF LatePublishEnds, lateFrame, linkVars
<1>24. CASE UNCHANGED vars
  BY <1>24 DEF vars
<1>25. QED
  BY <1>1, <1>2, <1>3, <1>4, <1>5, <1>6, <1>7, <1>8, <1>hang, <1>9, <1>10, <1>11, <1>12, <1>13, <1>14, <1>15, <1>16, <1>17, <1>18, <1>19, <1>20, <1>21, <1>22, <1>23, <1>24
     DEF Next, Handler, BuildStep, PushStep, ManifestStep, LateStep, Terminated

(* A nil result is returned only when every group came back clean.         *)
LEMMA NilStep == IInv /\ [Next]_vars => NilMeansNoFailure'
<1> SUFFICES ASSUME TypeOK, PhasesInOrder, NilMeansNoFailure, [Next]_vars PROVE NilMeansNoFailure'
  BY DEF IInv
<1> USE DEF TypeOK, NilMeansNoFailure, PhasesInOrder, Joined, AnyFailed
<1>1. ASSUME NEW w \in Workers, Dial(w) PROVE NilMeansNoFailure'
  BY <1>1 DEF Dial, dataVars, lateVars
<1>2. ASSUME StartBuild PROVE NilMeansNoFailure'
  BY <1>2 DEF StartBuild, linkVars, dataVars, lateVars
<1>3. ASSUME EndBuild PROVE NilMeansNoFailure'
  BY <1>3 DEF EndBuild, Return, dataVars, lateVars
<1>4. ASSUME EndPush PROVE NilMeansNoFailure'
  BY <1>4 DEF EndPush, Return, dataVars, lateVars
<1>5. ASSUME EndManifest PROVE NilMeansNoFailure'
  <2>1. CASE AnyFailed(manif)
    BY <1>5, <2>1 DEF EndManifest, Return
  <2>2. CASE ~AnyFailed(manif)
    <3>1. \A t \in Tags : manif[t] = "ok"
      BY <1>5, <2>2 DEF EndManifest
    <3>2. manif[1] = "ok" /\ 1 \in Tags
      BY <3>1, NumTagsAssumption DEF Tags
    <3>3. /\ opts.push /\ opts.manifest
          /\ \A w \in Workers : push[w] = "ok"
      BY <3>2
    <3>4. \A w \in Workers : build[w] = "ok"
      BY <3>3, NumWorkersAssumption DEF Workers
    <3>5. UNCHANGED <<opts, build, push, manif>>
      BY <1>5 DEF EndManifest
    <3>6. QED
      BY <3>1, <3>3, <3>4, <3>5
  <2>3. QED
    BY <2>1, <2>2
<1>6. ASSUME NEW w \in Workers, BuildOpen(w) PROVE NilMeansNoFailure'
  BY <1>6 DEF BuildOpen, buildFrame
<1>7. ASSUME NEW w \in Workers, BuildReply(w) PROVE NilMeansNoFailure'
  BY <1>7 DEF BuildReply, buildFrame
<1>8. ASSUME NEW w \in Workers, BuildCut(w) PROVE NilMeansNoFailure'
  BY <1>8 DEF BuildCut, buildFrame
<1>hang. ASSUME NEW w \in Workers, BuildHangs(w) PROVE NilMeansNoFailure'
  BY <1>hang DEF BuildHangs, buildFrame
<1>9. ASSUME NEW w \in Workers, PushOpen(w) PROVE NilMeansNoFailure'
  BY <1>9 DEF PushOpen, pushFrame
<1>10. ASSUME NEW w \in Workers, PushAttempt(w) PROVE NilMeansNoFailure'
  BY <1>10 DEF PushAttempt, pushFrame
<1>11. ASSUME NEW w \in Workers, PushReply(w) PROVE NilMeansNoFailure'
  BY <1>11 DEF PushReply, pushFrame, Upload, NextTag
<1>12. ASSUME NEW w \in Workers, PushCut(w) PROVE NilMeansNoFailure'
  BY <1>12 DEF PushCut, pushFrame
<1>13. ASSUME NEW w \in Workers, PushGiveUp(w) PROVE NilMeansNoFailure'
  BY <1>13 DEF PushGiveUp, pushFrame
<1>14. ASSUME NEW t \in Tags, ManifestOpen(t) PROVE NilMeansNoFailure'
  BY <1>14 DEF ManifestOpen, manifFrame
<1>15. ASSUME NEW t \in Tags, ManifestCreated(t) PROVE NilMeansNoFailure'
  BY <1>15 DEF ManifestCreated, manifFrame
<1>16. ASSUME NEW t \in Tags, ManifestPushed(t) PROVE NilMeansNoFailure'
  BY <1>16 DEF ManifestPushed, manifFrame
<1>17. ASSUME NEW t \in Tags, ManifestCut(t) PROVE NilMeansNoFailure'
  BY <1>17 DEF ManifestCut, manifFrame
<1>18. ASSUME NEW t \in Tags, ManifestGiveUp(t) PROVE NilMeansNoFailure'
  BY <1>18 DEF ManifestGiveUp, manifFrame
<1>19. ASSUME NEW w \in Workers, LoseLink(w) PROVE NilMeansNoFailure'
  BY <1>19 DEF LoseLink, dataVars, lateVars
<1>20. ASSUME NEW w \in Workers, LateBuildEnds(w) PROVE NilMeansNoFailure'
  BY <1>20 DEF LateBuildEnds, lateFrame, linkVars
<1>21. ASSUME NEW w \in Workers, NEW t \in Tags, LatePushEnds(w, t) PROVE NilMeansNoFailure'
  BY <1>21 DEF LatePushEnds, lateFrame, linkVars, Upload
<1>22. ASSUME NEW t \in Tags, LateCreateEnds(t) PROVE NilMeansNoFailure'
  BY <1>22 DEF LateCreateEnds, lateFrame, linkVars
<1>23. ASSUME NEW t \in Tags, LatePublishEnds(t) PROVE NilMeansNoFailure'
  BY <1>23 DEF LatePublishEnds, lateFrame, linkVars
<1>24. CASE UNCHANGED vars
  BY <1>24 DEF vars
<1>25. QED
  BY <1>1, <1>2, <1>3, <1>4, <1>5, <1>6, <1>7, <1>8, <1>hang, <1>9, <1>10, <1>11, <1>12, <1>13, <1>14, <1>15, <1>16, <1>17, <1>18, <1>19, <1>20, <1>21, <1>22, <1>23, <1>24
     DEF Next, Handler, BuildStep, PushStep, ManifestStep, LateStep, Terminated

(* Every command left unattended stems from a cut or a failed goroutine.   *)
LEMMA LateStepInv == IInv /\ [Next]_vars => LateOrigins'
<1> SUFFICES ASSUME TypeOK, PhasesInOrder, LateOrigins, [Next]_vars PROVE LateOrigins'
  BY DEF IInv
<1> USE DEF TypeOK, LateOrigins, PhasesInOrder
<1>1. ASSUME NEW w \in Workers, Dial(w) PROVE LateOrigins'
  BY <1>1 DEF Dial, dataVars, lateVars
<1>2. ASSUME StartBuild PROVE LateOrigins'
  BY <1>2 DEF StartBuild, linkVars, dataVars, lateVars
<1>3. ASSUME EndBuild PROVE LateOrigins'
  BY <1>3 DEF EndBuild, Return, dataVars, lateVars
<1>4. ASSUME EndPush PROVE LateOrigins'
  BY <1>4 DEF EndPush, Return, dataVars, lateVars
<1>5. ASSUME EndManifest PROVE LateOrigins'
  BY <1>5 DEF EndManifest, Return, dataVars, lateVars
<1>6. ASSUME NEW w \in Workers, BuildOpen(w) PROVE LateOrigins'
  BY <1>6 DEF BuildOpen, buildFrame
<1>7. ASSUME NEW w \in Workers, BuildReply(w) PROVE LateOrigins'
  BY <1>7 DEF BuildReply, buildFrame
<1>8. ASSUME NEW w \in Workers, BuildCut(w) PROVE LateOrigins'
  BY <1>8 DEF BuildCut, buildFrame
<1>hang. ASSUME NEW w \in Workers, BuildHangs(w) PROVE LateOrigins'
  BY <1>hang DEF BuildHangs, buildFrame
<1>9. ASSUME NEW w \in Workers, PushOpen(w) PROVE LateOrigins'
  BY <1>9 DEF PushOpen, pushFrame
<1>10. ASSUME NEW w \in Workers, PushAttempt(w) PROVE LateOrigins'
  BY <1>10 DEF PushAttempt, pushFrame
<1>11. ASSUME NEW w \in Workers, PushReply(w) PROVE LateOrigins'
  BY <1>11 DEF PushReply, pushFrame, Upload, NextTag
<1>12. ASSUME NEW w \in Workers, PushCut(w) PROVE LateOrigins'
  BY <1>12 DEF PushCut, pushFrame
<1>13. ASSUME NEW w \in Workers, PushGiveUp(w) PROVE LateOrigins'
  <2>1. /\ \A v \in Workers : push'[v] # "broken" \/ (v # w /\ push'[v] = push[v])
        /\ UNCHANGED <<link, build, manif, lateBuilds, lateLists>>
    BY <1>13, GiveUpEffect DEF PushGiveUp, pushFrame
  <2>2. \A c \in latePushes' : c[1] = w \/ c \in latePushes
    BY <1>13 DEF PushGiveUp
  <2>3. \A c \in latePushes' :
           push'[c[1]] # "idle" /\ (~intact'[c[1]] \/ push'[c[1]] = "failed")
    BY <1>13, <2>2, GiveUpEffect DEF PushGiveUp
  <2>4. QED
    BY <1>13, <2>1, <2>3, GiveUpEffect, ManifestWorkerExists
<1>14. ASSUME NEW t \in Tags, ManifestOpen(t) PROVE LateOrigins'
  BY <1>14 DEF ManifestOpen, manifFrame
<1>15. ASSUME NEW t \in Tags, ManifestCreated(t) PROVE LateOrigins'
  BY <1>15 DEF ManifestCreated, manifFrame
<1>16. ASSUME NEW t \in Tags, ManifestPushed(t) PROVE LateOrigins'
  BY <1>16 DEF ManifestPushed, manifFrame
<1>17. ASSUME NEW t \in Tags, ManifestCut(t) PROVE LateOrigins'
  BY <1>17, ManifestWorkerExists DEF ManifestCut, manifFrame
<1>18. ASSUME NEW t \in Tags, ManifestGiveUp(t) PROVE LateOrigins'
  BY <1>18 DEF ManifestGiveUp, manifFrame
<1>19. ASSUME NEW w \in Workers, LoseLink(w) PROVE LateOrigins'
  BY <1>19 DEF LoseLink, dataVars, lateVars
<1>20. ASSUME NEW w \in Workers, LateBuildEnds(w) PROVE LateOrigins'
  BY <1>20 DEF LateBuildEnds, lateFrame, linkVars
<1>21. ASSUME NEW w \in Workers, NEW t \in Tags, LatePushEnds(w, t) PROVE LateOrigins'
  BY <1>21 DEF LatePushEnds, lateFrame, linkVars, Upload
<1>22. ASSUME NEW t \in Tags, LateCreateEnds(t) PROVE LateOrigins'
  BY <1>22 DEF LateCreateEnds, lateFrame, linkVars
<1>23. ASSUME NEW t \in Tags, LatePublishEnds(t) PROVE LateOrigins'
  BY <1>23 DEF LatePublishEnds, lateFrame, linkVars
<1>24. CASE UNCHANGED vars
  BY <1>24 DEF vars
<1>25. QED
  BY <1>1, <1>2, <1>3, <1>4, <1>5, <1>6, <1>7, <1>8, <1>hang, <1>9, <1>10, <1>11, <1>12, <1>13, <1>14, <1>15, <1>16, <1>17, <1>18, <1>19, <1>20, <1>21, <1>22, <1>23, <1>24
     DEF Next, Handler, BuildStep, PushStep, ManifestStep, LateStep, Terminated

(* What was cut short stays so.                                            *)
LEMMA IntactStep ==
    ASSUME TypeOK, [Next]_vars, NEW p
    PROVE  Intact(p)' => Intact(p)
<1> SUFFICES ASSUME NEW v \in Workers PROVE intact'[v] => intact[v]
  BY DEF Intact
<1> USE DEF TypeOK
<1>1. ASSUME NEW w \in Workers, Dial(w) PROVE intact'[v] => intact[v]
  BY <1>1 DEF Dial, dataVars, lateVars
<1>2. ASSUME StartBuild PROVE intact'[v] => intact[v]
  BY <1>2 DEF StartBuild, linkVars, dataVars, lateVars
<1>3. ASSUME EndBuild PROVE intact'[v] => intact[v]
  BY <1>3 DEF EndBuild, Return, dataVars, lateVars
<1>4. ASSUME EndPush PROVE intact'[v] => intact[v]
  BY <1>4 DEF EndPush, Return, dataVars, lateVars
<1>5. ASSUME EndManifest PROVE intact'[v] => intact[v]
  BY <1>5 DEF EndManifest, Return, dataVars, lateVars
<1>6. ASSUME NEW w \in Workers, BuildOpen(w) PROVE intact'[v] => intact[v]
  BY <1>6 DEF BuildOpen, buildFrame
<1>7. ASSUME NEW w \in Workers, BuildReply(w) PROVE intact'[v] => intact[v]
  BY <1>7 DEF BuildReply, buildFrame
<1>8. ASSUME NEW w \in Workers, BuildCut(w) PROVE intact'[v] => intact[v]
  BY <1>8 DEF BuildCut, buildFrame
<1>hang. ASSUME NEW w \in Workers, BuildHangs(w) PROVE intact'[v] => intact[v]
  BY <1>hang DEF BuildHangs, buildFrame
<1>9. ASSUME NEW w \in Workers, PushOpen(w) PROVE intact'[v] => intact[v]
  BY <1>9 DEF PushOpen, pushFrame
<1>10. ASSUME NEW w \in Workers, PushAttempt(w) PROVE intact'[v] => intact[v]
  BY <1>10 DEF PushAttempt, pushFrame
<1>11. ASSUME NEW w \in Workers, PushReply(w) PROVE intact'[v] => intact[v]
  BY <1>11 DEF PushReply, pushFrame, Upload, NextTag
<1>12. ASSUME NEW w \in Workers, PushCut(w) PROVE intact'[v] => intact[v]
  BY <1>12 DEF PushCut, pushFrame
<1>13. ASSUME NEW w \in Workers, PushGiveUp(w) PROVE intact'[v] => intact[v]
  BY <1>13 DEF PushGiveUp, pushFrame
<1>14. ASSUME NEW t \in Tags, ManifestOpen(t) PROVE intact'[v] => intact[v]
  BY <1>14 DEF ManifestOpen, manifFrame
<1>15. ASSUME NEW t \in Tags, ManifestCreated(t) PROVE intact'[v] => intact[v]
  BY <1>15 DEF ManifestCreated, manifFrame
<1>16. ASSUME NEW t \in Tags, ManifestPushed(t) PROVE intact'[v] => intact[v]
  BY <1>16 DEF ManifestPushed, manifFrame
<1>17. ASSUME NEW t \in Tags, ManifestCut(t) PROVE intact'[v] => intact[v]
  BY <1>17 DEF ManifestCut, manifFrame
<1>18. ASSUME NEW t \in Tags, ManifestGiveUp(t) PROVE intact'[v] => intact[v]
  BY <1>18 DEF ManifestGiveUp, manifFrame
<1>19. ASSUME NEW w \in Workers, LoseLink(w) PROVE intact'[v] => intact[v]
  BY <1>19 DEF LoseLink, dataVars, lateVars
<1>20. ASSUME NEW w \in Workers, LateBuildEnds(w) PROVE intact'[v] => intact[v]
  BY <1>20 DEF LateBuildEnds, lateFrame, linkVars
<1>21. ASSUME NEW w \in Workers, NEW t \in Tags, LatePushEnds(w, t) PROVE intact'[v] => intact[v]
  BY <1>21 DEF LatePushEnds, lateFrame, linkVars, Upload
<1>22. ASSUME NEW t \in Tags, LateCreateEnds(t) PROVE intact'[v] => intact[v]
  BY <1>22 DEF LateCreateEnds, lateFrame, linkVars
<1>23. ASSUME NEW t \in Tags, LatePublishEnds(t) PROVE intact'[v] => intact[v]
  BY <1>23 DEF LatePublishEnds, lateFrame, linkVars
<1>24. CASE UNCHANGED vars
  BY <1>24 DEF vars
<1>25. QED
  BY <1>1, <1>2, <1>3, <1>4, <1>5, <1>6, <1>7, <1>8, <1>hang, <1>9, <1>10, <1>11, <1>12, <1>13, <1>14, <1>15, <1>16, <1>17, <1>18, <1>19, <1>20, <1>21, <1>22, <1>23, <1>24
     DEF Next, Handler, BuildStep, PushStep, ManifestStep, LateStep, Terminated

(* Tags a push goroutine has passed are in the registry, unless its        *)
(* platform had a session cut short.                                       *)
LEMMA PushedStep == IInv /\ [Next]_vars => PushedIsFresh'
<1> SUFFICES ASSUME IInv, [Next]_vars,
                    NEW v \in Workers, Intact(Platform[v])',
                    NEW x \in Tags, push'[v] = "ok" \/ (push'[v] # "idle" /\ x < pushTag'[v])
             PROVE  registry'[x][Platform[v]] = "fresh"
  BY DEF PushedIsFresh
<1> DEFINE Goal == registry'[x][Platform[v]] = "fresh"
<1>a. /\ Intact(Platform[v])
      /\ push[v] = "ok" \/ (push[v] # "idle" /\ x < pushTag[v]) =>
             registry[x][Platform[v]] = "fresh"
  BY IntactStep DEF IInv, PushedIsFresh
<1>b. TypeOK /\ PhasesInOrder /\ LateOrigins /\ BuiltIsFresh
  BY DEF IInv
<1> USE DEF TypeOK
<1>1. ASSUME NEW w \in Workers, Dial(w) PROVE Goal
  BY <1>1, <1>a, <1>b DEF Dial, dataVars, lateVars
<1>2. ASSUME StartBuild PROVE Goal
  BY <1>2, <1>a, <1>b DEF StartBuild, linkVars, dataVars, lateVars
<1>3. ASSUME EndBuild PROVE Goal
  <2>1. CASE push' = push
    BY <1>3, <2>1, <1>a, <1>b DEF EndBuild, dataVars
  <2>2. CASE push' = [w \in Workers |-> "ready"]
    <3>1. phase = "build" /\ push'[v] = "ready" /\ pushTag'[v] = pushTag[v]
      BY <1>3, <2>2 DEF EndBuild
    <3>2. pushTag'[v] = 1
      BY <3>1, <1>b DEF PhasesInOrder
    <3>3. QED
      BY <3>1, <3>2 DEF Tags
  <2>3. QED
    BY <1>3, <2>1, <2>2 DEF EndBuild
<1>4. ASSUME EndPush PROVE Goal
  BY <1>4, <1>a, <1>b DEF EndPush, Return, dataVars, lateVars
<1>5. ASSUME EndManifest PROVE Goal
  BY <1>5, <1>a, <1>b DEF EndManifest, Return, dataVars, lateVars
<1>6. ASSUME NEW w \in Workers, BuildOpen(w) PROVE Goal
  BY <1>6, <1>a, <1>b DEF BuildOpen, buildFrame
<1>7. ASSUME NEW w \in Workers, BuildReply(w) PROVE Goal
  BY <1>7, <1>a, <1>b DEF BuildReply, buildFrame
<1>8. ASSUME NEW w \in Workers, BuildCut(w) PROVE Goal
  BY <1>8, <1>a, <1>b DEF BuildCut, buildFrame
<1>hang. ASSUME NEW w \in Workers, BuildHangs(w) PROVE Goal
  BY <1>hang, <1>a, <1>b DEF BuildHangs, buildFrame
<1>9. ASSUME NEW w \in Workers, PushOpen(w) PROVE Goal
  BY <1>9, <1>a, <1>b DEF PushOpen, pushFrame
<1>10. ASSUME NEW w \in Workers, PushAttempt(w) PROVE Goal
  BY <1>10, <1>a, <1>b DEF PushAttempt, pushFrame
<1>11. ASSUME NEW w \in Workers, PushReply(w) PROVE Goal
  <2>1. intact[w] => local[w] = "fresh"
    BY <1>11, <1>b DEF PushReply, PhasesInOrder, BuiltIsFresh
  <2>2. Platform[w] = Platform[v] => intact[w]
    BY <1>a DEF Intact
  <2>3. CASE Upload(w, pushTag[w]) /\ NextTag(w)
    <3>0. Platform[v] \in Platforms /\ pushTag[w] \in Tags
      BY <1>b DEF Platforms
    <3>1. \/ registry'[x][Platform[v]] = "fresh"
          \/ /\ registry'[x][Platform[v]] = registry[x][Platform[v]]
             /\ v # w \/ x # pushTag[w]
      BY <2>1, <2>2, <2>3, <3>0, <1>b, UploadEffect
    <3>2. CASE v # w
      <4>1. push'[v] = push[v] /\ pushTag'[v] = pushTag[v]
        BY <2>3, <3>2, <1>b DEF NextTag
      <4>2. QED
        BY <3>1, <4>1, <1>a
    <3>3. CASE v = w /\ x # pushTag[w]
      <4>1. x < pushTag[w]
        BY <2>3, <3>3, <1>b, NumTagsAssumption DEF NextTag, Tags
      <4>2. QED
        BY <1>11, <3>1, <3>3, <4>1, <1>a DEF PushReply
    <3>4. QED
      BY <3>1, <3>2, <3>3
  <2>4. CASE /\ push' = [push EXCEPT ![w] = "wait"]
             /\ UNCHANGED <<pushTag, registry>>
    <3>1. push'[v] # "ok" \/ push'[v] = push[v]
      BY <2>4, <1>b
    <3>2. push[v] = "idle" => push'[v] = "idle"
      BY <2>4, <1>11 DEF PushReply
    <3>3. QED
      BY <2>4, <3>1, <3>2, <1>a
  <2>5. QED
    BY <1>11, <2>3, <2>4 DEF PushReply
<1>12. ASSUME NEW w \in Workers, PushCut(w) PROVE Goal
  <2>1. v # w
    <3>1. intact'[w] = FALSE
      BY <1>12, <1>b DEF PushCut
    <3>2. intact'[v]
      BY DEF Intact
    <3>3. QED
      BY <3>1, <3>2
  <2>2. push'[v] = push[v]
    BY <1>12, <2>1, <1>b DEF PushCut
  <2>3. pushTag' = pushTag /\ registry' = registry
    BY <1>12 DEF PushCut
  <2>4. QED
    BY <2>2, <2>3, <1>a
<1>13. ASSUME NEW w \in Workers, PushGiveUp(w) PROVE Goal
  <2>2. registry' = registry /\ pushTag' = pushTag
    BY <1>13 DEF PushGiveUp
  <2>3. push'[v] = "ok" => push[v] = "ok"
    BY <1>13, <1>a, <1>b, GiveUpEffect DEF Intact
  <2>4. push'[v] # "idle" => push[v] # "idle"
    BY <1>13, <1>b DEF PushGiveUp
  <2>5. QED
    BY <2>2, <2>3, <2>4, <1>a
<1>14. ASSUME NEW t \in Tags, ManifestOpen(t) PROVE Goal
  BY <1>14, <1>a, <1>b DEF ManifestOpen, manifFrame
<1>15. ASSUME NEW t \in Tags, ManifestCreated(t) PROVE Goal
  BY <1>15, <1>a, <1>b DEF ManifestCreated, manifFrame
<1>16. ASSUME NEW t \in Tags, ManifestPushed(t) PROVE Goal
  BY <1>16, <1>a, <1>b DEF ManifestPushed, manifFrame
<1>17. ASSUME NEW t \in Tags, ManifestCut(t) PROVE Goal
  BY <1>17, <1>a, <1>b DEF ManifestCut, manifFrame
<1>18. ASSUME NEW t \in Tags, ManifestGiveUp(t) PROVE Goal
  BY <1>18, <1>a, <1>b DEF ManifestGiveUp, manifFrame
<1>19. ASSUME NEW w \in Workers, LoseLink(w) PROVE Goal
  BY <1>19, <1>a, <1>b DEF LoseLink, dataVars, lateVars
<1>20. ASSUME NEW w \in Workers, LateBuildEnds(w) PROVE Goal
  BY <1>20, <1>a, <1>b DEF LateBuildEnds, lateFrame, linkVars
<1>21. ASSUME NEW w \in Workers, NEW t \in Tags, LatePushEnds(w, t) PROVE Goal
  <2>1. intact[w] => local[w] = "fresh"
    <3>1. build[w] = "ok" \/ ~intact[w]
      BY <1>21, <1>b DEF LatePushEnds, PhasesInOrder, LateOrigins
    <3>2. QED
      BY <3>1, <1>b DEF BuiltIsFresh
  <2>2. Platform[w] = Platform[v] => intact[w]
    BY <1>a DEF Intact
  <2>3. registry'[x][Platform[v]] = registry[x][Platform[v]]
           \/ (Platform[w] = Platform[v] /\ registry'[x][Platform[v]] = local[w])
    <3>1. Platform[v] \in Platforms
      BY DEF Platforms
    <3>2. CASE Upload(w, t)
      BY <3>1, <3>2, <1>b, UploadEffect
    <3>3. QED
      BY <1>21, <3>2 DEF LatePushEnds
  <2>4. push' = push /\ pushTag' = pushTag
    BY <1>21 DEF LatePushEnds, lateFrame
  <2>5. QED
    BY <2>1, <2>2, <2>3, <2>4, <1>a
<1>22. ASSUME NEW t \in Tags, LateCreateEnds(t) PROVE Goal
  BY <1>22, <1>a, <1>b DEF LateCreateEnds, lateFrame, linkVars
<1>23. ASSUME NEW t \in Tags, LatePublishEnds(t) PROVE Goal
  BY <1>23, <1>a, <1>b DEF LatePublishEnds, lateFrame, linkVars
<1>24. CASE UNCHANGED vars
  BY <1>24, <1>a, <1>b DEF vars
<1>25. QED
  BY <1>1, <1>2, <1>3, <1>4, <1>5, <1>6, <1>7, <1>8, <1>hang, <1>9, <1>10, <1>11, <1>12, <1>13, <1>14, <1>15, <1>16, <1>17, <1>18, <1>19, <1>20, <1>21, <1>22, <1>23, <1>24
     DEF Next, Handler, BuildStep, PushStep, ManifestStep, LateStep, Terminated

(* manifest create reads the registry after all pushes, so a draft names   *)
(* only new images of intact platforms.                                    *)
LEMMA DraftsStep == IInv /\ [Next]_vars => DraftsAreFresh'
<1> SUFFICES ASSUME IInv, [Next]_vars,
                    NEW x \in Tags, draft'[x] # NoList, NEW p \in Platforms
             PROVE  draft'[x][p] # "absent" /\ (Intact(p)' => draft'[x][p] = "fresh")
  BY DEF DraftsAreFresh
<1> DEFINE Goal == draft'[x][p] # "absent" /\ (Intact(p)' => draft'[x][p] = "fresh")
<1>a. /\ Intact(p)' => Intact(p)
      /\ draft[x] # NoList =>
            draft[x][p] # "absent" /\ (Intact(p) => draft[x][p] = "fresh")
  BY IntactStep DEF IInv, DraftsAreFresh
<1>b. TypeOK
  BY DEF IInv
<1>c. (\E t \in Tags : manif[t] # "idle") => (Intact(p) => registry[x][p] = "fresh")
  <2>1. PICK w \in Workers : Platform[w] = p
    BY DEF Platforms
  <2>2. QED
    BY <2>1 DEF IInv, PhasesInOrder, PushedIsFresh
<1>d. \A c \in lateLists : manif[c[2]] # "idle"
  BY DEF IInv, LateOrigins
<1> USE DEF TypeOK
<1>1. ASSUME NEW w \in Workers, Dial(w) PROVE Goal
  BY <1>1, <1>a, <1>b, <1>c, <1>d DEF Dial, dataVars, lateVars
<1>2. ASSUME StartBuild PROVE Goal
  BY <1>2, <1>a, <1>b, <1>c, <1>d DEF StartBuild, linkVars, dataVars, lateVars
<1>3. ASSUME EndBuild PROVE Goal
  BY <1>3, <1>a, <1>b, <1>c, <1>d DEF EndBuild, Return, dataVars, lateVars
<1>4. ASSUME EndPush PROVE Goal
  BY <1>4, <1>a, <1>b, <1>c, <1>d DEF EndPush, Return, dataVars, lateVars
<1>5. ASSUME EndManifest PROVE Goal
  BY <1>5, <1>a, <1>b, <1>c, <1>d DEF EndManifest, Return, dataVars, lateVars
<1>6. ASSUME NEW w \in Workers, BuildOpen(w) PROVE Goal
  BY <1>6, <1>a, <1>b, <1>c, <1>d DEF BuildOpen, buildFrame
<1>7. ASSUME NEW w \in Workers, BuildReply(w) PROVE Goal
  BY <1>7, <1>a, <1>b, <1>c, <1>d DEF BuildReply, buildFrame
<1>8. ASSUME NEW w \in Workers, BuildCut(w) PROVE Goal
  BY <1>8, <1>a, <1>b, <1>c, <1>d DEF BuildCut, buildFrame
<1>hang. ASSUME NEW w \in Workers, BuildHangs(w) PROVE Goal
  BY <1>hang, <1>a, <1>b, <1>c, <1>d DEF BuildHangs, buildFrame
<1>9. ASSUME NEW w \in Workers, PushOpen(w) PROVE Goal
  BY <1>9, <1>a, <1>b, <1>c, <1>d DEF PushOpen, pushFrame
<1>10. ASSUME NEW w \in Workers, PushAttempt(w) PROVE Goal
  BY <1>10, <1>a, <1>b, <1>c, <1>d DEF PushAttempt, pushFrame
<1>11. ASSUME NEW w \in Workers, PushReply(w) PROVE Goal
  BY <1>11, <1>a, <1>b, <1>c, <1>d DEF PushReply, pushFrame, Upload, NextTag
<1>12. ASSUME NEW w \in Workers, PushCut(w) PROVE Goal
  BY <1>12, <1>a, <1>b, <1>c, <1>d DEF PushCut, pushFrame
<1>13. ASSUME NEW w \in Workers, PushGiveUp(w) PROVE Goal
  BY <1>13, <1>a, <1>b, <1>c, <1>d DEF PushGiveUp, pushFrame
<1>14. ASSUME NEW t \in Tags, ManifestOpen(t) PROVE Goal
  BY <1>14, <1>a, <1>b, <1>c, <1>d DEF ManifestOpen, manifFrame
<1>15. ASSUME NEW t \in Tags, ManifestCreated(t) PROVE Goal
  <2>1. manif[t] # "idle"
    BY <1>15, <1>d DEF ManifestCreated
  <2>2. draft'[x] = draft[x] \/ (Resolvable(x) /\ draft'[x] = registry[x])
    BY <1>15, <1>b DEF ManifestCreated
  <2>3. QED
    BY <2>1, <2>2, <1>a, <1>c DEF Resolvable
<1>16. ASSUME NEW t \in Tags, ManifestPushed(t) PROVE Goal
  BY <1>16, <1>a, <1>b, <1>c, <1>d DEF ManifestPushed, manifFrame
<1>17. ASSUME NEW t \in Tags, ManifestCut(t) PROVE Goal
  BY <1>17, <1>a, <1>b, <1>c, <1>d DEF ManifestCut, manifFrame
<1>18. ASSUME NEW t \in Tags, ManifestGiveUp(t) PROVE Goal
  BY <1>18, <1>a, <1>b, <1>c, <1>d DEF ManifestGiveUp, manifFrame
<1>19. ASSUME NEW w \in Workers, LoseLink(w) PROVE Goal
  BY <1>19, <1>a, <1>b, <1>c, <1>d DEF LoseLink, dataVars, lateVars
<1>20. ASSUME NEW w \in Workers, LateBuildEnds(w) PROVE Goal
  BY <1>20, <1>a, <1>b, <1>c, <1>d DEF LateBuildEnds, lateFrame, linkVars
<1>21. ASSUME NEW w \in Workers, NEW t \in Tags, LatePushEnds(w, t) PROVE Goal
  BY <1>21, <1>a, <1>b, <1>c, <1>d DEF LatePushEnds, lateFrame, linkVars, Upload
<1>22. ASSUME NEW t \in Tags, LateCreateEnds(t) PROVE Goal
  <2>1. manif[t] # "idle"
    BY <1>22, <1>d DEF LateCreateEnds
  <2>2. draft'[x] = draft[x] \/ (Resolvable(x) /\ draft'[x] = registry[x])
    BY <1>22, <1>b DEF LateCreateEnds
  <2>3. QED
    BY <2>1, <2>2, <1>a, <1>c DEF Resolvable
<1>23. ASSUME NEW t \in Tags, LatePublishEnds(t) PROVE Goal
  BY <1>23, <1>a, <1>b, <1>c, <1>d DEF LatePublishEnds, lateFrame, linkVars
<1>24. CASE UNCHANGED vars
  BY <1>24, <1>a, <1>b, <1>c, <1>d DEF vars
<1>25. QED
  BY <1>1, <1>2, <1>3, <1>4, <1>5, <1>6, <1>7, <1>8, <1>hang, <1>9, <1>10, <1>11, <1>12, <1>13, <1>14, <1>15, <1>16, <1>17, <1>18, <1>19, <1>20, <1>21, <1>22, <1>23, <1>24
     DEF Next, Handler, BuildStep, PushStep, ManifestStep, LateStep, Terminated

(* A list is published only after it was created.                          *)
LEMMA ListsExistStep == IInv /\ [Next]_vars => ListsExist'
<1> SUFFICES ASSUME TypeOK, ListsExist, [Next]_vars PROVE ListsExist'
  BY DEF IInv
<1> USE DEF TypeOK, ListsExist
<1>1. ASSUME NEW w \in Workers, Dial(w) PROVE ListsExist'
  BY <1>1 DEF Dial, dataVars, lateVars
<1>2. ASSUME StartBuild PROVE ListsExist'
  BY <1>2 DEF StartBuild, linkVars, dataVars, lateVars
<1>3. ASSUME EndBuild PROVE ListsExist'
  BY <1>3 DEF EndBuild, Return, dataVars, lateVars
<1>4. ASSUME EndPush PROVE ListsExist'
  BY <1>4 DEF EndPush, Return, dataVars, lateVars
<1>5. ASSUME EndManifest PROVE ListsExist'
  BY <1>5 DEF EndManifest, Return, dataVars, lateVars
<1>6. ASSUME NEW w \in Workers, BuildOpen(w) PROVE ListsExist'
  BY <1>6 DEF BuildOpen, buildFrame
<1>7. ASSUME NEW w \in Workers, BuildReply(w) PROVE ListsExist'
  BY <1>7 DEF BuildReply, buildFrame
<1>8. ASSUME NEW w \in Workers, BuildCut(w) PROVE ListsExist'
  BY <1>8, ManifestWorkerExists DEF BuildCut, buildFrame
<1>hang. ASSUME NEW w \in Workers, BuildHangs(w) PROVE ListsExist'
  BY <1>hang DEF BuildHangs, buildFrame
<1>9. ASSUME NEW w \in Workers, PushOpen(w) PROVE ListsExist'
  BY <1>9 DEF PushOpen, pushFrame
<1>10. ASSUME NEW w \in Workers, PushAttempt(w) PROVE ListsExist'
  BY <1>10 DEF PushAttempt, pushFrame
<1>11. ASSUME NEW w \in Workers, PushReply(w) PROVE ListsExist'
  BY <1>11 DEF PushReply, pushFrame, Upload, NextTag
<1>12. ASSUME NEW w \in Workers, PushCut(w) PROVE ListsExist'
  BY <1>12, ManifestWorkerExists DEF PushCut, pushFrame
<1>13. ASSUME NEW w \in Workers, PushGiveUp(w) PROVE ListsExist'
  BY <1>13, GiveUpEffect, ManifestWorkerExists DEF PushGiveUp, pushFrame
<1>14. ASSUME NEW t \in Tags, ManifestOpen(t) PROVE ListsExist'
  BY <1>14 DEF ManifestOpen, manifFrame
<1>15. ASSUME NEW t \in Tags, ManifestCreated(t) PROVE ListsExist'
  <2>1. registry[t] # NoList
    BY NoListAssumption
  <2>2. QED
    BY <1>15, <2>1 DEF ManifestCreated, manifFrame
<1>16. ASSUME NEW t \in Tags, ManifestPushed(t) PROVE ListsExist'
  BY <1>16 DEF ManifestPushed, manifFrame
<1>17. ASSUME NEW t \in Tags, ManifestCut(t) PROVE ListsExist'
  <2>1. \A x \in Tags : <<"publish", x>> \in lateLists' =>
           <<"publish", x>> \in lateLists \/ manif[x] = "publish"
    BY <1>17 DEF ManifestCut
  <2>2. /\ \A x \in Tags : manif'[x] = "publish" => manif[x] = "publish"
        /\ \A x \in Tags : manif'[x] = "ok" => manif[x] = "ok" \/ ~intact'[manifestWorker]
    BY <1>17, ManifestWorkerExists DEF ManifestCut
  <2>3. intact'[manifestWorker] => intact[manifestWorker]
    BY <1>17, ManifestWorkerExists DEF ManifestCut
  <2>4. UNCHANGED <<draft, index>>
    BY <1>17 DEF ManifestCut
  <2>5. QED
    BY <2>1, <2>2, <2>3, <2>4
<1>18. ASSUME NEW t \in Tags, ManifestGiveUp(t) PROVE ListsExist'
  BY <1>18 DEF ManifestGiveUp, manifFrame
<1>19. ASSUME NEW w \in Workers, LoseLink(w) PROVE ListsExist'
  BY <1>19, ManifestWorkerExists DEF LoseLink, dataVars, lateVars
<1>20. ASSUME NEW w \in Workers, LateBuildEnds(w) PROVE ListsExist'
  BY <1>20 DEF LateBuildEnds, lateFrame, linkVars
<1>21. ASSUME NEW w \in Workers, NEW t \in Tags, LatePushEnds(w, t) PROVE ListsExist'
  BY <1>21 DEF LatePushEnds, lateFrame, linkVars, Upload
<1>22. ASSUME NEW t \in Tags, LateCreateEnds(t) PROVE ListsExist'
  <2>1. registry[t] # NoList
    BY NoListAssumption
  <2>2. CASE lateLists' = lateLists \ {<<"create", t>>} /\ UNCHANGED draft
    BY <1>22, <2>2 DEF LateCreateEnds, lateFrame, linkVars
  <2>3. CASE /\ draft' = [draft EXCEPT ![t] = registry[t]]
             /\ lateLists' = (lateLists \ {<<"create", t>>}) \cup {<<"publish", t>>}
    <3>1. \A x \in Tags : draft'[x] # NoList \/ (x # t /\ draft'[x] = draft[x])
      BY <2>1, <2>3
    <3>2. \A x \in Tags : <<"publish", x>> \in lateLists' => x = t \/ <<"publish", x>> \in lateLists
      BY <2>3
    <3>3. QED
      BY <1>22, <3>1, <3>2 DEF LateCreateEnds, lateFrame, linkVars
  <2>4. QED
    BY <1>22, <2>2, <2>3 DEF LateCreateEnds
<1>23. ASSUME NEW t \in Tags, LatePublishEnds(t) PROVE ListsExist'
  BY <1>23 DEF LatePublishEnds, lateFrame, linkVars
<1>24. CASE UNCHANGED vars
  BY <1>24 DEF vars
<1>25. QED
  BY <1>1, <1>2, <1>3, <1>4, <1>5, <1>6, <1>7, <1>8, <1>hang, <1>9, <1>10, <1>11, <1>12, <1>13, <1>14, <1>15, <1>16, <1>17, <1>18, <1>19, <1>20, <1>21, <1>22, <1>23, <1>24
     DEF Next, Handler, BuildStep, PushStep, ManifestStep, LateStep, Terminated

(* A published list names only new images of intact platforms.             *)
LEMMA ListsFreshStep == IInv /\ [Next]_vars => ListsAreFresh'
<1> SUFFICES ASSUME IInv, [Next]_vars,
                    NEW x \in Tags, index'[x] # NoList, NEW p \in Platforms, Intact(p)'
             PROVE  index'[x][p] = "fresh"
  BY DEF ListsAreFresh
<1> DEFINE Goal == index'[x][p] = "fresh"
<1>a. /\ index[x] # NoList => index[x][p] = "fresh"
      /\ draft[x] # NoList => draft[x][p] = "fresh"
  BY IntactStep DEF IInv, ListsAreFresh, DraftsAreFresh
<1>b. TypeOK
  BY DEF IInv
<1> USE DEF TypeOK
<1>1. ASSUME NEW w \in Workers, Dial(w) PROVE Goal
  BY <1>1, <1>a, <1>b DEF Dial, dataVars, lateVars
<1>2. ASSUME StartBuild PROVE Goal
  BY <1>2, <1>a, <1>b DEF StartBuild, linkVars, dataVars, lateVars
<1>3. ASSUME EndBuild PROVE Goal
  BY <1>3, <1>a, <1>b DEF EndBuild, Return, dataVars, lateVars
<1>4. ASSUME EndPush PROVE Goal
  BY <1>4, <1>a, <1>b DEF EndPush, Return, dataVars, lateVars
<1>5. ASSUME EndManifest PROVE Goal
  BY <1>5, <1>a, <1>b DEF EndManifest, Return, dataVars, lateVars
<1>6. ASSUME NEW w \in Workers, BuildOpen(w) PROVE Goal
  BY <1>6, <1>a, <1>b DEF BuildOpen, buildFrame
<1>7. ASSUME NEW w \in Workers, BuildReply(w) PROVE Goal
  BY <1>7, <1>a, <1>b DEF BuildReply, buildFrame
<1>8. ASSUME NEW w \in Workers, BuildCut(w) PROVE Goal
  BY <1>8, <1>a, <1>b DEF BuildCut, buildFrame
<1>hang. ASSUME NEW w \in Workers, BuildHangs(w) PROVE Goal
  BY <1>hang, <1>a, <1>b DEF BuildHangs, buildFrame
<1>9. ASSUME NEW w \in Workers, PushOpen(w) PROVE Goal
  BY <1>9, <1>a, <1>b DEF PushOpen, pushFrame
<1>10. ASSUME NEW w \in Workers, PushAttempt(w) PROVE Goal
  BY <1>10, <1>a, <1>b DEF PushAttempt, pushFrame
<1>11. ASSUME NEW w \in Workers, PushReply(w) PROVE Goal
  BY <1>11, <1>a, <1>b DEF PushReply, pushFrame, Upload, NextTag
<1>12. ASSUME NEW w \in Workers, PushCut(w) PROVE Goal
  BY <1>12, <1>a, <1>b DEF PushCut, pushFrame
<1>13. ASSUME NEW w \in Workers, PushGiveUp(w) PROVE Goal
  BY <1>13, <1>a, <1>b DEF PushGiveUp, pushFrame
<1>14. ASSUME NEW t \in Tags, ManifestOpen(t) PROVE Goal
  BY <1>14, <1>a, <1>b DEF ManifestOpen, manifFrame
<1>15. ASSUME NEW t \in Tags, ManifestCreated(t) PROVE Goal
  BY <1>15, <1>a, <1>b DEF ManifestCreated, manifFrame
<1>16. ASSUME NEW t \in Tags, ManifestPushed(t) PROVE Goal
  <2>1. index' = [index EXCEPT ![t] = draft[t]] \/ UNCHANGED index
    BY <1>16 DEF ManifestPushed
  <2>2. index'[x] \in {index[x], draft[x]}
    BY <2>1, <1>b
  <2>3. QED
    BY <2>2, <1>a
<1>17. ASSUME NEW t \in Tags, ManifestCut(t) PROVE Goal
  BY <1>17, <1>a, <1>b DEF ManifestCut, manifFrame
<1>18. ASSUME NEW t \in Tags, ManifestGiveUp(t) PROVE Goal
  BY <1>18, <1>a, <1>b DEF ManifestGiveUp, manifFrame
<1>19. ASSUME NEW w \in Workers, LoseLink(w) PROVE Goal
  BY <1>19, <1>a, <1>b DEF LoseLink, dataVars, lateVars
<1>20. ASSUME NEW w \in Workers, LateBuildEnds(w) PROVE Goal
  BY <1>20, <1>a, <1>b DEF LateBuildEnds, lateFrame, linkVars
<1>21. ASSUME NEW w \in Workers, NEW t \in Tags, LatePushEnds(w, t) PROVE Goal
  BY <1>21, <1>a, <1>b DEF LatePushEnds, lateFrame, linkVars, Upload
<1>22. ASSUME NEW t \in Tags, LateCreateEnds(t) PROVE Goal
  BY <1>22, <1>a, <1>b DEF LateCreateEnds, lateFrame, linkVars
<1>23. ASSUME NEW t \in Tags, LatePublishEnds(t) PROVE Goal
  <2>1. index'[x] \in {index[x], draft[x]}
    BY <1>23, <1>b DEF LatePublishEnds
  <2>2. QED
    BY <2>1, <1>a
<1>24. CASE UNCHANGED vars
  BY <1>24, <1>a, <1>b DEF vars
<1>25. QED
  BY <1>1, <1>2, <1>3, <1>4, <1>5, <1>6, <1>7, <1>8, <1>hang, <1>9, <1>10, <1>11, <1>12, <1>13, <1>14, <1>15, <1>16, <1>17, <1>18, <1>19, <1>20, <1>21, <1>22, <1>23, <1>24
     DEF Next, Handler, BuildStep, PushStep, ManifestStep, LateStep, Terminated

-----------------------------------------------------------------------------
(* The safety properties.                                                  *)

(* The invariant holds before the handler starts.                          *)
LEMMA InvInit == Init => IInv
<1> SUFFICES ASSUME Init PROVE IInv
  OBVIOUS
<1>1. TypeOK
  BY TypeInit
<1>2. PhasesInOrder /\ BuiltIsFresh /\ LateOrigins /\ NilMeansNoFailure
  BY DEF Init, PhasesInOrder, BuiltIsFresh, LateOrigins, NilMeansNoFailure
<1>3. PushedIsFresh
  BY DEF Init, PushedIsFresh
<1>4. DraftsAreFresh /\ ListsExist /\ ListsAreFresh
  BY DEF Init, DraftsAreFresh, ListsExist, ListsAreFresh
<1>5. QED
  BY <1>1, <1>2, <1>3, <1>4 DEF IInv

(* Every step keeps the invariant.                                         *)
LEMMA InvStep == IInv /\ [Next]_vars => IInv'
<1>1. IInv /\ [Next]_vars => TypeOK'
  BY TypeStep DEF IInv
<1>2. QED
  BY <1>1, PhasesStep, BuiltStep, NilStep, LateStepInv, PushedStep, DraftsStep,
     ListsExistStep, ListsFreshStep DEF IInv

(* The inductive invariant of the release.                                 *)
THEOREM Invariance == Spec => []IInv
<1>1. Init => IInv
  BY InvInit
<1>2. IInv /\ [Next]_vars => IInv'
  BY InvStep
<1>3. QED
  BY <1>1, <1>2, PTL DEF Spec

(* The invariant contains what the safety properties say.                  *)
LEMMA IInvImplies == IInv => SuccessIsComplete /\ ListsAreFresh /\ QuietOnSuccess
<1> SUFFICES ASSUME IInv PROVE SuccessIsComplete /\ ListsAreFresh /\ QuietOnSuccess
  OBVIOUS
<1>1. ListsAreFresh
  BY DEF IInv
<1>2. SuccessIsComplete
  <2> SUFFICES ASSUME result = "nil" PROVE
        /\ \A w \in Workers : intact[w] => local[w] = "fresh"
        /\ opts.push => \A p \in Platforms : Intact(p) => InRegistry(p)
        /\ opts.push /\ opts.manifest /\ intact[manifestWorker] =>
              \A t \in Tags : index[t] # NoList
    BY DEF SuccessIsComplete
  <2>1. \A w \in Workers : intact[w] => local[w] = "fresh"
    BY DEF IInv, NilMeansNoFailure, BuiltIsFresh
  <2>2. ASSUME opts.push, NEW p \in Platforms, Intact(p), NEW t \in Tags
        PROVE  registry[t][p] = "fresh"
    <3>1. PICK w \in Workers : Platform[w] = p
      BY DEF Platforms
    <3>2. push[w] = "ok"
      BY <2>2 DEF IInv, NilMeansNoFailure
    <3>3. QED
      BY <2>2, <3>1, <3>2 DEF IInv, PushedIsFresh
  <2>3. ASSUME opts.push, opts.manifest, intact[manifestWorker], NEW t \in Tags
        PROVE  index[t] # NoList
    BY <2>3 DEF IInv, NilMeansNoFailure, ListsExist
  <2>4. QED
    BY <2>1, <2>2, <2>3 DEF InRegistry
<1>3. QuietOnSuccess
  <2> SUFFICES ASSUME result = "nil" PROVE
        /\ \A w \in lateBuilds : ~intact[w]
        /\ \A c \in latePushes : ~intact[c[1]]
        /\ lateLists # {} => ~intact[manifestWorker]
    BY DEF QuietOnSuccess
  <2>1. \A w \in lateBuilds : ~intact[w]
    BY DEF IInv, LateOrigins
  <2>2. ASSUME NEW c \in latePushes PROVE ~intact[c[1]]
    <3>1. c[1] \in Workers
      BY DEF IInv, TypeOK
    <3>2. push[c[1]] # "failed"
      BY <3>1 DEF IInv, NilMeansNoFailure
    <3>3. QED
      BY <3>2 DEF IInv, LateOrigins
  <2>3. ASSUME NEW c \in lateLists PROVE ~intact[manifestWorker]
    <3>1. c[2] \in Tags
      BY DEF IInv, TypeOK
    <3>2. manif[c[2]] # "failed"
      BY <3>1 DEF IInv, NilMeansNoFailure
    <3>3. QED
      BY <3>2 DEF IInv, LateOrigins
  <2>4. QED
    BY <2>1, <2>2, <2>3
<1>4. QED
  BY <1>1, <1>2, <1>3

(* A nil result is complete, as far as nothing was cut short.              *)
THEOREM SuccessComplete == Spec => []SuccessIsComplete
BY Invariance, IInvImplies, PTL

(* A published list names no image of an earlier release.                  *)
THEOREM ListsFresh == Spec => []ListsAreFresh
BY Invariance, IInvImplies, PTL

(* A nil result leaves nothing running but what was cut short.             *)
THEOREM SuccessQuiet == Spec => []QuietOnSuccess
BY Invariance, IInvImplies, PTL

(* Whoever writes to the registry does so behind the Wait of the builds.   *)
LEMMA UploadStep ==
    ASSUME IInv, [Next]_vars, registry' # registry
    PROVE  /\ \A w \in Workers : build[w] = "ok"
           /\ \A t \in Tags, p \in Platforms :
                 registry'[t][p] # registry[t][p] /\ Intact(p) => registry'[t][p] = "fresh"
<1>a. TypeOK
  BY DEF IInv
<1>1. PICK w \in Workers, t \in Tags : Upload(w, t) /\ push[w] # "idle"
  <2>1. ASSUME NEW w \in Workers, Dial(w) PROVE FALSE
    BY <2>1 DEF Dial, dataVars, lateVars
  <2>2. ASSUME StartBuild PROVE FALSE
    BY <2>2 DEF StartBuild, linkVars, dataVars, lateVars
  <2>3. ASSUME EndBuild PROVE FALSE
    BY <2>3 DEF EndBuild, Return, dataVars, lateVars
  <2>4. ASSUME EndPush PROVE FALSE
    BY <2>4 DEF EndPush, Return, dataVars, lateVars
  <2>5. ASSUME EndManifest PROVE FALSE
    BY <2>5 DEF EndManifest, Return, dataVars, lateVars
  <2>6. ASSUME NEW w \in Workers, BuildOpen(w) PROVE FALSE
    BY <2>6 DEF BuildOpen, buildFrame
  <2>7. ASSUME NEW w \in Workers, BuildReply(w) PROVE FALSE
    BY <2>7 DEF BuildReply, buildFrame
  <2>8. ASSUME NEW w \in Workers, BuildCut(w) PROVE FALSE
    BY <2>8 DEF BuildCut, buildFrame
  <2>hang. ASSUME NEW w \in Workers, BuildHangs(w) PROVE FALSE
    BY <2>hang DEF BuildHangs, buildFrame
  <2>9. ASSUME NEW w \in Workers, PushOpen(w) PROVE FALSE
    BY <2>9 DEF PushOpen, pushFrame
  <2>10. ASSUME NEW w \in Workers, PushAttempt(w) PROVE FALSE
    BY <2>10 DEF PushAttempt, pushFrame
  <2>11. ASSUME NEW w \in Workers, PushCut(w) PROVE FALSE
    BY <2>11 DEF PushCut, pushFrame
  <2>12. ASSUME NEW w \in Workers, PushGiveUp(w) PROVE FALSE
    BY <2>12 DEF PushGiveUp, pushFrame
  <2>13. ASSUME NEW t \in Tags, ManifestOpen(t) PROVE FALSE
    BY <2>13 DEF ManifestOpen, manifFrame
  <2>14. ASSUME NEW t \in Tags, ManifestCreated(t) PROVE FALSE
    BY <2>14 DEF ManifestCreated, manifFrame
  <2>15. ASSUME NEW t \in Tags, ManifestPushed(t) PROVE FALSE
    BY <2>15 DEF ManifestPushed, manifFrame
  <2>16. ASSUME NEW t \in Tags, ManifestCut(t) PROVE FALSE
    BY <2>16 DEF ManifestCut, manifFrame
  <2>17. ASSUME NEW t \in Tags, ManifestGiveUp(t) PROVE FALSE
    BY <2>17 DEF ManifestGiveUp, manifFrame
  <2>18. ASSUME NEW w \in Workers, LoseLink(w) PROVE FALSE
    BY <2>18 DEF LoseLink, dataVars, lateVars
  <2>19. ASSUME NEW w \in Workers, LateBuildEnds(w) PROVE FALSE
    BY <2>19 DEF LateBuildEnds, lateFrame, linkVars
  <2>20. ASSUME NEW t \in Tags, LateCreateEnds(t) PROVE FALSE
    BY <2>20 DEF LateCreateEnds, lateFrame, linkVars
  <2>21. ASSUME NEW t \in Tags, LatePublishEnds(t) PROVE FALSE
    BY <2>21 DEF LatePublishEnds, lateFrame, linkVars
  <2>22. ASSUME NEW w \in Workers, PushReply(w) PROVE Upload(w, pushTag[w]) /\ push[w] # "idle" /\ pushTag[w] \in Tags
    BY <2>22, <1>a DEF PushReply, TypeOK
  <2>23. ASSUME NEW w \in Workers, NEW t \in Tags, LatePushEnds(w, t) PROVE Upload(w, t) /\ push[w] # "idle"
    BY <2>23 DEF LatePushEnds, IInv, LateOrigins
  <2>24. ~UNCHANGED vars
    BY DEF vars
  <2>25. QED
    BY <2>1, <2>2, <2>3, <2>4, <2>5, <2>6, <2>7, <2>8, <2>hang, <2>9, <2>10, <2>11, <2>12, <2>13, <2>14, <2>15, <2>16, <2>17, <2>18, <2>19, <2>20, <2>21, <2>22, <2>23, <2>24
       DEF Next, Handler, BuildStep, PushStep, ManifestStep, LateStep, Terminated
<1>2. \A v \in Workers : build[v] = "ok"
  BY <1>1 DEF IInv, PhasesInOrder
<1>3. ASSUME NEW x \in Tags, NEW p \in Platforms, registry'[x][p] # registry[x][p], Intact(p)
      PROVE  registry'[x][p] = "fresh"
  <2>1. p = Platform[w] /\ registry'[x][p] = local[w]
    BY <1>1, <1>3, <1>a, UploadEffect
  <2>2. intact[w]
    BY <1>3, <2>1 DEF Intact
  <2>3. QED
    BY <1>2, <2>1, <2>2 DEF IInv, BuiltIsFresh
<1>4. QED
  BY <1>2, <1>3

(* The registry is touched behind the Wait of the builds, with fresh images.*)
THEOREM UploadsFresh == Spec => UploadsAreFresh
<1> DEFINE A == registry' # registry =>
          /\ \A w \in Workers : build[w] = "ok"
          /\ \A t \in Tags, p \in Platforms :
                registry'[t][p] # registry[t][p] /\ Intact(p) => registry'[t][p] = "fresh"
<1>1. IInv /\ [Next]_vars => A
  BY UploadStep
<1>2. IInv /\ [Next]_vars => [A]_vars
  BY <1>1
<1> HIDE DEF A
<1>3. Spec => [][A]_vars
  BY <1>2, Invariance, PTL DEF Spec
<1>4. QED
  BY <1>3 DEF UploadsAreFresh, A
=============================================================================
