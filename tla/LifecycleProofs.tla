-------------------------- MODULE LifecycleProofs ---------------------------
(***************************************************************************)
(* Proofs about Lifecycle, for any resources, workers and setups, and      *)
(* about the ids of resources, for any image.                              *)
(***************************************************************************)
EXTENDS Lifecycle, SequenceTheorems, WellFoundedInduction, TLAPS

-----------------------------------------------------------------------------
(* Ids.                                                                    *)

(* The last colon of an image that has one.                               *)
LEMMA LastColonExists ==
    ASSUME NEW image \in Seq(Component), Colons(image) # {}
    PROVE  /\ Max(Colons(image)) \in Colons(image)
           /\ \A i \in Colons(image) : Max(Colons(image)) >= i
<1> DEFINE LT == OpToRel(<, Nat)
           n == Len(image)
           T == {n - i : i \in Colons(image)}
<1>1. n \in Nat /\ Colons(image) \subseteq 1 .. n
  BY LenProperties DEF Colons
<1>2. T \subseteq Nat /\ T # {}
  BY <1>1
<1>3. PICK t \in T : \A m \in T : ~ (<<m, t>> \in LT)
  BY <1>2, NatLessThanWellFounded, WFMin
<1>4. \A m, k \in Nat : m < k => <<m, k>> \in LT
  BY DEF OpToRel
<1> HIDE DEF LT
<1>5. PICK at \in Colons(image) : t = n - at
  BY <1>3
<1>6. ASSUME NEW i \in Colons(image) PROVE at >= i
  <2>1. n - i \in T /\ n - i \in Nat /\ t \in Nat
    BY <1>2, <1>3
  <2>2. ~(n - i < t)
    BY <1>3, <1>4, <2>1
  <2>3. i \in Int /\ at \in Int
    BY <1>1
  <2>4. QED
    BY <1>1, <1>5, <2>2, <2>3
<1>7. QED
  BY <1>5, <1>6 DEF Max

(* The path is what stands before the tag: at least one component.         *)
LEMMA PathIsThere ==
    ASSUME NEW image \in Seq(Component), image # <<>>
    PROVE  /\ PathOf(image) \in Seq(Component)
           /\ Len(PathOf(image)) \in 1 .. Len(image)
<1> DEFINE at == Max(Colons(image))
           path == SubSeq(image, 1, at)
<1>0. Len(image) \in Nat \ {0}
  BY EmptySeq
<1>1. CASE Colons(image) = {}
  BY <1>0, <1>1 DEF PathOf
<1>2. CASE Colons(image) # {}
  <2>1. at \in 1 .. Len(image)
    BY <1>2, LastColonExists, LenProperties DEF Colons
  <2>2. path \in Seq(Component) /\ Len(path) = at
    <3>1. \A i \in 1 .. at : image[i] \in Component
      BY <1>0, <2>1, ElementOfSeq
    <3>2. 1 \in Int /\ at \in Int /\ 1 <= at
      BY <2>1
    <3>3. path \in Seq(Component) /\ Len(path) = at - 1 + 1
      BY <3>1, <3>2, SubSeqProperties
    <3>4. QED
      BY <3>2, <3>3
  <2>3. path[at] \in Component /\ at \in 1 .. Len(path)
    BY <2>1, <2>2, ElementOfSeq
  <2> HIDE DEF at
  <2>4. [path[at] EXCEPT !.colon = NoColon] \in Component
    BY <2>3 DEF Component
  <2>5. PathOf(image) = [path EXCEPT ![at] = [path[at] EXCEPT !.colon = NoColon]]
    BY <1>2 DEF PathOf, at
  <2> HIDE DEF path
  <2>6. PathOf(image) \in Seq(Component) /\ Len(PathOf(image)) = Len(path)
    BY <2>2, <2>3, <2>4, <2>5, ExceptSeq
  <2>7. QED
    BY <2>1, <2>2, <2>6
<1>3. QED
  BY <1>1, <1>2

(* Every image has an id: whatever ParseImage makes its repository has two *)
(* components, so that taking what is behind the first slash cannot fail.  *)
THEOREM IdIsThere ==
    ASSUME NEW image \in Seq(Component), image # <<>>
    PROVE  /\ Len(ParseImage(image).repository) >= 2
           /\ resourceWindbagImageID(image) \in Seq(Component) \ {<<>>}
<1> DEFINE path == PathOf(image)
           repository == ParseImage(image).repository
<1>1. path \in Seq(Component) /\ Len(path) \in Nat /\ Len(path) >= 1
  BY PathIsThere, LenProperties
<1> HIDE DEF path
<1>2. /\ repository = IF Len(path) >= 3 THEN Tail(path)
                     ELSE IF Len(path) = 2 THEN path ELSE <<Plain(Library)>> \o path
  BY DEF ParseImage, path
<1>3. Plain(Library) \in Component
  BY ReferenceAssumption DEF Plain, Component
<1> HIDE DEF repository
<1>4. repository \in Seq(Component) /\ Len(repository) \in Nat /\ Len(repository) >= 2
  <2>0. \A n \in Nat :
          /\ n >= 1 => n >= 3 \/ n = 2 \/ n = 1
          /\ n = 2 => ~(n >= 3)
          /\ n = 1 => (~(n >= 3) /\ n # 2)
    OBVIOUS
  <2>1. CASE Len(path) >= 3
    <3>1. path # <<>>
      BY <2>1, EmptySeq
    <3>2. Tail(path) \in Seq(Component) /\ Len(Tail(path)) = Len(path) - 1
      BY <1>1, <3>1, HeadTailProperties
    <3>3. QED
      BY <1>1, <1>2, <2>1, <3>2
  <2>2. CASE Len(path) = 2
    <3>1. repository = path
      BY <1>1, <1>2, <2>0, <2>2, Zenon
    <3>2. Len(repository) = 2
      BY <2>2, <3>1
    <3>3. QED
      BY <1>1, <3>1, <3>2
  <2>3. CASE Len(path) = 1
    <3>1. <<Plain(Library)>> \in Seq(Component) /\ Len(<<Plain(Library)>>) = 1
      BY <1>3
    <3>2. repository = <<Plain(Library)>> \o path
      BY <1>1, <1>2, <2>0, <2>3, Zenon
    <3> HIDE DEF Plain
    <3>3. repository \in Seq(Component) /\ Len(repository) = 1 + Len(path)
      BY <1>1, <3>1, <3>2, ConcatProperties
    <3>4. QED
      BY <2>3, <3>3
  <2>4. QED
    BY <1>1, <2>0, <2>1, <2>2, <2>3, Zenon
<1>5. repository # <<>>
  BY <1>4, EmptySeq
<1>6. Tail(repository) \in Seq(Component) /\ Len(Tail(repository)) = Len(repository) - 1
  BY <1>4, <1>5, HeadTailProperties
<1>7. Tail(repository) # <<>>
  <2>1. \A n \in Nat : n >= 2 => n - 1 # 0
    OBVIOUS
  <2>2. Len(Tail(repository)) # 0
    BY <1>4, <1>6, <2>1, Zenon
  <2>3. QED
    BY <2>2, EmptySeq
<1>8. QED
  BY <1>4, <1>6, <1>7 DEF resourceWindbagImageID, repository

(* The port of a registry is taken for a tag where there is none: all such *)
(* images of the registry have one id.                                     *)
THEOREM PortHidesName ==
    ASSUME NEW host \in Component, host.colon # NoColon,
           NEW name \in Seq(Component), \A i \in DOMAIN name : name[i].colon = NoColon
    PROVE  resourceWindbagImageID(<<host>> \o name) = <<Plain(host.word)>>
<1> DEFINE image == <<host>> \o name
<1>1. <<host>> \in Seq(Component) /\ Len(<<host>>) = 1 /\ <<host>>[1] = host
  OBVIOUS
<1>2. Len(name) \in Nat /\ DOMAIN name = 1 .. Len(name)
  BY LenProperties
<1>3. /\ image \in Seq(Component)
      /\ Len(image) = 1 + Len(name)
      /\ \A i \in 1 .. 1 + Len(name) : image[i] = IF i <= 1 THEN host ELSE name[i - 1]
  <2>1. /\ image \in Seq(Component)
        /\ Len(image) = Len(<<host>>) + Len(name)
        /\ \A i \in 1 .. Len(<<host>>) + Len(name) :
              image[i] = IF i <= Len(<<host>>) THEN <<host>>[i] ELSE name[i - Len(<<host>>)]
    BY <1>1, ConcatProperties
  <2>2. \A i \in 1 .. 1 + Len(name) : i <= 1 => i = 1
    BY <1>2
  <2>3. QED
    BY <1>1, <2>1, <2>2
<1> HIDE DEF image
<1>4. DOMAIN image = 1 .. 1 + Len(name)
  BY <1>3, LenProperties
<1>5. Colons(image) = {1}
  <2>1. image[1] = host /\ 1 \in DOMAIN image
    BY <1>2, <1>3, <1>4
  <2>2. ASSUME NEW i \in DOMAIN image, i # 1 PROVE image[i].colon = NoColon
    <3>1. i - 1 \in DOMAIN name /\ image[i] = name[i - 1]
      BY <1>2, <1>3, <1>4, <2>2
    <3>2. QED
      BY <3>1
  <2>3. QED
    BY <2>1, <2>2 DEF Colons
<1>6. Max(Colons(image)) = 1
  BY <1>3, <1>5, LastColonExists
<1>7. SubSeq(image, 1, 1) = <<host>>
  <2>1. image[1] = host
    BY <1>2, <1>3
  <2>2. \A i \in 1 .. 1 : image[i] \in Component
    BY <2>1
  <2>3. /\ SubSeq(image, 1, 1) \in Seq(Component)
        /\ Len(SubSeq(image, 1, 1)) = 1
        /\ \A i \in 1 .. 1 : SubSeq(image, 1, 1)[i] = image[1 + i - 1]
    <3>1. /\ SubSeq(image, 1, 1) \in Seq(Component)
          /\ Len(SubSeq(image, 1, 1)) = IF 1 <= 1 THEN 1 - 1 + 1 ELSE 0
          /\ \A i \in 1 .. 1 - 1 + 1 : SubSeq(image, 1, 1)[i] = image[1 + i - 1]
      BY <2>2, SubSeqProperties
    <3>2. QED
      BY <3>1
  <2>4. \A i \in 1 .. 1 : SubSeq(image, 1, 1)[i] = <<host>>[i]
    BY <2>1, <2>3
  <2>5. QED
    BY <1>1, <2>3, <2>4, SeqEqual
<1>8. PathOf(image) = <<Plain(host.word)>>
  <2>1. PathOf(image) = [<<host>> EXCEPT ![1].colon = NoColon]
    BY <1>5, <1>6, <1>7 DEF PathOf
  <2>2. [host EXCEPT !.colon = NoColon] = Plain(host.word)
    BY DEF Component, Plain
  <2>3. QED
    BY <2>1, <2>2
<1>9. ParseImage(image).repository = <<Plain(Library)>> \o <<Plain(host.word)>>
  <2>1. Len(PathOf(image)) = 1
    BY <1>8
  <2>2. QED
    BY <1>8, <2>1 DEF ParseImage
<1>10. ASSUME NEW a \in Component, NEW b \in Component PROVE Tail(<<a>> \o <<b>>) = <<b>>
  <2>1. /\ <<a>> \in Seq(Component) /\ Len(<<a>>) = 1
        /\ <<b>> \in Seq(Component) /\ Len(<<b>>) = 1 /\ <<b>>[1] = b
    OBVIOUS
  <2>2. /\ <<a>> \o <<b>> \in Seq(Component)
        /\ Len(<<a>> \o <<b>>) = 2 /\ (<<a>> \o <<b>>)[2] = b
    <3>1. /\ <<a>> \o <<b>> \in Seq(Component)
          /\ Len(<<a>> \o <<b>>) = 1 + 1
          /\ \A i \in 1 .. 1 + 1 :
                (<<a>> \o <<b>>)[i] = IF i <= 1 THEN <<a>>[i] ELSE <<b>>[i - 1]
      BY <2>1, ConcatProperties
    <3>2. QED
      BY <2>1, <3>1
  <2> DEFINE both == <<a>> \o <<b>>
  <2> HIDE DEF both
  <2>3. both # <<>>
    BY <2>2, EmptySeq DEF both
  <2>4. /\ Tail(both) \in Seq(Component) /\ Len(Tail(both)) = 1
        /\ \A i \in 1 .. 1 : Tail(both)[i] = <<b>>[i]
    <3>1. /\ Tail(both) \in Seq(Component) /\ Len(Tail(both)) = 2 - 1
          /\ \A i \in 1 .. Len(Tail(both)) : Tail(both)[i] = both[i + 1]
      BY <2>2, <2>3, HeadTailProperties DEF both
    <3>2. both[2] = b
      BY <2>2 DEF both
    <3>3. Len(Tail(both)) = 1
      BY <3>1
    <3>4. Tail(both)[1] = b
      <4>0. 1 \in 1 .. 1 /\ 1 + 1 = 2
        OBVIOUS
      <4>1. 1 \in 1 .. Len(Tail(both)) /\ 1 + 1 = 2
        BY <3>3, <4>0, Zenon
      <4>2. Tail(both)[1] = both[1 + 1]
        BY <3>1, <4>1, Zenon
      <4>3. QED
        BY <3>2, <4>1, <4>2, Zenon
    <3>5. \A i \in 1 .. 1 : i = 1
      OBVIOUS
    <3>6. QED
      BY <2>1, <3>1, <3>3, <3>4, <3>5, Zenon
  <2>5. QED
    BY <2>1, <2>4, SeqEqual DEF both
<1>11. Plain(Library) \in Component /\ Plain(host.word) \in Component
  BY ReferenceAssumption DEF Plain, Component
<1>12. QED
  BY <1>9, <1>10, <1>11 DEF resourceWindbagImageID, image

(* Below one organization of one registry the id tells images apart: it    *)
(* drops nothing but the first component of the repository.                *)
THEOREM IdTellsApart ==
    ASSUME NEW a \in Seq(Component) \ {<<>>}, NEW b \in Seq(Component) \ {<<>>},
           Len(PathOf(a)) >= 3, Len(PathOf(b)) >= 3,
           PathOf(a)[1] = PathOf(b)[1], PathOf(a)[2] = PathOf(b)[2],
           resourceWindbagImageID(a) = resourceWindbagImageID(b)
    PROVE  PathOf(a) = PathOf(b)
<1>1. ASSUME NEW image \in Seq(Component) \ {<<>>}, Len(PathOf(image)) >= 3
      PROVE  /\ PathOf(image) \in Seq(Component) /\ Len(PathOf(image)) \in Nat
             /\ Len(resourceWindbagImageID(image)) = Len(PathOf(image)) - 2
             /\ \A i \in 1 .. Len(PathOf(image)) - 2 :
                   resourceWindbagImageID(image)[i] = PathOf(image)[i + 2]
  <2> DEFINE path == PathOf(image)
             repository == Tail(path)
  <2>1. path \in Seq(Component) /\ Len(path) \in Nat /\ Len(path) >= 3
    BY <1>1, PathIsThere, LenProperties
  <2>2. resourceWindbagImageID(image) = Tail(repository)
    BY <1>1 DEF resourceWindbagImageID, ParseImage
  <2> HIDE DEF path
  <2>3. path # <<>>
    BY <2>1, EmptySeq
  <2>4. /\ repository \in Seq(Component) /\ Len(repository) = Len(path) - 1
        /\ \A i \in 1 .. Len(repository) : repository[i] = path[i + 1]
    BY <2>1, <2>3, HeadTailProperties
  <2> HIDE DEF repository
  <2>5. repository # <<>>
    BY <2>1, <2>4, EmptySeq
  <2>6. /\ Len(Tail(repository)) = Len(repository) - 1
        /\ \A i \in 1 .. Len(Tail(repository)) : Tail(repository)[i] = repository[i + 1]
    BY <2>4, <2>5, HeadTailProperties
  <2>7. Len(Tail(repository)) = Len(path) - 2
    BY <2>1, <2>4, <2>6
  <2>8. ASSUME NEW i \in 1 .. Len(path) - 2 PROVE Tail(repository)[i] = path[i + 2]
    <3>1. i \in 1 .. Len(Tail(repository)) /\ i + 1 \in 1 .. Len(repository) /\ (i + 1) + 1 = i + 2
      BY <2>1, <2>4, <2>7
    <3>2. Tail(repository)[i] = repository[i + 1] /\ repository[i + 1] = path[(i + 1) + 1]
      BY <2>4, <2>6, <3>1
    <3>3. QED
      BY <3>1, <3>2
  <2>9. QED
    BY <2>1, <2>2, <2>7, <2>8 DEF path
<1> DEFINE p == PathOf(a)
           q == PathOf(b)
<1>2. /\ p \in Seq(Component) /\ Len(p) \in Nat /\ Len(p) >= 3
      /\ q \in Seq(Component) /\ Len(q) \in Nat /\ Len(q) >= 3
      /\ Len(p) - 2 = Len(q) - 2
  BY <1>1
<1>3. \A i \in 1 .. Len(p) - 2 : p[i + 2] = q[i + 2]
  BY <1>1, <1>2
<1>4. p[1] = q[1] /\ p[2] = q[2]
  OBVIOUS
<1> HIDE DEF p, q
<1>5. Len(p) = Len(q)
  BY <1>2
<1>6. ASSUME NEW i \in 1 .. Len(p) PROVE p[i] = q[i]
  <2>1. CASE i \in {1, 2}
    BY <1>4, <2>1
  <2>2. CASE i \notin {1, 2}
    <3>1. i - 2 \in 1 .. Len(p) - 2 /\ (i - 2) + 2 = i
      BY <1>2, <2>2
    <3>2. QED
      BY <1>3, <3>1
  <2>3. QED
    BY <2>1, <2>2
<1>7. QED
  BY <1>2, <1>5, <1>6, SeqEqual DEF p, q

-----------------------------------------------------------------------------
(* What disturbs the files that are recorded.                              *)

(* An id is one of the ids.                                                *)
LEMMA IdIsAnId == ASSUME TypeOK, NEW r \in Resources PROVE id(r) \in Ids
BY DEF TypeOK, id, Ids

(* What is stored stays shipped while the files are left alone and nothing *)
(* is stored but what was.                                                 *)
LEMMA StoredStays ==
    ASSUME StoredShipped, UNCHANGED <<setup, context, dockerfile>>,
           \A r \in Resources : stored'[r] \in {stored[r], Nothing}
    PROVE  StoredShipped'
<1> SUFFICES ASSUME NEW r \in Resources, stored'[r] # Nothing, NEW w \in stored'[r].workers
             PROVE  Shipped(r, stored[r].recorded[w], w)'
  BY DEF StoredShipped
<1>1. stored'[r] = stored[r]
  OBVIOUS
<1>2. Shipped(r, stored[r].recorded[w], w)
  BY <1>1 DEF StoredShipped
<1>3. QED
  BY <1>1, <1>2 DEF Shipped, HasContext, Has, Private, id

(* And what is recorded while an operation goes on.                        *)
LEMMA RecordedStays ==
    ASSUME RecordedShipped, UNCHANGED <<setup, context, dockerfile>>,
           \A r \in Resources : step'[r] # "idle" =>
               /\ step[r] # "idle"
               /\ data'[r].workers = data[r].workers /\ data'[r].recorded = data[r].recorded
               /\ step'[r] \in {"login", "build"} =>
                      \/ step[r] \in {"login", "build"}
                      \/ \A w \in data[r].workers : data[r].recorded[w] # 0
    PROVE  RecordedShipped'
<1> SUFFICES ASSUME NEW r \in Resources, step'[r] # "idle", NEW w \in data'[r].workers
             PROVE  /\ data'[r].recorded[w] # 0 => Shipped(r, data[r].recorded[w], w)'
                    /\ step'[r] \in {"login", "build"} => data'[r].recorded[w] # 0
  BY DEF RecordedShipped
<1>1. step[r] # "idle" /\ w \in data[r].workers /\ data'[r].recorded = data[r].recorded
  OBVIOUS
<1>2. /\ data[r].recorded[w] # 0 => Shipped(r, data[r].recorded[w], w)
      /\ step[r] \in {"login", "build"} => data[r].recorded[w] # 0
  BY <1>1 DEF RecordedShipped
<1>3. data'[r].recorded[w] # 0 => Shipped(r, data[r].recorded[w], w)'
  BY <1>1, <1>2 DEF Shipped, HasContext, Has, Private, id
<1>4. QED
  BY <1>1, <1>2, <1>3

(* And what is on its way to a worker.                                     *)
LEMMA ShippingStays ==
    ASSUME ShippingInStep, UNCHANGED <<setup, zip, context>>,
           \A r \in Resources : step'[r] \in {"expand", "file"} =>
               step'[r] = step[r] /\ pending'[r] = pending[r] /\ data'[r] = data[r]
    PROVE  ShippingInStep'
<1> SUFFICES ASSUME NEW r \in Resources, step'[r] \in {"expand", "file"}, NEW w \in pending'[r]
             PROVE  /\ w \in data'[r].workers /\ data'[r].recorded[w] = 0 /\ pending'[r] = {w}
                    /\ step'[r] = "expand" => Has(zip, r, data[r].version, w)'
                    /\ step'[r] = "file" => HasContext(r, data[r].version, w)'
  BY DEF ShippingInStep
<1>1. step'[r] = step[r] /\ pending'[r] = pending[r] /\ data'[r] = data[r]
  OBVIOUS
<1>2. /\ w \in data[r].workers /\ data[r].recorded[w] = 0 /\ pending[r] = {w}
      /\ step[r] = "expand" => Has(zip, r, data[r].version, w)
      /\ step[r] = "file" => HasContext(r, data[r].version, w)
  BY <1>1 DEF ShippingInStep
<1>3. QED
  BY <1>1, <1>2 DEF HasContext, Has, Private, id

(* And what was built.                                                     *)
LEMMA BuiltStays ==
    ASSUME BuiltFromRecorded, UNCHANGED <<setup, local>>,
           \A r \in Resources : step'[r] = "build" =>
               \/ step[r] = "build" /\ pending'[r] = pending[r] /\ data'[r] = data[r]
               \/ pending'[r] = data'[r].workers
    PROVE  BuiltFromRecorded'
<1>1. SUFFICES ASSUME NEW r \in Resources, step'[r] = "build"
               PROVE  /\ pending'[r] \subseteq data'[r].workers
                      /\ \A w \in data'[r].workers \ pending'[r] :
                           /\ local[r][w] # Nothing
                           /\ Private(r, w) =>
                                /\ local[r][w].top = [by |-> r, version |-> data'[r].recorded[w]]
                                /\ local[r][w].file = [by |-> r, version |-> data'[r].recorded[w]]
  BY DEF BuiltFromRecorded, Private, id
<1>2. CASE step[r] = "build" /\ pending'[r] = pending[r] /\ data'[r] = data[r]
  BY <1>2 DEF BuiltFromRecorded
<1>3. CASE pending'[r] = data'[r].workers
  BY <1>3
<1>4. QED
  BY <1>1, <1>2, <1>3

(* An edit changes the configuration alone.                                *)
LEMMA EditKeeps == ASSUME IInv, NEW r \in Resources, Edit(r) PROVE IInv'
<1>1. config' \in [Resources -> Configs] /\ \A s \in Resources : config'[s].workers \subseteq setup.hosts[s]
  <2>1. config[r] \in Configs /\ config \in [Resources -> Configs]
    BY DEF IInv, TypeOK
  <2>2. CASE /\ config[r].version < MaxVersion
             /\ config' = [config EXCEPT ![r].version = @ + 1]
    <3>1. config[r].version + 1 \in Versions
      BY <2>1, <2>2, BoundsAssumption DEF Configs, Versions
    <3>2. QED
      BY <2>1, <2>2, <3>1 DEF Configs, IInv, InHosts
  <2>3. CASE \E ws \in SUBSET setup.hosts[r] \ {{}, config[r].workers} :
                 config' = [config EXCEPT ![r].workers = ws]
    <3>1. PICK ws \in SUBSET setup.hosts[r] : config' = [config EXCEPT ![r].workers = ws]
      BY <2>3
    <3>2. ws \subseteq Workers
      BY SetupsAssumption DEF IInv, TypeOK
    <3>3. QED
      BY <2>1, <3>1, <3>2 DEF Configs, IInv, InHosts
  <2>4. QED
    BY <2>2, <2>3 DEF Edit
<1>2. UNCHANGED <<setup, stored, ops, step, kind, data, pending, running, failed, last, dropped, allowed,
                  daemon, zip, context, dockerfile, local, list>>
  BY DEF Edit, opVars, fileVars
<1>3. TypeOK' /\ InHosts'
  BY <1>1, <1>2 DEF IInv, TypeOK, InHosts
<1>4. StoredShipped' /\ RecordedShipped'
  BY <1>2, StoredStays, RecordedStays DEF IInv
<1>5. KindInStep' /\ ShippingInStep'
  BY <1>2 DEF IInv, KindInStep, ShippingInStep, HasContext, Has, Private, id
<1>6. BuiltFromRecorded' /\ DaemonsAllow' /\ PublishedIsOwn'
  BY <1>2 DEF IInv, BuiltFromRecorded, DaemonsAllow, PublishedIsOwn, Private, id
<1>7. QED
  BY <1>3, <1>4, <1>5, <1>6 DEF IInv

(* A run of terraform begins when no operation goes on.                    *)
LEMMA ConfigureKeeps == ASSUME IInv, configure PROVE IInv'
<1>1. UNCHANGED <<userVars, stored, opVars, fileVars, local, list>>
  BY DEF configure
<1>2. StoredShipped' /\ RecordedShipped'
  BY <1>1, StoredStays, RecordedStays DEF IInv, userVars, opVars, fileVars
<1>3. TypeOK' /\ InHosts' /\ DaemonsAllow'
  BY DEF IInv, TypeOK, InHosts, DaemonsAllow, configure, Configured, userVars, opVars, fileVars
<1>4. KindInStep' /\ ShippingInStep'
  BY <1>1 DEF IInv, KindInStep, ShippingInStep, HasContext, Has, Private, id, userVars, opVars, fileVars
<1>5. BuiltFromRecorded' /\ PublishedIsOwn'
  BY <1>1 DEF IInv, BuiltFromRecorded, PublishedIsOwn, Private, id, userVars, opVars, fileVars
<1>6. QED
  BY <1>2, <1>3, <1>4, <1>5 DEF IInv

-----------------------------------------------------------------------------
(* Terraform begins an operation.                                          *)

(* What a create or an update begins with keeps the invariant, when the    *)
(* records it begins with are of what is shipped.                          *)
LEMMA BeginsKeeps ==
    ASSUME IInv, NEW r \in Resources, NEW k \in {"create", "update"}, NEW records \in Recorded,
           Begins(r, k, records), stored' \in [Resources -> Stored \cup {Nothing}],
           \A s \in Resources : stored'[s] \in {stored[s], Nothing},
           k = "create" => stored'[r] = Nothing /\ records = NoRecords,
           k = "update" /\ stored'[r] # Nothing =>
               \A w \in config[r].workers \cap stored'[r].workers : records[w] # 0,
           \A w \in config[r].workers : records[w] # 0 => Shipped(r, records[w], w)
    PROVE  IInv'
<1> DEFINE new == [version |-> config[r].version, workers |-> config[r].workers,
                   recorded |-> records, id |-> FALSE]
<1>1. /\ step[r] = "idle" /\ step' = [step EXCEPT ![r] = "provision"]
      /\ kind' = [kind EXCEPT ![r] = k] /\ data' = [data EXCEPT ![r] = new]
      /\ pending' = [pending EXCEPT ![r] = config[r].workers]
      /\ last' = [s \in Resources |-> s = r]
      /\ allowed' = IF allowed = "off" \/ r \notin setup.registries THEN "off" ELSE r
      /\ dropped' = (dropped \/ r \notin setup.registries)
      /\ UNCHANGED <<setup, config, running, failed, daemon, zip, context, dockerfile, local, list>>
      /\ ops < MaxOps /\ ops' = ops + 1
  BY DEF Begins, Registries, userVars, fileVars
<1>2. new \in Data /\ config[r].workers \subseteq Workers
  BY DEF IInv, TypeOK, Configs, Data
<1> HIDE DEF new
<1>3. TypeOK'
  <2>1. ops' \in 0 .. MaxOps
    BY <1>1, BoundsAssumption DEF IInv, TypeOK
  <2>2. data' \in [Resources -> Data] /\ pending' \in [Resources -> SUBSET Workers]
    BY <1>1, <1>2 DEF IInv, TypeOK
  <2>3. /\ step' \in [Resources -> {"idle", "provision", "ship", "expand", "file", "login", "build"}]
        /\ kind' \in [Resources -> {"create", "update", "refresh"}]
        /\ last' \in [Resources -> BOOLEAN] /\ dropped' \in BOOLEAN
        /\ allowed' \in Resources \cup {"off", "none"}
    BY <1>1 DEF IInv, TypeOK
  <2>4. QED
    BY <1>1, <2>1, <2>2, <2>3 DEF IInv, TypeOK
<1>4. \A s \in Resources \ {r} : /\ step'[s] = step[s] /\ kind'[s] = kind[s] /\ data'[s] = data[s]
                                 /\ pending'[s] = pending[s] /\ ~last'[s]
  BY <1>1 DEF IInv, TypeOK
<1>5. /\ step'[r] = "provision" /\ kind'[r] = k /\ data'[r] = new /\ pending'[r] = config[r].workers
      /\ new.workers = config[r].workers /\ new.recorded = records /\ ~new.id
      /\ new.version = config[r].version
  BY <1>1 DEF IInv, TypeOK, new
<1>6. InHosts'
  BY <1>1, <1>4, <1>5 DEF IInv, InHosts
<1>7. StoredShipped'
  BY <1>1, StoredStays DEF IInv
<1>8. RecordedShipped'
  <2>1. SUFFICES ASSUME NEW s \in Resources, step'[s] # "idle", NEW w \in data'[s].workers
                 PROVE  /\ data'[s].recorded[w] # 0 => Shipped(s, data[s].recorded[w], w)'
                        /\ step'[s] \in {"login", "build"} => data'[s].recorded[w] # 0
    BY DEF RecordedShipped
  <2>2. data'[s].recorded[w] # 0 => Shipped(s, data'[s].recorded[w], w)
    BY <2>1, <1>4, <1>5 DEF IInv, RecordedShipped
  <2>3. data'[s].recorded[w] # 0 => Shipped(s, data[s].recorded[w], w)'
    BY <2>2, <1>1 DEF Shipped, HasContext, Has, Private, id
  <2>4. QED
    BY <2>1, <2>3, <1>4, <1>5 DEF IInv, RecordedShipped
<1>9. KindInStep'
  <2>1. k = "create" => \A w \in new.workers : new.recorded[w] = 0
    BY <1>2, <1>5 DEF NoRecords
  <2>2. QED
    BY <1>4, <1>5, <2>1 DEF IInv, KindInStep
<1>10. ShippingInStep'
  BY <1>1, <1>4, <1>5 DEF IInv, ShippingInStep, HasContext, Has, Private, id
<1>11. BuiltFromRecorded' /\ PublishedIsOwn'
  <2>1. \A s \in Resources : step'[s] = "build" =>
           step[s] = "build" /\ pending'[s] = pending[s] /\ data'[s] = data[s]
    BY <1>4, <1>5
  <2>2. BuiltFromRecorded'
    BY <1>1, <2>1, BuiltStays DEF IInv
  <2>3. PublishedIsOwn'
    BY <1>1 DEF IInv, PublishedIsOwn, Private, id
  <2>4. QED
    BY <2>2, <2>3
<1>12. DaemonsAllow'
  <2>1. setup.foreign /\ ~dropped' => allowed' # "off"
    <3>1. r \in setup.registries /\ ~dropped /\ setup.foreign => allowed' = r
      BY <1>1 DEF IInv, DaemonsAllow
    <3>2. QED
      BY <1>1, <3>1, ResourcesAssumption
  <2>2. ASSUME NEW s \in Resources, last'[s], allowed' # "off" PROVE s = r /\ allowed' = r
    BY <1>1, <2>2
  <2>3. QED
    BY <1>1, <1>5, <2>1, <2>2 DEF DaemonsAllow
<1>13. QED
  BY <1>3, <1>6, <1>7, <1>8, <1>9, <1>10, <1>11, <1>12 DEF IInv

(* A create begins without records.                                        *)
LEMMA CreateKeeps == ASSUME IInv, NEW r \in Resources, Create(r) PROVE IInv'
<1>1. NoRecords \in Recorded /\ \A w \in config[r].workers : NoRecords[w] = 0
  BY BoundsAssumption DEF NoRecords, Recorded, IInv, TypeOK, Configs
<1>2. /\ stored' \in [Resources -> Stored \cup {Nothing}] /\ stored'[r] = Nothing
      /\ \A s \in Resources : stored'[s] \in {stored[s], Nothing}
  BY DEF Create, IInv, TypeOK
<1>3. Begins(r, "create", NoRecords)
  BY DEF Create
<1>4. QED
  BY <1>1, <1>2, <1>3, BeginsKeeps

(* An update with those of the workers it had.                             *)
LEMMA UpdateKeeps == ASSUME IInv, NEW r \in Resources, Update(r) PROVE IInv'
<1> DEFINE records == [w \in Workers |-> IF w \in config[r].workers \cap stored[r].workers
                                         THEN stored[r].recorded[w] ELSE 0]
<1>1. stored[r] # Nothing /\ Begins(r, "update", records) /\ stored' = stored
  BY DEF Update
<1>2. stored[r] \in Stored /\ config[r].workers \subseteq Workers
  BY <1>1 DEF IInv, TypeOK, Configs
<1>3. records \in Recorded
  BY <1>2, BoundsAssumption DEF Recorded, Stored
<1>4. \A w \in config[r].workers : records[w] # 0 =>
         w \in stored[r].workers /\ records[w] = stored[r].recorded[w]
  BY <1>2
<1>5. \A w \in config[r].workers : records[w] # 0 => Shipped(r, records[w], w)
  BY <1>1, <1>4 DEF IInv, StoredShipped
<1>6. \A w \in config[r].workers \cap stored[r].workers : records[w] # 0
  BY <1>1, <1>2 DEF IInv, StoredShipped, Shipped
<1> HIDE DEF records
<1>7. /\ stored' \in [Resources -> Stored \cup {Nothing}]
      /\ \A s \in Resources : stored'[s] \in {stored[s], Nothing}
  BY <1>1 DEF IInv, TypeOK
<1>8. QED
  BY <1>1, <1>3, <1>5, <1>6, <1>7, BeginsKeeps

(* A refresh builds from what is stored.                                   *)
LEMMA RefreshKeeps == ASSUME IInv, NEW r \in Resources, Refresh(r) PROVE IInv'
<1> DEFINE new == [version |-> stored[r].version, workers |-> stored[r].workers,
                   recorded |-> stored[r].recorded, id |-> TRUE]
<1>1. /\ step[r] = "idle" /\ step' = [step EXCEPT ![r] = "build"]
      /\ kind' = [kind EXCEPT ![r] = "refresh"] /\ data' = [data EXCEPT ![r] = new]
      /\ pending' = [pending EXCEPT ![r] = stored[r].workers] /\ stored[r] # Nothing
      /\ UNCHANGED <<setup, config, stored, running, failed, last, dropped, allowed, daemon,
                     zip, context, dockerfile, local, list>>
      /\ ops < MaxOps /\ ops' = ops + 1
  BY DEF Refresh, userVars, fileVars
<1>2. stored[r] \in Stored /\ new \in Data
  BY <1>1 DEF IInv, TypeOK, Stored, Data
<1>3. new.workers = stored[r].workers /\ new.recorded = stored[r].recorded /\ new.workers \subseteq Workers
  BY <1>2 DEF Stored
<1> HIDE DEF new
<1>4. TypeOK'
  <2>1. ops' \in 0 .. MaxOps
    BY <1>1, BoundsAssumption DEF IInv, TypeOK
  <2>2. data' \in [Resources -> Data] /\ pending' \in [Resources -> SUBSET Workers]
    BY <1>1, <1>2, <1>3 DEF IInv, TypeOK
  <2>3. /\ step' \in [Resources -> {"idle", "provision", "ship", "expand", "file", "login", "build"}]
        /\ kind' \in [Resources -> {"create", "update", "refresh"}]
    BY <1>1 DEF IInv, TypeOK
  <2>4. QED
    BY <1>1, <2>1, <2>2, <2>3 DEF IInv, TypeOK
<1>5. \A s \in Resources \ {r} : /\ step'[s] = step[s] /\ kind'[s] = kind[s] /\ data'[s] = data[s]
                                 /\ pending'[s] = pending[s]
  BY <1>1 DEF IInv, TypeOK
<1>6. /\ step'[r] = "build" /\ kind'[r] = "refresh" /\ data'[r] = new
      /\ pending'[r] = stored[r].workers
  BY <1>1 DEF IInv, TypeOK
<1>7. InHosts' /\ StoredShipped'
  <2>1. InHosts'
    BY <1>1, <1>3, <1>5, <1>6 DEF IInv, InHosts
  <2>2. StoredShipped'
    BY <1>1, StoredStays DEF IInv
  <2>3. QED
    BY <2>1, <2>2
<1>8. RecordedShipped'
  <2>1. SUFFICES ASSUME NEW s \in Resources, step'[s] # "idle", NEW w \in data'[s].workers
                 PROVE  /\ data'[s].recorded[w] # 0 => Shipped(s, data[s].recorded[w], w)'
                        /\ step'[s] \in {"login", "build"} => data'[s].recorded[w] # 0
    BY DEF RecordedShipped
  <2>2. CASE s = r
    <3>1. Shipped(s, data'[s].recorded[w], w)
      BY <2>1, <2>2, <1>1, <1>3, <1>6 DEF IInv, StoredShipped
    <3>2. QED
      BY <3>1, <1>1 DEF Shipped, HasContext, Has, Private, id
  <2>3. CASE s # r
    <3>1. /\ data'[s].recorded[w] # 0 => Shipped(s, data'[s].recorded[w], w)
          /\ step'[s] \in {"login", "build"} => data'[s].recorded[w] # 0
      BY <2>1, <2>3, <1>5 DEF IInv, RecordedShipped
    <3>2. QED
      BY <3>1, <1>1 DEF Shipped, HasContext, Has, Private, id
  <2>4. QED
    BY <2>2, <2>3
<1>9. KindInStep' /\ ShippingInStep'
  <2>1. KindInStep'
    BY <1>1, <1>5, <1>6 DEF IInv, KindInStep
  <2>2. ShippingInStep'
    BY <1>1, <1>5, <1>6 DEF IInv, ShippingInStep, HasContext, Has, Private, id
  <2>3. QED
    BY <2>1, <2>2
<1>10. BuiltFromRecorded' /\ PublishedIsOwn'
  <2>1. \A s \in Resources : step'[s] = "build" =>
           \/ step[s] = "build" /\ pending'[s] = pending[s] /\ data'[s] = data[s]
           \/ pending'[s] = data'[s].workers
    BY <1>3, <1>5, <1>6
  <2>2. BuiltFromRecorded'
    BY <1>1, <2>1, BuiltStays DEF IInv
  <2>3. PublishedIsOwn'
    BY <1>1 DEF IInv, PublishedIsOwn, Private, id
  <2>4. QED
    BY <2>2, <2>3
<1>11. DaemonsAllow'
  BY <1>1, <1>5, <1>6 DEF IInv, DaemonsAllow
<1>12. QED
  BY <1>4, <1>7, <1>8, <1>9, <1>10, <1>11 DEF IInv

(* A delete leaves everything behind but what is stored.                   *)
LEMMA DeleteKeeps == ASSUME IInv, NEW r \in Resources, Delete(r) PROVE IInv'
<1>1. /\ UNCHANGED <<setup, config, ops, step, kind, data, pending, running, failed, last, dropped, allowed,
                     daemon, zip, context, dockerfile, local, list>>
      /\ stored' \in [Resources -> Stored \cup {Nothing}]
      /\ \A s \in Resources : stored'[s] \in {stored[s], Nothing}
  BY DEF Delete, IInv, TypeOK, userVars, opVars, fileVars
<1>2. TypeOK' /\ InHosts'
  BY <1>1 DEF IInv, TypeOK, InHosts
<1>3. StoredShipped' /\ RecordedShipped'
  BY <1>1, StoredStays, RecordedStays DEF IInv
<1>4. KindInStep' /\ ShippingInStep'
  BY <1>1 DEF IInv, KindInStep, ShippingInStep, HasContext, Has, Private, id
<1>5. BuiltFromRecorded' /\ DaemonsAllow' /\ PublishedIsOwn'
  BY <1>1 DEF IInv, BuiltFromRecorded, DaemonsAllow, PublishedIsOwn, Private, id
<1>6. QED
  BY <1>2, <1>3, <1>4, <1>5 DEF IInv

(* An operation that ends without being published stores its data only if  *)
(* it has an id, and then every worker has its context recorded.           *)
LEMMA EndsKeeps ==
    ASSUME IInv, NEW r \in Resources, NEW ok \in BOOLEAN, step[r] # "idle", Ends(r, ok),
           list' \in [Resources -> [Workers -> Pushed \cup {Nothing}]], PublishedIsOwn'
    PROVE  IInv'
<1>1. /\ UNCHANGED <<setup, config, ops, kind, data, running, last, dropped, allowed,
                     daemon, zip, context, dockerfile, local>>
      /\ step' = [step EXCEPT ![r] = "idle"] /\ pending' = [pending EXCEPT ![r] = {}]
      /\ failed' = [failed EXCEPT ![r] = FALSE]
      /\ stored' = [stored EXCEPT ![r] = StoredAfter(r, ok)]
  BY DEF Ends, userVars, fileVars
<1> DEFINE new == [version |-> data[r].version, workers |-> data[r].workers,
                   recorded |-> data[r].recorded, tainted |-> ~ok /\ kind[r] = "create"]
<1>2. \/ stored'[r] = stored[r]
      \/ data[r].id /\ kind[r] # "refresh" /\ stored'[r] = new
  BY <1>1 DEF StoredAfter, IInv, TypeOK
<1>3. data[r] \in Data /\ new \in Stored
  BY DEF IInv, TypeOK, Data, Stored
<1>4. new.workers = data[r].workers /\ new.recorded = data[r].recorded
  OBVIOUS
<1> HIDE DEF new
<1>5. /\ \A s \in Resources \ {r} : stored'[s] = stored[s] /\ step'[s] = step[s] /\ pending'[s] = pending[s]
      /\ step'[r] = "idle"
  BY <1>1 DEF IInv, TypeOK
<1>6. stored' \in [Resources -> Stored \cup {Nothing}]
  BY <1>1, <1>2, <1>3 DEF IInv, TypeOK
<1>7. TypeOK'
  <2>1. /\ step' \in [Resources -> {"idle", "provision", "ship", "expand", "file", "login", "build"}]
        /\ pending' \in [Resources -> SUBSET Workers] /\ failed' \in [Resources -> BOOLEAN]
    BY <1>1 DEF IInv, TypeOK
  <2>2. QED
    BY <1>1, <1>6, <2>1 DEF IInv, TypeOK
<1>8. InHosts'
  BY <1>1, <1>2, <1>4, <1>5 DEF IInv, InHosts
<1>9. StoredShipped'
  <2>1. SUFFICES ASSUME NEW s \in Resources, stored'[s] # Nothing, NEW w \in stored'[s].workers
                 PROVE  Shipped(s, stored[s].recorded[w], w)'
    BY DEF StoredShipped
  <2>2. Shipped(s, stored'[s].recorded[w], w)
    <3>1. CASE stored'[s] = stored[s]
      BY <2>1, <3>1 DEF IInv, StoredShipped
    <3>2. CASE s = r /\ data[r].id /\ stored'[r] = new
      BY <2>1, <3>2, <1>4 DEF IInv, KindInStep, RecordedShipped
    <3>3. QED
      BY <3>1, <3>2, <1>2, <1>5
  <2>3. QED
    BY <2>2, <1>1 DEF Shipped, HasContext, Has, Private, id
<1>10. RecordedShipped'
  <2>1. \A s \in Resources : step'[s] # "idle" =>
           /\ step[s] # "idle" /\ data'[s] = data[s]
           /\ step'[s] \in {"login", "build"} => step[s] \in {"login", "build"}
    BY <1>1, <1>5
  <2>2. QED
    BY <1>1, <2>1, RecordedStays DEF IInv
<1>11. KindInStep' /\ DaemonsAllow'
  <2>1. KindInStep'
    BY <1>1, <1>5 DEF IInv, KindInStep
  <2>2. DaemonsAllow'
    BY <1>1, <1>5 DEF IInv, DaemonsAllow
  <2>3. QED
    BY <2>1, <2>2
<1>12. ShippingInStep' /\ BuiltFromRecorded'
  <2>1. ShippingInStep'
    BY <1>1, <1>5 DEF IInv, ShippingInStep, HasContext, Has, Private, id
  <2>2. \A s \in Resources : step'[s] = "build" => step[s] = "build" /\ pending'[s] = pending[s]
    BY <1>5
  <2>3. \A s \in Resources, w \in Workers : Private(s, w)' <=> Private(s, w)
    BY <1>1 DEF Private, id
  <2>4. BuiltFromRecorded'
    BY <1>1, <1>7, <2>2, <2>3 DEF IInv, BuiltFromRecorded, TypeOK, Data
  <2>5. QED
    BY <2>1, <2>4
<1>13. QED
  BY <1>7, <1>8, <1>9, <1>10, <1>11, <1>12 DEF IInv

(* A failure publishes nothing.                                            *)
LEMMA FailsKeeps ==
    ASSUME IInv, NEW r \in Resources, Fails(r) \/ BuildFails(r) PROVE IInv'
<1>1. Ends(r, FALSE) /\ step[r] # "idle" /\ UNCHANGED list
  BY DEF Fails, BuildFails, BuiltAll
<1>2. list' \in [Resources -> [Workers -> Pushed \cup {Nothing}]] /\ PublishedIsOwn'
  BY <1>1 DEF IInv, TypeOK, PublishedIsOwn, Private, id, Ends, userVars
<1>3. QED
  BY <1>1, <1>2, EndsKeeps

(* What is published was built from what is recorded.                      *)
LEMMA PublishKeeps == ASSUME IInv, NEW r \in Resources, Publish(r) PROVE IInv'
<1> DEFINE entry(w) == [top |-> local[r][w].top, mixed |-> local[r][w].mixed,
                        file |-> local[r][w].file, foreign |-> daemon[w] = r]
           new == [w \in Workers |-> IF w \notin data[r].workers THEN Nothing ELSE entry(w)]
<1>1. /\ step[r] = "build" /\ pending[r] = {} /\ Ends(r, TRUE)
      /\ list' = [list EXCEPT ![r] = new]
  BY DEF Publish, BuiltAll
<1>2. \A w \in data[r].workers : w \in Workers /\ local[r][w] \in Builds
  <2>1. data[r].workers \subseteq Workers /\ local[r] \in [Workers -> Builds \cup {Nothing}]
    BY DEF IInv, TypeOK, Data
  <2>2. \A w \in data[r].workers : local[r][w] # Nothing
    BY <1>1 DEF IInv, BuiltFromRecorded
  <2>3. QED
    BY <2>1, <2>2
<1>3. \A w \in data[r].workers : entry(w) \in Pushed
  BY <1>2 DEF Builds, Pushed
<1>4. \A w \in data[r].workers : Private(r, w) => entry(w).top.by = r /\ entry(w).file.by = r
  <2>1. SUFFICES ASSUME NEW w \in data[r].workers, Private(r, w)
                 PROVE  local[r][w].top.by = r /\ local[r][w].file.by = r
    OBVIOUS
  <2>2. /\ local[r][w].top = [by |-> r, version |-> data[r].recorded[w]]
        /\ local[r][w].file = [by |-> r, version |-> data[r].recorded[w]]
    BY <1>1, <2>1 DEF IInv, BuiltFromRecorded
  <2>3. QED
    BY <2>2
<1>5. \A w \in Workers : new[w] # Nothing => w \in data[r].workers /\ new[w] = entry(w)
  OBVIOUS
<1>6. new \in [Workers -> Pushed \cup {Nothing}]
  BY <1>3
<1> HIDE DEF new, entry
<1>7. list' \in [Resources -> [Workers -> Pushed \cup {Nothing}]]
  BY <1>1, <1>6 DEF IInv, TypeOK
<1>8. list'[r] = new /\ \A s \in Resources \ {r} : list'[s] = list[s]
  BY <1>1 DEF IInv, TypeOK
<1>9. \A s \in Resources, w \in Workers : list'[s][w] # Nothing /\ Private(s, w) =>
         list'[s][w].top.by = s /\ list'[s][w].file.by = s
  BY <1>4, <1>5, <1>8 DEF IInv, PublishedIsOwn
<1>10. PublishedIsOwn'
  BY <1>1, <1>9 DEF PublishedIsOwn, Private, id, Ends, userVars
<1>11. QED
  BY <1>1, <1>7, <1>10, EndsKeeps

(* Terraform is killed: no operation goes on, and nothing was stored.      *)
LEMMA KilledKeeps == ASSUME IInv, Killed PROVE IInv'
<1>1. /\ UNCHANGED <<setup, config, stored, ops, kind, data, last, daemon, zip, context, dockerfile,
                     local, list>>
      /\ \A r \in Resources : step'[r] = "idle"
  BY DEF Killed, userVars, fileVars
<1>2. TypeOK' /\ InHosts'
  BY <1>1 DEF IInv, TypeOK, InHosts, Killed, Configured
<1>3. StoredShipped' /\ RecordedShipped'
  <2>1. StoredShipped'
    BY <1>1, StoredStays DEF IInv, TypeOK
  <2>2. RecordedShipped'
    BY <1>1 DEF RecordedShipped
  <2>3. QED
    BY <2>1, <2>2
<1>4. KindInStep' /\ ShippingInStep' /\ BuiltFromRecorded' /\ DaemonsAllow'
  BY <1>1 DEF KindInStep, ShippingInStep, BuiltFromRecorded, DaemonsAllow, Killed, Configured
<1>5. PublishedIsOwn'
  BY <1>1 DEF IInv, PublishedIsOwn, Private, id
<1>6. QED
  BY <1>2, <1>3, <1>4, <1>5 DEF IInv

-----------------------------------------------------------------------------
(* An operation goes on.                                                   *)

(* A daemon is restarted for another worker.                               *)
LEMMA ProvisionKeeps ==
    ASSUME IInv, NEW r \in Resources, NEW w \in Workers, Provision(r, w) PROVE IInv'
<1>1. /\ UNCHANGED <<setup, config, stored, ops, kind, data, last, dropped, allowed, zip, context, dockerfile,
                     local, list>>
      /\ step[r] = "provision" /\ w \in pending[r]
      /\ pending' = [pending EXCEPT ![r] = @ \ {w}]
      /\ step' = [step EXCEPT ![r] = IF pending[r] = {w} THEN "ship" ELSE @]
      /\ daemon' = IF allowed \in Resources THEN [daemon EXCEPT ![w] = allowed] ELSE daemon
      /\ failed' = [s \in Resources |-> failed[s] \/ w \in running[s]]
      /\ running' = [s \in Resources |-> running[s] \ {w}]
  BY DEF Provision, createFrame, userVars, fileVars
<1>2. /\ step'[r] \in {"provision", "ship"} /\ pending'[r] = pending[r] \ {w}
      /\ step'[r] = "ship" => pending'[r] = {}
      /\ \A s \in Resources \ {r} : step'[s] = step[s] /\ pending'[s] = pending[s]
  BY <1>1 DEF IInv, TypeOK
<1>3. TypeOK' /\ InHosts'
  BY <1>1 DEF IInv, TypeOK, InHosts
<1>4. StoredShipped' /\ RecordedShipped'
  <2>1. \A s \in Resources : step'[s] # "idle" =>
           /\ step[s] # "idle" /\ data'[s] = data[s]
           /\ step'[s] \in {"login", "build"} => step[s] \in {"login", "build"}
    BY <1>1, <1>2
  <2>2. \A s \in Resources : stored'[s] \in {stored[s], Nothing}
    BY <1>1
  <2>3. QED
    BY <1>1, <2>1, <2>2, StoredStays, RecordedStays DEF IInv
<1>5. KindInStep'
  BY <1>1, <1>2 DEF IInv, KindInStep
<1>6. ShippingInStep'
  BY <1>1, <1>2 DEF IInv, ShippingInStep, HasContext, Has, Private, id
<1>7. BuiltFromRecorded' /\ PublishedIsOwn'
  <2>1. \A s \in Resources : step'[s] = "build" =>
           step[s] = "build" /\ pending'[s] = pending[s] /\ data'[s] = data[s]
    BY <1>1, <1>2
  <2>2. BuiltFromRecorded'
    BY <1>1, <2>1, BuiltStays DEF IInv
  <2>3. PublishedIsOwn'
    BY <1>1 DEF IInv, PublishedIsOwn, Private, id
  <2>4. QED
    BY <2>2, <2>3
<1>8. DaemonsAllow'
  <2>1. SUFFICES ASSUME NEW s \in Resources, step'[s] # "idle", kind[s] # "refresh", last[s], allowed # "off"
                 PROVE  /\ allowed = s
                        /\ \A v \in data[s].workers :
                               step'[s] # "provision" \/ v \notin pending'[s] => daemon'[v] = s
    BY <1>1 DEF IInv, DaemonsAllow
  <2>2. /\ step[s] # "idle" /\ allowed = s
        /\ \A v \in data[s].workers : step[s] # "provision" \/ v \notin pending[s] => daemon[v] = s
    BY <2>1, <1>1, <1>2 DEF IInv, DaemonsAllow
  <2>3. daemon' = [daemon EXCEPT ![w] = s]
    BY <2>2, <1>1
  <2>4. \A v \in data[s].workers : v \in Workers /\ daemon'[v] = IF v = w THEN s ELSE daemon[v]
    BY <2>3 DEF IInv, TypeOK, Data
  <2>5. QED
    BY <2>2, <2>4, <1>1, <1>2
<1>9. QED
  BY <1>3, <1>4, <1>5, <1>6, <1>7, <1>8 DEF IInv

(* The archive is at a worker that has no context recorded.                *)
LEMMA ShipArchiveKeeps ==
    ASSUME IInv, NEW r \in Resources, NEW w \in Workers, ShipArchive(r, w) PROVE IInv'
<1>1. /\ UNCHANGED <<setup, config, stored, ops, kind, data, last, dropped, allowed, running, failed, daemon,
                     context, dockerfile, local, list>>
      /\ step[r] = "ship" /\ w \in data[r].workers /\ data[r].recorded[w] = 0
      /\ zip' = [zip EXCEPT ![w][id(r)] = [by |-> r, version |-> data[r].version]]
      /\ pending' = [pending EXCEPT ![r] = {w}]
      /\ step' = [step EXCEPT ![r] = "expand"]
  BY DEF ShipArchive, shipFrame, createFrame, Source, userVars
<1>2. /\ step'[r] = "expand" /\ pending'[r] = {w}
      /\ \A s \in Resources \ {r} : step'[s] = step[s] /\ pending'[s] = pending[s]
  BY <1>1 DEF IInv, TypeOK
<1>3. [by |-> r, version |-> data[r].version] \in Sources
  BY DEF IInv, TypeOK, Data, Sources
<1>4. /\ zip' \in [Workers -> [Ids -> Sources \cup {Nothing}]]
      /\ \A v \in Workers, s \in Resources :
            zip'[v][id(s)] = IF v = w /\ id(s) = id(r) THEN [by |-> r, version |-> data[r].version]
                             ELSE zip[v][id(s)]
  BY <1>1, <1>3, IdIsAnId DEF IInv, TypeOK
<1>5. TypeOK' /\ InHosts'
  <2>1. TypeOK'
    BY <1>1, <1>4 DEF IInv, TypeOK
  <2>2. InHosts'
    BY <1>1 DEF IInv, InHosts
  <2>3. QED
    BY <2>1, <2>2
<1>6. StoredShipped' /\ RecordedShipped'
  <2>1. \A s \in Resources : step'[s] # "idle" =>
           /\ step[s] # "idle" /\ data'[s] = data[s]
           /\ step'[s] \in {"login", "build"} => step[s] \in {"login", "build"}
    BY <1>1, <1>2
  <2>2. \A s \in Resources : stored'[s] \in {stored[s], Nothing}
    BY <1>1
  <2>3. QED
    BY <1>1, <2>1, <2>2, StoredStays, RecordedStays DEF IInv
<1>7. KindInStep'
  BY <1>1, <1>2 DEF IInv, KindInStep
<1>8. ShippingInStep'
  <2>1. SUFFICES ASSUME NEW s \in Resources
                 PROVE  /\ step'[s] \in {"expand", "file"} =>
                            \A v \in pending'[s] : /\ v \in data[s].workers /\ data[s].recorded[v] = 0
                                                   /\ pending'[s] = {v}
                        /\ step'[s] = "expand" =>
                            \A v \in pending'[s] : Has(zip, s, data[s].version, v)'
                        /\ step'[s] = "file" =>
                            \A v \in pending'[s] : HasContext(s, data[s].version, v)'
    BY <1>1 DEF ShippingInStep
  <2>2. CASE s = r
    BY <2>2, <1>1, <1>2, <1>3, <1>4, NothingAssumption DEF Has, Private, id
  <2>3. CASE s # r
    <3>1. step'[s] \in {"expand", "file"} =>
              \A v \in pending'[s] : /\ v \in data[s].workers /\ data[s].recorded[v] = 0
                                     /\ pending'[s] = {v}
      BY <2>3, <1>2 DEF IInv, ShippingInStep
    <3>2. ASSUME step'[s] = "expand", NEW v \in pending'[s]
          PROVE  Has(zip, s, data[s].version, v)'
      <4>1. Has(zip, s, data[s].version, v) /\ v \in Workers
        BY <2>3, <3>2, <1>2 DEF IInv, ShippingInStep, TypeOK
      <4>2. v = w /\ id(s) = id(r) => ~Private(s, v)
        BY <2>3, <1>1 DEF Private, IInv, InHosts
      <4>3. zip'[v][id(s)] # Nothing /\ (Private(s, v) => zip'[v][id(s)] = zip[v][id(s)])
        BY <4>1, <4>2, <1>3, <1>4, NothingAssumption DEF Has
      <4>4. QED
        BY <4>1, <4>3, <1>1 DEF Has, Private, id
    <3>3. step'[s] = "file" => \A v \in pending'[s] : HasContext(s, data[s].version, v)'
      BY <2>3, <1>1, <1>2 DEF IInv, ShippingInStep, HasContext, Private, id
    <3>4. QED
      BY <3>1, <3>2, <3>3
  <2>4. QED
    BY <2>2, <2>3
<1>9. BuiltFromRecorded' /\ PublishedIsOwn'
  <2>1. \A s \in Resources : step'[s] = "build" =>
           step[s] = "build" /\ pending'[s] = pending[s] /\ data'[s] = data[s]
    BY <1>1, <1>2
  <2>2. BuiltFromRecorded'
    BY <1>1, <2>1, BuiltStays DEF IInv
  <2>3. PublishedIsOwn'
    BY <1>1 DEF IInv, PublishedIsOwn, Private, id
  <2>4. QED
    BY <2>2, <2>3
<1>10. DaemonsAllow'
  BY <1>1, <1>2 DEF IInv, DaemonsAllow
<1>11. QED
  BY <1>5, <1>6, <1>7, <1>8, <1>9, <1>10 DEF IInv

(* Files are written for r on w, where it has none recorded: no file that  *)
(* is recorded or stored is touched, unless others write it anyway.        *)
LEMMA WritesKeep ==
    ASSUME IInv, NEW r \in Resources, NEW w \in pending[r], step[r] \in {"expand", "file"},
           UNCHANGED <<setup, stored>>,
           \A s \in Resources, v \in Workers :
               /\ context[v][id(s)] # Nothing => context'[v][id(s)] # Nothing
               /\ dockerfile[v][id(s)] # Nothing => dockerfile'[v][id(s)] # Nothing
               /\ v # w \/ id(s) # id(r) => /\ context'[v][id(s)] = context[v][id(s)]
                                            /\ dockerfile'[v][id(s)] = dockerfile[v][id(s)],
           \A s \in Resources \ {r} : step'[s] = step[s] /\ data'[s] = data[s],
           step'[r] \notin {"login", "build"}, data'[r].workers = data[r].workers,
           \A v \in Workers \ {w} : data'[r].recorded[v] = data[r].recorded[v],
           data'[r].recorded[w] # 0 => Shipped(r, data[r].recorded[w], w)'
    PROVE  StoredShipped' /\ RecordedShipped'
<1>1. w \in Workers /\ w \in data[r].workers /\ data[r].recorded[w] = 0 /\ w \in setup.hosts[r]
  BY DEF IInv, TypeOK, ShippingInStep, InHosts
<1>2. ASSUME NEW s \in Resources, NEW v \in Workers, NEW n, s # r \/ v # w, Shipped(s, n, v)
      PROVE  /\ n # 0 /\ context'[v][id(s)] # Nothing /\ dockerfile'[v][id(s)] # Nothing
             /\ Private(s, v) => /\ context'[v][id(s)].top = [by |-> s, version |-> n]
                                 /\ dockerfile'[v][id(s)] = [by |-> s, version |-> n]
  <2>1. v = w /\ id(s) = id(r) => ~Private(s, v)
    BY <1>1, <1>2 DEF Private
  <2>2. QED
    BY <1>2, <2>1 DEF Shipped, HasContext, Has
<1>3. \A s \in Resources, v \in Workers : Private(s, v)' <=> Private(s, v)
  BY DEF Private, id
<1>4. \A s \in Resources : id(s)' = id(s)
  BY DEF id
<1>5. StoredShipped'
  <2>1. SUFFICES ASSUME NEW s \in Resources, stored[s] # Nothing, NEW v \in stored[s].workers
                 PROVE  Shipped(s, stored[s].recorded[v], v)'
    BY DEF StoredShipped
  <2>2. v \in Workers /\ Shipped(s, stored[s].recorded[v], v)
    BY <2>1 DEF IInv, TypeOK, Stored, StoredShipped
  <2>3. s # r \/ v # w
    BY <2>1, <1>1 DEF IInv, TypeOK, KindInStep
  <2>4. QED
    BY <1>2, <1>3, <1>4, <2>2, <2>3 DEF Shipped, HasContext, Has
<1>6. RecordedShipped'
  <2>1. SUFFICES ASSUME NEW s \in Resources, step'[s] # "idle", NEW v \in data'[s].workers
                 PROVE  /\ data'[s].recorded[v] # 0 => Shipped(s, data[s].recorded[v], v)'
                        /\ step'[s] \in {"login", "build"} => data'[s].recorded[v] # 0
    BY DEF RecordedShipped
  <2>2. v \in Workers
    <3>1. data'[s].workers = data[s].workers
      OBVIOUS
    <3>2. data[s] \in Data
      BY DEF IInv, TypeOK
    <3>3. QED
      BY <2>1, <3>1, <3>2 DEF Data
  <2>3. CASE s = r /\ v = w
    BY <2>3
  <2>4. CASE s # r \/ v # w
    <3>1. /\ data'[s].recorded[v] = data[s].recorded[v] /\ v \in data[s].workers /\ step[s] # "idle"
          /\ step'[s] \in {"login", "build"} => step[s] \in {"login", "build"}
      BY <2>1, <2>2, <2>4
    <3>2. /\ data[s].recorded[v] # 0 => Shipped(s, data[s].recorded[v], v)
          /\ step[s] \in {"login", "build"} => data[s].recorded[v] # 0
      BY <3>1 DEF IInv, RecordedShipped
    <3>3. QED
      BY <1>2, <1>3, <1>4, <2>2, <2>4, <3>1, <3>2 DEF Shipped, HasContext, Has
  <2>5. QED
    BY <2>3, <2>4
<1>7. QED
  BY <1>5, <1>6

(* The archive is expanded.                                                *)
LEMMA ExpandKeeps ==
    ASSUME IInv, NEW r \in Resources, NEW w \in Workers, Expand(r, w) PROVE IInv'
<1> DEFINE new == zip[w][id(r)]
           mix == context[w][id(r)] # Nothing
                  /\ (context[w][id(r)].mixed \/ context[w][id(r)].top # new)
<1>1. /\ UNCHANGED <<setup, config, stored, ops, kind, data, last, dropped, allowed, running, failed, daemon,
                     pending, zip, dockerfile, local, list>>
      /\ step[r] = "expand" /\ w \in pending[r]
      /\ context' = [context EXCEPT ![w][id(r)] = [top |-> new, mixed |-> mix]]
      /\ step' = [step EXCEPT ![r] = "file"]
  BY DEF Expand, Directory, shipFrame, createFrame, userVars
<1>2. Has(zip, r, data[r].version, w) /\ w \in data[r].workers /\ data[r].recorded[w] = 0
  BY <1>1 DEF IInv, ShippingInStep
<1>3. new \in Sources /\ mix \in BOOLEAN
  <2>1. new \in Sources
    BY <1>2, IdIsAnId DEF IInv, TypeOK, Has
  <2>2. context[w][id(r)] \in Contexts \cup {Nothing}
    BY IdIsAnId DEF IInv, TypeOK
  <2>3. QED
    BY <2>1, <2>2 DEF Contexts
<1>4. Private(r, w) => new = [by |-> r, version |-> data[r].version]
  BY <1>2 DEF Has
<1> HIDE DEF new, mix
<1>5. /\ [top |-> new, mixed |-> mix] \in Contexts /\ [top |-> new, mixed |-> mix].top = new
      /\ [top |-> new, mixed |-> mix] # Nothing
  BY <1>3, NothingAssumption DEF Contexts
<1>6. context' \in [Workers -> [Ids -> Contexts \cup {Nothing}]]
  BY <1>1, <1>5, IdIsAnId DEF IInv, TypeOK
<1>7. \A v \in Workers, s \in Resources :
         context'[v][id(s)] = IF v = w /\ id(s) = id(r) THEN [top |-> new, mixed |-> mix]
                              ELSE context[v][id(s)]
  BY <1>1, IdIsAnId DEF IInv, TypeOK
<1>8. \A s \in Resources, v \in Workers : Private(s, v)' <=> Private(s, v)
  BY <1>1 DEF Private, id
<1>9. step'[r] = "file" /\ \A s \in Resources \ {r} : step'[s] = step[s]
  BY <1>1 DEF IInv, TypeOK
<1>10. TypeOK' /\ InHosts'
  <2>1. TypeOK'
    BY <1>1, <1>6 DEF IInv, TypeOK
  <2>2. InHosts'
    BY <1>1 DEF IInv, InHosts
  <2>3. QED
    BY <2>1, <2>2
<1>11. StoredShipped' /\ RecordedShipped'
  BY <1>1, <1>2, <1>5, <1>7, <1>9, WritesKeep
<1>12. KindInStep'
  BY <1>1, <1>9 DEF IInv, KindInStep
<1>13. ShippingInStep'
  <2>1. SUFFICES ASSUME NEW s \in Resources
                 PROVE  /\ step'[s] \in {"expand", "file"} =>
                            \A v \in pending[s] : /\ v \in data[s].workers /\ data[s].recorded[v] = 0
                                                  /\ pending[s] = {v}
                        /\ step'[s] = "expand" =>
                            \A v \in pending[s] : Has(zip, s, data[s].version, v)'
                        /\ step'[s] = "file" =>
                            \A v \in pending[s] : HasContext(s, data[s].version, v)'
    BY <1>1 DEF ShippingInStep
  <2>2. /\ step'[s] \in {"expand", "file"} =>
            \A v \in pending[s] : /\ v \in data[s].workers /\ data[s].recorded[v] = 0
                                  /\ pending[s] = {v}
        /\ step'[s] = "expand" => \A v \in pending[s] : Has(zip, s, data[s].version, v)'
    BY <1>1, <1>9 DEF IInv, ShippingInStep, Has, Private, id
  <2>3. ASSUME step'[s] = "file", NEW v \in pending[s]
        PROVE  HasContext(s, data[s].version, v)'
    <3>1. v \in Workers
      BY <2>3 DEF IInv, TypeOK
    <3>2. CASE s = r
      <4>1. Has(zip, s, data[s].version, v)
        BY <2>3, <3>2, <1>1 DEF IInv, ShippingInStep
      <4>2. CASE v = w
        BY <1>1, <1>4, <1>5, <1>7, <1>8, <3>1, <3>2, <4>2 DEF HasContext, id
      <4>3. v = w
        BY <2>3, <3>2, <1>1 DEF IInv, ShippingInStep
      <4>4. QED
        BY <4>2, <4>3
    <3>3. CASE s # r
      <4>1. HasContext(s, data[s].version, v) /\ v \in data[s].workers
        BY <2>3, <3>3, <1>9 DEF IInv, ShippingInStep
      <4>2. v = w /\ id(s) = id(r) => ~Private(s, v)
        BY <1>2, <3>3 DEF Private, IInv, InHosts
      <4>3. QED
        BY <1>1, <1>5, <1>7, <1>8, <3>1, <4>1, <4>2 DEF HasContext, id
    <3>4. QED
      BY <3>2, <3>3
  <2>4. QED
    BY <2>2, <2>3
<1>14. BuiltFromRecorded' /\ PublishedIsOwn'
  <2>1. BuiltFromRecorded'
    BY <1>1, <1>8, <1>9 DEF IInv, BuiltFromRecorded, TypeOK, Data
  <2>2. PublishedIsOwn'
    BY <1>1 DEF IInv, PublishedIsOwn, Private, id
  <2>3. QED
    BY <2>1, <2>2
<1>15. DaemonsAllow'
  BY <1>1, <1>9 DEF IInv, DaemonsAllow
<1>16. QED
  BY <1>10, <1>11, <1>12, <1>13, <1>14, <1>15 DEF IInv

(* The Dockerfile is at its place: the context is recorded.                *)
LEMMA ShipDockerfileKeeps ==
    ASSUME IInv, NEW r \in Resources, NEW w \in Workers, ShipDockerfile(r, w) PROVE IInv'
<1> DEFINE new == [by |-> r, version |-> data[r].version]
<1>1. /\ UNCHANGED <<setup, config, stored, ops, kind, last, dropped, allowed, running, failed, daemon,
                     zip, context, local, list>>
      /\ step[r] = "file" /\ w \in pending[r]
      /\ dockerfile' = [dockerfile EXCEPT ![w][id(r)] = new]
      /\ data' = [data EXCEPT ![r].recorded[w] = data[r].version]
      /\ pending' = [pending EXCEPT ![r] = {}]
      /\ step' = [step EXCEPT ![r] = "ship"]
  BY DEF ShipDockerfile, Source, shipFrame, createFrame, userVars
<1>2. HasContext(r, data[r].version, w) /\ w \in data[r].workers /\ data[r].recorded[w] = 0
  BY <1>1 DEF IInv, ShippingInStep
<1>3. data[r] \in Data /\ new \in Sources /\ new # Nothing /\ data[r].version # 0
  BY NothingAssumption DEF IInv, TypeOK, Data, Sources, Versions
<1>4. /\ dockerfile' \in [Workers -> [Ids -> Sources \cup {Nothing}]]
      /\ \A v \in Workers, s \in Resources :
            dockerfile'[v][id(s)] = IF v = w /\ id(s) = id(r) THEN new ELSE dockerfile[v][id(s)]
  BY <1>1, <1>3, IdIsAnId DEF IInv, TypeOK
<1>5. data' = [data EXCEPT ![r] = [data[r] EXCEPT !.recorded = [data[r].recorded EXCEPT ![w] = data[r].version]]]
  BY <1>1
<1>6. [data[r].recorded EXCEPT ![w] = data[r].version] \in Recorded
  BY <1>3, BoundsAssumption DEF Data, Recorded, Versions
<1>7. [data[r] EXCEPT !.recorded = [data[r].recorded EXCEPT ![w] = data[r].version]] \in Data
  BY <1>3, <1>6 DEF Data
<1>8. data' \in [Resources -> Data]
  BY <1>5, <1>7 DEF IInv, TypeOK
<1>9. /\ data'[r].version = data[r].version /\ data'[r].workers = data[r].workers
      /\ data'[r].id = data[r].id /\ data'[r].recorded[w] = data[r].version
      /\ \A v \in Workers \ {w} : data'[r].recorded[v] = data[r].recorded[v]
  BY <1>3, <1>5 DEF IInv, TypeOK, Data, Recorded
<1>10. /\ step'[r] = "ship" /\ pending'[r] = {}
       /\ \A s \in Resources \ {r} : /\ step'[s] = step[s] /\ pending'[s] = pending[s]
                                     /\ data'[s] = data[s]
  BY <1>1, <1>5 DEF IInv, TypeOK
<1>11. \A s \in Resources, v \in Workers : Private(s, v)' <=> Private(s, v)
  BY <1>1 DEF Private, id
<1> HIDE DEF new
<1>12. TypeOK' /\ InHosts'
  <2>1. TypeOK'
    BY <1>1, <1>4, <1>8 DEF IInv, TypeOK
  <2>2. InHosts'
    BY <1>1, <1>9, <1>10 DEF IInv, InHosts
  <2>3. QED
    BY <2>1, <2>2
<1>13. StoredShipped' /\ RecordedShipped'
  <2>1. Shipped(r, data[r].recorded[w], w)'
    <3>1. dockerfile'[w][id(r)] = new
      BY <1>2, <1>4, <1>1 DEF IInv, TypeOK
    <3>2. QED
      BY <1>1, <1>2, <1>3, <1>9, <1>11, <3>1 DEF Shipped, HasContext, Has, id, new
  <2>2. QED
    BY <2>1, <1>1, <1>3, <1>4, <1>9, <1>10, WritesKeep
<1>14. KindInStep'
  <2>1. SUFFICES ASSUME NEW s \in Resources, step'[s] # "idle"
                 PROVE  /\ data'[s].id => step'[s] = "build"
                        /\ kind[s] = "refresh" => step'[s] = "build"
                        /\ kind[s] = "create" =>
                             /\ stored[s] = Nothing
                             /\ \A v \in data'[s].workers : data'[s].recorded[v] \in {0, data'[s].version}
                        /\ kind[s] = "update" /\ stored[s] # Nothing =>
                             \A v \in data'[s].workers \cap stored[s].workers : data'[s].recorded[v] # 0
    BY <1>1 DEF KindInStep
  <2>2. step[s] # "idle" /\ (s = r => step[s] = "file")
    BY <2>1, <1>1, <1>10
  <2>3. CASE s # r
    BY <2>2, <2>3, <1>10 DEF IInv, KindInStep
  <2>4. CASE s = r
    <3>1. \A v \in data[r].workers :
            /\ v \in Workers
            /\ data'[r].recorded[v] = IF v = w THEN data[r].version ELSE data[r].recorded[v]
      BY <1>3, <1>9 DEF Data
    <3>2. QED
      BY <2>2, <2>4, <3>1, <1>3, <1>9 DEF IInv, KindInStep
  <2>5. QED
    BY <2>3, <2>4
<1>15. ShippingInStep'
  <2>1. SUFFICES ASSUME NEW s \in Resources, step'[s] \in {"expand", "file"}, NEW v \in pending'[s]
                 PROVE  /\ v \in data'[s].workers /\ data'[s].recorded[v] = 0 /\ pending'[s] = {v}
                        /\ step'[s] = "expand" => Has(zip, s, data[s].version, v)'
                        /\ step'[s] = "file" => HasContext(s, data[s].version, v)'
    BY DEF ShippingInStep
  <2>2. s # r /\ step'[s] = step[s] /\ pending'[s] = pending[s] /\ data'[s] = data[s]
    BY <2>1, <1>10
  <2>3. /\ v \in data[s].workers /\ data[s].recorded[v] = 0 /\ pending[s] = {v}
        /\ step[s] = "expand" => Has(zip, s, data[s].version, v)
        /\ step[s] = "file" => HasContext(s, data[s].version, v)
    BY <2>1, <2>2 DEF IInv, ShippingInStep
  <2>4. v \in Workers
    BY <2>3 DEF IInv, TypeOK, Data
  <2>5. QED
    BY <2>2, <2>3, <2>4, <1>1, <1>11 DEF HasContext, Has, id
<1>16. BuiltFromRecorded' /\ PublishedIsOwn'
  <2>1. BuiltFromRecorded'
    BY <1>1, <1>10, <1>11 DEF IInv, BuiltFromRecorded, TypeOK, Data
  <2>2. PublishedIsOwn'
    BY <1>1, <1>11 DEF IInv, PublishedIsOwn
  <2>3. QED
    BY <2>1, <2>2
<1>17. DaemonsAllow'
  <2>1. SUFFICES ASSUME NEW s \in Resources, step'[s] # "idle", kind[s] # "refresh", last[s], allowed # "off"
                 PROVE  /\ allowed = s
                        /\ \A v \in data[s].workers :
                               step'[s] # "provision" \/ v \notin pending'[s] => daemon[v] = s
    BY <1>1, <1>9, <1>10 DEF IInv, DaemonsAllow
  <2>2. QED
    BY <2>1, <1>1, <1>10 DEF IInv, DaemonsAllow
<1>18. QED
  BY <1>12, <1>13, <1>14, <1>15, <1>16, <1>17 DEF IInv

(* The logins, once every worker has its context; then the id.             *)
LEMMA LogInKeeps == ASSUME IInv, NEW r \in Resources, LogIn(r) PROVE IInv'
<1>1. /\ UNCHANGED <<setup, config, stored, ops, kind, data, last, dropped, allowed, running, failed, daemon,
                     pending, zip, context, dockerfile, local, list>>
      /\ step[r] = "ship" /\ \A w \in data[r].workers : data[r].recorded[w] # 0
      /\ step' = [step EXCEPT ![r] = "login"]
  BY DEF LogIn, shipFrame, createFrame, userVars, fileVars
<1>2. step'[r] = "login" /\ \A s \in Resources \ {r} : step'[s] = step[s]
  BY <1>1 DEF IInv, TypeOK
<1>3. \A s \in Resources, v \in Workers : Private(s, v)' <=> Private(s, v)
  BY <1>1 DEF Private, id
<1>4. TypeOK' /\ InHosts'
  BY <1>1 DEF IInv, TypeOK, InHosts
<1>5. StoredShipped'
  BY <1>1, StoredStays DEF IInv
<1>6. RecordedShipped'
  <2>1. \A s \in Resources : step'[s] # "idle" =>
           /\ step[s] # "idle"
           /\ step'[s] \in {"login", "build"} =>
                  \/ step[s] \in {"login", "build"}
                  \/ \A w \in data[s].workers : data[s].recorded[w] # 0
    BY <1>1, <1>2
  <2>2. QED
    BY <1>1, <2>1, RecordedStays DEF IInv
<1>7. KindInStep' /\ DaemonsAllow'
  BY <1>1, <1>2 DEF IInv, KindInStep, DaemonsAllow
<1>8. ShippingInStep'
  <2>1. \A s \in Resources : step'[s] \in {"expand", "file"} => step'[s] = step[s]
    BY <1>2
  <2>2. QED
    BY <1>1, <2>1, ShippingStays DEF IInv
<1>9. BuiltFromRecorded' /\ PublishedIsOwn'
  BY <1>1, <1>2, <1>3 DEF IInv, BuiltFromRecorded, PublishedIsOwn, TypeOK, Data
<1>10. QED
  BY <1>4, <1>5, <1>6, <1>7, <1>8, <1>9 DEF IInv

LEMMA SetIdKeeps == ASSUME IInv, NEW r \in Resources, SetId(r) PROVE IInv'
<1>1. /\ UNCHANGED <<setup, config, stored, ops, kind, last, dropped, allowed, running, failed, daemon,
                     zip, context, dockerfile, local, list>>
      /\ step[r] = "login"
      /\ data' = [data EXCEPT ![r] = [data[r] EXCEPT !.id = TRUE]]
      /\ pending' = [pending EXCEPT ![r] = data[r].workers]
      /\ step' = [step EXCEPT ![r] = "build"]
  BY DEF SetId, shipFrame, createFrame, userVars, fileVars
<1>2. data[r] \in Data
  BY DEF IInv, TypeOK
<1>3. /\ step'[r] = "build" /\ pending'[r] = data[r].workers
      /\ data'[r].version = data[r].version /\ data'[r].workers = data[r].workers
      /\ data'[r].recorded = data[r].recorded
      /\ \A s \in Resources \ {r} : /\ step'[s] = step[s] /\ pending'[s] = pending[s]
                                    /\ data'[s] = data[s]
  BY <1>1, <1>2 DEF IInv, TypeOK, Data
<1>4. \A s \in Resources, v \in Workers : Private(s, v)' <=> Private(s, v)
  BY <1>1 DEF Private, id
<1>5. TypeOK'
  <2>1. data' \in [Resources -> Data] /\ pending' \in [Resources -> SUBSET Workers]
    BY <1>1, <1>2 DEF IInv, TypeOK, Data
  <2>2. step' \in [Resources -> {"idle", "provision", "ship", "expand", "file", "login", "build"}]
    BY <1>1 DEF IInv, TypeOK
  <2>3. QED
    BY <1>1, <2>1, <2>2 DEF IInv, TypeOK
<1>6. InHosts' /\ DaemonsAllow'
  BY <1>1, <1>3 DEF IInv, InHosts, DaemonsAllow
<1>7. StoredShipped'
  BY <1>1, StoredStays DEF IInv
<1>8. RecordedShipped'
  <2>1. \A s \in Resources : step'[s] # "idle" =>
           /\ step[s] # "idle"
           /\ data'[s].workers = data[s].workers /\ data'[s].recorded = data[s].recorded
           /\ step'[s] \in {"login", "build"} => step[s] \in {"login", "build"}
    BY <1>1, <1>3
  <2>2. QED
    BY <1>1, <2>1, RecordedStays DEF IInv
<1>9. KindInStep'
  BY <1>1, <1>3 DEF IInv, KindInStep
<1>10. ShippingInStep'
  <2>1. \A s \in Resources : step'[s] \in {"expand", "file"} =>
           step'[s] = step[s] /\ pending'[s] = pending[s] /\ data'[s] = data[s]
    BY <1>3
  <2>2. QED
    BY <1>1, <2>1, ShippingStays DEF IInv
<1>11. BuiltFromRecorded' /\ PublishedIsOwn'
  <2>1. BuiltFromRecorded'
    BY <1>1, <1>3, <1>4 DEF IInv, BuiltFromRecorded, TypeOK, Data
  <2>2. PublishedIsOwn'
    BY <1>1, <1>4 DEF IInv, PublishedIsOwn
  <2>3. QED
    BY <2>1, <2>2
<1>12. QED
  BY <1>5, <1>6, <1>7, <1>8, <1>9, <1>10, <1>11 DEF IInv

-----------------------------------------------------------------------------
(* Builds.                                                                 *)

(* A build takes the files that are recorded.                              *)
LEMMA StartBuildKeeps ==
    ASSUME IInv, NEW r \in Resources, NEW w \in Workers, StartBuild(r, w) PROVE IInv'
<1> DEFINE new == [top |-> context[w][id(r)].top, mixed |-> context[w][id(r)].mixed,
                   file |-> dockerfile[w][id(r)]]
<1>1. /\ UNCHANGED <<setup, config, stored, ops, step, kind, data, last, dropped, allowed, failed, daemon,
                     zip, context, dockerfile, list>>
      /\ step[r] = "build" /\ w \in pending[r]
      /\ pending' = [pending EXCEPT ![r] = @ \ {w}]
      /\ running' = [running EXCEPT ![r] = @ \cup {w}]
      /\ local' = [local EXCEPT ![r][w] = new]
  BY DEF StartBuild, Directory, readFrame, userVars, fileVars
<1>2. w \in data[r].workers => Shipped(r, data[r].recorded[w], w)
  BY <1>1 DEF IInv, RecordedShipped
<1>3. w \in data[r].workers
  BY <1>1 DEF IInv, BuiltFromRecorded
<1>4. context[w][id(r)] \in Contexts /\ dockerfile[w][id(r)] \in Sources
  BY <1>2, <1>3, IdIsAnId DEF IInv, TypeOK, Shipped, HasContext, Has
<1>5. new \in Builds /\ new # Nothing
  BY <1>4, NothingAssumption DEF Builds, Contexts
<1>6. Private(r, w) => /\ new.top = [by |-> r, version |-> data[r].recorded[w]]
                       /\ new.file = [by |-> r, version |-> data[r].recorded[w]]
  BY <1>2, <1>3 DEF Shipped, HasContext, Has
<1> HIDE DEF new
<1>7. /\ local' \in [Resources -> [Workers -> Builds \cup {Nothing}]]
      /\ \A s \in Resources, v \in Workers :
            local'[s][v] = IF s = r /\ v = w THEN new ELSE local[s][v]
  BY <1>1, <1>5 DEF IInv, TypeOK
<1>8. \A s \in Resources : pending'[s] = IF s = r THEN pending[s] \ {w} ELSE pending[s]
  BY <1>1 DEF IInv, TypeOK
<1>9. \A s \in Resources, v \in Workers : Private(s, v)' <=> Private(s, v)
  BY <1>1 DEF Private, id
<1>10. TypeOK' /\ InHosts'
  <2>1. TypeOK'
    BY <1>1, <1>7 DEF IInv, TypeOK
  <2>2. InHosts'
    BY <1>1 DEF IInv, InHosts
  <2>3. QED
    BY <2>1, <2>2
<1>11. StoredShipped' /\ RecordedShipped'
  BY <1>1, StoredStays, RecordedStays DEF IInv
<1>12. KindInStep' /\ DaemonsAllow'
  <2>1. KindInStep'
    BY <1>1 DEF IInv, KindInStep
  <2>2. DaemonsAllow'
    BY <1>1, <1>8 DEF IInv, DaemonsAllow
  <2>3. QED
    BY <2>1, <2>2
<1>13. ShippingInStep'
  <2>1. \A s \in Resources : step'[s] \in {"expand", "file"} => pending'[s] = pending[s]
    BY <1>1, <1>8
  <2>2. QED
    BY <1>1, <2>1, ShippingStays DEF IInv
<1>14. BuiltFromRecorded'
  <2>1. \A s \in Resources : step[s] = "build" => pending'[s] \subseteq data[s].workers
    BY <1>8 DEF IInv, BuiltFromRecorded
  <2>2. ASSUME NEW s \in Resources, step[s] = "build", NEW v \in data[s].workers \ pending'[s]
        PROVE  /\ local'[s][v] # Nothing
               /\ Private(s, v) =>
                    /\ local'[s][v].top = [by |-> s, version |-> data[s].recorded[v]]
                    /\ local'[s][v].file = [by |-> s, version |-> data[s].recorded[v]]
    <3>1. v \in Workers
      BY <2>2 DEF IInv, TypeOK, Data
    <3>2. CASE s = r /\ v = w
      BY <3>1, <3>2, <1>5, <1>6, <1>7
    <3>3. CASE s # r \/ v # w
      <4>1. v \in data[s].workers \ pending[s] /\ local'[s][v] = local[s][v]
        BY <2>2, <3>1, <3>3, <1>7, <1>8
      <4>2. QED
        BY <2>2, <4>1 DEF IInv, BuiltFromRecorded
    <3>4. QED
      BY <3>2, <3>3
  <2>3. \A s \in Resources : \A v \in data[s].workers : v \in Workers
    BY DEF IInv, TypeOK, Data
  <2>4. QED
    BY <1>1, <1>9, <2>1, <2>2, <2>3 DEF BuiltFromRecorded
<1>15. PublishedIsOwn'
  BY <1>1, <1>9 DEF IInv, PublishedIsOwn
<1>16. QED
  BY <1>10, <1>11, <1>12, <1>13, <1>14, <1>15 DEF IInv

LEMMA EndBuildKeeps ==
    ASSUME IInv, NEW r \in Resources, NEW w \in Workers, EndBuild(r, w) PROVE IInv'
<1>1. /\ UNCHANGED <<setup, config, stored, ops, step, kind, data, last, dropped, allowed, daemon, pending,
                     zip, context, dockerfile, local, list>>
      /\ running' = [running EXCEPT ![r] = @ \ {w}]
      /\ failed' \in {failed, [failed EXCEPT ![r] = TRUE]}
  BY DEF EndBuild, readFrame, userVars, fileVars
<1>2. \A s \in Resources, v \in Workers : Private(s, v)' <=> Private(s, v)
  BY <1>1 DEF Private, id
<1>3. TypeOK' /\ InHosts'
  <2>1. running' \in [Resources -> SUBSET Workers] /\ failed' \in [Resources -> BOOLEAN]
    BY <1>1 DEF IInv, TypeOK
  <2>2. QED
    BY <1>1, <2>1 DEF IInv, TypeOK, InHosts
<1>4. StoredShipped' /\ RecordedShipped' /\ ShippingInStep'
  BY <1>1, StoredStays, RecordedStays, ShippingStays DEF IInv
<1>5. KindInStep' /\ DaemonsAllow'
  BY <1>1 DEF IInv, KindInStep, DaemonsAllow
<1>6. BuiltFromRecorded' /\ PublishedIsOwn'
  BY <1>1, <1>2 DEF IInv, BuiltFromRecorded, PublishedIsOwn, TypeOK, Data
<1>7. QED
  BY <1>3, <1>4, <1>5, <1>6 DEF IInv

-----------------------------------------------------------------------------
(* The initial states: nothing is stored, and no operation goes on.        *)
LEMMA InvInit == Init => IInv
<1> SUFFICES ASSUME Init PROVE IInv
  OBVIOUS
<1>1. \A r \in Resources : setup.hosts[r] \subseteq Workers
  BY SetupsAssumption DEF Init
<1>2. /\ 1 \in Versions /\ NoRecords \in Recorded /\ ops \in 0 .. MaxOps
  BY BoundsAssumption DEF Init, Versions, NoRecords, Recorded
<1>3. /\ config \in [Resources -> Configs]
      /\ \A r \in Resources : config[r].workers = setup.hosts[r]
  BY <1>1, <1>2 DEF Init, Configs
<1>4. data \in [Resources -> Data] /\ \A r \in Resources : data[r].workers = {}
  BY <1>2 DEF Init, Data
<1>5. TypeOK
  BY <1>2, <1>3, <1>4 DEF Init, Configured, TypeOK
<1>6. \A r \in Resources : stored[r] = Nothing /\ step[r] = "idle"
  BY DEF Init
<1>7. InHosts /\ StoredShipped /\ RecordedShipped /\ KindInStep /\ ShippingInStep
  BY <1>3, <1>4, <1>6
     DEF InHosts, StoredShipped, RecordedShipped, KindInStep, ShippingInStep
<1>8. BuiltFromRecorded /\ DaemonsAllow /\ PublishedIsOwn
  BY <1>6 DEF Init, BuiltFromRecorded, DaemonsAllow, Configured, PublishedIsOwn
<1>9. QED
  BY <1>5, <1>7, <1>8 DEF IInv

(* Every step keeps the invariant.                                         *)
LEMMA InvNext == IInv /\ [Next]_vars => IInv'
<1> SUFFICES ASSUME IInv, [Next]_vars PROVE IInv'
  OBVIOUS
<1>1. ASSUME NEW r \in Resources, Edit(r) \/ Terraform(r) PROVE IInv'
  BY <1>1, EditKeeps, CreateKeeps, UpdateKeeps, RefreshKeeps, DeleteKeeps DEF Terraform
<1>2. ASSUME NEW r \in Resources, Work(r) PROVE IInv'
  <2>1. CASE \E w \in Workers : Provision(r, w) \/ ShipArchive(r, w) \/ Expand(r, w) \/ ShipDockerfile(r, w)
    BY <2>1, ProvisionKeeps, ShipArchiveKeeps, ExpandKeeps, ShipDockerfileKeeps
  <2>2. CASE LogIn(r) \/ SetId(r)
    BY <2>2, LogInKeeps, SetIdKeeps
  <2>3. CASE \E w \in Workers : StartBuild(r, w) \/ EndBuild(r, w)
    BY <2>3, StartBuildKeeps, EndBuildKeeps
  <2>4. CASE Publish(r) \/ BuildFails(r) \/ Fails(r)
    BY <2>4, PublishKeeps, FailsKeeps
  <2>5. QED
    BY <1>2, <2>1, <2>2, <2>3, <2>4 DEF Work
<1>3. CASE configure
  BY <1>3, ConfigureKeeps
<1>4. CASE Killed
  BY <1>4, KilledKeeps
<1>5. CASE UNCHANGED vars
  <2>1. UNCHANGED <<setup, config, stored, ops, step, kind, data, pending, running, failed, last, dropped,
                    allowed, daemon, zip, context, dockerfile, local, list>>
    BY <1>5 DEF vars
  <2>2. \A s \in Resources, v \in Workers : Private(s, v)' <=> Private(s, v)
    BY <2>1 DEF Private, id
  <2>3. TypeOK' /\ InHosts'
    BY <2>1 DEF IInv, TypeOK, InHosts
  <2>4. StoredShipped' /\ RecordedShipped' /\ ShippingInStep'
    BY <2>1, StoredStays, RecordedStays, ShippingStays DEF IInv
  <2>5. KindInStep' /\ DaemonsAllow'
    BY <2>1 DEF IInv, KindInStep, DaemonsAllow
  <2>6. BuiltFromRecorded' /\ PublishedIsOwn'
    BY <2>1, <2>2 DEF IInv, BuiltFromRecorded, PublishedIsOwn, TypeOK, Data
  <2>7. QED
    BY <2>3, <2>4, <2>5, <2>6 DEF IInv
<1>6. QED
  BY <1>1, <1>2, <1>3, <1>4, <1>5 DEF Next

-----------------------------------------------------------------------------
(* The invariant of Lifecycle (IInv) always holds.                         *)
THEOREM LifecycleInvariance == Spec => []IInv
<1>1. QED
  BY InvInit, InvNext, PTL DEF Spec

(* Whatever fails, is edited, deleted or killed, the build contexts and    *)
(* Dockerfiles of what terraform stores are on its workers.                *)
THEOREM StoredAlwaysShipped == Spec => []StoredIsShipped
<1>1. IInv => StoredIsShipped
  BY DEF IInv, StoredShipped, Shipped, HasContext, Has, StoredIsShipped
<1>2. QED
  BY <1>1, LifecycleInvariance, PTL

(* A resource publishes its own sources and Dockerfile, unless another has *)
(* its id on the same worker.                                              *)
THEOREM AlwaysPublishesOwn == Spec => []PublishedIsOwn
<1>1. IInv => PublishedIsOwn
  BY DEF IInv
<1>2. QED
  BY <1>1, LifecycleInvariance, PTL

(* Only Publish writes the list of a resource, and it writes what was      *)
(* built.                                                                  *)
LEMMA OnlyPublishWrites ==
    ASSUME IInv, Next, NEW r \in Resources, NEW w \in Workers, list'[r] # list[r], list'[r][w] # Nothing
    PROVE  /\ step[r] = "build" /\ pending[r] = {} /\ w \in data[r].workers
           /\ list'[r][w] = [top |-> local[r][w].top, mixed |-> local[r][w].mixed,
                             file |-> local[r][w].file, foreign |-> daemon[w] = r]
<1>1. PICK s \in Resources : Publish(s)
  <2>1. ASSUME NEW s \in Resources, Edit(s) \/ Terraform(s) PROVE UNCHANGED list
    BY <2>1 DEF Edit, Terraform, Create, Update, Begins, Refresh, Delete
  <2>2. ASSUME NEW s \in Resources, Work(s), ~Publish(s) PROVE UNCHANGED list
    <3>1. CASE \E v \in Workers : \/ Provision(s, v) \/ ShipArchive(s, v) \/ Expand(s, v)
                                \/ ShipDockerfile(s, v) \/ StartBuild(s, v) \/ EndBuild(s, v)
      BY <3>1 DEF Provision, ShipArchive, Expand, ShipDockerfile, StartBuild, EndBuild,
                  createFrame, shipFrame, readFrame
    <3>2. CASE LogIn(s) \/ SetId(s) \/ BuildFails(s) \/ Fails(s)
      BY <3>2 DEF LogIn, SetId, BuildFails, Fails, createFrame, shipFrame
    <3>3. QED
      BY <2>2, <3>1, <3>2 DEF Work
  <2>3. (configure \/ Killed) => UNCHANGED list
    BY DEF configure, Killed
  <2>4. QED
    BY <2>1, <2>2, <2>3 DEF Next
<1>2. s = r
  BY <1>1 DEF IInv, TypeOK, Publish
<1>3. list'[r] = [v \in Workers |-> IF v \notin data[r].workers THEN Nothing
                                    ELSE [top |-> local[r][v].top, mixed |-> local[r][v].mixed,
                                          file |-> local[r][v].file, foreign |-> daemon[v] = r]]
  BY <1>1, <1>2 DEF IInv, TypeOK, Publish
<1>4. QED
  BY <1>1, <1>2, <1>3 DEF Publish, BuiltAll

(* What is published is of the version recorded; what a create publishes,  *)
(* of the version it was asked for.                                        *)
THEOREM RecordedIsPublished == Spec => PublishesRecorded
<1>1. ASSUME IInv, Next, NEW r \in Resources, NEW w \in Workers,
             list'[r] # list[r], list'[r][w] # Nothing, Private(r, w)
      PROVE  /\ list'[r][w].top.version = data[r].recorded[w]
             /\ list'[r][w].file.version = data[r].recorded[w]
             /\ kind[r] = "create" => data[r].recorded[w] = data[r].version
  <2>1. /\ step[r] = "build" /\ pending[r] = {} /\ w \in data[r].workers
        /\ list'[r][w].top = local[r][w].top /\ list'[r][w].file = local[r][w].file
    <3>1. /\ step[r] = "build" /\ pending[r] = {} /\ w \in data[r].workers
          /\ list'[r][w] = [top |-> local[r][w].top, mixed |-> local[r][w].mixed,
                            file |-> local[r][w].file, foreign |-> daemon[w] = r]
      BY <1>1, OnlyPublishWrites
    <3>2. QED
      BY <3>1
  <2>2. /\ local[r][w].top = [by |-> r, version |-> data[r].recorded[w]]
        /\ local[r][w].file = [by |-> r, version |-> data[r].recorded[w]]
    BY <1>1, <2>1 DEF IInv, BuiltFromRecorded
  <2>3. data[r].recorded[w] # 0 /\ (kind[r] = "create" => data[r].recorded[w] = data[r].version)
    BY <2>1, <1>1 DEF IInv, RecordedShipped, KindInStep
  <2>4. QED
    BY <2>1, <2>2, <2>3
<1>2. IInv /\ [Next]_vars =>
        [\A r \in Resources, w \in Workers :
           list'[r] # list[r] /\ list'[r][w] # Nothing /\ Private(r, w) =>
             /\ list'[r][w].top.version = data[r].recorded[w]
             /\ list'[r][w].file.version = data[r].recorded[w]
             /\ kind[r] = "create" => data[r].recorded[w] = data[r].version]_vars
  BY <1>1
<1>3. QED
  BY <1>2, LifecycleInvariance, PTL DEF Spec, PublishesRecorded

(* Where foreign layers are to be pushed, a create or an update of a       *)
(* resource with registry blocks pushes them, unless another resource      *)
(* began meanwhile, or one without registry blocks at any time since the   *)
(* provider was configured.                                                *)
THEOREM ForeignLayersArePushed == Spec => ForeignLayersPushed
<1>1. ASSUME IInv, Next, NEW r \in Resources, NEW w \in Workers,
             list'[r] # list[r], list'[r][w] # Nothing,
             setup.foreign, last[r], ~dropped, kind[r] # "refresh"
      PROVE  list'[r][w].foreign
  <2>1. /\ step[r] = "build" /\ w \in data[r].workers
        /\ list'[r][w].foreign = (daemon[w] = r)
    <3>1. /\ step[r] = "build" /\ pending[r] = {} /\ w \in data[r].workers
          /\ list'[r][w] = [top |-> local[r][w].top, mixed |-> local[r][w].mixed,
                            file |-> local[r][w].file, foreign |-> daemon[w] = r]
      BY <1>1, OnlyPublishWrites
    <3>2. QED
      BY <3>1
  <2>2. daemon[w] = r
    BY <1>1, <2>1 DEF IInv, DaemonsAllow
  <2>3. QED
    BY <2>1, <2>2
<1>2. IInv /\ [Next]_vars =>
        [\A r \in Resources, w \in Workers :
           /\ list'[r] # list[r] /\ list'[r][w] # Nothing
           /\ setup.foreign /\ r \in setup.registries /\ kind[r] # "refresh"
           /\ last[r] /\ ~dropped
           => list'[r][w].foreign]_vars
  BY <1>1
<1>3. QED
  BY <1>2, LifecycleInvariance, PTL DEF Spec, ForeignLayersPushed
=============================================================================
