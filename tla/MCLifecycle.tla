---------------------------- MODULE MCLifecycle -----------------------------
(* Two resources on one worker, whose images may have the same id; or one  *)
(* resource with two workers.                                              *)
EXTENDS Lifecycle, TLC

CONSTANTS a, b, w1, w2

(* b/app and b/tool on one registry, and a/app: it has the id of b/app.    *)
BApp == <<Plain("reg"), Plain("b"), Plain("app")>>
BTool == <<Plain("reg"), Plain("b"), [word |-> "tool", colon |-> "v1"]>>
AApp == <<Plain("a"), Plain("app")>>

Setup(i, j, ws, us, registries, foreign) ==
    [image |-> (a :> i) @@ (b :> j), hosts |-> (a :> ws) @@ (b :> us),
     registries |-> registries, foreign |-> foreign]

SomeSetups == {Setup(BApp, BTool, {w1}, {w1}, {a, b}, TRUE),
               Setup(BApp, BTool, {w1}, {w1}, {b}, TRUE),
               Setup(AApp, BApp, {w1}, {w1}, {a, b}, FALSE),
               Setup(AApp, BTool, {w1, w2}, {}, {a}, TRUE)}

(* Bound: the sources of b are edited in the first setup only.             *)
EditsBound == (id(a) # id(b) /\ setup.registries = {a, b}) \/ config[b].version = 1
=============================================================================
