-------------------------- MODULE ImageCreateProofs --------------------------
(***************************************************************************)
(* Proofs about ImageCreate, for any number of workers, any finite set of  *)
(* registries and any builds of Windows.                                   *)
(***************************************************************************)
EXTENDS ImageCreate, TLAPS

(* Before anything is dialed the invariant holds.                          *)
LEMMA InvInit == Init => IInv
<1> SUFFICES ASSUME Init PROVE IInv
  OBVIOUS
<1>1. TypeOK
  <2>1. PICK known \in SUBSET Workers :
          /\ info = [w \in Workers |-> IF w \in known THEN "full" ELSE "none"]
          /\ context = [w \in Workers |-> IF w \in known THEN "earlier" ELSE "none"]
    BY DEF Init
  <2>2. /\ info \in [Workers -> {"none", "partial", "full"}]
        /\ context \in [Workers -> {"none", "partial", "earlier", "current"}]
    BY <2>1
  <2>3. shipping \in 1 .. (NumWorkers + 1)
    BY NumWorkersAssumption DEF Init
  <2>4. QED
    BY <2>2, <2>3 DEF Init, TypeOK
<1>2. PhasesInOrder
  BY DEF Init, PhasesInOrder, Workers
<1>3. LoginsInPhase /\ NilFromASession
  BY DEF Init, LoginsInPhase, NilFromASession
<1>4. IdBehindShipping /\ LostToASuccess /\ LeaksFromDialLoop
  BY DEF Init, IdBehindShipping, LostToASuccess, LeaksFromDialLoop
<1>5. QED
  BY <1>1, <1>2, <1>3, <1>4 DEF IInv

-----------------------------------------------------------------------------
(* The login goroutines.                                                   *)

(* A login goroutine runs in the login phase only, and moves nothing but   *)
(* its own state, err and the logins.                                      *)
LEMMA LoginFrame ==
    ASSUME IInv, NEW w \in Workers, LoginStep(w)
    PROVE  /\ phase = "login" /\ id = "none" /\ UNCHANGED <<handlerVars, shipVars>>
           /\ TypeOK' /\ PhasesInOrder' /\ IdBehindShipping' /\ LostToASuccess'
           /\ LeaksFromDialLoop'
<1>1. login[w] \in {"session", "returned", "wrap"}
  BY DEF LoginStep, LogIn, SessionReturns, LoginChecks, LoginWraps
<1>2. phase = "login"
  BY <1>1 DEF IInv, LoginsInPhase
<1>3. id = "none"
  BY <1>2 DEF IInv, TypeOK, PhasesInOrder
<1>4. UNCHANGED <<handlerVars, shipVars>>
  BY DEF LoginStep, LogIn, SessionReturns, LoginChecks, LoginWraps
<1>5. TypeOK'
  <2>1. CASE \E r \in Remaining(w) : LogIn(w, r)
    <3>1. PICK r \in Registries : LogIn(w, r)
      BY <2>1 DEF Remaining
    <3>2. QED
      BY <3>1, <1>4 DEF IInv, TypeOK, LogIn, handlerVars, shipVars
  <2>2. CASE \E r \in {"nil", "error"} : SessionReturns(w, r)
    BY <2>2, <1>4 DEF IInv, TypeOK, SessionReturns, handlerVars, shipVars
  <2>3. CASE LoginChecks(w)
    BY <2>3, <1>4 DEF IInv, TypeOK, LoginChecks, handlerVars, shipVars
  <2>4. CASE LoginWraps(w)
    BY <2>4, <1>4 DEF IInv, TypeOK, LoginWraps, handlerVars, shipVars
  <2>5. QED
    BY <2>1, <2>2, <2>3, <2>4 DEF LoginStep
<1>6. PhasesInOrder'
  BY <1>2, <1>4 DEF IInv, PhasesInOrder, handlerVars, shipVars
<1>7. IdBehindShipping' /\ LostToASuccess' /\ LeaksFromDialLoop'
  BY <1>2, <1>3, <1>4 DEF IdBehindShipping, LostToASuccess, LeaksFromDialLoop, handlerVars
<1>8. QED
  BY <1>2, <1>3, <1>4, <1>5, <1>6, <1>7

(* A nil in err stems from a session that returned nil: a goroutine that   *)
(* ends well behind a failed session ends behind a successful one.         *)
LEMMA LoginPreserves ==
    ASSUME IInv, NEW w \in Workers, LoginStep(w)
    PROVE  IInv'
<1> USE DEF IInv, TypeOK, LoginsInPhase, NilFromASession
<1>0. phase = "login" /\ phase' = "login"
  BY LoginFrame DEF handlerVars
<1>1. LoginsInPhase' /\ NilFromASession'
  <2>1. CASE \E r \in Remaining(w) : LogIn(w, r)
    BY <1>0, <2>1 DEF LogIn
  <2>2. CASE SessionReturns(w, "nil")
    <3>1. own'[w] = "nil" /\ login'[w] = "returned"
      BY <2>2 DEF SessionReturns
    <3>2. \A v \in Workers \ {w} : login'[v] = login[v] /\ own'[v] = own[v]
      BY <2>2 DEF SessionReturns
    <3>3. QED
      BY <1>0, <3>1, <3>2
  <2>3. CASE SessionReturns(w, "error")
    <3>1. own[w] = "none" /\ err' = "error" /\ login'[w] = "returned"
      BY <2>3 DEF SessionReturns
    <3>2. \A v \in Workers \ {w} : login'[v] = login[v] /\ own'[v] = own[v]
      BY <2>3 DEF SessionReturns
    <3>3. \A v \in Workers : own[v] = "nil" => own'[v] = "nil"
      BY <3>1, <3>2
    <3>4. QED
      BY <1>0, <3>1, <3>2, <3>3
  <2>4. CASE LoginChecks(w)
    <3>1. UNCHANGED <<own, err>> /\ (login'[w] = "ok" => err = "nil")
          /\ login[w] = "returned" /\ login'[w] \in {"ok", "wrap"}
      BY <2>4 DEF LoginChecks
    <3>2. \A v \in Workers \ {w} : login'[v] = login[v]
      BY <2>4 DEF LoginChecks
    <3>3. QED
      BY <1>0, <3>1, <3>2
  <2>5. CASE LoginWraps(w)
    <3>1. UNCHANGED <<own, err>> /\ (login'[w] = "ok" => err = "nil")
          /\ login[w] = "wrap" /\ login'[w] \in {"ok", "failed"}
      BY <2>5 DEF LoginWraps
    <3>2. \A v \in Workers \ {w} : login'[v] = login[v]
      BY <2>5 DEF LoginWraps
    <3>3. QED
      BY <1>0, <3>1, <3>2
  <2>6. QED
    BY <2>1, <2>2, <2>3, <2>4, <2>5 DEF LoginStep
<1>2. QED
  BY <1>1, LoginFrame

-----------------------------------------------------------------------------
(* The handler.                                                            *)

(* The dial loop: it leaves open dialers behind only when it fails.        *)
LEMMA DialPreserves ==
    ASSUME IInv, NEW w \in Workers, Dial(w)
    PROVE  IInv'
<1> USE NumWorkersAssumption DEF IInv, TypeOK, Workers
<1>1. phase = "dial" /\ id = "none" /\ shipping = 1 /\ loggedIn = {} /\ dialer[w] = "none"
  BY DEF Dial, PhasesInOrder
<1>2. UNCHANGED <<op, id, shipVars, loginVars>>
  BY DEF Dial
<1>3. CASE /\ dialer' = [dialer EXCEPT ![w] = "open"]
           /\ phase' = IF w = NumWorkers THEN "check" ELSE "dial"
           /\ UNCHANGED result
  <2>1. TypeOK'
    BY <1>2, <1>3 DEF shipVars, loginVars
  <2>2. w = NumWorkers => \A v \in Workers : dialer'[v] = "open"
    BY <1>3 DEF Dial
  <2>3. PhasesInOrder'
    BY <1>1, <1>2, <1>3, <2>2 DEF PhasesInOrder, shipVars, loginVars
  <2>4. LoginsInPhase' /\ NilFromASession'
    BY <1>1, <1>2, <1>3 DEF LoginsInPhase, NilFromASession, loginVars
  <2>5. IdBehindShipping' /\ LostToASuccess' /\ LeaksFromDialLoop'
    BY <1>1, <1>2, <1>3 DEF IdBehindShipping, LostToASuccess, LeaksFromDialLoop
  <2>6. QED
    BY <2>1, <2>3, <2>4, <2>5
<1>4. CASE phase' = "done" /\ result' = "error" /\ UNCHANGED dialer
  <2>1. TypeOK'
    BY <1>2, <1>4 DEF shipVars, loginVars
  <2>2. PhasesInOrder'
    BY <1>1, <1>2, <1>4 DEF PhasesInOrder, shipVars, loginVars
  <2>3. LoginsInPhase' /\ NilFromASession'
    BY <1>1, <1>2, <1>4 DEF LoginsInPhase, NilFromASession, loginVars
  <2>4. IdBehindShipping' /\ LostToASuccess' /\ LeaksFromDialLoop'
    BY <1>1, <1>2, <1>4 DEF IdBehindShipping, LostToASuccess, LeaksFromDialLoop, shipVars, loginVars
  <2>5. QED
    BY <2>1, <2>2, <2>3, <2>4
<1>5. QED
  BY <1>3, <1>4 DEF Dial

(* A return behind the dial loop closes every dialer.                      *)
LEMMA ReturnPreserves ==
    ASSUME IInv, NEW r \in {"nil", "error"}, Return(r), phase # "dial",
           \A w \in Workers : login[w] \in {"idle", "ok", "failed"},
           UNCHANGED <<shipVars, loginVars>>
    PROVE  IInv'
<1> USE DEF IInv, TypeOK, Return, shipVars, loginVars
<1>1. TypeOK'
  OBVIOUS
<1>2. PhasesInOrder'
  BY DEF PhasesInOrder
<1>3. LoginsInPhase' /\ NilFromASession'
  BY DEF LoginsInPhase, NilFromASession
<1>4. IdBehindShipping' /\ LostToASuccess'
  BY DEF IdBehindShipping, LostToASuccess
<1>5. LeaksFromDialLoop'
  BY DEF LeaksFromDialLoop
<1>6. QED
  BY <1>1, <1>2, <1>3, <1>4, <1>5

(* In the shipping loop nothing but the turn and the attributes move, and  *)
(* whether its session hangs.                                              *)
LEMMA ShippingKeeps ==
    ASSUME IInv, phase \in {"ship", "hung"}, TypeOK', Goto(phase'), phase' \in {"ship", "hung"},
           UNCHANGED loginVars,
           \A w \in Workers : w < shipping' => info'[w] # "none" /\ context'[w] # "none"
    PROVE  IInv'
<1> USE DEF IInv, Goto, loginVars
<1>1. id = "none"
  BY DEF TypeOK, PhasesInOrder
<1>2. PhasesInOrder'
  BY <1>1 DEF PhasesInOrder
<1>3. LoginsInPhase' /\ NilFromASession'
  BY DEF LoginsInPhase, NilFromASession
<1>4. IdBehindShipping' /\ LostToASuccess' /\ LeaksFromDialLoop'
  BY <1>1 DEF IdBehindShipping, LostToASuccess, LeaksFromDialLoop
<1>5. QED
  BY <1>2, <1>3, <1>4

(* A turn of the shipping loop completes the attributes of its worker.     *)
LEMMA ShipPreserves ==
    ASSUME IInv, NEW w \in Workers, ShipStep(w)
    PROVE  IInv'
<1>0. /\ TypeOK /\ phase \in {"ship", "hung"} /\ shipping = w /\ w \in 1 .. NumWorkers
      /\ \A v \in Workers : login[v] = "idle"
      /\ \A v \in Workers : v < shipping => info[v] # "none" /\ context[v] # "none"
  BY DEF IInv, PhasesInOrder, ShipStep, Retrieve, ShipContext, Hang, NextWorker, Workers
<1>1. CASE Retrieve(w)
  <2>1. CASE Goto("ship")
    <3>1. UNCHANGED <<shipping, context, loginVars>>
      BY <1>1 DEF Retrieve
    <3>2. \E s \in {"full", "partial"} : info' = [info EXCEPT ![w] = s]
      <4>1. ~Return("error")
        BY <2>1 DEF Return, Goto
      <4>2. QED
        BY <1>1, <4>1 DEF Retrieve
    <3>3. osBuild' \in [Workers -> Nat]
      <4>1. ToInt(CurrentBuildNumber(w)) \in Nat
        BY BuildNumberAssumption DEF ToInt, CurrentBuildNumber, Workers
      <4>2. osBuild' = [osBuild EXCEPT ![w] = ToInt(CurrentBuildNumber(w))] \/ osBuild' = osBuild
        BY <1>1 DEF Retrieve
      <4>3. QED
        BY <1>0, <4>1, <4>2 DEF TypeOK
    <3>4. TypeOK'
      <4>1. info' \in [Workers -> {"none", "partial", "full"}]
        BY <1>0, <3>2 DEF TypeOK
      <4>2. QED
        BY <1>0, <2>1, <3>1, <3>3, <4>1 DEF TypeOK, Goto, loginVars
    <3>5. phase' = "ship"
      BY <2>1 DEF Goto
    <3>6. QED
      BY <1>0, <2>1, <3>1, <3>2, <3>4, <3>5, ShippingKeeps DEF TypeOK
  <2>2. CASE Return("error") /\ UNCHANGED <<info, osBuild>>
    BY <1>0, <1>1, <2>2, ReturnPreserves DEF Retrieve, shipVars
  <2>3. QED
    BY <1>1, <2>1, <2>2 DEF Retrieve
<1>2. CASE ShipContext(w)
  <2>1. CASE /\ \E c \in {"current", "partial"} : context' = [context EXCEPT ![w] = c]
             /\ Goto("ship")
    <3>1. UNCHANGED <<shipping, info, osBuild, loginVars>>
      BY <1>2 DEF ShipContext
    <3>2. TypeOK' /\ phase' = "ship"
      BY <1>0, <2>1, <3>1 DEF TypeOK, Goto, loginVars
    <3>3. QED
      BY <1>0, <2>1, <3>1, <3>2, ShippingKeeps DEF TypeOK
  <2>2. CASE Return("error") /\ UNCHANGED context
    BY <1>0, <1>2, <2>2, ReturnPreserves DEF ShipContext, shipVars
  <2>3. QED
    BY <1>2, <2>1, <2>2 DEF ShipContext
<1>3. CASE NextWorker(w)
  <2>1. shipping' = w + 1 /\ info[w] # "none" /\ context[w] # "none"
        /\ UNCHANGED <<handlerVars, info, osBuild, context, loginVars>>
    BY <1>3 DEF NextWorker
  <2>2. shipping' \in 1 .. (NumWorkers + 1)
    BY <1>0, <2>1, NumWorkersAssumption
  <2>3. TypeOK'
    BY <1>0, <2>1, <2>2 DEF TypeOK, handlerVars, loginVars
  <2>4. \A v \in Workers : v < shipping' => v < shipping \/ v = w
    BY <1>0, <2>1, NumWorkersAssumption DEF Workers
  <2>5. phase' = "ship" /\ Goto(phase')
    BY <1>3, <2>1 DEF NextWorker, Goto, handlerVars
  <2>6. QED
    BY <1>0, <2>1, <2>3, <2>4, <2>5, ShippingKeeps
<1>4. CASE Hang(w)
  <2>1. Goto("hung") /\ phase' = "hung" /\ UNCHANGED <<shipVars, loginVars>>
    BY <1>4 DEF Hang, Goto
  <2>2. TypeOK'
    BY <1>0, <2>1 DEF TypeOK, Goto, shipVars, loginVars
  <2>3. QED
    BY <1>0, <2>1, <2>2, ShippingKeeps DEF shipVars
<1>5. QED
  BY <1>1, <1>2, <1>3, <1>4 DEF ShipStep

(* From the path checks on: what each phase leaves to the next.            *)
LEMMA HandlerPreserves ==
    ASSUME IInv, Handler
    PROVE  IInv'
<1> USE NumWorkersAssumption
<1>1. CASE CheckPaths
  <2>1. /\ TypeOK /\ phase = "check" /\ id = "none" /\ UNCHANGED <<shipVars, loginVars>>
        /\ \A w \in Workers : login[w] = "idle" /\ dialer[w] = "open"
    BY <1>1 DEF CheckPaths, IInv, TypeOK, PhasesInOrder
  <2>2. CASE Goto("ship")
    <3>1. TypeOK' /\ PhasesInOrder' /\ LoginsInPhase' /\ NilFromASession'
      BY <2>1, <2>2 DEF Goto, IInv, TypeOK, PhasesInOrder, LoginsInPhase, NilFromASession,
                        shipVars, loginVars
    <3>2. IdBehindShipping' /\ LostToASuccess' /\ LeaksFromDialLoop'
      BY <2>1, <2>2 DEF Goto, IdBehindShipping, LostToASuccess, LeaksFromDialLoop
    <3>3. QED
      BY <3>1, <3>2 DEF IInv
  <2>3. CASE Return("error")
    BY <2>1, <2>3, ReturnPreserves
  <2>4. QED
    BY <1>1, <2>2, <2>3 DEF CheckPaths
<1>2. CASE StartLogin
  <2>1. /\ TypeOK /\ phase = "ship" /\ shipping = NumWorkers + 1 /\ id = "none" /\ Goto("login")
        /\ UNCHANGED <<shipVars, own, err, loggedIn>>
        /\ \A w \in Workers : own[w] = "none"
    BY <1>2 DEF StartLogin, IInv, TypeOK, PhasesInOrder, LoginsInPhase
  <2>2. \A w \in Workers : login'[w] \in {"ok", "session"}
    BY <1>2 DEF StartLogin
  <2>3. TypeOK'
    <3>1. login' \in [Workers -> {"idle", "session", "returned", "wrap", "ok", "failed"}]
      BY <1>2 DEF StartLogin
    <3>2. QED
      BY <2>1, <3>1 DEF TypeOK, Goto, shipVars
  <2>4. PhasesInOrder' /\ LoginsInPhase' /\ NilFromASession'
    BY <2>1, <2>2 DEF Goto, IInv, PhasesInOrder, LoginsInPhase, NilFromASession, shipVars
  <2>5. IdBehindShipping' /\ LostToASuccess' /\ LeaksFromDialLoop'
    BY <2>1 DEF Goto, IdBehindShipping, LostToASuccess, LeaksFromDialLoop
  <2>6. QED
    BY <2>3, <2>4, <2>5 DEF IInv
<1>3. CASE EndLogin
  <2>1. /\ TypeOK /\ phase = "login" /\ shipping = NumWorkers + 1
        /\ UNCHANGED <<shipVars, loginVars>>
        /\ \A w \in Workers : login[w] \in {"ok", "failed"}
        /\ \A w \in Workers : dialer[w] = "open" /\ info[w] # "none" /\ context[w] # "none"
    BY <1>3 DEF EndLogin, IInv, TypeOK, PhasesInOrder, Workers
  <2>2. CASE Return("error")
    BY <2>1, <2>2, ReturnPreserves
  <2>3. CASE /\ \A w \in Workers : login[w] = "ok"
             /\ phase' = "read" /\ id' = "set" /\ UNCHANGED <<op, result, dialer>>
    <3>1. TypeOK' /\ PhasesInOrder' /\ LoginsInPhase' /\ NilFromASession'
      BY <2>1, <2>3 DEF IInv, TypeOK, PhasesInOrder, LoginsInPhase, NilFromASession,
                        shipVars, loginVars
    <3>2. IdBehindShipping' /\ LeaksFromDialLoop'
      BY <2>1, <2>3 DEF IdBehindShipping, LeaksFromDialLoop, shipVars
    <3>3. LostToASuccess'
      BY <2>1, <2>3 DEF IInv, NilFromASession, LostToASuccess, loginVars
    <3>4. QED
      BY <3>1, <3>2, <3>3 DEF IInv
  <2>4. QED
    BY <1>3, <2>2, <2>3 DEF EndLogin
<1>4. CASE ReadReturns
  BY <1>4, ReturnPreserves DEF ReadReturns, IInv, LoginsInPhase
<1>5. QED
  BY <1>1, <1>2, <1>3, <1>4, DialPreserves, ShipPreserves DEF Handler

-----------------------------------------------------------------------------
(* The inductive invariant: what each phase finds done, login goroutines   *)
(* in their phase only, and no nil in err without a session that returned  *)
(* nil.                                                                    *)
THEOREM Invariance == Spec => []IInv
<1>1. IInv /\ [Next]_vars => IInv'
  <2> SUFFICES ASSUME IInv, [Next]_vars PROVE IInv'
    OBVIOUS
  <2>1. CASE Handler
    BY <2>1, HandlerPreserves
  <2>2. ASSUME NEW w \in Workers, LoginStep(w) PROVE IInv'
    BY <2>2, LoginPreserves
  <2>3. CASE UNCHANGED vars
    BY <2>3 DEF vars, IInv, TypeOK, PhasesInOrder, LoginsInPhase, NilFromASession,
                IdBehindShipping, LostToASuccess, LeaksFromDialLoop
  <2>4. QED
    BY <2>1, <2>2, <2>3 DEF Next, Terminated
<1>2. QED
  BY InvInit, <1>1, PTL DEF Spec

(* Read begins only on connected workers, for each of which a build        *)
(* information and a build context are recorded, complete or not.          *)
THEOREM IdBehind == Spec => []IdBehindShipping
<1>1. IInv => IdBehindShipping
  BY DEF IInv
<1>2. QED
  BY <1>1, Invariance, PTL

(* A login failure is lost only to the success of another worker, however  *)
(* many goroutines share err.                                              *)
THEOREM LoginLoss == Spec => []LostToASuccess
<1>1. IInv => LostToASuccess
  BY DEF IInv
<1>2. QED
  BY <1>1, Invariance, PTL

(* Only a failure of the dial loop leaves a worker connected.              *)
THEOREM DialLoopLeaks == Spec => []LeaksFromDialLoop
<1>1. IInv => LeaksFromDialLoop
  BY DEF IInv
<1>2. QED
  BY <1>1, Invariance, PTL

(* A build context is shipped to a worker at most once, in the order of    *)
(* the workers.                                                            *)
THEOREM ShippingOnce == Spec => ShippedOnce
<1> DEFINE Shipped == \A w \in Workers :
                         context'[w] # context[w] =>
                             /\ context[w] = "none"
                             /\ \A v \in Workers : v < w => context[v] # "none"
                             /\ \A v \in Workers : v > w => context'[v] = context[v]
<1>1. IInv /\ [Next]_vars => [Shipped]_vars
  <2> SUFFICES ASSUME IInv, [Next]_vars PROVE Shipped
    OBVIOUS
  <2>1. ASSUME NEW x \in Workers, ShipContext(x) PROVE Shipped
    <3>1. /\ context[x] = "none" /\ shipping = x /\ x \in 1 .. NumWorkers
          /\ \A v \in Workers : v < x => context[v] # "none"
      BY <2>1 DEF ShipContext, IInv, PhasesInOrder, Workers
    <3>2. \A v \in Workers : v # x => context'[v] = context[v]
      BY <2>1 DEF ShipContext, IInv, TypeOK
    <3>3. QED
      BY <3>1, <3>2, NumWorkersAssumption DEF Workers
  <2>2. CASE UNCHANGED context
    BY <2>2
  <2>3. CASE Handler
    BY <2>1, <2>2, <2>3 DEF Handler, CheckPaths, StartLogin, EndLogin, ReadReturns, Dial, ShipStep,
                            Retrieve, Hang, NextWorker, shipVars
  <2>4. ASSUME NEW w \in Workers, LoginStep(w) PROVE Shipped
    BY <2>2, <2>4, LoginFrame DEF shipVars
  <2>5. CASE UNCHANGED vars
    BY <2>2, <2>5 DEF vars
  <2>6. QED
    BY <2>3, <2>4, <2>5 DEF Next, Terminated
<1>2. QED
  BY <1>1, Invariance, PTL DEF Spec, ShippedOnce
=============================================================================
