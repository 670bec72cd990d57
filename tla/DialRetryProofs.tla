--------------------------- MODULE DialRetryProofs ---------------------------
(***************************************************************************)
(* Proofs about DialRetry, for any bound on the attempts.                  *)
(***************************************************************************)
EXTENDS DialRetry, TLAPS

(* Each action is expanded once, here: with the frames and the helpers it  *)
(* is made of, it preserves the invariant.                                 *)

LEMMA RefresherPreserves == IInv /\ Refresher => IInv'
<1> SUFFICES ASSUME IInv, Refresher PROVE IInv'
  OBVIOUS
<1> USE MaxAttemptsAssumption DEF IInv, TypeOK, OwnsConnection, SuccessIsLast, ProvisionedFirst,
      Attempts, refresherFrame, attemptVars
<1>1. CASE Send
  BY <1>1 DEF Send
<1>2. CASE StartAttempt
  BY <1>2 DEF StartAttempt
<1>3. CASE Cancelled
  BY <1>3 DEF Cancelled
<1>4. QED
  BY <1>1, <1>2, <1>3 DEF Refresher

(* An attempt, wherever it is, and however it goes.                        *)
LEMMA AttemptPreserves == IInv /\ Attempt => IInv'
<1> SUFFICES ASSUME IInv, Attempt PROVE IInv'
  OBVIOUS
<1> USE MaxAttemptsAssumption DEF IInv, TypeOK, OwnsConnection, SuccessIsLast, ProvisionedFirst,
      Attempts, refresherFrame, attemptFrame, Ends
<1>1. CASE DialFails
  BY <1>1 DEF DialFails
<1>2. CASE Dial
  <2>1. TypeOK'
    BY <1>2 DEF Dial
  <2>2. OwnsConnection'
    BY <1>2 DEF Dial
  <2>3. SuccessIsLast'
    BY <1>2 DEF Dial
  <2>4. ProvisionedFirst'
    BY <1>2 DEF Dial
  <2>5. QED
    BY <2>1, <2>2, <2>3, <2>4 DEF IInv
<1>3. CASE Configure
  <2>1. TypeOK'
    BY <1>3 DEF Configure, Provisioned, Fails
  <2>2. OwnsConnection'
    BY <1>3 DEF Configure, Provisioned, Fails
  <2>3. SuccessIsLast'
    BY <1>3 DEF Configure, Provisioned, Fails
  <2>4. ProvisionedFirst'
    <3>1. attempt' = attempt /\ attempt \in Nat /\ attempt # 0 /\ configuredBy = 0
      BY <1>3 DEF Configure
    <3>2. step' = "off" /\ last' = "pending"
      BY <1>3 DEF Configure, Provisioned, Fails
    <3>3. \/ configuredBy' = 0 /\ dockerBuild'
          \/ configuredBy' = attempt /\ ~dockerBuild' /\ (intact' => server' = "new")
      BY <1>3, <3>1 DEF Configure, Provisioned, Fails
    <3>4. QED
      BY <3>1, <3>2, <3>3
  <2>5. QED
    BY <2>1, <2>2, <2>3, <2>4 DEF IInv
<1>4. CASE Confirm
  <2>1. TypeOK'
    BY <1>4 DEF Confirm, Fails
  <2>2. OwnsConnection'
    BY <1>4 DEF Confirm, Fails
  <2>3. SuccessIsLast'
    BY <1>4 DEF Confirm, Fails
  <2>4. ProvisionedFirst'
    <3>1. attempt' = attempt /\ attempt \in Nat /\ w = attempt /\ configuredBy \in Nat
      BY <1>4 DEF Confirm
    <3>2. /\ configuredBy' = configuredBy /\ dockerBuild' = dockerBuild /\ w' = w
          /\ server' = server /\ step' = "off" /\ configureDocker' = configureDocker
      BY <1>4 DEF Confirm, Fails
    <3>3. configuredBy # 0 /\ configuredBy < w
      BY <1>4, <3>1 DEF Confirm
    <3>4. last' = "success" => confirmedBy' = w
      BY <1>4, <3>1 DEF Confirm, Fails
    <3>5. intact' => intact
      <4>1. intact' \in {intact, FALSE}
        BY <1>4 DEF Confirm
      <4>2. QED
        BY <4>1, Zenon
    <3>6. QED
      BY <3>1, <3>2, <3>3, <3>4, <3>5
  <2>5. QED
    BY <2>1, <2>2, <2>3, <2>4 DEF IInv
<1>5. QED
  BY <1>1, <1>2, <1>3, <1>4 DEF Attempt

(* The waiter: a success is received only behind the last attempt.         *)
LEMMA WaiterPreserves == IInv /\ Waiter => IInv'
<1> SUFFICES ASSUME IInv, Waiter PROVE IInv'
  OBVIOUS
<1> USE MaxAttemptsAssumption DEF IInv, TypeOK, OwnsConnection, SuccessIsLast, ProvisionedFirst,
      Attempts, waiterFrame, attemptVars, Return
<1>1. CASE Receive
  <2>1. resCh \in {<<"pending">>, <<"success">>} /\ resCh' = <<>>
    <3>1. resCh \in {<<>>, <<"pending">>, <<"success">>} /\ resCh # <<>>
      BY <1>1 DEF Receive
    <3>2. resCh' = Tail(resCh)
      BY <1>1 DEF Receive
    <3>3. QED
      BY <3>1, <3>2
  <2>2. Head(resCh) = "success" => resCh = <<"success">>
    BY <2>1
  <2>3. QED
    BY <1>1, <2>1, <2>2 DEF Receive
<1>2. CASE ContextDone
  BY <1>2 DEF ContextDone
<1>3. CASE Timeout
  BY <1>3 DEF Timeout
<1>4. CASE GraceEnds
  BY <1>4 DEF GraceEnds
<1>5. QED
  BY <1>1, <1>2, <1>3, <1>4 DEF Waiter

(* The inductive invariant: who owns the connection, that a success is the *)
(* last word of the refresher, that provisioning precedes confirmation.    *)
THEOREM Invariance == Spec => []IInv
<1>1. Init => IInv
  <2> SUFFICES ASSUME Init PROVE IInv
    OBVIOUS
  <2>1. TypeOK
    <3>1. 0 \in 0 .. MaxAttempts
      BY MaxAttemptsAssumption
    <3>2. dockerBuild \in BOOLEAN /\ cancelCh \in BOOLEAN /\ intact \in BOOLEAN
      BY DEF Init
    <3>3. QED
      BY <3>1, <3>2 DEF Init, TypeOK
  <2>2. OwnsConnection
    BY MaxAttemptsAssumption DEF Init, TypeOK, OwnsConnection, SuccessIsLast, ProvisionedFirst, Attempts
  <2>3. SuccessIsLast
    BY MaxAttemptsAssumption DEF Init, TypeOK, OwnsConnection, SuccessIsLast, ProvisionedFirst, Attempts
  <2>4. ProvisionedFirst
    BY MaxAttemptsAssumption DEF Init, TypeOK, OwnsConnection, SuccessIsLast, ProvisionedFirst, Attempts
  <2>5. QED
    BY <2>1, <2>2, <2>3, <2>4 DEF IInv
<1>2. IInv /\ [Next]_vars => IInv'
  <2> SUFFICES ASSUME IInv, [Next]_vars PROVE IInv'
    OBVIOUS
  <2>1. CASE Refresher
    BY <2>1, RefresherPreserves
  <2>2. CASE Attempt
    BY <2>2, AttemptPreserves
  <2>3. CASE Waiter
    BY <2>3, WaiterPreserves
  <2>4. CASE Cancel
    BY <2>4 DEF Cancel, attemptVars, IInv, TypeOK, OwnsConnection, SuccessIsLast,
       ProvisionedFirst, Attempts
  <2>5. CASE UNCHANGED vars
    BY <2>5 DEF vars, IInv, TypeOK, OwnsConnection, SuccessIsLast, ProvisionedFirst, Attempts
  <2>6. QED
    BY <2>1, <2>2, <2>3, <2>4, <2>5 DEF Next, Terminated
<1>3. QED
  BY <1>1, <1>2, PTL DEF Spec

(* A dialer is returned only ready to be used: connected and, for Create,  *)
(* with a docker server confirmed over this very connection.               *)
THEOREM DialerReady == Spec => []NilIsReady
<1>1. IInv => NilIsReady
  BY DEF IInv, TypeOK, OwnsConnection, SuccessIsLast, ProvisionedFirst, NilIsReady
<1>2. QED
  BY <1>1, Invariance, PTL

(* A worker is never dialed twice at a time.                               *)
THEOREM SingleConnection == Spec => []OneConnection
<1>1. IInv => OneConnection
  <2> SUFFICES ASSUME IInv PROVE OneConnection
    OBVIOUS
  <2>1. open = {} \/ open = {w}
    BY DEF IInv, TypeOK, OwnsConnection, SuccessIsLast
  <2>2. QED
    BY <2>1 DEF IInv, OwnsConnection, OneConnection
<1>2. QED
  BY <1>1, Invariance, PTL

(* What an error leaves open is the connection of an abandoned attempt.    *)
THEOREM OnlyAbandonedLeak == Spec => []LeakIsAbandoned
<1>1. IInv => LeakIsAbandoned
  BY DEF IInv, TypeOK, OwnsConnection, SuccessIsLast, Quiet, LeakIsAbandoned
<1>2. QED
  BY <1>1, Invariance, PTL

(* docker is provisioned successfully at most once, and asked for its      *)
(* state only then.                                                        *)
THEOREM ProvisioningOnce == Spec => ProvisionedOnce
<1> DEFINE Once == /\ configuredBy # 0 => configuredBy' = configuredBy /\ step' # "configure"
                   /\ step' = "confirm" => configuredBy # 0
<1>1. IInv /\ [Next]_vars => [Once]_vars
  <2> SUFFICES ASSUME IInv, Next PROVE Once
    BY DEF vars
  <2> USE DEF IInv, TypeOK, OwnsConnection, ProvisionedFirst
  <2>1. CASE Refresher
    BY <2>1 DEF Refresher, Send, StartAttempt, Cancelled, attemptVars
  <2>2. CASE DialFails
    BY <2>2 DEF DialFails, Ends
  <2>3. CASE Dial
    BY <2>3 DEF Dial, Ends
  <2>4. CASE Configure
    BY <2>4 DEF Configure, Provisioned, Fails, Ends
  <2>5. CASE Confirm
    BY <2>5 DEF Confirm, Fails, Ends
  <2>6. CASE Waiter
    BY <2>6 DEF Waiter, Receive, ContextDone, Timeout, GraceEnds, waiterFrame, attemptVars
  <2>7. CASE Cancel
    BY <2>7 DEF Cancel, attemptVars
  <2>8. CASE Terminated
    BY <2>8 DEF Terminated, vars
  <2>9. QED
    BY <2>1, <2>2, <2>3, <2>4, <2>5, <2>6, <2>7, <2>8 DEF Next, Attempt
<1>2. QED
  BY <1>1, Invariance, PTL DEF Spec, ProvisionedOnce
=============================================================================
