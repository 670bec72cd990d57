------------------------------ MODULE DialRetry ------------------------------
(***************************************************************************)
(* One call of dialWorkerBySSH: RetryContext repeats an attempt that dials *)
(* a worker and, for Create, provisions docker in one attempt and confirms *)
(* the docker server in a later one, over a connection of its own.         *)
(*                                                                         *)
(* Two goroutines: the refresher runs the attempts one after the other and *)
(* sends what each came to on a channel of capacity one, the waiter (the   *)
(* caller) receives, and gives up when the context is done or when the     *)
(* timeout and then a grace period have passed.  Giving up does not stop   *)
(* an attempt: it runs on behind the caller's back.                        *)
(***************************************************************************)
EXTENDS Naturals, Sequences

CONSTANT MaxAttempts   \* bound: how many attempts the refresher starts

ASSUME MaxAttemptsAssumption == MaxAttempts \in Nat

Attempts == 1 .. MaxAttempts

VARIABLES
    configureDocker,  \* the argument: TRUE in Create, FALSE in Read
    dockerBuild,      \* docker is still to be provisioned
    ctx,              \* the context of the operation: live, done
    waiter,           \* waiting, grace, returned
    cancelCh,         \* closed: the waiter gave up
    resCh,            \* results sent and not yet received
    refresher,        \* send, wait, attempt, over (which closes resCh)
    last,             \* what the last attempt came to: pending, success
    resultErr,        \* the error of the last attempt: nil, error
    attempt,          \* number of attempts started
    step,             \* where the attempt is: off, dial, configure, confirm
    w,                \* the connection of the last attempt that dialed, or 0
    open,             \* connections that are open, named after their attempts
    configuredBy,     \* the attempt whose provisioning was reported a success
    confirmedBy,      \* the attempt whose docker info was reported a success
    server,           \* docker on the worker: old, new (a history variable)
    intact,           \* no session was cut short (a history variable)
    result            \* what RetryContext returned: none, nil, error

retryVars == <<ctx, waiter, cancelCh, resCh, refresher, last, resultErr, result>>
attemptVars == <<dockerBuild, attempt, step, w, open, configuredBy, confirmedBy,
                 server, intact>>
vars == <<configureDocker, dockerBuild, ctx, waiter, cancelCh, resCh, refresher, last,
          resultErr, attempt, step, w, open, configuredBy, confirmedBy, server, intact,
          result>>

TypeOK ==
    /\ configureDocker \in BOOLEAN
    /\ dockerBuild \in BOOLEAN
    /\ ctx \in {"live", "done"}
    /\ waiter \in {"waiting", "grace", "returned"}
    /\ cancelCh \in BOOLEAN
    /\ resCh \in {<<>>, <<"pending">>, <<"success">>}
    /\ refresher \in {"send", "wait", "attempt", "over"}
    /\ last \in {"pending", "success"}
    /\ resultErr \in {"nil", "error"}
    /\ attempt \in 0 .. MaxAttempts
    /\ step \in {"off", "dial", "configure", "confirm"}
    /\ w \in 0 .. MaxAttempts
    /\ open \subseteq Attempts
    /\ configuredBy \in 0 .. MaxAttempts
    /\ confirmedBy \in 0 .. MaxAttempts
    /\ server \in {"old", "new"}
    /\ intact \in BOOLEAN
    /\ result \in {"none", "nil", "error"}

(* The refresher begins by sending an empty result.                        *)
Init ==
    /\ configureDocker \in BOOLEAN
    /\ dockerBuild = TRUE
    /\ ctx = "live"
    /\ waiter = "waiting"
    /\ cancelCh = FALSE
    /\ resCh = <<>>
    /\ refresher = "send"
    /\ last = "pending"
    /\ resultErr = "nil"
    /\ attempt = 0
    /\ step = "off"
    /\ w = 0
    /\ open = {}
    /\ configuredBy = 0
    /\ confirmedBy = 0
    /\ server = "old"
    /\ intact = TRUE
    /\ result = "none"

-----------------------------------------------------------------------------
(* The refresher.                                                          *)

refresherFrame == UNCHANGED <<configureDocker, ctx, waiter, cancelCh, result>>

(* Mutant: the send does not wait for room.                                *)
SendUnbounded ==
    /\ refresher = "send"
    /\ resCh' = Append(resCh, last)
    /\ refresher' = IF last = "success" THEN "over" ELSE "wait"
    /\ UNCHANGED <<last, resultErr, attemptVars>>
    /\ refresherFrame

(* The channel has room for one result; after a success it is closed.      *)
Send ==
    /\ refresher = "send"
    /\ resCh = <<>>
    /\ resCh' = <<last>>
    /\ refresher' = IF last = "success" THEN "over" ELSE "wait"
    /\ UNCHANGED <<last, resultErr, attemptVars>>
    /\ refresherFrame

(* The pause between two attempts ends, or the waiter gave up; when both   *)
(* are the case select takes either.                                       *)
StartAttempt ==
    /\ refresher = "wait"
    /\ attempt < MaxAttempts
    /\ attempt' = attempt + 1
    /\ refresher' = "attempt"
    /\ step' = "dial"
    /\ UNCHANGED <<resCh, last, resultErr, dockerBuild, w, open, configuredBy, confirmedBy,
                   server, intact>>
    /\ refresherFrame

Cancelled ==
    /\ refresher = "wait"
    /\ cancelCh
    /\ refresher' = "over"
    /\ UNCHANGED <<resCh, last, resultErr, attemptVars>>
    /\ refresherFrame

-----------------------------------------------------------------------------
(* An attempt.                                                             *)

Ends(r) ==
    /\ last' = r
    /\ resultErr' = IF r = "success" THEN "nil" ELSE "error"
    /\ refresher' = "send"
    /\ step' = "off"

(* Mutant: the connection of a failed attempt stays open.                  *)
FailsOpen ==
    /\ Ends("pending")
    /\ UNCHANGED open

(* A retryable error; the deferred Close closes the attempt's connection.  *)
Fails ==
    /\ Ends("pending")
    /\ open' = open \ {w}

attemptFrame == refresherFrame /\ UNCHANGED <<resCh, attempt>>

(* dial.SSH returns no dialer with an error, and there is nothing to close *)
(* then.  Read is satisfied with a connection.                             *)
DialFails ==
    /\ step = "dial"
    /\ w' = 0
    /\ Ends("pending")
    /\ UNCHANGED <<dockerBuild, open, configuredBy, confirmedBy, server, intact>>
    /\ attemptFrame

Dial ==
    /\ step = "dial"
    /\ w' = attempt
    /\ open' = open \cup {attempt}
    /\ \/ /\ ~configureDocker
          /\ Ends("success")
       \/ /\ configureDocker
          /\ step' = IF dockerBuild THEN "configure" ELSE "confirm"
          /\ UNCHANGED <<refresher, last, resultErr>>
    /\ UNCHANGED <<dockerBuild, configuredBy, confirmedBy, server, intact>>
    /\ attemptFrame

(* Mutants: docker is not marked as provisioned; a provisioned docker is   *)
(* taken for a running one.                                                *)
ProvisionedStill ==
    /\ configuredBy' = attempt
    /\ UNCHANGED dockerBuild
    /\ Fails

ProvisionedIsUp ==
    /\ configuredBy' = attempt
    /\ dockerBuild' = FALSE
    /\ Ends("success")
    /\ UNCHANGED open

(* Once provisioned docker is not provisioned again; the host may restart, *)
(* so the attempt ends with a retryable error all the same.                *)
Provisioned ==
    /\ configuredBy' = attempt
    /\ dockerBuild' = FALSE
    /\ Fails

(* The script of tools/docker.ps1 in a session of its own: it does its     *)
(* work; or it says on stderr what failed; or it is cut short, and the     *)
(* session passes for either.                                              *)
Configure ==
    /\ step = "configure"
    /\ \/ /\ server' = "new"
          /\ Provisioned
          /\ UNCHANGED intact
       \/ /\ server' \in {server, "new"}
          /\ Fails
          /\ UNCHANGED <<dockerBuild, configuredBy, intact>>
       \/ /\ server' \in {server, "new"}
          /\ Provisioned
          /\ intact' = FALSE
    /\ UNCHANGED <<w, confirmedBy>>
    /\ attemptFrame

(* docker info, in a session of its own.                                   *)
Confirm ==
    /\ step = "confirm"
    /\ intact' \in {intact, FALSE}
    /\ \/ /\ confirmedBy' = attempt
          /\ Ends("success")
          /\ UNCHANGED open
       \/ /\ Fails
          /\ UNCHANGED confirmedBy
    /\ UNCHANGED <<dockerBuild, w, configuredBy, server>>
    /\ attemptFrame

-----------------------------------------------------------------------------
(* The waiter.                                                             *)

waiterFrame == UNCHANGED <<configureDocker, ctx, refresher, last, resultErr, attemptVars>>

(* RetryContext: the error of the last attempt takes precedence.           *)
Return(waitErr) ==
    /\ waiter' = "returned"
    /\ result' = IF resultErr = "nil" THEN waitErr ELSE resultErr

(* A success is returned, also in the grace period; any other result is    *)
(* put aside.                                                              *)
Receive ==
    /\ waiter \in {"waiting", "grace"}
    /\ resCh # <<>>
    /\ resCh' = Tail(resCh)
    /\ \/ Head(resCh) = "success" /\ Return("nil")
       \/ Head(resCh) = "pending" /\ UNCHANGED <<waiter, result>>
    /\ UNCHANGED cancelCh
    /\ waiterFrame

ContextDone ==
    /\ waiter = "waiting"
    /\ ctx = "done"
    /\ cancelCh' = TRUE
    /\ Return("error")
    /\ UNCHANGED resCh
    /\ waiterFrame

(* retry_timeout passed.                                                   *)
Timeout ==
    /\ waiter = "waiting"
    /\ waiter' = "grace"
    /\ cancelCh' = TRUE
    /\ UNCHANGED <<resCh, result>>
    /\ waiterFrame

(* Mutant: the grace period lasts until the attempt has ended.             *)
GraceEndsLate ==
    /\ waiter = "grace"
    /\ refresher = "over"
    /\ resCh = <<>>
    /\ Return("error")
    /\ UNCHANGED <<cancelCh, resCh>>
    /\ waiterFrame

(* The refresher is over, the context is done, or 30 seconds passed.       *)
GraceEnds ==
    /\ waiter = "grace"
    /\ Return("error")
    /\ UNCHANGED <<cancelCh, resCh>>
    /\ waiterFrame

-----------------------------------------------------------------------------
Cancel ==
    /\ ctx = "live"
    /\ ctx' = "done"
    /\ UNCHANGED <<configureDocker, waiter, cancelCh, resCh, refresher, last, resultErr,
                   result, attemptVars>>

Refresher == Send \/ StartAttempt \/ Cancelled
Attempt == DialFails \/ Dial \/ Configure \/ Confirm
Waiter == Receive \/ ContextDone \/ Timeout \/ GraceEnds

(* A refresher that wants to send when nobody receives stays blocked.      *)
Quiet == refresher = "over" \/ (refresher = "send" /\ resCh # <<>>)

Terminated ==
    /\ waiter = "returned"
    /\ Quiet
    /\ UNCHANGED vars

Next == Refresher \/ Attempt \/ Waiter \/ Cancel \/ Terminated

Spec == Init /\ [][Next]_vars

-----------------------------------------------------------------------------
(* Safety.                                                                 *)

(* A dialer is returned only with its connection open; for Create, docker  *)
(* was provisioned over an earlier connection and confirmed over this one, *)
(* so the host was reachable again after a restart.                        *)
NilIsReady ==
    result = "nil" =>
        /\ w # 0 /\ open = {w}
        /\ configureDocker =>
              /\ confirmedBy = w
              /\ 0 < configuredBy /\ configuredBy < w
              /\ intact => server = "new"

(* A worker is never dialed a second time while an earlier connection of   *)
(* the call is open: each failed attempt closes its own.                   *)
OneConnection ==
    /\ \A a, b \in open : a = b
    /\ step = "dial" => open = {}

(* After an error a connection is left open only by an attempt that        *)
(* succeeded when the waiter had given up; nobody will close it.           *)
LeakIsAbandoned ==
    result = "error" /\ Quiet /\ open # {} => cancelCh /\ last = "success" /\ open = {w}

(* docker is provisioned until it worked once, and never again: later      *)
(* attempts only ask for the server, and ask for it only then.             *)
ProvisionedOnce ==
    [][/\ configuredBy # 0 => configuredBy' = configuredBy /\ step' # "configure"
       /\ step' = "confirm" => configuredBy # 0]_vars

-----------------------------------------------------------------------------
(* The inductive invariant behind the safety properties.                   *)

(* An attempt owns the connection it dialed until it ends.                 *)
OwnsConnection ==
    /\ step # "off" <=> refresher = "attempt"
    /\ step = "dial" => open = {}
    /\ step \in {"configure", "confirm"} => w = attempt /\ open = {w} /\ configureDocker
    /\ step # "off" => attempt # 0
    /\ step = "off" /\ last = "pending" => open = {}

(* A success is the last thing the refresher has to say.                   *)
SuccessIsLast ==
    /\ last = "success" => refresher \in {"send", "over"} /\ resultErr = "nil"
    /\ last = "success" => w # 0 /\ open = {w}
    /\ resCh = <<"success">> => last = "success" /\ refresher = "over"
    /\ result = "nil" => last = "success"
    /\ result # "none" <=> waiter = "returned"
    /\ waiter = "grace" \/ result = "error" => cancelCh

(* Provisioning before confirming, in attempts of their own.               *)
ProvisionedFirst ==
    /\ dockerBuild <=> configuredBy = 0
    /\ configuredBy <= attempt
    /\ step \in {"dial", "configure", "confirm"} => configuredBy < attempt
    /\ step = "configure" => dockerBuild
    /\ step = "confirm" => ~dockerBuild
    /\ last = "success" /\ configureDocker =>
          confirmedBy = w /\ 0 < configuredBy /\ configuredBy < w
    /\ configuredBy # 0 /\ intact => server = "new"

IInv == TypeOK /\ OwnsConnection /\ SuccessIsLast /\ ProvisionedFirst

-----------------------------------------------------------------------------
(* Liveness.                                                               *)

(* The call returns even if an attempt never ends.                         *)
Returns == <>(result # "none")
=============================================================================
