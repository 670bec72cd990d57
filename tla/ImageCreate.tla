----------------------------- MODULE ImageCreate -----------------------------
(***************************************************************************)
(* The Create handler of the windbag_image resource, alone or as the body  *)
(* of Update, up to the point where it sets the id and hands over to Read: *)
(* it dials every worker, retrieves the build information and ships the    *)
(* build context worker by worker, and logs every worker in to every       *)
(* registry, all workers at once.                                          *)
(*                                                                         *)
(* The login goroutines share one variable of the handler, err: each       *)
(* stores what its session returned, compares err with nil and wraps it,   *)
(* three steps.                                                            *)
(* A session returns nil for a failed interaction when its keepalive       *)
(* goroutine meets the end of the channel first (see RemoteSession).       *)
(***************************************************************************)
EXTENDS Naturals, FiniteSets

CONSTANTS
    NumWorkers,    \* number of `worker` blocks
    Registries,    \* addresses of the `registry` blocks
    BuildNumber    \* BuildNumber[w]: the build of Windows that runs on w

ASSUME NumWorkersAssumption == NumWorkers \in Nat \ {0}
ASSUME RegistriesAssumption == IsFiniteSet(Registries)
ASSUME BuildNumberAssumption == BuildNumber \in [1 .. NumWorkers -> Nat \ {0}]

Workers == 1 .. NumWorkers

VARIABLES
    op,        \* create or update
    phase,     \* dial, check, ship (hung: in a session that hangs), login, read, done
    result,    \* none, nil, error
    id,        \* the id of the resource data: none, set
    dialer,    \* dialer[w]: none, open, closed
    shipping,  \* the worker whose turn it is in the shipping loop
    info,      \* build_information of each worker: none, partial, full
    osBuild,   \* its os_build
    context,   \* build_context of each worker: none, partial, earlier, current
    login,     \* the login goroutine of each worker
    own,       \* what the login session of each worker returned
    err,       \* the shared variable
    loggedIn   \* <<worker, registry>>: docker is logged in

handlerVars == <<op, phase, result, id, dialer>>
shipVars == <<shipping, info, osBuild, context>>
loginVars == <<login, own, err, loggedIn>>
vars == <<op, phase, result, id, dialer, shipping, info, osBuild, context,
          login, own, err, loggedIn>>

TypeOK ==
    /\ op \in {"create", "update"}
    /\ phase \in {"dial", "check", "ship", "hung", "login", "read", "done"}
    /\ result \in {"none", "nil", "error"}
    /\ id \in {"none", "set"}
    /\ dialer \in [Workers -> {"none", "open", "closed"}]
    /\ shipping \in 1 .. (NumWorkers + 1)
    /\ info \in [Workers -> {"none", "partial", "full"}]
    /\ osBuild \in [Workers -> Nat]
    /\ context \in [Workers -> {"none", "partial", "earlier", "current"}]
    /\ login \in [Workers -> {"idle", "session", "returned", "wrap", "ok", "failed"}]
    /\ own \in [Workers -> {"none", "nil", "error"}]
    /\ err \in {"nil", "error"}
    /\ loggedIn \subseteq Workers \X Registries

(* An update clears the id first, and starts from the attributes an        *)
(* earlier operation recorded for the workers it knew.                     *)
Init ==
    /\ op \in {"create", "update"}
    /\ phase = "dial"
    /\ result = "none"
    /\ id = "none"
    /\ dialer = [w \in Workers |-> "none"]
    /\ shipping = 1
    /\ \E known \in SUBSET Workers :
          /\ op = "create" => known = {}
          /\ info = [w \in Workers |-> IF w \in known THEN "full" ELSE "none"]
          /\ context = [w \in Workers |-> IF w \in known THEN "earlier" ELSE "none"]
    /\ osBuild = [w \in Workers |-> 0]
    /\ login = [w \in Workers |-> "idle"]
    /\ own = [w \in Workers |-> "none"]
    /\ err = "nil"
    /\ loggedIn = {}

-----------------------------------------------------------------------------
(* Returns.  The deferred Close of the dialers is installed behind the     *)
(* dial loop.                                                              *)

(* Mutant: no deferred Close.                                              *)
ReturnOpen(r) ==
    /\ phase' = "done"
    /\ result' = r
    /\ UNCHANGED <<op, id, dialer>>

Return(r) ==
    /\ phase' = "done"
    /\ result' = r
    /\ dialer' = [w \in Workers |-> "closed"]
    /\ UNCHANGED <<op, id>>

Goto(p) ==
    /\ phase' = p
    /\ UNCHANGED <<op, result, id, dialer>>

Dial(w) ==
    /\ phase = "dial"
    /\ dialer[w] = "none"
    /\ \A v \in 1 .. (w - 1) : dialer[v] = "open"
    /\ \/ /\ dialer' = [dialer EXCEPT ![w] = "open"]
          /\ phase' = IF w = NumWorkers THEN "check" ELSE "dial"
          /\ UNCHANGED result
       \/ /\ phase' = "done"
          /\ result' = "error"
          /\ UNCHANGED dialer
    /\ UNCHANGED <<op, id, shipVars, loginVars>>

(* path must be a directory and file (or path/Dockerfile) a file.          *)
CheckPaths ==
    /\ phase = "check"
    /\ Goto("ship") \/ Return("error")
    /\ UNCHANGED <<shipVars, loginVars>>

-----------------------------------------------------------------------------
(* The shipping loop.                                                      *)

(* utils.ToInt: a number is kept, anything else is 0.                      *)
ToInt(value) == IF value.kind = "number" THEN value.is ELSE 0

(* CurrentBuildNumber is a string in the registry of Windows.              *)
CurrentBuildNumber(w) == [kind |-> "string", is |-> BuildNumber[w]]

(* A session of the loop hangs: a command does not end, or its signal      *)
(* arrives in two reads.  No timeout surrounds these sessions; with its    *)
(* connection a hanging one ends in one of the outcomes below.             *)
Hang(w) ==
    /\ phase = "ship"
    /\ shipping = w
    /\ info[w] = "none" \/ context[w] = "none"
    /\ Goto("hung")
    /\ UNCHANGED <<shipVars, loginVars>>

(* A masked failure ends the session before everything was stored, and the *)
(* map is added to the attribute all the same.                             *)
Retrieve(w) ==
    /\ phase \in {"ship", "hung"}
    /\ shipping = w
    /\ info[w] = "none"
    /\ \/ /\ info' = [info EXCEPT ![w] = "full"]
          /\ osBuild' = [osBuild EXCEPT ![w] = ToInt(CurrentBuildNumber(w))]
          /\ Goto("ship")
       \/ /\ info' = [info EXCEPT ![w] = "partial"]
          /\ Goto("ship")
          /\ UNCHANGED osBuild
       \/ /\ Return("error")
          /\ UNCHANGED <<info, osBuild>>
    /\ UNCHANGED <<shipping, context, loginVars>>

(* Mutant: shipped whether or not a context is recorded.                   *)
ShipContextAgain(w) ==
    /\ phase \in {"ship", "hung"}
    /\ shipping = w
    /\ info[w] # "none"
    /\ \/ /\ \E c \in {"current", "partial"} : context' = [context EXCEPT ![w] = c]
          /\ Goto("ship")
       \/ /\ Return("error")
          /\ UNCHANGED context
    /\ UNCHANGED <<shipping, info, osBuild, loginVars>>

(* Mutant: the branch of a recorded context advances the loop as well.     *)
NextWorkerTwice(w) ==
    /\ phase = "ship"
    /\ shipping = w
    /\ info[w] # "none"
    /\ context[w] # "none"
    /\ shipping' = IF context[w] = "earlier" THEN w + 2 ELSE w + 1
    /\ UNCHANGED <<handlerVars, info, osBuild, context, loginVars>>

(* Mutant: the last worker is left out.                                    *)
StartLoginEarly ==
    /\ phase = "ship"
    /\ shipping >= NumWorkers
    /\ Goto("login")
    /\ login' = [w \in Workers |-> IF Registries = {} THEN "ok" ELSE "session"]
    /\ UNCHANGED <<shipVars, own, err, loggedIn>>

(* The build path and the Dockerfile are shipped only where no context is  *)
(* recorded.                                                               *)
ShipContext(w) ==
    /\ phase \in {"ship", "hung"}
    /\ shipping = w
    /\ info[w] # "none"
    /\ context[w] = "none"
    /\ \/ /\ \E c \in {"current", "partial"} : context' = [context EXCEPT ![w] = c]
          /\ Goto("ship")
       \/ /\ Return("error")
          /\ UNCHANGED context
    /\ UNCHANGED <<shipping, info, osBuild, loginVars>>

NextWorker(w) ==
    /\ phase = "ship"
    /\ shipping = w
    /\ info[w] # "none"
    /\ context[w] # "none"
    /\ shipping' = w + 1
    /\ UNCHANGED <<handlerVars, info, osBuild, context, loginVars>>

(* One login goroutine per worker, unless there is no registry block.      *)
StartLogin ==
    /\ phase = "ship"
    /\ shipping = NumWorkers + 1
    /\ Goto("login")
    /\ login' = [w \in Workers |-> IF Registries = {} THEN "ok" ELSE "session"]
    /\ UNCHANGED <<shipVars, own, err, loggedIn>>

-----------------------------------------------------------------------------
(* The login goroutine of worker w.                                        *)

Remaining(w) == {r \in Registries : <<w, r>> \notin loggedIn}

(* The registries in the order of a map; a failed login is retried.        *)
LogIn(w, r) ==
    /\ login[w] = "session"
    /\ loggedIn' = loggedIn \cup {<<w, r>>}
    /\ UNCHANGED <<handlerVars, shipVars, login, own, err>>

(* err = workerDialer.PowerShell(...): nil after the last registry, or     *)
(* when the failure was masked; an error when the session could not start, *)
(* RetryContext gave up, or the keepalive failed, behind the last login    *)
(* too.                                                                    *)
SessionReturns(w, r) ==
    /\ login[w] = "session"
    /\ own' = [own EXCEPT ![w] = r]
    /\ err' = r
    /\ login' = [login EXCEPT ![w] = "returned"]
    /\ UNCHANGED <<handlerVars, shipVars, loggedIn>>

(* Mutants: the error is not looked at; the session is repeated for ever.  *)
LoginChecksNothing(w) ==
    /\ login[w] = "returned"
    /\ login' = [login EXCEPT ![w] = "ok"]
    /\ UNCHANGED <<handlerVars, shipVars, own, err, loggedIn>>

LoginChecksRetry(w) ==
    /\ login[w] = "returned"
    /\ login' = [login EXCEPT ![w] = IF err = "nil" THEN "ok" ELSE "session"]
    /\ UNCHANGED <<handlerVars, shipVars, own, err, loggedIn>>

(* if err != nil: the variable may have been overwritten in the meantime,  *)
(* and again before errors.Wrapf, which returns nil for nil.               *)
LoginChecks(w) ==
    /\ login[w] = "returned"
    /\ login' = [login EXCEPT ![w] = IF err = "nil" THEN "ok" ELSE "wrap"]
    /\ UNCHANGED <<handlerVars, shipVars, own, err, loggedIn>>

LoginWraps(w) ==
    /\ login[w] = "wrap"
    /\ login' = [login EXCEPT ![w] = IF err = "nil" THEN "ok" ELSE "failed"]
    /\ UNCHANGED <<handlerVars, shipVars, own, err, loggedIn>>

(* errgroup.Wait, then SetId.                                              *)
EndLogin ==
    /\ phase = "login"
    /\ \A w \in Workers : login[w] \in {"ok", "failed"}
    /\ \/ /\ \E w \in Workers : login[w] = "failed"
          /\ Return("error")
       \/ /\ \A w \in Workers : login[w] = "ok"
          /\ phase' = "read"
          /\ id' = "set"
          /\ UNCHANGED <<op, result, dialer>>
    /\ UNCHANGED <<shipVars, loginVars>>

(* What Read returned is returned; it dialed the workers for itself.       *)
ReadReturns ==
    /\ phase = "read"
    /\ \E r \in {"nil", "error"} : Return(r)
    /\ UNCHANGED <<shipVars, loginVars>>

-----------------------------------------------------------------------------
LoginStep(w) ==
    \/ \E r \in Remaining(w) : LogIn(w, r)
    \/ \E r \in {"nil", "error"} : SessionReturns(w, r)
    \/ LoginChecks(w) \/ LoginWraps(w)

ShipStep(w) == Retrieve(w) \/ ShipContext(w) \/ Hang(w) \/ NextWorker(w)

Handler ==
    \/ CheckPaths \/ StartLogin \/ EndLogin \/ ReadReturns
    \/ \E w \in Workers : Dial(w) \/ ShipStep(w)

Terminated == phase = "done" /\ UNCHANGED vars

Next == Handler \/ (\E w \in Workers : LoginStep(w)) \/ Terminated

Spec == Init /\ [][Next]_vars

(* The handler goes on, and the sessions that do not hang end;             *)
(* login_timeout ends a login.  Nothing obliges a session that hangs to    *)
(* end, and Read, which has properties of its own, need not return.        *)
FairSpec ==
    /\ Spec
    /\ WF_vars(phase \notin {"hung", "read"} /\ Handler)
    /\ \A w \in Workers : WF_vars(LoginStep(w))

-----------------------------------------------------------------------------
(* Safety.                                                                 *)

(* The id is set, and Read begins, only when a build information and a     *)
(* build context, complete or not, are recorded for every worker, and it   *)
(* is still connected.                                                     *)
IdBehindShipping ==
    id = "set" =>
        \A w \in Workers :
            /\ info[w] # "none" /\ context[w] # "none"
            /\ phase = "read" => dialer[w] = "open"

(* The error of a login session is lost only to the success of another.    *)
LostToASuccess ==
    id = "set" => \A w \in Workers :
        own[w] = "error" => \E v \in Workers \ {w} : own[v] = "nil"

(* Create leaves a worker connected only when the dial loop failed before  *)
(* the last worker.                                                        *)
LeaksFromDialLoop ==
    phase = "done" /\ (\E w \in Workers : dialer[w] = "open") =>
        /\ result = "error" /\ id = "none"
        /\ \E w \in Workers : dialer[w] = "none"
        /\ shipping = 1 /\ loggedIn = {}

(* What was shipped stays: a worker's turn never touches another worker,   *)
(* and a recorded context is never shipped again, not even for an update.  *)
ShippedOnce ==
    [][\A w \in Workers :
          context'[w] # context[w] =>
              /\ context[w] = "none"
              /\ \A v \in Workers : v < w => context[v] # "none"
              /\ \A v \in Workers : v > w => context'[v] = context[v]]_vars

(* Logged in to all registries on all workers.                             *)
LoginFailureIsReported == id = "set" => \A w \in Workers : own[w] # "error"

(* The worker Read will choose is one of the latest release: the first of  *)
(* those with the highest os_build.                                        *)
LatestManifests ==
    phase = "read" /\ (\A w \in Workers : info[w] = "full") =>
        \A w \in Workers :
            (\A v \in Workers : osBuild[v] < osBuild[w] \/ (osBuild[v] = osBuild[w] /\ w <= v))
                => \A v \in Workers : BuildNumber[v] <= BuildNumber[w]

(* The inductive invariant: what each phase finds done, when a login       *)
(* goroutine can be running, and what a nil in err means.                  *)
PhasesInOrder ==
    /\ phase = "dial" => /\ id = "none" /\ shipping = 1 /\ loggedIn = {}
                         /\ \A w \in Workers : dialer[w] # "closed"
    /\ phase \in {"dial", "check", "ship", "hung"} => \A w \in Workers : login[w] = "idle"
    /\ phase \in {"check", "ship", "hung", "login", "read"} => \A w \in Workers : dialer[w] = "open"
    /\ phase \in {"login", "read"} \/ id = "set" => shipping = NumWorkers + 1
    /\ id = "set" => phase \in {"read", "done"}
    /\ \A w \in Workers : w < shipping => info[w] # "none" /\ context[w] # "none"

LoginsInPhase ==
    \A w \in Workers :
        /\ phase # "login" => login[w] \in {"idle", "ok", "failed"}
        /\ login[w] \in {"idle", "session"} => own[w] = "none"

NilFromASession ==
    \A w \in Workers :
        own[w] = "error" /\ (err = "nil" \/ login[w] = "ok") => \E v \in Workers : own[v] = "nil"

IInv ==
    /\ TypeOK /\ PhasesInOrder /\ LoginsInPhase /\ NilFromASession
    /\ IdBehindShipping /\ LostToASuccess /\ LeaksFromDialLoop

(* Create returns or hands over to Read, whatever the registries and the   *)
(* workers do, but for a session of the shipping loop that hangs: logging  *)
(* in has a timeout, shipping has none.                                    *)
Returns == []<>(phase # "hung") => <>(phase \in {"read", "done"})
=============================================================================
