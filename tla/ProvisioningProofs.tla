------------------------- MODULE ProvisioningProofs -------------------------
(***************************************************************************)
(* Proofs about Provisioning, for any bound on the attempts.               *)
(***************************************************************************)
EXTENDS Provisioning, DialRetryProofs

(* What the host adds is a stutter of the attempts, or narrows a step.     *)
LEMMA StepsOfAttempts == [NextProvisioning]_allVars => [Next]_vars
<1> SUFFICES ASSUME [NextProvisioning]_allVars PROVE [Next]_vars
  OBVIOUS
<1>1. CASE RunScript
  BY <1>1 DEF RunScript
<1>2. CASE EndScript
  BY <1>2 DEF EndScript, Next, Attempt
<1>3. CASE ConfirmServer
  BY <1>3 DEF ConfirmServer, Next, Attempt
<1>4. CASE RestartHost
  BY <1>4 DEF RestartHost
<1>5. CASE UNCHANGED allVars
  BY <1>5 DEF allVars
<1>6. QED
  BY <1>1, <1>2, <1>3, <1>4, <1>5 DEF NextProvisioning, Worker, Elsewhere, Next, Attempt

(* The composition is a dialWorkerBySSH: the host only decides which of    *)
(* its outcomes a session has.                                             *)
THEOREM ProvisioningDials == SpecProvisioning => Spec
BY StepsOfAttempts, PTL DEF SpecProvisioning, InitProvisioning, Spec

(* What the host needs to know of the attempts.                            *)
LEMMA AttemptsFacts ==
  ASSUME IInv
  PROVE  /\ step = "configure" => configuredBy = 0 /\ last = "pending"
         /\ step = "confirm" => configuredBy # 0 /\ configuredBy \in Nat
         /\ result = "nil" => last = "success"
         /\ last = "success" /\ configureDocker => configuredBy # 0
         /\ last \in {"pending", "success"} /\ intact \in BOOLEAN
         /\ w \in 0 .. MaxAttempts /\ attempt \in 0 .. MaxAttempts
BY MaxAttemptsAssumption DEF IInv, TypeOK, OwnsConnection, SuccessIsLast, ProvisionedFirst

-----------------------------------------------------------------------------
(* The script.                                                             *)

(* While it runs nothing is provisioned, so all that has to be kept is     *)
(* what its own steps rely on.                                             *)
LEMMA ScriptPreserves == IInv /\ HostIInv /\ RunScript => HostIInv'
<1> SUFFICES ASSUME IInv, HostIInv, RunScript PROVE HostIInv'
  OBVIOUS
<1>1. /\ step = "configure" /\ UNCHANGED <<vars, version, dead>>
      /\ configuredBy = 0 /\ last = "pending"
  BY AttemptsFacts DEF RunScript
<1>2. /\ step' = "configure" /\ configuredBy' = 0 /\ last' = "pending"
      /\ dead' = dead /\ version' = version
  BY <1>1 DEF vars
<1>3. ProvisionedHost'
  BY <1>2 DEF ProvisionedHost
<1> SUFFICES HostTypeOK' /\ ScriptInStep' /\ RestartsForFeature' /\ PathIsComplete'
  BY <1>3 DEF HostIInv
<1> USE <1>2 DEF HostIInv, HostTypeOK, ScriptInStep, RestartsForFeature, PathIsComplete,
      hostVars, Goto, Throws, Overlooked, Old
<1>4. CASE InstallUnpigz
  <2>1. /\ script = "unpigz" /\ script' \in {"configure", "fatal"} /\ unpigz' \in BOOLEAN /\ version
        /\ UNCHANGED <<config, binaries, onPath, registered, feature, restarting, harm>>
    BY <1>4 DEF InstallUnpigz
  <2>2. \/ daemon' = daemon \/ daemon' = <<>>
        \/ daemon' = <<config, binaries>> /\ CanStart(feature)
    BY <1>4 DEF InstallUnpigz, Restarted, Started
  <2>3. HostTypeOK'
    BY <2>1, <2>2 DEF CanStart
  <2>4. ScriptInStep'
    BY <2>1, <2>2 DEF CanStart
  <2>5. RestartsForFeature'
    BY <2>1, <2>2 DEF CanStart
  <2>6. PathIsComplete'
    BY <2>1, <2>2 DEF CanStart
  <2>7. QED
    BY <2>3, <2>4, <2>5, <2>6
<1>5. CASE WriteConfig
  BY <1>5 DEF WriteConfig
<1>6. CASE CheckVersion
  BY <1>6 DEF CheckVersion
<1>7. CASE Found
  <2>1. /\ script = "found" /\ script' \in {"done", "fatal"} /\ registered' \in BOOLEAN
        /\ UNCHANGED <<unpigz, config, binaries, onPath, feature, restarting, harm>>
    BY <1>7 DEF Found
  <2>2. \/ script' = "fatal" /\ daemon' \in {<<>>, daemon}
        \/ daemon' = <<config, binaries>> /\ CanStart(feature)
    BY <1>7 DEF Found, Started
  <2>3. HostTypeOK'
    BY <2>1, <2>2 DEF CanStart
  <2>4. ScriptInStep'
    BY <2>1, <2>2 DEF CanStart
  <2>5. RestartsForFeature'
    BY <2>1, <2>2 DEF CanStart
  <2>6. PathIsComplete'
    BY <2>1, <2>2 DEF CanStart
  <2>7. QED
    BY <2>3, <2>4, <2>5, <2>6
<1>8. CASE Download
  BY <1>8 DEF Download
<1>9. CASE RemoveStale
  BY <1>9 DEF RemoveStale
<1>10. CASE Expand
  BY <1>10 DEF Expand
<1>11. CASE AddPath
  BY <1>11 DEF AddPath
<1>12. CASE Register
  BY <1>12 DEF Register
<1>13. CASE VerifyFeature
  <2>1. /\ script = "feature" /\ feature' \in {"missing", "pending", "enabled"}
        /\ UNCHANGED <<unpigz, config, binaries, onPath, registered, daemon>>
    BY <1>13 DEF VerifyFeature, RestartNeeded, Installed
  <2>2. \/ /\ script' = "start" /\ feature # "pending" /\ feature' = "enabled"
           /\ UNCHANGED <<restarting, harm>>
        \/ /\ script' = "done" /\ feature' = "pending" /\ feature # "enabled"
           /\ restarting' = TRUE /\ harm' = harm
        \/ /\ script' = "done" /\ restarting' = TRUE /\ harm' = harm \cup {"overlooked"}
           /\ feature' = feature
        \/ /\ script' = "fatal" /\ harm' = harm \cup {"feature"} /\ restarting' = restarting
           /\ feature' = feature \/ (feature = "missing" /\ feature' = "pending")
    BY <1>13 DEF VerifyFeature, RestartNeeded, Installed
  <2>3. HostTypeOK'
    BY <2>1, <2>2
  <2>4. ScriptInStep'
    BY <2>1, <2>2
  <2>5. RestartsForFeature'
    BY <2>1, <2>2
  <2>6. PathIsComplete'
    BY <2>1, <2>2
  <2>7. QED
    BY <2>3, <2>4, <2>5, <2>6
<1>14. CASE Start
  BY <1>14 DEF Start, Restarted, CanStart, Started
<1>15. CASE Cut
  <2>1. /\ script' = "cut" /\ UNCHANGED <<unpigz, onPath, restarting>>
        /\ config' \in {config, "empty"} /\ registered' \in BOOLEAN
    BY <1>15 DEF Cut, During
  <2>2. daemon' \in {daemon, <<>>} /\ binaries' \in {binaries, "broken"}
    BY <1>15 DEF Cut, During
  <2>3. /\ feature' \in {feature, "pending"}
        /\ feature' # feature => script = "feature" /\ feature = "missing"
    BY <1>15 DEF Cut, Installed
  <2>4. /\ harm \subseteq harm' /\ harm' \subseteq harm \cup {"feature", "broken"}
        /\ script \in {"register", "feature"} => "feature" \in harm'
        /\ binaries' # binaries => "broken" \in harm'
    BY <1>15 DEF Cut, During
  <2>5. HostTypeOK'
    BY <2>1, <2>2, <2>3, <2>4
  <2>6. ScriptInStep'
    BY <2>1, <2>2, <2>3, <2>4
  <2>7. RestartsForFeature'
    BY <2>1, <2>2, <2>3, <2>4
  <2>8. PathIsComplete'
    BY <2>1, <2>2, <2>3, <2>4
  <2>9. QED
    BY <2>5, <2>6, <2>7, <2>8
<1>16. CASE NothingAsked
  BY <1>16 DEF NothingAsked
<1>17. QED
  BY <1>4, <1>5, <1>6, <1>7, <1>8, <1>9, <1>10, <1>11, <1>12, <1>13, <1>14, <1>15, <1>16
     DEF RunScript, Script

-----------------------------------------------------------------------------
(* The attempts and the host.                                              *)

(* The end of the script is where an attempt is marked as provisioned: it  *)
(* did its work, or its session was cut.                                   *)
LEMMA EndScriptPreserves == IInv /\ HostIInv /\ EndScript => HostIInv'
<1> SUFFICES ASSUME IInv, HostIInv, EndScript PROVE HostIInv'
  OBVIOUS
<1>1. /\ step = "configure" /\ configuredBy = 0 /\ last = "pending" /\ intact \in BOOLEAN
      /\ script \in {"done", "fatal", "cut"} /\ script' = "unpigz"
      /\ UNCHANGED <<unpigz, config, binaries, onPath, registered, daemon, feature, restarting>>
      /\ UNCHANGED <<version, dead, harm>>
  BY AttemptsFacts DEF EndScript, Configure, hostVars
<1>2. last' = "pending" /\ step' = "off"
  BY DEF EndScript, Configure, Provisioned, Fails, Ends
<1>3. script # "done" => configuredBy' = 0 \/ intact' = FALSE
  BY <1>1 DEF EndScript, Configure
<1>4. HostTypeOK' /\ ScriptInStep'
  BY <1>1 DEF HostIInv, HostTypeOK, ScriptInStep, Overlooked
<1>5. ProvisionedHost'
  BY <1>1, <1>2, <1>3 DEF HostIInv, ProvisionedHost, ScriptInStep, Overlooked, Old
<1>6. RestartsForFeature' /\ PathIsComplete'
  BY <1>1 DEF HostIInv, RestartsForFeature, PathIsComplete, Overlooked
<1>7. QED
  BY <1>4, <1>5, <1>6 DEF HostIInv

(* docker info over a session that was not cut: docker runs, so the host   *)
(* is not about to restart.                                                *)
LEMMA ConfirmPreserves == IInv /\ HostIInv /\ ConfirmServer => HostIInv'
<1> SUFFICES ASSUME IInv, HostIInv, ConfirmServer PROVE HostIInv'
  OBVIOUS
<1>1. /\ step = "confirm" /\ configuredBy # 0 /\ intact \in BOOLEAN
      /\ UNCHANGED <<version, script, unpigz, config, binaries, onPath, registered, daemon, feature>>
      /\ UNCHANGED <<restarting, dead, harm, w, configuredBy, configureDocker>>
  BY AttemptsFacts DEF ConfirmServer, Confirm, attemptFrame, refresherFrame, hostVars
<1>2. intact' = TRUE => intact = TRUE
  BY <1>1 DEF ConfirmServer, Confirm
<1>3. intact' \in BOOLEAN
  BY <1>1 DEF ConfirmServer, Confirm
<1>4. last' = "success" => confirmedBy' = attempt
  BY DEF ConfirmServer, Confirm, Fails, Ends
<1>5. last' = "success" /\ intact' = TRUE => daemon # <<>> /\ w # dead
  BY <1>2, <1>4 DEF ConfirmServer
<1>6. script = "unpigz"
  BY <1>1 DEF HostIInv, ScriptInStep
<1>7. HostTypeOK' /\ ScriptInStep'
  BY <1>1, <1>6 DEF HostIInv, HostTypeOK, ScriptInStep, Overlooked
<1>8. ProvisionedHost'
  <2> SUFFICES ASSUME intact' = TRUE, "overlooked" \notin harm PROVE
        /\ version => config = "new" /\ binaries = "good" /\ ~Old
        /\ last' = "success" => daemon # <<>> /\ ~restarting /\ w # dead
    BY <1>1, <1>3 DEF ProvisionedHost, Overlooked, Old
  <2>1. version => config = "new" /\ binaries = "good" /\ ~Old
    BY <1>1, <1>2 DEF HostIInv, ProvisionedHost, Overlooked
  <2>2. daemon # <<>> => ~restarting
    BY DEF HostIInv, RestartsForFeature, HostTypeOK, Overlooked
  <2>3. QED
    BY <2>1, <2>2, <1>5 DEF Old
<1>9. RestartsForFeature' /\ PathIsComplete'
  BY <1>1 DEF HostIInv, RestartsForFeature, PathIsComplete, Overlooked
<1>10. QED
  BY <1>7, <1>8, <1>9 DEF HostIInv

(* What comes up again is what was configured.                             *)
LEMMA RestartPreserves == IInv /\ HostIInv /\ RestartHost => HostIInv'
<1> SUFFICES ASSUME IInv, HostIInv, RestartHost PROVE HostIInv'
  OBVIOUS
<1>1. /\ restarting /\ ~restarting' /\ restarting' \in BOOLEAN
      /\ script \in {"unpigz", "done", "fatal", "cut"} /\ dead' = w
      /\ UNCHANGED <<version, script, unpigz, config, binaries, onPath, registered, harm>>
      /\ UNCHANGED <<step, configuredBy, last, configureDocker, intact, w>>
  BY DEF RestartHost, vars
<1>2. feature' = IF feature = "pending" THEN "enabled" ELSE feature
  BY DEF RestartHost
<1>3. daemon' = <<>> \/ (daemon' = <<config, binaries>> /\ CanStart(feature'))
  BY DEF RestartHost, Restarted, Started
<1>4. HostTypeOK'
  <2>1. feature' \in {"missing", "pending", "enabled"}
    BY <1>2 DEF HostIInv, HostTypeOK
  <2>2. daemon' \in {<<>>} \cup ({"old", "new"} \X {"stale", "good"})
    BY <1>3 DEF HostIInv, HostTypeOK, CanStart
  <2>3. w \in 0 .. MaxAttempts
    BY AttemptsFacts
  <2>4. QED
    BY <1>1, <2>1, <2>2, <2>3 DEF HostIInv, HostTypeOK
<1>5. ScriptInStep'
  BY <1>1, <1>3 DEF HostIInv, ScriptInStep, Overlooked, Old
<1>6. ProvisionedHost'
  <2> SUFFICES ASSUME intact, "overlooked" \notin harm PROVE
        /\ version /\ configuredBy # 0 => config = "new" /\ binaries = "good" /\ Old' = FALSE
        /\ ~(last = "success" /\ configureDocker)
    BY <1>1 DEF ProvisionedHost, Overlooked
  <2>1. ~(last = "success" /\ configureDocker)
    BY <1>1 DEF HostIInv, ProvisionedHost, Overlooked
  <2>2. version /\ configuredBy # 0 => config = "new" /\ binaries = "good"
    BY DEF HostIInv, ProvisionedHost, Overlooked
  <2>3. QED
    BY <1>3, <2>1, <2>2 DEF Old
<1>7. RestartsForFeature'
  BY <1>1, <1>3 DEF RestartsForFeature, CanStart
<1>8. PathIsComplete'
  BY <1>1, <1>2 DEF HostIInv, RestartsForFeature, PathIsComplete, Overlooked
<1>9. QED
  BY <1>4, <1>5, <1>6, <1>7, <1>8 DEF HostIInv

(* A step elsewhere: no success for Create, and no other connection under  *)
(* a running script.                                                       *)
LEMMA ElsewherePreserves ==
  ASSUME IInv, HostIInv, UNCHANGED <<version, script, hostVars, dead, harm>>,
         UNCHANGED <<configuredBy, configureDocker, intact>>,
         script # "unpigz" => step' = step,
         last' = "success" /\ configureDocker => last = "success" /\ w' = w
  PROVE  HostIInv'
<1>1. UNCHANGED <<version, script, unpigz, config, binaries, onPath, registered, daemon, feature,
                  restarting, dead, harm>>
  BY DEF hostVars
<1>2. HostTypeOK' /\ ScriptInStep'
  BY <1>1 DEF HostIInv, HostTypeOK, ScriptInStep, Overlooked, Old
<1>3. ProvisionedHost'
  BY <1>1 DEF HostIInv, ProvisionedHost, Overlooked, Old
<1>4. RestartsForFeature' /\ PathIsComplete'
  BY <1>1 DEF HostIInv, RestartsForFeature, PathIsComplete, Overlooked
<1>5. QED
  BY <1>2, <1>3, <1>4 DEF HostIInv

LEMMA StepPreserves == IInv /\ HostIInv /\ [NextProvisioning]_allVars => HostIInv'
<1> SUFFICES ASSUME IInv, HostIInv, [NextProvisioning]_allVars PROVE HostIInv'
  OBVIOUS
<1>1. script # "unpigz" => step = "configure"
  BY DEF HostIInv, ScriptInStep
<1>2. step = "configure" => refresher = "attempt"
  BY DEF IInv, OwnsConnection
<1>3. CASE Elsewhere(Refresher)
  <2>1. /\ UNCHANGED <<version, script, hostVars, dead, harm>>
        /\ UNCHANGED <<configuredBy, configureDocker, intact, w, last>>
        /\ refresher # "attempt"
    BY <1>3 DEF Elsewhere, Refresher, Send, StartAttempt, Cancelled, refresherFrame, attemptVars
  <2>2. QED
    BY <2>1, <1>1, <1>2, ElsewherePreserves
<1>4. CASE Elsewhere(DialFails)
  <2>1. /\ UNCHANGED <<version, script, hostVars, dead, harm>>
        /\ UNCHANGED <<configuredBy, configureDocker, intact>>
        /\ step = "dial" /\ last' = "pending"
    BY <1>4 DEF Elsewhere, DialFails, Ends, attemptFrame, refresherFrame
  <2>2. QED
    BY <2>1, <1>1, ElsewherePreserves
<1>5. CASE Elsewhere(Dial)
  <2>1. /\ UNCHANGED <<version, script, hostVars, dead, harm>>
        /\ UNCHANGED <<configuredBy, configureDocker, intact>>
        /\ step = "dial"
    BY <1>5 DEF Elsewhere, Dial, attemptFrame, refresherFrame
  <2>2. configureDocker => last' = last
    BY <1>5 DEF Elsewhere, Dial
  <2>3. last # "success"
    BY <2>1 DEF IInv, OwnsConnection, SuccessIsLast
  <2>4. QED
    BY <2>1, <2>2, <2>3, <1>1, ElsewherePreserves
<1>6. CASE Elsewhere(Waiter) \/ Elsewhere(Cancel) \/ Elsewhere(Terminated)
  <2>1. /\ UNCHANGED <<version, script, hostVars, dead, harm>>
        /\ UNCHANGED <<configuredBy, configureDocker, intact, w, last, step>>
    BY <1>6 DEF Elsewhere, Waiter, Receive, ContextDone, Timeout, GraceEnds, waiterFrame,
       Cancel, Terminated, vars, attemptVars
  <2>2. QED
    BY <2>1, ElsewherePreserves
<1>7. CASE UNCHANGED allVars
  <2>1. /\ UNCHANGED <<version, script, hostVars, dead, harm>>
        /\ UNCHANGED <<configuredBy, configureDocker, intact, w, last, step>>
    BY <1>7 DEF allVars, vars
  <2>2. QED
    BY <2>1, ElsewherePreserves
<1>8. QED
  BY <1>3, <1>4, <1>5, <1>6, <1>7, ScriptPreserves, EndScriptPreserves, ConfirmPreserves,
     RestartPreserves DEF NextProvisioning, Worker

(* What the host has in store at every step of the script and behind it.   *)
THEOREM HostInvariance == SpecProvisioning => []HostIInv
<1>1. InitProvisioning => HostIInv
  <2> SUFFICES ASSUME Init, InitHost PROVE HostIInv
    BY DEF InitProvisioning
  <2>1. /\ version \in BOOLEAN /\ script = "unpigz" /\ unpigz \in BOOLEAN /\ config = "old" /\ restarting = FALSE
        /\ binaries \in {"none", "stale", "good"} /\ onPath \in BOOLEAN /\ registered \in BOOLEAN
        /\ dead = 0 /\ harm = {} /\ configuredBy = 0 /\ last = "pending"
        /\ onPath => binaries # "none" /\ feature = "enabled"
        /\ feature \in {"enabled", "missing"}
    BY DEF Init, InitHost
  <2>2. registered = TRUE => onPath = TRUE
    BY DEF InitHost
  <2>3. daemon # <<>> => daemon = <<config, binaries>> /\ registered = TRUE
    BY DEF InitHost
  <2>4. HostTypeOK
    <3>1. daemon \in {<<>>} \cup ({"old", "new"} \X {"stale", "good"})
      BY <2>1, <2>2, <2>3
    <3>2. 0 \in 0 .. MaxAttempts
      BY MaxAttemptsAssumption
    <3>3. restarting \in BOOLEAN
      BY <2>1
    <3>4. QED
      BY <2>1, <3>1, <3>2, <3>3 DEF HostTypeOK
  <2>5. ScriptInStep /\ ProvisionedHost
    BY <2>1 DEF ScriptInStep, ProvisionedHost
  <2>6. RestartsForFeature /\ PathIsComplete
    BY <2>1, <2>2, <2>3 DEF RestartsForFeature, PathIsComplete
  <2>7. QED
    BY <2>4, <2>5, <2>6 DEF HostIInv
<1>2. SpecProvisioning => []IInv
  BY ProvisioningDials, Invariance, PTL
<1>3. QED
  BY <1>1, <1>2, StepPreserves, PTL DEF SpecProvisioning

(* Create is handed a worker that runs what it asked for, unless an error  *)
(* was overlooked or a session cut.                                        *)
THEOREM ReadyWorker == SpecProvisioning => []ReadyRunsNew
<1>1. IInv /\ HostIInv => ReadyRunsNew
  <2> SUFFICES ASSUME IInv, HostIInv, result = "nil", configureDocker, intact, ~Overlooked
               PROVE  /\ daemon # <<>> /\ ~restarting /\ w # dead
                      /\ version => daemon = <<"new", "good">>
    BY DEF ReadyRunsNew, Overlooked
  <2>1. last = "success"
    BY AttemptsFacts
  <2>2. QED
    BY <2>1, AttemptsFacts DEF HostIInv, ProvisionedHost, Old
<1>2. SpecProvisioning => []IInv
  BY ProvisioningDials, Invariance, PTL
<1>3. QED
  BY <1>1, <1>2, HostInvariance, PTL

(* Only the failures LeftRepeatable names leave a host that another run of *)
(* the script cannot mend.                                                 *)
THEOREM HostsStayRepeatable == SpecProvisioning => []LeftRepeatable
<1>1. HostIInv => LeftRepeatable
  BY DEF HostIInv, PathIsComplete, LeftRepeatable, Repeatable
<1>2. QED
  BY <1>1, HostInvariance, PTL
=============================================================================
