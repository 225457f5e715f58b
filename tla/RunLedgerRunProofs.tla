--------------------------- MODULE RunLedgerRunProofs ---------------------------
(* Theorems about whole runs: what is over is quiet and final, what is         *)
(* delivered is complete, what is cancelled starts nothing any more.  And about *)
(* the life of their steps: the ledger implements StepLife.                     *)
EXTENDS RunLedgerProofs, RunLedgerLife

Quiet     == {"succeeded", "partial", "cancelled", "waiting_for_user"}
Successes == {"succeeded", "partial"}
AllDone(r)   == \A s \in StepsOf(r) : Done(s)
Untouched(r) == \A s \in StepsOf(r), n \in Number : attempt[s][n] = "none"
Asked(r)     == \E s \in StepsOf(r) : stepStatus[s] = "waiting_for_user"

\* No transition to expired has a caller.
NeverExpired == \A r \in Run : runStatus[r] # "expired"

\* No step is running in a run that is over or waits for the user.
QuietRuns == \A r \in Run : runStatus[r] \in Quiet => Idle(r)

\* A run that waits has a step that waits, for a call of unknown outcome.
AskedRuns    == \A r \in Run : runStatus[r] = "waiting_for_user" => Asked(r)
WaitingSteps == \A s \in Step :
  stepStatus[s] = "waiting_for_user" => UnknownOutcome(s, stepAttempt[s])

RunInv == /\ StepInv
          /\ QuietRuns
          /\ AskedRuns
          /\ WaitingSteps
          /\ DeliveredIsComplete
          /\ NeverExpired

\* What one transaction can do to a run.
RunStep(r) ==
  /\ runStatus'[r] = runStatus[r] \/ runStatus[r] \notin Terminal
  /\ runStatus'[r] # "expired"
  /\ runStatus[r] = "cancelling" => runStatus'[r] \in {"cancelling", "cancelled", "failed"}
  /\ runStatus'[r] \in Quiet => Idle(r)'
  /\ runStatus'[r] = "waiting_for_user" => Asked(r)'
  /\ (r \in delivered') <=>
        (r \in delivered \/ (runStatus'[r] # runStatus[r] /\ runStatus'[r] \in Successes))
  /\ runStatus'[r] # runStatus[r] /\ runStatus'[r] \in Successes =>
        AllDone(r)' \/ Untouched(r)'

\* Nothing is in flight in a run exactly when none of its steps is running.
LEMMA IdleRun ==
  ASSUME TypeOK, InFlightAgreement, NEW r \in Run
  PROVE  HasInFlight(r) <=> ~Idle(r)
<1>1. ASSUME NEW p \in InFlight, p[1][1] = r PROVE ~Idle(r)
  BY <1>1 DEF InFlight, InFlightAgreement, Idle, StepsOf
<1>2. ASSUME NEW s \in Step, s[1] = r, stepStatus[s] = "running" PROVE HasInFlight(r)
  <2>1. attempt[s][stepAttempt[s]] = "running" /\ lease[s][stepAttempt[s]] = "held"
        /\ stepAttempt[s] \in Number
    BY <1>2 DEF InFlightAgreement, TypeOK
  <2>2. <<s, stepAttempt[s]>> \in InFlight
    BY <2>1 DEF InFlight
  <2> QED BY <1>2, <2>2 DEF HasInFlight
<1> QED BY <1>1, <1>2 DEF HasInFlight, Idle, StepsOf

\* An idle run that no worker may claim from stays idle.
LEMMA IdleKept ==
  ASSUME StepInv, [Next]_vars, NEW r \in Run, Idle(r), runStatus[r] \notin {"queued", "running"}
  PROVE  Idle(r)'
<1> SUFFICES ASSUME NEW p \in Step, p[1] = r PROVE stepStatus'[p] # "running"
  BY DEF Idle, StepsOf
<1>1. stepStatus[p] # "running"
  BY DEF Idle, StepsOf
<1>2. Kept(p) \/ Ended(p) \/ Granted(p)
  BY StepShapes
<1> QED BY <1>1, <1>2 DEF Kept, Ended, Granted

\* The step of an active claim is the only one of its run that is running.
LEMMA OthersIdle ==
  ASSUME StepInv, NEW s \in Step, stepStatus[s] = "running"
  PROVE  \A p \in StepsOf(s[1]) : p # s => stepStatus[p] # "running"
BY OneInFlight DEF StepInv, StepsOf

\* Only a run that is queued or running is claimed from, and only the abandoned
\* attempt of a cancelling one is closed.
LEMMA ClaimRuns ==
  ASSUME NEW t, NEW w, ClaimNextStep(w, t)
  PROVE  \E reap, fence, block, grant :
           /\ reap \in SUBSET Abandoned(t)
           /\ ClaimTables(reap, fence, block, grant, t)
           /\ \A q \in block \cup grant : runStatus[q[1][1]] \in {"queued", "running"}
           /\ \A q \in block : q[1] \in Step /\ stepStatus[q[1]] = "running" /\ grant = {}
<1> DEFINE Tables(reap) == \E fence, block, grant :
             /\ ClaimTables(reap, fence, block, grant, t)
             /\ \A q \in block \cup grant : runStatus[q[1][1]] \in {"queued", "running"}
             /\ \A q \in block : q[1] \in Step /\ stepStatus[q[1]] = "running" /\ grant = {}
<1>1. \A s \in FirstOf(Claimable(w, t)) : s \in Step /\ runStatus[s[1]] \in {"queued", "running"}
  BY DEF FirstOf, Claimable
<1>2. PICK reap \in IF Abandoned(t) = {} THEN {{}} ELSE {{q} : q \in Abandoned(t)} :
        \/ ClaimTables(reap, {}, {}, {}, t)
        \/ \E s \in FirstOf(Claimable(w, t)), n \in Number :
             \/ ClaimTables(reap, {}, {}, {<<s, n>>}, t)
             \/ stepStatus[s] = "running" /\ ClaimTables(reap, {}, {<<s, n>>}, {}, t)
             \/ ClaimTables(reap, {<<s, stepAttempt[s]>>}, {}, {<<s, n>>}, t)
  BY DEF ClaimNextStep
<1>3. reap \in SUBSET Abandoned(t)
  OBVIOUS
<1>4. ClaimTables(reap, {}, {}, {}, t) => Tables(reap)
  OBVIOUS
<1>5. ASSUME NEW s \in FirstOf(Claimable(w, t)), NEW n \in Number,
             \/ ClaimTables(reap, {}, {}, {<<s, n>>}, t)
             \/ stepStatus[s] = "running" /\ ClaimTables(reap, {}, {<<s, n>>}, {}, t)
             \/ ClaimTables(reap, {<<s, stepAttempt[s]>>}, {}, {<<s, n>>}, t)
      PROVE  Tables(reap)
  <2>1. \A q \in {<<s, n>>} : q[1] = s /\ q[1] \in Step /\ runStatus[q[1][1]] \in {"queued", "running"}
    BY <1>1
  <2>2. CASE ClaimTables(reap, {}, {}, {<<s, n>>}, t)
    BY <2>1, <2>2
  <2>3. CASE stepStatus[s] = "running" /\ ClaimTables(reap, {}, {<<s, n>>}, {}, t)
    BY <2>1, <2>3
  <2>4. CASE ClaimTables(reap, {<<s, stepAttempt[s]>>}, {}, {<<s, n>>}, t)
    BY <2>1, <2>4
  <2> QED BY <1>5, <2>2, <2>3, <2>4
<1>6. Tables(reap)
  <2> HIDE DEF Tables
  <2> QED BY <1>2, <1>4, <1>5
<1> QED BY <1>3, <1>6

\* A transaction that leaves the status and the delivery of a run alone.
LEMMA RunKept ==
  ASSUME RunInv, [Next]_vars, NEW r \in Run, runStatus'[r] = runStatus[r],
         r \in delivered' <=> r \in delivered
  PROVE  RunStep(r)
<1>1. ASSUME runStatus[r] \in Quiet PROVE Idle(r)'
  <2>1. Idle(r)
    BY <1>1 DEF RunInv, QuietRuns
  <2> QED BY <1>1, <2>1, IdleKept DEF RunInv, Quiet
<1>2. ASSUME runStatus[r] = "waiting_for_user" PROVE Asked(r)'
  <2>1. PICK p \in StepsOf(r) : stepStatus[p] = "waiting_for_user"
    BY <1>2 DEF RunInv, AskedRuns, Asked
  <2>2. p \in Step /\ p[1] = r
    BY DEF StepsOf
  <2>3. Kept(p)
    BY <2>1, <2>2, StepShapes DEF RunInv, Ended, Granted
  <2>4. ~Dropped(p)
    BY <1>2, <2>2 DEF RunInv, QuietRuns, Quiet, Dropped
  <2>5. stepStatus'[p] = "waiting_for_user"
    BY <2>1, <2>3, <2>4 DEF Kept
  <2> QED BY <2>5 DEF Asked, StepsOf
<1> QED BY <1>1, <1>2 DEF RunStep, RunInv, NeverExpired

\* A claim transaction starts, cancels or stops runs.
LEMMA ClaimMoves ==
  ASSUME RunInv, NEW t \in ReadClock, NEW w \in Filters, ClaimNextStep(w, t), NEW r \in Run
  PROVE  RunStep(r)
<1>1. PICK reap, fence, block, grant :
        /\ reap \in SUBSET Abandoned(t)
        /\ ClaimTables(reap, fence, block, grant, t)
        /\ \A q \in block \cup grant : runStatus[q[1][1]] \in {"queued", "running"}
        /\ \A q \in block : q[1] \in Step /\ stepStatus[q[1]] = "running" /\ grant = {}
  BY ClaimRuns
<1>next. [Next]_vars
  BY DEF Next
<1>d. delivered' = delivered
  BY <1>1 DEF ClaimTables
<1>2. ASSUME NEW p \in reap, p[1][1] = r PROVE RunStep(r)
  <2>1. runStatus[r] = "cancelling" /\ runStatus'[r] = "cancelled"
    BY <1>1, <1>2 DEF Abandoned, ClaimTables
  <2>2. ASSUME NEW q \in Step, q[1] = r PROVE stepStatus'[q] # "running"
    <3>1. q \notin {g[1] : g \in grant}
      BY <1>1, <2>1, <2>2
    <3>2. r \in {g[1][1] : g \in reap}
      BY <1>2
    <3> QED BY <1>1, <2>2, <3>1, <3>2 DEF ClaimTables
  <2>3. Idle(r)'
    BY <2>2 DEF Idle, StepsOf
  <2> QED BY <1>d, <2>1, <2>3 DEF RunStep, Terminal, Successes
<1>3. ASSUME \A p \in reap : p[1][1] # r PROVE RunStep(r)
  <2>1. \/ runStatus'[r] = runStatus[r]
        \/ runStatus[r] = "queued" /\ runStatus'[r] = "running"
        \/ /\ runStatus[r] = "running" /\ runStatus'[r] = "waiting_for_user"
           /\ \E q \in block : q[1][1] = r
    BY <1>1, <1>3 DEF ClaimTables
  <2>2. CASE runStatus'[r] = runStatus[r]
    BY <1>next, <1>d, <2>2, RunKept
  <2>3. CASE runStatus[r] = "queued" /\ runStatus'[r] = "running"
    BY <1>d, <2>3 DEF RunStep, Terminal, Successes, Quiet
  <2>4. ASSUME runStatus[r] = "running", runStatus'[r] = "waiting_for_user",
               NEW q \in block, q[1][1] = r
        PROVE  RunStep(r)
    <3>1. PICK s \in Step : s = q[1] /\ s[1] = r /\ stepStatus[s] = "running" /\ grant = {}
      BY <1>1, <2>4
    <3>2. stepStatus'[s] = "waiting_for_user"
      BY <1>1, <3>1 DEF ClaimTables
    <3>3. ASSUME NEW p \in StepsOf(r) PROVE stepStatus'[p] # "running"
      <4>1. p \in Step /\ p[1] = r
        BY DEF StepsOf
      <4>2. CASE p # s
        <5>1. stepStatus[p] # "running"
          BY <3>1, <4>1, <4>2, OneInFlight DEF RunInv, StepInv
        <5> QED BY <1>1, <3>1, <4>1, <5>1 DEF ClaimTables
      <4> QED BY <3>2, <4>2
    <3>4. Idle(r)' /\ Asked(r)'
      BY <3>1, <3>2, <3>3 DEF Idle, Asked, StepsOf
    <3> QED BY <1>d, <2>4, <3>4 DEF RunStep, Terminal, Successes
  <2> QED BY <2>1, <2>2, <2>3, <2>4
<1> QED BY <1>2, <1>3

\* What the holder of a claim does to its run.
LEMMA HolderMoves ==
  ASSUME RunInv, NEW t \in ReadClock, NEW s \in Step, NEW n \in Number, ClaimAction(s, n, t),
         NEW r \in Run
  PROVE  RunStep(r)
<1>next. [Next]_vars
  BY DEF Next
<1>t. TypeOK /\ StepInv
  BY DEF RunInv, StepInv
<1>kept. ASSUME runStatus' = runStatus, delivered' = delivered PROVE RunStep(r)
  BY <1>next, <1>kept, RunKept
<1>other. ASSUME r # s[1], \A q \in Run : q # s[1] => runStatus'[q] = runStatus[q],
                 delivered' \ {s[1]} = delivered \ {s[1]}
          PROVE  RunStep(r)
  <2>1. runStatus'[r] = runStatus[r] /\ (r \in delivered' <=> r \in delivered)
    BY <1>other
  <2> QED BY <1>next, <2>1, RunKept
<1>active. ASSUME Active(s, n, t)
           PROVE  /\ stepStatus[s] = "running" /\ stepAttempt[s] = n
                  /\ attempt[s][n] = "running" /\ PriorDone(s)
                  /\ \A p \in StepsOf(s[1]) : p # s => stepStatus[p] # "running"
                  /\ s[1] \in Run /\ runStatus[s[1]] \notin Quiet
  <2>1. /\ stepStatus[s] = "running" /\ attempt[s][n] = "running" /\ stepAttempt[s] = n
    BY <1>active DEF Active
  <2>2. \A p \in StepsOf(s[1]) : p # s => stepStatus[p] # "running"
    BY <1>t, <2>1, OthersIdle
  <2>3. s[1] \in Run
    BY DEF Step
  <2>4. ~Idle(s[1])
    BY <2>1 DEF Idle, StepsOf
  <2>5. runStatus[s[1]] \notin Quiet
    BY <2>3, <2>4 DEF RunInv, QuietRuns
  <2>6. PriorDone(s)
    BY <1>t, <2>1 DEF StepInv, StepsInOrder
  <2> QED BY <2>1, <2>2, <2>3, <2>5, <2>6
<1>1. CASE HeartbeatAttempt(s, n, t)
  BY <1>1, <1>kept DEF HeartbeatAttempt
<1>2. CASE CompleteAttempt(s, n, t)
  BY <1>2, <1>kept DEF CompleteAttempt
<1>3. CASE SkipAttempt(s, n, t)
  BY <1>3, <1>kept DEF SkipAttempt
<1>4. CASE FailAttempt(s, n, t)
  BY <1>4, <1>kept DEF FailAttempt
<1>5. CASE CancelClaim(s, n, t)
  <2>1. delivered' = delivered /\ \A q \in Run : q # s[1] => runStatus'[q] = runStatus[q]
    BY <1>t, <1>5 DEF CancelClaim, TypeOK
  <2>2. CASE r # s[1]
    BY <1>other, <2>1, <2>2
  <2>3. CASE r = s[1]
    <3>1. \A p \in StepsOf(r) : stepStatus'[p] # "running"
      BY <1>t, <1>5, <1>active, <2>3 DEF CancelClaim, MarkSteps, TypeOK, StepsOf
    <3>2. Idle(r)'
      BY <3>1 DEF Idle, StepsOf
    <3>3. \/ runStatus'[r] = runStatus[r]
          \/ runStatus[r] \in {"running", "cancelling"} /\ runStatus'[r] = "cancelled"
      BY <1>t, <1>5, <2>3 DEF CancelClaim, TypeOK
    <3>4. runStatus[r] \notin Quiet
      BY <1>5, <1>active, <2>3 DEF CancelClaim
    <3> QED BY <2>1, <3>2, <3>3, <3>4 DEF RunStep, Terminal, Successes, Quiet, RunInv, NeverExpired
  <2> QED BY <2>2, <2>3
<1>6. CASE BlockUnknownOutcome(s, n, t)
  <2>1. delivered' = delivered /\ \A q \in Run : q # s[1] => runStatus'[q] = runStatus[q]
    BY <1>t, <1>6 DEF BlockUnknownOutcome, TypeOK
  <2>2. CASE r # s[1]
    BY <1>other, <2>1, <2>2
  <2>3. CASE r = s[1]
    <3>1. \/ runStatus'[r] = runStatus[r]
          \/ runStatus[r] = "running" /\ runStatus'[r] = "waiting_for_user"
      BY <1>t, <1>6, <2>3 DEF BlockUnknownOutcome, TypeOK
    <3>2. CASE runStatus'[r] = runStatus[r]
      BY <1>next, <2>1, <3>2, RunKept
    <3>3. CASE runStatus[r] = "running" /\ runStatus'[r] = "waiting_for_user"
      <4>1. \A p \in StepsOf(r) : stepStatus'[p] # "running"
        BY <1>t, <1>6, <1>active, <2>3 DEF BlockUnknownOutcome, TypeOK, StepsOf
      <4>2. s \in StepsOf(r) /\ stepStatus'[s] = "waiting_for_user"
        BY <1>t, <1>6, <2>3 DEF BlockUnknownOutcome, TypeOK, StepsOf
      <4>3. Idle(r)' /\ Asked(r)'
        BY <4>1, <4>2 DEF Idle, Asked, StepsOf
      <4> QED BY <2>1, <3>3, <4>3 DEF RunStep, Terminal, Successes
    <3> QED BY <3>1, <3>2, <3>3
  <2> QED BY <2>2, <2>3
<1>7. ASSUME NEW target \in {"succeeded", "partial"}, PublishDelivery(s, n, t, target)
      PROVE  RunStep(r)
  <2>1. /\ delivered' = delivered \cup {s[1]}
        /\ \A q \in Run : q # s[1] => runStatus'[q] = runStatus[q]
    BY <1>t, <1>7 DEF PublishDelivery, TypeOK
  <2>2. CASE r # s[1]
    BY <1>other, <2>1, <2>2
  <2>3. CASE r = s[1]
    <3>1. runStatus[r] = "running" /\ runStatus'[r] = target
      BY <1>t, <1>7, <2>3 DEF PublishDelivery, Allowed, TypeOK
    <3>2. \A p \in StepsOf(r) : stepStatus'[p] # "running"
      BY <1>t, <1>7, <1>active, <2>3 DEF PublishDelivery, TypeOK, StepsOf
    <3>3. ASSUME NEW p \in StepsOf(r) PROVE stepStatus'[p] = "succeeded" \/ Done(p)'
      <4>1. p \in Step /\ p[1] = r /\ p = <<p[1], p[2]>> /\ s = <<s[1], s[2]>>
            /\ p[2] \in 1..Steps /\ s[2] = Steps
        BY <1>7 DEF StepsOf, Step, PublishDelivery
      <4>2. CASE p = s
        BY <1>t, <1>7, <4>2 DEF PublishDelivery, TypeOK
      <4>3. CASE p # s
        <5>1. p[2] < s[2]
          BY <2>3, <4>1, <4>3, RunLedgerAssumption
        <5>2. Done(p)
          BY <1>7, <1>active, <2>3, <4>1, <5>1 DEF PriorDone, PublishDelivery
        <5>3. stepStatus'[p] = stepStatus[p]
          BY <1>t, <1>7, <4>1, <4>3 DEF PublishDelivery, TypeOK
        <5> QED BY <5>2, <5>3 DEF Done
      <4> QED BY <4>2, <4>3
    <3>4. Idle(r)' /\ AllDone(r)'
      BY <3>2, <3>3 DEF Idle, AllDone, Done, StepsOf
    <3> QED BY <2>1, <2>3, <3>1, <3>4 DEF RunStep, Terminal, Successes
  <2> QED BY <2>2, <2>3
<1>8. CASE AuthorizeCall(s, n, t)
  BY <1>8, <1>kept DEF AuthorizeCall
<1>9. CASE DenyCall(s, n, t)
  <2>1. delivered' = delivered /\ \A q \in Run : q # s[1] => runStatus'[q] = runStatus[q]
    BY <1>t, <1>9 DEF DenyCall, TypeOK
  <2>2. CASE r # s[1]
    BY <1>other, <2>1, <2>2
  <2>3. CASE r = s[1]
    <3>1. runStatus[r] = "running" /\ runStatus'[r] = "failed"
      BY <1>t, <1>9, <2>3 DEF DenyCall, MayCall, TypeOK
    <3> QED BY <2>1, <3>1 DEF RunStep, Terminal, Successes, Quiet
  <2> QED BY <2>2, <2>3
<1>10. ASSUME NEW u \in 0..MaxUsage, CompleteExternal(s, n, t, u) PROVE RunStep(r)
  <2>1. delivered' = delivered /\ \A q \in Run : q # s[1] => runStatus'[q] = runStatus[q]
    BY <1>t, <1>10 DEF CompleteExternal, TypeOK
  <2>2. CASE r # s[1]
    BY <1>other, <2>1, <2>2
  <2>3. CASE r = s[1]
    <3>1. runStatus'[r] = runStatus[r] \/ runStatus'[r] = "failed"
      BY <1>t, <1>10, <2>3 DEF CompleteExternal, TypeOK
    <3>2. runStatus[r] \notin Quiet
      BY <1>10, <1>active, <2>3 DEF CompleteExternal
    <3>3. CASE runStatus'[r] = runStatus[r]
      BY <1>next, <2>1, <3>3, RunKept
    <3>4. CASE runStatus'[r] # runStatus[r]
      BY <2>1, <3>1, <3>2, <3>4 DEF RunStep, Terminal, Successes, Quiet, RunInv, NeverExpired
    <3> QED BY <3>3, <3>4
  <2> QED BY <2>2, <2>3
<1>11. ASSUME NEW u \in 0..MaxUsage, RecordLocalUsage(s, n, t, u) PROVE RunStep(r)
  BY <1>11, <1>kept DEF RecordLocalUsage
<1> QED BY <1>1, <1>2, <1>3, <1>4, <1>5, <1>6, <1>7, <1>8, <1>9, <1>10, <1>11 DEF ClaimAction

\* What a caller without a claim does to a run.
LEMMA CallerMoves ==
  ASSUME RunInv, NEW q \in Run, RunAction(q), NEW r \in Run
  PROVE  RunStep(r)
<1>next. [Next]_vars
  BY DEF Next
<1>t. TypeOK /\ StepInv
  BY DEF RunInv, StepInv
<1>other. ASSUME r # q, \A o \in Run : o # q => runStatus'[o] = runStatus[o],
                 delivered' \ {q} = delivered \ {q}
          PROVE  RunStep(r)
  <2>1. runStatus'[r] = runStatus[r] /\ (r \in delivered' <=> r \in delivered)
    BY <1>other
  <2> QED BY <1>next, <2>1, RunKept
<1>1. CASE SubmitTask(q)
  <2>1. delivered' = delivered /\ \A o \in Run : o # q => runStatus'[o] = runStatus[o]
    BY <1>t, <1>1 DEF SubmitTask, TypeOK
  <2>2. CASE r # q
    BY <1>other, <2>1, <2>2
  <2>3. CASE r = q
    <3>1. runStatus[r] = "absent" /\ runStatus'[r] = "accepted"
      BY <1>t, <1>1, <2>3 DEF SubmitTask, TypeOK
    <3> QED BY <2>1, <3>1 DEF RunStep, Terminal, Successes, Quiet
  <2> QED BY <2>2, <2>3
<1>2. ASSUME NEW target \in {"queued", "running", "failed"}, TransitionRun(q, target)
      PROVE  RunStep(r)
  <2>1. delivered' = delivered /\ \A o \in Run : o # q => runStatus'[o] = runStatus[o]
    BY <1>t, <1>2 DEF TransitionRun, TypeOK
  <2>2. CASE r # q
    BY <1>other, <2>1, <2>2
  <2>3. CASE r = q
    <3>1. /\ target \in Allowed(runStatus[r]) /\ runStatus'[r] = target
      BY <1>t, <1>2, <2>3 DEF TransitionRun, TypeOK
    <3>2. runStatus[r] \notin Terminal
      BY <3>1 DEF Allowed, Terminal
    <3>3. runStatus[r] = "cancelling" => target = "failed"
      BY <3>1 DEF Allowed
    <3> QED BY <2>1, <3>1, <3>2, <3>3 DEF RunStep, Successes, Quiet
  <2> QED BY <2>2, <2>3
<1>3. ASSUME RequestCancel(q) \/ FinalizeCancellation(q) PROVE RunStep(r)
  <2>1. delivered' = delivered /\ \A o \in Run : o # q => runStatus'[o] = runStatus[o]
    BY <1>t, <1>3 DEF RequestCancel, FinalizeCancellation, TypeOK
  <2>2. CASE r # q
    BY <1>other, <2>1, <2>2
  <2>3. CASE r = q
    <3>1. /\ runStatus[r] \notin Terminal
          /\ \/ runStatus'[r] = "cancelling"
             \/ /\ runStatus'[r] = "cancelled" /\ ~HasInFlight(r)
                /\ stepStatus' = MarkSteps(r, {"pending", "waiting_for_user"}, "cancelled")
      BY <1>t, <1>3, <2>3 DEF RequestCancel, FinalizeCancellation, Terminal, TypeOK
    <3>2. CASE runStatus'[r] = "cancelling"
      BY <2>1, <3>1, <3>2 DEF RunStep, Successes, Quiet
    <3>3. CASE /\ runStatus'[r] = "cancelled" /\ ~HasInFlight(r)
               /\ stepStatus' = MarkSteps(r, {"pending", "waiting_for_user"}, "cancelled")
      <4>1. Idle(r)
        BY <1>t, <3>3, IdleRun DEF StepInv
      <4>2. Idle(r)'
        BY <3>3, <4>1 DEF Idle, StepsOf, MarkSteps
      <4> QED BY <2>1, <3>1, <3>3, <4>2 DEF RunStep, Successes
    <3> QED BY <3>1, <3>2, <3>3
  <2> QED BY <2>2, <2>3
<1>4. CASE StopToolBudget(q)
  BY <1>next, <1>4, RunKept DEF StopToolBudget
<1>5. ASSUME NEW target \in {"succeeded", "partial"}, PublishDirect(q, target)
      PROVE  RunStep(r)
  <2>1. /\ delivered' = delivered \cup {q}
        /\ \A o \in Run : o # q => runStatus'[o] = runStatus[o]
    BY <1>t, <1>5 DEF PublishDirect, TypeOK
  <2>2. CASE r # q
    BY <1>other, <2>1, <2>2
  <2>3. CASE r = q
    <3>1. runStatus[r] = "running" /\ runStatus'[r] = target
      BY <1>t, <1>5, <2>3 DEF PublishDirect, Allowed, TypeOK
    <3>2. Untouched(r) /\ Untouched(r)'
      BY <1>5, <2>3 DEF PublishDirect, Untouched, leaseVars, StepsOf
    <3>3. Idle(r)
      BY <1>t, <3>2 DEF StepInv, InFlightAgreement, Untouched, Idle, StepsOf, TypeOK
    <3>4. Idle(r)'
      BY <1>5, <3>3 DEF PublishDirect, Idle, StepsOf
    <3> QED BY <2>1, <2>3, <3>1, <3>2, <3>4 DEF RunStep, Terminal, Successes
  <2> QED BY <2>2, <2>3
<1> QED BY <1>1, <1>2, <1>3, <1>4, <1>5 DEF RunAction

\* What the user's decisions and the worker's requeue do to a run.
LEMMA DecisionMoves ==
  ASSUME RunInv, NEW s \in Step, StepAction(s), NEW r \in Run
  PROVE  RunStep(r)
<1>next. [Next]_vars
  BY DEF Next
<1>t. TypeOK
  BY DEF RunInv, StepInv
<1>1. CASE RequeueFailedStep(s)
  BY <1>next, <1>1, RunKept DEF RequeueFailedStep
<1>2. ASSUME NEW n \in Number, ResumeRetry(s, n) \/ ResumeFail(s, n) PROVE RunStep(r)
  <2>1. /\ delivered' = delivered
        /\ \/ runStatus'[r] = runStatus[r]
           \/ runStatus[r] = "waiting_for_user" /\ runStatus'[r] \in {"queued", "failed"}
    BY <1>t, <1>2 DEF ResumeRetry, ResumeFail, TypeOK
  <2>2. CASE runStatus'[r] = runStatus[r]
    BY <1>next, <2>1, <2>2, RunKept
  <2>3. CASE runStatus[r] = "waiting_for_user" /\ runStatus'[r] \in {"queued", "failed"}
    BY <2>1, <2>3 DEF RunStep, Terminal, Successes, Quiet
  <2> QED BY <2>1, <2>2, <2>3
<1> QED BY <1>1, <1>2 DEF StepAction

\* Every transaction moves a run only as RunStep says.
LEMMA RunMoves ==
  ASSUME RunInv, [Next]_vars, NEW r \in Run
  PROVE  RunStep(r)
<1>1. CASE Tick
  BY <1>1, RunKept DEF Tick
<1>2. CASE UNCHANGED vars
  BY <1>2, RunKept DEF vars
<1> QED BY <1>1, <1>2, CallerMoves, DecisionMoves, ClaimMoves, HolderMoves DEF Next

--------------------------------------------------------------------------------
\* A step of a run that no worker may claim from gets no attempt.
LEMMA NoNewAttempt ==
  ASSUME StepInv, [Next]_vars, NEW s \in Step, NEW n \in Number, attempt[s][n] = "none",
         runStatus[s[1]] \notin {"queued", "running"}
  PROVE  attempt'[s][n] = "none"
<1>1. Kept(s) \/ Ended(s)
  BY StepShapes DEF Granted
<1>2. CASE Kept(s)
  BY <1>2 DEF Kept
<1>3. CASE Ended(s)
  <2>1. n # stepAttempt[s]
    BY <1>3 DEF Ended, StepInv, InFlightAgreement
  <2> QED BY <1>3, <2>1 DEF Ended, StepInv, TypeOK
<1> QED BY <1>1, <1>2, <1>3

\* Every transaction keeps what is over quiet, what is delivered complete.
LEMMA RunInvariant == RunInv /\ [Next]_vars => RunInv'
<1> SUFFICES ASSUME RunInv, [Next]_vars PROVE RunInv'
  OBVIOUS
<1>1. StepInv /\ StepInv'
  BY StepInvariant DEF RunInv
<1>2. \A r \in Run : RunStep(r)
  BY RunMoves
<1>3. QuietRuns' /\ AskedRuns'
  BY <1>2 DEF QuietRuns, AskedRuns, RunStep, Quiet
<1>6. WaitingSteps'
  <2> SUFFICES ASSUME NEW p \in Step, stepStatus'[p] = "waiting_for_user"
               PROVE  UnknownOutcome(p, stepAttempt[p])'
    BY DEF WaitingSteps
  <2>1. CASE Kept(p)
    <3>1. stepStatus[p] = "waiting_for_user" /\ effect'[p] = effect[p]
          /\ stepAttempt'[p] = stepAttempt[p]
      BY <2>1 DEF Kept, Calls
    <3> QED BY <3>1 DEF RunInv, WaitingSteps, UnknownOutcome
  <2>2. CASE Ended(p)
    BY <2>2 DEF Ended, UnknownOutcome
  <2>3. ~Granted(p)
    BY DEF Granted
  <2> QED BY <1>1, <2>1, <2>2, <2>3, StepShapes
<1>4. DeliveredIsComplete'
  <2> SUFFICES ASSUME NEW r \in Run
               PROVE  /\ r \in delivered' <=> runStatus'[r] \in Successes
                      /\ r \in delivered' => AllDone(r)' \/ Untouched(r)'
    BY DEF DeliveredIsComplete, Successes, AllDone, Untouched
  <2>0. /\ r \in delivered <=> runStatus[r] \in Successes
        /\ r \in delivered => AllDone(r) \/ Untouched(r)
    BY DEF RunInv, DeliveredIsComplete, Successes, AllDone, Untouched
  <2>s. RunStep(r)
    BY <1>2
  <2>1. r \in delivered' <=> runStatus'[r] \in Successes
    BY <2>0, <2>s DEF RunStep, Successes, Terminal
  <2>2. ASSUME r \in delivered, AllDone(r) PROVE AllDone(r)'
    <3> SUFFICES ASSUME NEW p \in StepsOf(r) PROVE Done(p)'
      BY DEF AllDone, StepsOf
    <3>1. Kept(p) \/ Ended(p) \/ Granted(p)
      BY <1>1, StepShapes DEF StepsOf
    <3> QED BY <2>2, <3>1 DEF Kept, Ended, Granted, Done, AllDone
  <2>3. ASSUME r \in delivered, Untouched(r) PROVE Untouched(r)'
    <3>1. runStatus[r] \notin {"queued", "running"}
      BY <2>0, <2>3 DEF Successes
    <3> QED BY <1>1, <2>3, <3>1, NoNewAttempt DEF Untouched, StepsOf
  <2>4. ASSUME r \in delivered', r \notin delivered PROVE AllDone(r)' \/ Untouched(r)'
    BY <2>s, <2>4 DEF RunStep
  <2> QED BY <2>0, <2>1, <2>2, <2>3, <2>4
<1>5. NeverExpired'
  BY <1>2 DEF NeverExpired, RunStep
<1> QED BY <1>1, <1>3, <1>4, <1>5, <1>6 DEF RunInv

\* The invariant of the runs holds in every reachable state.
THEOREM RunsCorrect == Spec => []RunInv
<1>1. Init => RunInv
  <2> SUFFICES ASSUME Init PROVE RunInv
    OBVIOUS
  <2>1. StepInv
    BY StepInit
  <2>2. /\ \A r \in Run : runStatus[r] = "absent" /\ r \notin delivered
        /\ \A s \in Step : stepStatus[s] = "pending"
    BY DEF Init
  <2> QED BY <2>1, <2>2 DEF RunInv, QuietRuns, AskedRuns, WaitingSteps, DeliveredIsComplete,
             NeverExpired, Quiet
<1> QED BY <1>1, RunInvariant, PTL DEF Spec

\* Nothing is in flight in a run that was delivered or cancelled: no worker that
\* passes _require_active_attempt can be at work in it.
THEOREM QuietCorrect == Spec => []QuietWhenOver
<1>1. RunInv => QuietWhenOver
  BY IdleRun DEF RunInv, StepInv, QuietRuns, QuietWhenOver, Quiet
<1> QED BY <1>1, RunsCorrect, PTL

\* The question to the user can always be answered: resume_run finds the waiting
\* step and, as its latest attempt, the paid call of unknown outcome.
THEOREM ResumeCorrect == Spec => []WaitingRunIsResumable
<1>1. RunInv => WaitingRunIsResumable
  <2> SUFFICES ASSUME RunInv, NEW r \in Run, runStatus[r] = "waiting_for_user"
               PROVE  \E s \in StepsOf(r), n \in Number : Resumable(s, n)
    BY DEF WaitingRunIsResumable
  <2>1. PICK s \in StepsOf(r) : stepStatus[s] = "waiting_for_user"
    BY DEF RunInv, AskedRuns, Asked
  <2>2. s \in Step /\ stepAttempt[s] \in Number
    BY DEF StepsOf, RunInv, StepInv, TypeOK
  <2>3. UnknownOutcome(s, stepAttempt[s])
    BY <2>1, <2>2 DEF RunInv, WaitingSteps
  <2>4. LatestAttempt(s, stepAttempt[s])
    BY <2>2, <2>3 DEF RunInv, StepInv, AttemptRows, LatestAttempt, UnknownOutcome
  <2> QED BY <2>1, <2>2, <2>3, <2>4 DEF Resumable
<1> QED BY <1>1, RunsCorrect, PTL

\* A run is delivered exactly when it succeeded or is partial, and then all its
\* steps are done or none was ever attempted.
THEOREM DeliveryCorrect == Spec => []DeliveredIsComplete
BY RunsCorrect, PTL DEF RunInv

\* No transaction changes the status of a run that ended, or its delivery, although
\* six of them write runs.status without asking the transition table.
THEOREM TerminalCorrect == Spec => TerminalIsFinal
<1>1. RunInv /\ [Next]_vars =>
        [\A r \in Run : runStatus[r] \in Terminal =>
           runStatus'[r] = runStatus[r] /\ (r \in delivered' <=> r \in delivered)]_vars
  BY RunMoves DEF RunStep
<1> QED BY <1>1, RunsCorrect, PTL DEF Spec, TerminalIsFinal

\* After a cancel request no step gets an attempt and no attempt starts a call.
THEOREM CancelCorrect == Spec => NoCallAfterCancel
<1>1. RunInv /\ [Next]_vars =>
        [\A r \in Run : runStatus[r] \in {"cancelling", "cancelled"} =>
           /\ runStatus'[r] \in {"cancelling", "cancelled", "failed"}
           /\ \A s \in StepsOf(r), n \in Number :
                /\ attempt[s][n] = "none" => attempt'[s][n] = "none"
                /\ effect[s][n] = "not_started" => effect'[s][n] = "not_started"]_vars
  <2> SUFFICES ASSUME RunInv, [Next]_vars, NEW r \in Run,
                      runStatus[r] \in {"cancelling", "cancelled"}
               PROVE  /\ runStatus'[r] \in {"cancelling", "cancelled", "failed"}
                      /\ \A s \in StepsOf(r), n \in Number :
                           /\ attempt[s][n] = "none" => attempt'[s][n] = "none"
                           /\ effect[s][n] = "not_started" => effect'[s][n] = "not_started"
    OBVIOUS
  <2>1. StepInv
    BY DEF RunInv
  <2>2. runStatus'[r] \in {"cancelling", "cancelled", "failed"}
    BY RunMoves DEF RunStep, Terminal
  <2>3. ASSUME NEW s \in StepsOf(r), NEW n \in Number, effect[s][n] = "not_started"
        PROVE  effect'[s][n] = "not_started"
    <3>1. s \in Step /\ s[1] = r
      BY DEF StepsOf
    <3>2. Kept(s) \/ Ended(s)
      BY <2>1, <3>1, StepShapes DEF Granted
    <3>3. CASE Kept(s)
      BY <2>3, <3>1, <3>3 DEF Kept, Calls
    <3>4. CASE Ended(s)
      BY <2>1, <2>3, <3>1, <3>4 DEF Ended, StepInv, TypeOK
    <3> QED BY <3>2, <3>3, <3>4
  <2> QED BY <2>1, <2>2, <2>3, NoNewAttempt DEF StepsOf
<1> QED BY <1>1, RunsCorrect, PTL DEF Spec, NoCallAfterCancel

--------------------------------------------------------------------------------
(* The ledger implements StepLife for every value of the constants.            *)

\* The user decides only about calls that were made.
DecidedCalls == \A p \in retried : effect[p[1]][p[2]] # "not_started"

\* What one transaction can do to the decisions about a step: nothing, or one
\* more, about a waiting step whose call is unknown.
NoDecision(p) == \A n \in Number : <<p, n>> \in retried' <=> <<p, n>> \in retried
UserDecides(p) ==
  \E n \in Number :
    /\ Resumable(p, n)
    /\ effect' = effect /\ stepStatus'[p] = "pending"
    /\ \A m \in Number : <<p, m>> \in retried' <=> (<<p, m>> \in retried \/ m = n)

\* Only resume_run records a decision to retry.
LEMMA RetriedOnlyByUser ==
  ASSUME TypeOK, [Next]_vars
  PROVE  \/ retried' = retried
         \/ \E s \in Step, n \in Number : ResumeRetry(s, n)
<1> USE DEF leaseVars, tokenVars, budgetVars
<1>1. ASSUME NEW r \in Run, RunAction(r) PROVE retried' = retried
  BY <1>1 DEF RunAction, SubmitTask, TransitionRun, RequestCancel, FinalizeCancellation,
     StopToolBudget, PublishDirect
<1>2. ASSUME NEW s \in Step, StepAction(s)
      PROVE  retried' = retried \/ \E n \in Number : ResumeRetry(s, n)
  BY <1>2 DEF StepAction, RequeueFailedStep, ResumeFail
<1>3. ASSUME NEW t \in ReadClock, NEW w \in Filters, ClaimNextStep(w, t) PROVE retried' = retried
  BY <1>3, ClaimFrame DEF ClaimTables
<1>4. ASSUME NEW t \in ReadClock, NEW s \in Step, NEW n \in Number, ClaimAction(s, n, t)
      PROVE  retried' = retried
  BY <1>4 DEF ClaimAction, HeartbeatAttempt, CompleteAttempt, SkipAttempt, FailAttempt, CancelClaim,
     BlockUnknownOutcome, PublishDelivery, AuthorizeCall, DenyCall, CompleteExternal, RecordLocalUsage
<1>5. CASE Tick \/ UNCHANGED vars
  BY <1>5 DEF Tick, vars
<1> QED BY <1>1, <1>2, <1>3, <1>4, <1>5 DEF Next

LEMMA Decisions ==
  ASSUME TypeOK, [Next]_vars, NEW p \in Step
  PROVE  NoDecision(p) \/ UserDecides(p)
<1>1. CASE retried' = retried
  BY <1>1 DEF NoDecision
<1>2. ASSUME NEW s \in Step, NEW n \in Number, ResumeRetry(s, n)
      PROVE  NoDecision(p) \/ UserDecides(p)
  <2>1. retried' = retried \cup {<<s, n>>} /\ effect' = effect /\ Resumable(s, n)
    BY <1>2 DEF ResumeRetry
  <2>2. stepStatus'[s] = "pending"
    BY <1>2 DEF ResumeRetry, TypeOK
  <2>3. CASE p = s
    <3>1. \A m \in Number : <<p, m>> \in retried' <=> (<<p, m>> \in retried \/ m = n)
      BY <2>1, <2>3
    <3> QED BY <2>1, <2>2, <2>3, <3>1 DEF UserDecides
  <2>4. CASE p # s
    BY <2>1, <2>4 DEF NoDecision
  <2> QED BY <2>3, <2>4
<1> QED BY <1>1, <1>2, RetriedOnlyByUser

\* A decision is about a call that was made, and no call is unmade.
LEMMA DecidedStep ==
  ASSUME StepInv, DecidedCalls, [Next]_vars
  PROVE  DecidedCalls'
<1>1. retried' \subseteq Step \X Number
  BY TypeStep DEF StepInv, TypeOK
<1> SUFFICES ASSUME NEW p \in Step, NEW n \in Number, <<p, n>> \in retried'
             PROVE  effect'[p][n] # "not_started"
  BY <1>1 DEF DecidedCalls
<1>2. effect[p][n] # "not_started"
  <2>1. NoDecision(p) \/ UserDecides(p)
    BY Decisions DEF StepInv
  <2>2. CASE <<p, n>> \in retried
    BY <2>2 DEF DecidedCalls
  <2>3. CASE <<p, n>> \notin retried
    BY <2>1, <2>3 DEF NoDecision, UserDecides, Resumable, UnknownOutcome
  <2> QED BY <2>2, <2>3
<1>3. TypeOK /\ (Kept(p) \/ Ended(p) \/ Granted(p))
  BY StepShapes DEF StepInv
<1>4. DOMAIN effect[p] = Number
  BY <1>3 DEF TypeOK
<1>5. \/ effect'[p] = effect[p]
      \/ effect'[p] = [effect[p] EXCEPT ![stepAttempt[p]] = "request_started"]
      \/ effect'[p] = [effect[p] EXCEPT ![stepAttempt[p]] = "response_committed"]
  BY <1>3 DEF Kept, Calls, Ended, Granted
<1> QED BY <1>2, <1>4, <1>5

\* The grants, the calls and the holder of one step, in the ledger's tables.
LEMMA Mapping ==
  ASSUME NEW p \in Step
  PROVE  /\ \A n : n \in Life!Of(CallsOpen, p)
                  <=> n \in Number /\ effect[p][n] = "request_started" /\ <<p, n>> \notin retried
         /\ \A n : n \in Life!Of(GrantsMade, p) <=> n \in Number /\ attempt[p][n] # "none"
         /\ HolderOf[p] = IF stepStatus[p] = "running" THEN stepAttempt[p] ELSE 0
         /\ p \in DoneSteps <=> Done(p)
BY DEF Life!Of, CallsOpen, GrantsMade, HolderOf, DoneSteps

LEMMA MappingNext ==
  ASSUME NEW p \in Step
  PROVE  /\ \A n : n \in Life!Of(CallsOpen', p)
                  <=> n \in Number /\ effect'[p][n] = "request_started" /\ <<p, n>> \notin retried'
         /\ \A n : n \in Life!Of(GrantsMade', p) <=> n \in Number /\ attempt'[p][n] # "none"
         /\ HolderOf'[p] = IF stepStatus'[p] = "running" THEN stepAttempt'[p] ELSE 0
         /\ p \in DoneSteps' <=> Done(p)'
BY DEF Life!Of, CallsOpen, GrantsMade, HolderOf, DoneSteps

\* A call of the step stays open, or stays closed, when its effect does.
LEMMA SameCall ==
  ASSUME NEW p \in Step, NEW m, NoDecision(p),
         m \in Number => (effect'[p][m] = "request_started" <=> effect[p][m] = "request_started")
  PROVE  m \in Life!Of(CallsOpen', p) <=> m \in Life!Of(CallsOpen, p)
<1>1. CASE m \in Number
  <2>1. <<p, m>> \in retried' <=> <<p, m>> \in retried
    BY <1>1 DEF NoDecision
  <2> QED BY <1>1, <2>1, Mapping, MappingNext
<1>2. CASE m \notin Number
  BY <1>2, Mapping, MappingNext
<1> QED BY <1>1, <1>2

LEMMA SameCalls ==
  ASSUME NEW p \in Step, NoDecision(p), effect'[p] = effect[p]
  PROVE  Life!Of(CallsOpen', p) = Life!Of(CallsOpen, p)
<1>1. \A m : m \in Life!Of(CallsOpen', p) <=> m \in Life!Of(CallsOpen, p)
  BY SameCall
<1> QED BY <1>1

\* A transaction that leaves the attempts of a step alone lets its holder call,
\* skips the step, records a decision about it, or changes nothing.
LEMMA KeptLife ==
  ASSUME StepInv, DecidedCalls, [Next]_vars, NEW p \in Step, Kept(p)
  PROVE  Life!Call(p) \/ Life!Decide(p) \/ Life!Skip(p) \/ Life!Rest(p)
<1>1. /\ HolderOf'[p] = HolderOf[p]
      /\ Life!Of(GrantsMade', p) = Life!Of(GrantsMade, p)
  <2>1. \A n : n \in Life!Of(GrantsMade', p) <=> n \in Life!Of(GrantsMade, p)
    BY Mapping, MappingNext DEF Kept
  <2>2. HolderOf'[p] = HolderOf[p]
    BY Mapping, MappingNext DEF Kept
  <2> QED BY <2>1, <2>2
<1>2. NoDecision(p) \/ UserDecides(p)
  BY Decisions DEF StepInv
<1>3. CASE UserDecides(p)
  <2>1. PICK n \in Number : /\ Resumable(p, n)
                            /\ effect' = effect /\ stepStatus'[p] = "pending"
                            /\ \A m \in Number : <<p, m>> \in retried'
                                                   <=> (<<p, m>> \in retried \/ m = n)
    BY <1>3 DEF UserDecides
  <2>2. stepStatus[p] = "waiting_for_user" /\ effect[p][n] = "request_started"
    BY <2>1 DEF Resumable, UnknownOutcome
  <2>3. HolderOf[p] = 0 /\ (p \in DoneSteps' <=> p \in DoneSteps)
    BY <2>1, <2>2, Mapping, MappingNext DEF Done
  <2>4. Life!Of(CallsOpen', p) = Life!Of(CallsOpen, p) \ {n}
    BY <2>1, Mapping, MappingNext
  <2>5. CASE <<p, n>> \in retried
    <3>1. Life!Of(CallsOpen', p) = Life!Of(CallsOpen, p)
      BY <2>4, <2>5, Mapping
    <3> QED BY <1>1, <2>3, <3>1 DEF Life!Rest
  <2>6. CASE <<p, n>> \notin retried
    <3>1. n \in Life!Of(CallsOpen, p)
      BY <2>2, <2>6, Mapping
    <3> QED BY <1>1, <2>3, <2>4, <3>1 DEF Life!Decide
  <2> QED BY <2>5, <2>6
<1>4. CASE NoDecision(p) /\ effect'[p] = effect[p]
  <2>1. Life!Of(CallsOpen', p) = Life!Of(CallsOpen, p)
    BY <1>4, SameCalls
  <2>2. CASE p \in DoneSteps' <=> p \in DoneSteps
    BY <1>1, <2>1, <2>2 DEF Life!Rest
  <2>3. CASE ~(p \in DoneSteps' <=> p \in DoneSteps)
    <3>1. HolderOf[p] = 0 /\ p \in DoneSteps'
      BY <2>3, Mapping, MappingNext DEF Kept, Done
    <3> QED BY <1>1, <2>1, <3>1 DEF Life!Skip
  <2> QED BY <2>2, <2>3
<1>5. CASE NoDecision(p) /\ effect'[p] # effect[p]
  <2> DEFINE n == stepAttempt[p]
  <2>1. /\ stepStatus[p] = "running" /\ stepStatus'[p] = "running"
        /\ runStatus[p[1]] = "running"
        /\ effect'[p] = [effect[p] EXCEPT ![n] = "request_started"]
    BY <1>5 DEF Kept, Calls
  <2>2. /\ n \in Number /\ effect[p][n] \in EffectState /\ effect[p] \in [Number -> EffectState]
    BY DEF StepInv, TypeOK
  <2>3. effect[p][n] # "request_started" /\ effect[p][n] # "response_committed"
    BY <1>5, <2>1, <2>2 DEF StepInv, AttemptRows
  <2>4. <<p, n>> \notin retried /\ <<p, n>> \notin retried'
    <3>1. effect[p][n] = "not_started"
      BY <2>2, <2>3 DEF EffectState
    <3>2. <<p, n>> \notin retried
      BY <3>1 DEF DecidedCalls
    <3> QED BY <1>5, <2>2, <3>2 DEF NoDecision
  <2>5. HolderOf[p] = n /\ (p \in DoneSteps' <=> p \in DoneSteps)
    BY <2>1, Mapping, MappingNext DEF Done
  <2>6. n \notin Life!Of(CallsOpen, p)
    BY <2>3, Mapping
  <2>7. Life!Of(CallsOpen', p) = Life!Of(CallsOpen, p) \cup {n}
    <3>1. \A m \in Number : effect'[p][m] = IF m = n THEN "request_started" ELSE effect[p][m]
      BY <2>1, <2>2
    <3>2. n \in Life!Of(CallsOpen', p)
      BY <2>2, <2>4, <3>1, MappingNext
    <3>3. ASSUME NEW m, m # n
          PROVE  m \in Life!Of(CallsOpen', p) <=> m \in Life!Of(CallsOpen, p)
      BY <1>5, <3>1, <3>3, SameCall
    <3> HIDE DEF n
    <3> QED BY <3>2, <3>3
  <2>8. p[1] \notin ClosedRuns
    BY <2>1 DEF ClosedRuns, Terminal
  <2> QED BY <1>1, <2>2, <2>5, <2>6, <2>7, <2>8 DEF Life!Call
<1> QED BY <1>2, <1>3, <1>4, <1>5

\* The end of an attempt is the end of its holder.
LEMMA EndedLife ==
  ASSUME StepInv, [Next]_vars, NEW p \in Step, Ended(p)
  PROVE  Life!End(p)
<1> DEFINE n == stepAttempt[p]
<1>1. /\ n \in Number /\ attempt[p] \in [Number -> AttemptStatus]
      /\ effect[p] \in [Number -> EffectState]
  BY DEF StepInv, TypeOK
<1>2. HolderOf[p] = n /\ HolderOf'[p] = 0
  BY Mapping, MappingNext DEF Ended
<1>3. Life!Of(GrantsMade', p) = Life!Of(GrantsMade, p)
  <2>1. attempt[p][n] # "none"
    BY <1>1 DEF Ended, StepInv, InFlightAgreement
  <2>2. PICK status \in {"succeeded", "failed", "fenced"} :
          attempt'[p] = [attempt[p] EXCEPT ![n] = status]
    BY DEF Ended
  <2>3. \A m \in Number : attempt'[p][m] # "none" <=> attempt[p][m] # "none"
    BY <1>1, <2>1, <2>2
  <2>4. \A m : m \in Life!Of(GrantsMade', p) <=> m \in Life!Of(GrantsMade, p)
    BY <2>3, Mapping, MappingNext
  <2> QED BY <2>4
<1>4. NoDecision(p)
  BY Decisions DEF StepInv, Ended, UserDecides, Resumable
<1>5. CASE effect'[p] = effect[p]
  <2>1. Life!Of(CallsOpen', p) = Life!Of(CallsOpen, p)
    BY <1>4, <1>5, SameCalls
  <2> QED BY <1>1, <1>2, <1>3, <2>1 DEF Life!End
<1>6. CASE effect'[p] # effect[p]
  <2>1. /\ stepStatus'[p] = "succeeded"
        /\ effect'[p] = [effect[p] EXCEPT ![n] = "response_committed"]
    BY <1>6 DEF Ended
  <2>2. p \in DoneSteps'
    BY <2>1, MappingNext DEF Done
  <2>3. \A m \in Number : effect'[p][m] = IF m = n THEN "response_committed" ELSE effect[p][m]
    BY <1>1, <2>1
  <2>4. n \notin Life!Of(CallsOpen', p)
    BY <1>1, <2>3, MappingNext
  <2>5. ASSUME NEW m, m # n
        PROVE  m \in Life!Of(CallsOpen', p) <=> m \in Life!Of(CallsOpen, p)
    BY <1>4, <2>3, <2>5, SameCall
  <2>6. Life!Of(CallsOpen', p) = Life!Of(CallsOpen, p) \ {n}
    <3> HIDE DEF n
    <3> QED BY <2>4, <2>5
  <2> QED BY <1>1, <1>2, <1>3, <2>2, <2>6 DEF Life!End
<1> QED BY <1>5, <1>6

\* A paid step is granted only when the user decided about all its calls.
LEMMA GrantedDecided ==
  ASSUME StepInv, NEW p \in Step, Granted(p), p \in PaidSteps
  PROVE  Life!Of(CallsOpen, p) = {}
<1>1. Policy[p] = "paid_external_unknown"
  BY DEF PaidSteps
<1>2. stepAttempt[p] \in Number /\ Number \subseteq Nat
  BY DEF StepInv, TypeOK, Number
<1>3. ASSUME NEW m \in Number, effect[p][m] = "request_started", <<p, m>> \notin retried
      PROVE  FALSE
  <2>1. CASE stepStatus[p] = "pending"
    BY <1>1, <1>3, <2>1 DEF StepInv, PendingPaidDecided
  <2>2. CASE stepStatus[p] = "running" /\ ~UnknownOutcome(p, stepAttempt[p])
    <3>1. attempt[p][m] # "none" /\ m <= stepAttempt[p]
      BY <1>3 DEF StepInv, AttemptRows
    <3>2. m # stepAttempt[p]
      BY <1>1, <1>3, <2>2 DEF UnknownOutcome
    <3>3. m < stepAttempt[p]
      <4>1. m \in Nat /\ stepAttempt[p] \in Nat
        BY <1>2
      <4> QED BY <3>1, <3>2, <4>1
    <3>4. attempt[p][stepAttempt[p]] # "none"
      BY <1>2, <2>2 DEF StepInv, InFlightAgreement
    <3> QED BY <1>1, <1>2, <1>3, <3>3, <3>4 DEF StepInv, PaidCallNotReplayed
  <2> QED BY <2>1, <2>2 DEF Granted
<1>4. \A m : m \notin Life!Of(CallsOpen, p)
  BY <1>3, Mapping
<1> QED BY <1>4

\* A new attempt is a new grant.
LEMMA GrantedLife ==
  ASSUME StepInv, [Next]_vars, NEW p \in Step, Granted(p)
  PROVE  Life!Grant(p)
<1> DEFINE n == stepAttempt'[p]
<1>1. n \in Number
  BY TypeStep DEF StepInv, TypeOK
<1>2. /\ HolderOf'[p] = n
      /\ p \notin DoneSteps /\ p \notin DoneSteps'
  BY Mapping, MappingNext DEF Granted, Done
<1>3. \A k \in 1..Steps : k < p[2] => <<p[1], k>> \in DoneSteps
  <2>1. p[1] \in Run
    BY DEF Step
  <2> QED BY <2>1 DEF Granted, PriorDone, DoneSteps, Step
<1>4. p[1] \notin ClosedRuns
  BY DEF Granted, ClosedRuns, Terminal
<1>5. Life!Of(CallsOpen', p) = Life!Of(CallsOpen, p)
  <2>1. NoDecision(p)
    BY Decisions DEF StepInv, Granted, UserDecides
  <2>2. effect'[p] = effect[p]
    BY DEF Granted
  <2> QED BY <2>1, <2>2, SameCalls
<1>6. \A m \in Life!Of(GrantsMade, p) : m < n
  BY Mapping DEF Granted
<1>7. Life!Of(GrantsMade', p) = Life!Of(GrantsMade, p) \cup {n}
  <2>1. \A m \in Number : attempt'[p][m] = IF m = n THEN "running"
                            ELSE IF attempt[p][m] = "running" THEN "fenced" ELSE attempt[p][m]
    BY DEF Granted
  <2>2. n \in Life!Of(GrantsMade', p)
    BY <1>1, <2>1, MappingNext
  <2>3. ASSUME NEW m, m # n
        PROVE  m \in Life!Of(GrantsMade', p) <=> m \in Life!Of(GrantsMade, p)
    BY <2>1, <2>3, Mapping, MappingNext
  <2> HIDE DEF n
  <2> QED BY <2>2, <2>3
<1> QED BY <1>1, <1>2, <1>3, <1>4, <1>5, <1>6, <1>7, GrantedDecided DEF Life!Grant

\* A closed run stays closed.
LEMMA ClosedLife ==
  ASSUME RunInv, [Next]_vars
  PROVE  ClosedRuns \subseteq ClosedRuns'
<1> SUFFICES ASSUME NEW r \in Run, runStatus[r] \in Terminal \cup {"cancelling"}
             PROVE  runStatus'[r] \in Terminal \cup {"cancelling"}
  BY DEF ClosedRuns
<1>1. RunStep(r)
  BY RunMoves
<1> QED BY <1>1 DEF RunStep, Terminal

\* The ledger implements StepLife.
THEOREM StepLifeCorrect == Spec => StepLifeHolds
<1>1. Init => Life!Init /\ DecidedCalls
  BY RunLedgerAssumption DEF Init, Life!Init, Life!Step, DecidedCalls, ClosedRuns, DoneSteps, GrantsMade, HolderOf,
     CallsOpen, Done, Terminal, Step
<1>2. RunInv /\ DecidedCalls /\ [Next]_vars => [Life!Next]_Life!vars
  <2> SUFFICES ASSUME RunInv, DecidedCalls, [Next]_vars PROVE Life!Next
    OBVIOUS
  <2>1. StepInv
    BY DEF RunInv
  <2>2. \A p \in Step : Life!Grant(p) \/ Life!Call(p) \/ Life!End(p)
                          \/ Life!Decide(p) \/ Life!Skip(p) \/ Life!Rest(p)
    BY <2>1, StepShapes, KeptLife, EndedLife, GrantedLife
  <2>3. Life!Step = Step
    BY DEF Life!Step, Step
  <2> QED BY <2>2, <2>3, ClosedLife DEF Life!Next
<1>3. RunInv /\ DecidedCalls /\ [Next]_vars => DecidedCalls'
  BY DecidedStep DEF RunInv
<1> QED BY <1>1, <1>2, <1>3, RunsCorrect, PTL DEF Spec, StepLifeHolds, Life!Spec
================================================================================
