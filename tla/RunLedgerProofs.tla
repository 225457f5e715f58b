---------------------------- MODULE RunLedgerProofs ----------------------------
(* Theorems about RunLedger, for all runs, steps, policies, limits and clocks:  *)
(* its types, its steps, and the two limits, of the time of a lease and of the  *)
(* budget of a run.                                                             *)
EXTENDS RunLedger, FiniteSetTheorems, TLAPS

\* Every transaction keeps every column within its domain.
LEMMA TypeStep == TypeOK /\ [Next]_vars => TypeOK'
<1> SUFFICES ASSUME TypeOK, [Next]_vars PROVE TypeOK'
  OBVIOUS
<1> USE RunLedgerAssumption
<1>1. CASE Tick
  BY <1>1 DEF Tick, TypeOK, leaseVars, tokenVars, budgetVars
<1>2. ASSUME NEW r \in Run, RunAction(r) PROVE TypeOK'
  <2>1. CASE SubmitTask(r)
    BY <2>1 DEF SubmitTask, TypeOK, leaseVars, tokenVars, budgetVars, RunStatus
  <2>2. ASSUME NEW target \in {"queued", "running", "failed"}, TransitionRun(r, target)
        PROVE TypeOK'
    BY <2>2 DEF TransitionRun, TypeOK, leaseVars, tokenVars, budgetVars, RunStatus
  <2>3. CASE RequestCancel(r)
    BY <2>3 DEF RequestCancel, MarkSteps, TypeOK, leaseVars, tokenVars, budgetVars, RunStatus, StepStatus
  <2>4. CASE FinalizeCancellation(r)
    BY <2>4 DEF FinalizeCancellation, MarkSteps, TypeOK, leaseVars, tokenVars, budgetVars, RunStatus, StepStatus
  <2>5. CASE StopToolBudget(r)
    BY <2>5 DEF StopToolBudget, TypeOK, leaseVars, tokenVars, budgetVars
  <2>6. ASSUME NEW target \in {"succeeded", "partial"}, PublishDirect(r, target)
        PROVE TypeOK'
    BY <2>6 DEF PublishDirect, TypeOK, leaseVars, tokenVars, budgetVars, RunStatus
  <2> QED BY <1>2, <2>1, <2>2, <2>3, <2>4, <2>5, <2>6 DEF RunAction
<1>3. ASSUME NEW s \in Step, StepAction(s) PROVE TypeOK'
  <2>1. CASE RequeueFailedStep(s)
    BY <2>1 DEF RequeueFailedStep, TypeOK, leaseVars, tokenVars, budgetVars, StepStatus
  <2>2. ASSUME NEW n \in Number, ResumeRetry(s, n) PROVE TypeOK'
    BY <2>2 DEF ResumeRetry, TypeOK, leaseVars, tokenVars, budgetVars, StepStatus, RunStatus, Step
  <2>3. ASSUME NEW n \in Number, ResumeFail(s, n) PROVE TypeOK'
    BY <2>3 DEF ResumeFail, TypeOK, leaseVars, tokenVars, budgetVars, StepStatus, RunStatus, Step
  <2> QED BY <1>3, <2>1, <2>2, <2>3 DEF StepAction
<1>4. ASSUME NEW t \in ReadClock, NEW w \in Filters, ClaimNextStep(w, t) PROVE TypeOK'
  <2>1. ASSUME NEW reap, NEW fence, NEW block, NEW grant,
               ClaimTables(reap, fence, block, grant, t)
        PROVE TypeOK'
    <3>1. t \in Nat
      BY DEF ReadClock, TypeOK
    <3>2. now' \in Nat /\ createdAt' \in [Run -> Nat] /\ effect' \in [Step -> [Number -> EffectState]]
          /\ reservation' \in [Step -> [Number -> ReservationState]]
          /\ limitState' \in [Run -> {"active", "stopped"}] /\ spent' \in [Run -> Nat]
          /\ delivered' \subseteq Run /\ retried' \subseteq Step \X Number
      BY <2>1 DEF ClaimTables, TypeOK, budgetVars
    <3>3. attempt' \in [Step -> [Number -> AttemptStatus]]
      BY <2>1 DEF ClaimTables, TypeOK, AttemptStatus
    <3>4. /\ lease' \in [Step -> [Number -> LeaseState]]
          /\ heartbeat' \in [Step -> [Number -> Nat]]
          /\ expires' \in [Step -> [Number -> Nat]]
      BY <2>1, <3>1 DEF ClaimTables, TypeOK, LeaseState
    <3>5. token' \in [Step -> [Number -> Nat]] /\ lastToken' \in Nat
      BY <2>1 DEF ClaimTables, TypeOK
    <3>6. stepStatus' \in [Step -> StepStatus]
      BY <2>1 DEF ClaimTables, TypeOK, StepStatus
    <3>7. stepAttempt' \in [Step -> Number]
      BY <2>1 DEF ClaimTables, TypeOK
    <3>8. runStatus' \in [Run -> RunStatus]
      BY <2>1 DEF ClaimTables, TypeOK, RunStatus
    <3> QED BY <3>2, <3>3, <3>4, <3>5, <3>6, <3>7, <3>8 DEF TypeOK
  <2> QED BY <1>4, <2>1 DEF ClaimNextStep
<1>5. ASSUME NEW t \in ReadClock, NEW s \in Step, NEW n \in Number, ClaimAction(s, n, t)
      PROVE TypeOK'
  <2>t. t \in Nat /\ s[1] \in Run
    BY DEF ReadClock, TypeOK, Step
  <2>1. CASE HeartbeatAttempt(s, n, t)
    BY <2>t, <2>1 DEF HeartbeatAttempt, TypeOK, leaseVars, tokenVars, budgetVars, LeaseState
  <2>2. CASE CompleteAttempt(s, n, t)
    BY <2>t, <2>2 DEF CompleteAttempt, Finish, TypeOK, leaseVars, tokenVars, budgetVars, LeaseState,
         StepStatus, AttemptStatus
  <2>3. CASE SkipAttempt(s, n, t)
    BY <2>t, <2>3 DEF SkipAttempt, Finish, CloseReservation, TypeOK, leaseVars, tokenVars, budgetVars, LeaseState,
         StepStatus, AttemptStatus, ReservationState
  <2>4. CASE FailAttempt(s, n, t)
    BY <2>t, <2>4 DEF FailAttempt, Finish, CloseReservation, TypeOK, leaseVars, tokenVars, budgetVars, LeaseState,
         StepStatus, AttemptStatus, ReservationState
  <2>5. CASE CancelClaim(s, n, t)
    BY <2>t, <2>5 DEF CancelClaim, Finish, CloseReservation, MarkSteps, TypeOK, leaseVars, tokenVars, budgetVars, LeaseState,
         StepStatus, AttemptStatus, ReservationState, RunStatus
  <2>6. CASE BlockUnknownOutcome(s, n, t)
    BY <2>t, <2>6 DEF BlockUnknownOutcome, Finish, CloseReservation, TypeOK, leaseVars, tokenVars, budgetVars, LeaseState,
         StepStatus, AttemptStatus, ReservationState, RunStatus
  <2>7. ASSUME NEW target \in {"succeeded", "partial"}, PublishDelivery(s, n, t, target)
        PROVE TypeOK'
    BY <2>t, <2>7 DEF PublishDelivery, Finish, TypeOK, leaseVars, tokenVars, budgetVars, LeaseState,
         StepStatus, AttemptStatus, RunStatus
  <2>8. CASE AuthorizeCall(s, n, t)
    <3>1. ReleaseStale(s[1], t) \in [Step -> [Number -> ReservationState]]
      BY DEF ReleaseStale, TypeOK, ReservationState
    <3>2. reservation' \in [Step -> [Number -> ReservationState]]
      BY <2>8, <3>1 DEF AuthorizeCall, ReservationState
    <3>3. effect' \in [Step -> [Number -> EffectState]]
      BY <2>8 DEF AuthorizeCall, TypeOK, EffectState
    <3> QED BY <2>8, <3>2, <3>3 DEF AuthorizeCall, TypeOK, leaseVars, tokenVars
  <2>9. CASE DenyCall(s, n, t)
    BY <2>t, <2>9 DEF DenyCall, ReleaseStale, Finish, MarkSteps, TypeOK, leaseVars, tokenVars, budgetVars,
         ReservationState, StepStatus, AttemptStatus, RunStatus, LeaseState
  <2>10. ASSUME NEW u \in 0..MaxUsage, CompleteExternal(s, n, t, u) PROVE TypeOK'
    <3>1. spent[s[1]] + u \in Nat
      <4>1. spent[s[1]] \in Nat
        BY <2>t DEF TypeOK
      <4>2. \A k \in Nat, l \in 0..MaxUsage : k + l \in Nat
        OBVIOUS
      <4> QED BY <4>1, <4>2
    <3> QED BY <2>t, <2>10, <3>1 DEF CompleteExternal, Finish, MarkSteps, TypeOK, leaseVars, tokenVars, budgetVars,
         ReservationState, EffectState, StepStatus, AttemptStatus, RunStatus, LeaseState
  <2>11. ASSUME NEW u \in 0..MaxUsage, RecordLocalUsage(s, n, t, u) PROVE TypeOK'
    <3>1. spent[s[1]] + u \in Nat
      <4>1. spent[s[1]] \in Nat
        BY <2>t DEF TypeOK
      <4>2. \A k \in Nat, l \in 0..MaxUsage : k + l \in Nat
        OBVIOUS
      <4> QED BY <4>1, <4>2
    <3> QED BY <2>t, <2>11, <3>1 DEF RecordLocalUsage, TypeOK, leaseVars, tokenVars, budgetVars, ReservationState
  <2> QED BY <1>5, <2>1, <2>2, <2>3, <2>4, <2>5, <2>6, <2>7, <2>8, <2>9, <2>10, <2>11 DEF ClaimAction
<1>6. CASE UNCHANGED vars
  BY <1>6 DEF vars, TypeOK
<1> QED BY <1>1, <1>2, <1>3, <1>4, <1>5, <1>6 DEF Next

\* Every column keeps its domain.
THEOREM TypeCorrect == Spec => []TypeOK
<1>1. Init => TypeOK
  BY RunLedgerAssumption DEF Init, TypeOK, RunStatus, StepStatus, AttemptStatus, EffectState,
     ReservationState, LeaseState, Number
<1> QED BY <1>1, TypeStep, PTL DEF Spec

--------------------------------------------------------------------------------
(* The life of one step.  InFlightAgreement, StepsInOrder and                  *)
(* PaidCallNotReplayed are not inductive by themselves; the two invariants     *)
(* below complete them.                                                        *)

\* The rows of a step are numbered up to its current attempt, an external call
\* belongs to a row, and a committed response to a step that succeeded.
AttemptRows ==
  \A s \in Step, n \in Number :
    /\ attempt[s][n] # "none" => n <= stepAttempt[s]
    /\ effect[s][n] # "not_started" => attempt[s][n] # "none"
    /\ effect[s][n] = "response_committed" => stepStatus[s] = "succeeded"

\* A paid step is pending again only after the user decided about every call of
\* its earlier attempts.
PendingPaidDecided ==
  \A s \in Step : Policy[s] = "paid_external_unknown" /\ stepStatus[s] = "pending" =>
    \A m \in Number : \/ effect[s][m] = "not_started"
                      \/ effect[s][m] = "request_started" /\ <<s, m>> \in retried

StepInv == /\ TypeOK
           /\ InFlightAgreement
           /\ StepsInOrder
           /\ AttemptRows
           /\ PaidCallNotReplayed
           /\ PendingPaidDecided

(* What one transaction can do to a step p: leave its attempts alone, end its  *)
(* current attempt, or grant a new one.                                        *)
Calls(p) ==
  \/ effect'[p] = effect[p]
  \/ /\ stepStatus[p] = "running" /\ stepStatus'[p] = "running"
     /\ runStatus[p[1]] = "running"
     /\ effect'[p] = [effect[p] EXCEPT ![stepAttempt[p]] = "request_started"]
Reopened(p) ==
  \/ Policy[p] # "paid_external_unknown"
  \/ \E n \in Number : Resumable(p, n) /\ <<p, n>> \in retried'
Idle(r) == \A s \in StepsOf(r) : stepStatus[s] # "running"
Dropped(p) == ~Idle(p[1]) \/ runStatus'[p[1]] # "waiting_for_user"
Kept(p) ==
  /\ attempt'[p] = attempt[p] /\ lease'[p] = lease[p] /\ stepAttempt'[p] = stepAttempt[p]
  /\ Calls(p)
  /\ \/ stepStatus'[p] = stepStatus[p]
     \/ /\ stepStatus[p] \notin {"running", "succeeded", "skipped"}
        /\ stepStatus[p] = "waiting_for_user" => Dropped(p)
        /\ \/ stepStatus'[p] \in {"skipped", "cancelled", "failed"}
           \/ stepStatus'[p] = "pending" /\ Reopened(p)
Ended(p) ==
  /\ stepStatus[p] = "running" /\ stepStatus'[p] \notin {"running", "pending"}
  /\ stepStatus'[p] = "waiting_for_user" => UnknownOutcome(p, stepAttempt[p]) /\ effect'[p] = effect[p]
  /\ \E status \in {"succeeded", "failed", "fenced"} :
       attempt'[p] = [attempt[p] EXCEPT ![stepAttempt[p]] = status]
  /\ lease'[p] = [lease[p] EXCEPT ![stepAttempt[p]] = "released"]
  /\ stepAttempt'[p] = stepAttempt[p]
  /\ \/ effect'[p] = effect[p]
     \/ /\ stepStatus'[p] = "succeeded"
        /\ effect[p][stepAttempt[p]] = "request_started"
        /\ effect'[p] = [effect[p] EXCEPT ![stepAttempt[p]] = "response_committed"]
Granted(p) ==
  /\ \/ stepStatus[p] = "pending"
     \/ stepStatus[p] = "running" /\ ~UnknownOutcome(p, stepAttempt[p])
  /\ PriorDone(p)
  /\ runStatus[p[1]] \in {"queued", "running"}
  /\ \A m \in Number : attempt[p][m] # "none" => m < stepAttempt'[p]
  /\ attempt'[p] = [m \in Number |-> IF m = stepAttempt'[p] THEN "running"
                       ELSE IF attempt[p][m] = "running" THEN "fenced" ELSE attempt[p][m]]
  /\ lease'[p] = [m \in Number |-> IF m = stepAttempt'[p] THEN "held"
                     ELSE IF lease[p][m] = "held" THEN "released" ELSE lease[p][m]]
  /\ stepStatus'[p] = "running"
  /\ effect'[p] = effect[p]

\* Two attempts in flight in one run would contradict the order of its steps.
LEMMA OneInFlight ==
  ASSUME TypeOK, InFlightAgreement, StepsInOrder, NEW s \in Step, NEW p \in Step,
         s[1] = p[1], stepStatus[s] = "running",
         stepStatus[p] = "running"
  PROVE  s = p
<1>1. /\ s = <<s[1], s[2]>> /\ p = <<p[1], p[2]>> 
      /\ s[2] \in 1..Steps /\ p[2] \in 1..Steps
  BY DEF Step
<1>2. attempt[s][stepAttempt[s]] # "none" /\ attempt[p][stepAttempt[p]] # "none"
  BY DEF InFlightAgreement, TypeOK
<1>3. PriorDone(s) /\ PriorDone(p)
  BY <1>2 DEF StepsInOrder, TypeOK
<1>4. ~(s[2] < p[2]) /\ ~(p[2] < s[2])
  BY <1>1, <1>3 DEF PriorDone, Done
<1> QED BY <1>1, <1>4, RunLedgerAssumption


\* A claim transaction is one of the writes of ClaimTables.
LEMMA ClaimFrame ==
  ASSUME NEW t, NEW w, ClaimNextStep(w, t)
  PROVE  \E reap, fence, block, grant : ClaimTables(reap, fence, block, grant, t)
BY DEF ClaimNextStep

\* The claim transaction cancels the whole run of an abandoned attempt, and the
\* other steps of that run are not running.
LEMMA ClaimElsewhere ==
  ASSUME StepInv, NEW t, NEW reap \in SUBSET Abandoned(t), NEW fence, NEW block, NEW grant,
         ClaimTables(reap, fence, block, grant, t),
         NEW p \in Step, \A n \in Number : <<p, n>> \notin fence \cup block \cup grant,
         p \notin {q[1] : q \in block}, p \notin {q[1] : q \in grant}
  PROVE  Kept(p) \/ Ended(p)
<1> USE DEF StepInv
<1>0. \A q \in reap : /\ q[1] \in Step /\ q[2] \in Number /\ q = <<q[1], q[2]>>
                      /\ stepStatus[q[1]] = "running" /\ stepAttempt[q[1]] = q[2]
                      /\ attempt[q[1]][q[2]] = "running" /\ lease[q[1]][q[2]] = "held"
  BY DEF Abandoned, Expired, InFlightAgreement
<1>1. effect'[p] = effect[p] /\ stepAttempt'[p] = stepAttempt[p]
  BY DEF ClaimTables, TypeOK
<1>2. ASSUME NEW q \in reap, q[1] = p PROVE Ended(p)
  <2>1. \A n \in Number : /\ <<p, n>> \notin grant
                          /\ <<p, n>> \in reap \cup fence \cup block <=> n = stepAttempt[p]
    BY <1>0, <1>2
  <2>2. attempt'[p] = [n \in Number |-> IF n = stepAttempt[p] THEN "fenced" ELSE attempt[p][n]]
    BY <2>1 DEF ClaimTables
  <2>3. lease'[p] = [n \in Number |-> IF n = stepAttempt[p] THEN "released" ELSE lease[p][n]]
    BY <2>1 DEF ClaimTables
  <2>4. stepStatus[p] = "running" /\ stepStatus'[p] = "cancelled"
    BY <1>0, <1>2 DEF ClaimTables
  <2>5. attempt'[p] = [attempt[p] EXCEPT ![stepAttempt[p]] = "fenced"]
    BY <2>2 DEF TypeOK
  <2>6. lease'[p] = [lease[p] EXCEPT ![stepAttempt[p]] = "released"]
    BY <2>3 DEF TypeOK
  <2> QED BY <1>1, <2>4, <2>5, <2>6 DEF Ended
<1>3. ASSUME \A q \in reap : q[1] # p PROVE Kept(p)
  <2>1. \A n \in Number : <<p, n>> \notin reap \cup fence \cup block \cup grant
    BY <1>3
  <2>2. attempt'[p] = attempt[p] /\ lease'[p] = lease[p]
    BY <2>1 DEF ClaimTables, TypeOK
  <2>3. ASSUME stepStatus[p] = "running" PROVE \A q \in reap : q[1][1] # p[1]
    <3> SUFFICES ASSUME NEW q \in reap, q[1][1] = p[1] PROVE FALSE
      OBVIOUS
    <3>1. PICK a \in Step : a = q[1] /\ stepStatus[a] = "running" /\ a[1] = p[1]
      BY <1>0
    <3>2. a = p
      BY <2>3, <3>1, OneInFlight
    <3> QED BY <1>3, <3>1, <3>2
  <2>4. \/ stepStatus'[p] = stepStatus[p]
        \/ /\ stepStatus[p] \in {"pending", "waiting_for_user"} /\ stepStatus'[p] = "cancelled"
           /\ runStatus'[p[1]] = "cancelled"
    <3>1. p[1] \in Run
      BY DEF Step
    <3> QED BY <2>3, <3>1 DEF ClaimTables
  <2> QED BY <1>1, <2>2, <2>4 DEF Kept, Calls, Dropped
<1> QED BY <1>2, <1>3

\* What a claim transaction does to a step.
LEMMA ClaimShapes ==
  ASSUME StepInv, NEW t \in ReadClock, NEW w \in Filters, ClaimNextStep(w, t), NEW p \in Step
  PROVE  Kept(p) \/ Ended(p) \/ Granted(p)
<1> USE RunLedgerAssumption DEF StepInv
<1>1. PICK reap \in SUBSET Abandoned(t) :
        \/ ClaimTables(reap, {}, {}, {}, t)
        \/ \E s \in FirstOf(Claimable(w, t)), n \in Number :
             \/ /\ stepStatus[s] = "pending" /\ NextNumber(s, n)
                /\ ClaimTables(reap, {}, {}, {<<s, n>>}, t)
             \/ /\ stepStatus[s] = "running" /\ n = stepAttempt[s]
                /\ UnknownOutcome(s, n)
                /\ ClaimTables(reap, {}, {<<s, n>>}, {}, t)
             \/ /\ stepStatus[s] = "running" /\ n = stepAttempt[s] + 1
                /\ ~UnknownOutcome(s, stepAttempt[s])
                /\ ClaimTables(reap, {<<s, stepAttempt[s]>>}, {}, {<<s, n>>}, t)
  <2>1. PICK reap \in IF Abandoned(t) = {} THEN {{}} ELSE {{q} : q \in Abandoned(t)} :
          \/ ClaimTables(reap, {}, {}, {}, t)
          \/ \E s \in FirstOf(Claimable(w, t)), n \in Number :
               \/ /\ stepStatus[s] = "pending" /\ NextNumber(s, n)
                  /\ ClaimTables(reap, {}, {}, {<<s, n>>}, t)
               \/ /\ stepStatus[s] = "running" /\ n = stepAttempt[s]
                  /\ UnknownOutcome(s, n)
                  /\ ClaimTables(reap, {}, {<<s, n>>}, {}, t)
               \/ /\ stepStatus[s] = "running" /\ n = stepAttempt[s] + 1
                  /\ ~UnknownOutcome(s, stepAttempt[s])
                  /\ ClaimTables(reap, {<<s, stepAttempt[s]>>}, {}, {<<s, n>>}, t)
    BY DEF ClaimNextStep
  <2>2. reap \in SUBSET Abandoned(t)
    OBVIOUS
  <2> QED BY <2>1, <2>2
<1>2. CASE ClaimTables(reap, {}, {}, {}, t)
  BY <1>2, ClaimElsewhere
<1>3. ASSUME NEW s \in FirstOf(Claimable(w, t)), NEW n \in Number,
             stepStatus[s] = "pending", NextNumber(s, n),
             ClaimTables(reap, {}, {}, {<<s, n>>}, t)
      PROVE  Kept(p) \/ Ended(p) \/ Granted(p)
  <2>1. CASE p # s
    BY <1>3, <2>1, ClaimElsewhere
  <2>2. CASE p = s
    <3>1. s \in Claimable(w, t) /\ s \in Step
      BY DEF FirstOf, Claimable
    <3>2. \A m \in Number : <<p, m>> \notin reap
      BY <2>2, <3>1 DEF Claimable, Abandoned
    <3>3. /\ stepAttempt'[p] = n /\ stepStatus'[p] = "running" /\ effect'[p] = effect[p]
      BY <1>3, <2>2 DEF ClaimTables, TypeOK
    <3>4. \A m \in Number : attempt[p][m] # "none" => m < n
      BY <1>3, <2>2 DEF NextNumber
    <3>5. \A m \in Number : attempt[p][m] # "running" /\ lease[p][m] # "held"
      BY <1>3, <2>2 DEF InFlightAgreement
    <3>6. attempt'[p] = [m \in Number |-> IF m = stepAttempt'[p] THEN "running"
                           ELSE IF attempt[p][m] = "running" THEN "fenced" ELSE attempt[p][m]]
      BY <1>3, <2>2, <3>2, <3>3, <3>5 DEF ClaimTables, TypeOK
    <3>7. lease'[p] = [m \in Number |-> IF m = stepAttempt'[p] THEN "held"
                         ELSE IF lease[p][m] = "held" THEN "released" ELSE lease[p][m]]
      BY <1>3, <2>2, <3>2, <3>3, <3>5 DEF ClaimTables, TypeOK
    <3>8. PriorDone(p) /\ stepStatus[p] = "pending" /\ runStatus[p[1]] \in {"queued", "running"}
      BY <1>3, <2>2, <3>1 DEF Claimable
    <3> QED BY <3>3, <3>4, <3>6, <3>7, <3>8 DEF Granted
  <2> QED BY <2>1, <2>2
<1>4. ASSUME NEW s \in FirstOf(Claimable(w, t)), NEW n \in Number,
             stepStatus[s] = "running", n = stepAttempt[s], UnknownOutcome(s, n),
             ClaimTables(reap, {}, {<<s, n>>}, {}, t)
      PROVE  Kept(p) \/ Ended(p) \/ Granted(p)
  <2>1. CASE p # s
    BY <1>4, <2>1, ClaimElsewhere
  <2>2. CASE p = s
    <3>1. s \in Claimable(w, t) /\ s \in Step
      BY DEF FirstOf, Claimable
    <3>2. \A m \in Number : <<p, m>> \notin reap
      BY <2>2, <3>1 DEF Claimable, Abandoned
    <3>3. /\ stepAttempt'[p] = n /\ stepStatus'[p] = "waiting_for_user"
          /\ effect'[p] = effect[p]
      BY <1>4, <2>2 DEF ClaimTables, TypeOK
    <3>4. attempt'[p] = [attempt[p] EXCEPT ![n] = "fenced"]
      BY <1>4, <2>2, <3>2 DEF ClaimTables, TypeOK
    <3>5. lease'[p] = [lease[p] EXCEPT ![n] = "released"]
      BY <1>4, <2>2, <3>2 DEF ClaimTables, TypeOK
    <3>6. UnknownOutcome(p, stepAttempt[p])
      BY <1>4, <2>2
    <3> QED BY <1>4, <2>2, <3>3, <3>4, <3>5, <3>6 DEF Ended
  <2> QED BY <2>1, <2>2
<1>5. ASSUME NEW s \in FirstOf(Claimable(w, t)), NEW n \in Number,
             stepStatus[s] = "running", n = stepAttempt[s] + 1,
             ~UnknownOutcome(s, stepAttempt[s]),
             ClaimTables(reap, {<<s, stepAttempt[s]>>}, {}, {<<s, n>>}, t)
      PROVE  Kept(p) \/ Ended(p) \/ Granted(p)
  <2>1. CASE p # s
    BY <1>5, <2>1, ClaimElsewhere
  <2>2. CASE p = s
    <3>1. s \in Claimable(w, t) /\ s \in Step
      BY DEF FirstOf, Claimable
    <3>2. \A m \in Number : <<p, m>> \notin reap
      BY <2>2, <3>1 DEF Claimable, Abandoned
    <3>3. /\ stepAttempt'[p] = n /\ stepStatus'[p] = "running" /\ effect'[p] = effect[p]
      BY <1>5, <2>2 DEF ClaimTables, TypeOK
    <3>4. \A m \in Number : attempt[p][m] # "none" => m < n
      BY <1>5, <2>2 DEF AttemptRows, TypeOK, Number
    <3>5. \A m \in Number : /\ attempt[p][m] = "running" <=> m = stepAttempt[p]
                            /\ lease[p][m] = "held" <=> m = stepAttempt[p]
      BY <1>5, <2>2 DEF InFlightAgreement
    <3>6. attempt'[p] = [m \in Number |-> IF m = stepAttempt'[p] THEN "running"
                           ELSE IF attempt[p][m] = "running" THEN "fenced" ELSE attempt[p][m]]
      BY <1>5, <2>2, <3>2, <3>3, <3>5 DEF ClaimTables, TypeOK
    <3>7. lease'[p] = [m \in Number |-> IF m = stepAttempt'[p] THEN "held"
                         ELSE IF lease[p][m] = "held" THEN "released" ELSE lease[p][m]]
      BY <1>5, <2>2, <3>2, <3>3, <3>5 DEF ClaimTables, TypeOK
    <3>8. PriorDone(p) /\ runStatus[p[1]] \in {"queued", "running"}
      BY <2>2, <3>1 DEF Claimable
    <3> QED BY <1>5, <2>2, <3>3, <3>4, <3>6, <3>7, <3>8 DEF Granted
  <2> QED BY <2>1, <2>2
<1> QED BY <1>1, <1>2, <1>3, <1>4, <1>5

\* Every transaction leaves the attempts of a step alone, ends the current one or
\* grants a new one, and forgets no decision of the user.
LEMMA StepShapes ==
  ASSUME StepInv, [Next]_vars, NEW p \in Step
  PROVE  /\ Kept(p) \/ Ended(p) \/ Granted(p)
         /\ retried \subseteq retried'
<1> USE DEF leaseVars, tokenVars, budgetVars
<1>t. TypeOK /\ p \in Step
  BY DEF StepInv
<1>1. CASE Tick
  BY <1>1 DEF Tick, Kept, Calls
<1>2. ASSUME NEW r \in Run, RunAction(r)
      PROVE  Kept(p) /\ retried \subseteq retried'
  <2>1. CASE SubmitTask(r)
    BY <2>1 DEF SubmitTask, Kept, Calls
  <2>2. ASSUME NEW target \in {"queued", "running", "failed"}, TransitionRun(r, target)
        PROVE  Kept(p) /\ retried \subseteq retried'
    BY <2>2 DEF TransitionRun, Kept, Calls
  <2>3. CASE RequestCancel(r)
    BY <1>t, <2>3 DEF RequestCancel, MarkSteps, Kept, Calls, Dropped, TypeOK
  <2>4. CASE FinalizeCancellation(r)
    BY <1>t, <2>4 DEF FinalizeCancellation, MarkSteps, Kept, Calls, Dropped, TypeOK
  <2>5. CASE StopToolBudget(r)
    BY <2>5 DEF StopToolBudget, Kept, Calls
  <2>6. ASSUME NEW target \in {"succeeded", "partial"}, PublishDirect(r, target)
        PROVE  Kept(p) /\ retried \subseteq retried'
    BY <2>6 DEF PublishDirect, Kept, Calls
  <2> QED BY <1>2, <2>1, <2>2, <2>3, <2>4, <2>5, <2>6 DEF RunAction
<1>3. ASSUME NEW s \in Step, StepAction(s)
      PROVE  Kept(p) /\ retried \subseteq retried'
  <2>1. CASE RequeueFailedStep(s)
    BY <1>t, <2>1 DEF RequeueFailedStep, Requeueable, Kept, Calls, Reopened, TypeOK
  <2>2. ASSUME NEW n \in Number, ResumeRetry(s, n)
        PROVE  Kept(p) /\ retried \subseteq retried'
    <3>1. stepStatus[s] = "waiting_for_user" /\ Resumable(s, n) /\ <<s, n>> \in retried'
      BY <2>2 DEF ResumeRetry, Resumable
    <3>2. s[1] \in Run
      BY DEF Step
    <3> QED BY <1>t, <2>2, <3>1, <3>2 DEF ResumeRetry, Kept, Calls, Reopened, Dropped, TypeOK
  <2>3. ASSUME NEW n \in Number, ResumeFail(s, n)
        PROVE  Kept(p) /\ retried \subseteq retried'
    <3>1. s[1] \in Run
      BY DEF Step
    <3> QED BY <1>t, <2>3, <3>1 DEF ResumeFail, Resumable, Kept, Calls, Dropped, TypeOK
  <2> QED BY <1>3, <2>1, <2>2, <2>3 DEF StepAction
<1>4. ASSUME NEW t \in ReadClock, NEW w \in Filters, ClaimNextStep(w, t)
      PROVE  /\ Kept(p) \/ Ended(p) \/ Granted(p)
             /\ retried \subseteq retried'
  <2>1. retried' = retried
    BY <1>4, ClaimFrame DEF ClaimTables
  <2> QED BY <1>4, <2>1, ClaimShapes
<1>5. ASSUME NEW t \in ReadClock, NEW s \in Step, NEW n \in Number, ClaimAction(s, n, t)
      PROVE  /\ Kept(p) \/ Ended(p)
             /\ retried \subseteq retried'
  <2>1. CASE HeartbeatAttempt(s, n, t)
    BY <2>1 DEF HeartbeatAttempt, Kept, Calls
  <2>2. CASE CompleteAttempt(s, n, t)
    BY <1>t, <2>2 DEF CompleteAttempt, Active, Finish, Kept, Calls, Ended, TypeOK
  <2>3. CASE SkipAttempt(s, n, t)
    BY <1>t, <2>3 DEF SkipAttempt, Active, Finish, Kept, Calls, Ended, TypeOK
  <2>4. CASE FailAttempt(s, n, t)
    BY <1>t, <2>4 DEF FailAttempt, Active, Finish, Kept, Calls, Ended, TypeOK
  <2>5. CASE CancelClaim(s, n, t)
    <3>1. ~Idle(s[1])
      BY <2>5 DEF CancelClaim, Active, Idle, StepsOf
    <3>2. CASE p = s
      BY <1>t, <2>5, <3>2 DEF CancelClaim, Active, Finish, MarkSteps, Ended, TypeOK
    <3>3. CASE p # s
      BY <1>t, <2>5, <3>1, <3>3 DEF CancelClaim, Finish, MarkSteps, Kept, Calls, Dropped, TypeOK
    <3> QED BY <2>5, <3>2, <3>3 DEF CancelClaim
  <2>6. CASE BlockUnknownOutcome(s, n, t)
    BY <1>t, <2>6 DEF BlockUnknownOutcome, Active, Finish, Kept, Calls, Ended, TypeOK
  <2>7. ASSUME NEW target \in {"succeeded", "partial"}, PublishDelivery(s, n, t, target)
        PROVE  /\ Kept(p) \/ Ended(p)
               /\ retried \subseteq retried'
    BY <1>t, <2>7 DEF PublishDelivery, Active, Finish, Kept, Calls, Ended, TypeOK
  <2>8. CASE AuthorizeCall(s, n, t)
    BY <1>t, <2>8 DEF AuthorizeCall, MayCall, Active, Kept, Calls, TypeOK
  <2>9. CASE DenyCall(s, n, t)
    BY <1>t, <2>9 DEF DenyCall, MayCall, Active, Finish, MarkSteps, Kept, Calls, Ended, TypeOK
  <2>10. ASSUME NEW u \in 0..MaxUsage, CompleteExternal(s, n, t, u)
         PROVE  /\ Kept(p) \/ Ended(p)
                /\ retried \subseteq retried'
    <3>1. \/ p = s /\ stepStatus'[p] = "succeeded"
          \/ p # s /\ stepStatus'[p] = stepStatus[p]
          \/ p # s /\ stepStatus[p] = "pending" /\ stepStatus'[p] = "skipped"
      BY <1>t, <2>10 DEF CompleteExternal, MarkSteps
    <3>2. /\ attempt' = [attempt EXCEPT ![s][n] = "succeeded"]
          /\ lease' = [lease EXCEPT ![s][n] = "released"]
          /\ effect' = [effect EXCEPT ![s][n] = "response_committed"]
          /\ stepAttempt' = stepAttempt /\ retried' = retried
          /\ stepStatus[s] = "running" /\ stepAttempt[s] = n
          /\ effect[s][n] = "request_started"
      BY <2>10 DEF CompleteExternal, Active, Finish
    <3>3. CASE p = s
      BY <1>t, <3>1, <3>2, <3>3 DEF Ended, TypeOK
    <3>4. CASE p # s
      BY <1>t, <3>1, <3>2, <3>4 DEF Kept, Calls, TypeOK
    <3> QED BY <3>3, <3>4
  <2>11. ASSUME NEW u \in 0..MaxUsage, RecordLocalUsage(s, n, t, u)
         PROVE  /\ Kept(p) \/ Ended(p)
                /\ retried \subseteq retried'
    BY <2>11 DEF RecordLocalUsage, Kept, Calls
  <2> QED BY <1>5, <2>1, <2>2, <2>3, <2>4, <2>5, <2>6, <2>7, <2>8, <2>9, <2>10, <2>11
          DEF ClaimAction
<1>6. CASE UNCHANGED vars
  BY <1>6 DEF vars, Kept, Calls
<1> QED BY <1>1, <1>2, <1>3, <1>4, <1>5, <1>6 DEF Next

\* Every transaction preserves the agreement of the tables of a step, the order
\* of the steps and the protection of paid calls.
LEMMA StepInvariant == StepInv /\ [Next]_vars => StepInv'
<1> SUFFICES ASSUME StepInv, [Next]_vars PROVE StepInv'
  OBVIOUS
<1> USE RunLedgerAssumption
<1>t. TypeOK /\ TypeOK'
  BY TypeStep DEF StepInv
<1>shape. \A p \in Step : Kept(p) \/ Ended(p) \/ Granted(p)
  BY StepShapes
<1>retried. \A p \in Step : retried \subseteq retried'
  BY StepShapes
<1>1. InFlightAgreement'
  <2> SUFFICES ASSUME NEW p \in Step, NEW n \in Number
               PROVE  /\ attempt'[p][n] = "running" <=> stepStatus'[p] = "running" /\ stepAttempt'[p] = n
                      /\ attempt'[p][n] = "running" <=> lease'[p][n] = "held"
    BY DEF InFlightAgreement
  <2>0. \A m \in Number :
          /\ attempt[p][m] = "running" <=> stepStatus[p] = "running" /\ stepAttempt[p] = m
          /\ attempt[p][m] = "running" <=> lease[p][m] = "held"
    BY DEF StepInv, InFlightAgreement
  <2>1. CASE Kept(p)
    BY <2>0, <2>1 DEF Kept
  <2>2. CASE Ended(p)
    BY <1>t, <2>0, <2>2 DEF Ended, TypeOK
  <2>3. CASE Granted(p)
    BY <1>t, <2>0, <2>3 DEF Granted, TypeOK
  <2> QED BY <1>shape, <2>1, <2>2, <2>3
<1>done. \A p \in Step : Done(p) => Done(p)'
  BY <1>shape DEF Kept, Ended, Granted, Done
<1>2. StepsInOrder'
  <2> SUFFICES ASSUME NEW p \in Step, NEW n \in Number, attempt'[p][n] # "none"
               PROVE  PriorDone(p)'
    BY DEF StepsInOrder
  <2>1. PriorDone(p)
    <3>1. CASE attempt[p][n] # "none"
      BY <3>1 DEF StepInv, StepsInOrder
    <3>2. CASE attempt[p][n] = "none"
      <4>1. ~Kept(p)
        BY <3>2 DEF Kept
      <4>2. ~Ended(p)
        BY <1>t, <3>2 DEF Ended, TypeOK, StepInv, InFlightAgreement
      <4> QED BY <1>shape, <4>1, <4>2 DEF Granted
    <3> QED BY <3>1, <3>2
  <2> QED BY <1>done, <2>1 DEF PriorDone, Step
<1>num. \A p \in Step : stepAttempt[p] \in Number /\ stepAttempt'[p] \in Number
  BY <1>t DEF TypeOK
<1>nat. Number \subseteq Nat
  BY DEF Number
<1>3. AttemptRows'
  <2> SUFFICES ASSUME NEW p \in Step, NEW n \in Number
               PROVE  /\ attempt'[p][n] # "none" => n <= stepAttempt'[p]
                      /\ effect'[p][n] # "not_started" => attempt'[p][n] # "none"
                      /\ effect'[p][n] = "response_committed" => stepStatus'[p] = "succeeded"
    BY DEF AttemptRows
  <2>0. /\ attempt[p][n] # "none" => n <= stepAttempt[p]
        /\ effect[p][n] # "not_started" => attempt[p][n] # "none"
        /\ effect[p][n] = "response_committed" => stepStatus[p] = "succeeded"
        /\ attempt[p][n] = "running" <=> stepStatus[p] = "running" /\ stepAttempt[p] = n
    BY DEF StepInv, AttemptRows, InFlightAgreement
  <2>1. CASE Kept(p)
    BY <1>t, <2>0, <2>1 DEF Kept, Calls, TypeOK
  <2>2. CASE Ended(p)
    BY <1>t, <1>num, <1>nat, <2>0, <2>2 DEF Ended, TypeOK
  <2>3. CASE Granted(p)
    <3>1. effect'[p] = effect[p] /\ stepStatus[p] # "succeeded"
      BY <2>3 DEF Granted
    <3>2. /\ attempt'[p][n] # "none" => n = stepAttempt'[p] \/ attempt[p][n] # "none"
          /\ attempt[p][n] # "none" => attempt'[p][n] # "none" /\ n < stepAttempt'[p]
      BY <2>3 DEF Granted
    <3>3. attempt'[p][n] # "none" => n <= stepAttempt'[p]
      BY <1>num, <1>nat, <3>2
    <3>4. effect[p][n] # "response_committed"
      BY <2>0, <3>1
    <3> QED BY <2>0, <3>1, <3>2, <3>3, <3>4
  <2> QED BY <1>shape, <2>1, <2>2, <2>3
<1>4. PaidCallNotReplayed'
  <2> SUFFICES ASSUME NEW p \in Step, Policy[p] = "paid_external_unknown",
                      NEW m \in Number, NEW n \in Number, m < n, attempt'[p][n] # "none"
               PROVE  \/ effect'[p][m] = "not_started"
                      \/ effect'[p][m] = "request_started" /\ <<p, m>> \in retried'
    BY DEF PaidCallNotReplayed
  <2>0. \A k \in Number : m < k /\ attempt[p][k] # "none" =>
          \/ effect[p][m] = "not_started"
          \/ effect[p][m] = "request_started" /\ <<p, m>> \in retried
    BY DEF StepInv, PaidCallNotReplayed
  <2>1. CASE Kept(p) \/ Ended(p)
    <3>0. attempt[p][n] # "none"
      <4>1. CASE Kept(p)
        BY <4>1 DEF Kept
      <4>2. CASE Ended(p)
        <5>1. attempt[p][stepAttempt[p]] = "running"
          BY <1>num, <4>2 DEF Ended, StepInv, InFlightAgreement
        <5> QED BY <1>t, <1>num, <4>2, <5>1 DEF Ended, TypeOK
      <4> QED BY <2>1, <4>1, <4>2
    <3>1. n <= stepAttempt[p]
      BY <3>0 DEF StepInv, AttemptRows
    <3>2. m # stepAttempt[p]
      BY <1>num, <1>nat, <3>1
    <3>3. effect'[p][m] = effect[p][m]
      BY <1>t, <2>1, <3>2 DEF Kept, Ended, Calls, TypeOK
    <3> QED BY <1>retried, <2>0, <3>0, <3>3
  <2>2. CASE Granted(p)
    <3>1. effect'[p][m] = effect[p][m]
      BY <2>2 DEF Granted
    <3>2. n <= stepAttempt'[p]
      BY <1>t, <1>3 DEF AttemptRows
    <3>3. CASE stepStatus[p] = "pending"
      BY <1>retried, <3>1, <3>3 DEF StepInv, PendingPaidDecided
    <3>4. CASE stepStatus[p] = "running" /\ ~UnknownOutcome(p, stepAttempt[p])
      <4>1. CASE m < stepAttempt[p]
        BY <1>retried, <1>num, <2>0, <3>1, <3>4, <4>1 DEF StepInv, InFlightAgreement
      <4>2. CASE m = stepAttempt[p]
        BY <1>t, <3>1, <3>4, <4>2 DEF StepInv, AttemptRows, UnknownOutcome, TypeOK, EffectState
      <4>3. CASE stepAttempt[p] < m
        BY <1>num, <1>nat, <3>1, <4>3 DEF StepInv, AttemptRows
      <4>4. m < stepAttempt[p] \/ m = stepAttempt[p] \/ stepAttempt[p] < m
        BY <1>num, <1>nat
      <4> QED BY <4>1, <4>2, <4>3, <4>4
    <3> QED BY <2>2, <3>3, <3>4 DEF Granted
  <2> QED BY <1>shape, <2>1, <2>2
<1>5. PendingPaidDecided'
  <2> SUFFICES ASSUME NEW p \in Step, Policy[p] = "paid_external_unknown",
                      stepStatus'[p] = "pending", NEW m \in Number
               PROVE  \/ effect'[p][m] = "not_started"
                      \/ effect'[p][m] = "request_started" /\ <<p, m>> \in retried'
    BY DEF PendingPaidDecided
  <2>1. Kept(p)
    BY <1>shape DEF Ended, Granted
  <2>2. effect'[p] = effect[p]
    BY <2>1 DEF Kept, Calls
  <2>3. CASE stepStatus[p] = "pending"
    BY <1>retried, <2>2, <2>3 DEF StepInv, PendingPaidDecided
  <2>4. ASSUME NEW n \in Number, Resumable(p, n), <<p, n>> \in retried'
        PROVE  \/ effect'[p][m] = "not_started"
               \/ effect'[p][m] = "request_started" /\ <<p, m>> \in retried'
    <3>1. /\ attempt[p][n] # "none" /\ effect[p][n] = "request_started"
          /\ attempt[p][m] # "none" => m <= n
      BY <2>4 DEF Resumable, LatestAttempt, UnknownOutcome
    <3>2. CASE m < n
      BY <1>retried, <2>2, <3>1, <3>2 DEF StepInv, PaidCallNotReplayed
    <3>3. CASE m = n
      BY <2>2, <2>4, <3>1, <3>3
    <3>4. CASE n < m
      BY <1>nat, <2>2, <3>1, <3>4 DEF StepInv, AttemptRows
    <3> QED BY <1>nat, <3>2, <3>3, <3>4
  <2> QED BY <2>1, <2>3, <2>4 DEF Kept, Reopened
<1> QED BY <1>t, <1>1, <1>2, <1>3, <1>4, <1>5 DEF StepInv

\* No step was attempted yet.
LEMMA StepInit == Init => StepInv
<1> SUFFICES ASSUME Init PROVE StepInv
  OBVIOUS
<1>1. TypeOK
  BY RunLedgerAssumption DEF Init, TypeOK, RunStatus, StepStatus, AttemptStatus, EffectState,
     ReservationState, LeaseState, Number
<1>2. \A s \in Step, n \in Number :
        /\ attempt[s][n] = "none" /\ lease[s][n] = "none" /\ effect[s][n] = "not_started"
        /\ stepStatus[s] = "pending"
  BY DEF Init
<1> QED BY <1>1, <1>2 DEF StepInv, InFlightAgreement, StepsInOrder, AttemptRows,
           PaidCallNotReplayed, PendingPaidDecided

\* The invariant of the steps holds in every reachable state.
THEOREM StepsCorrect == Spec => []StepInv
BY StepInit, StepInvariant, PTL DEF Spec

\* Attempts, leases and step statuses always agree on what is in flight.
THEOREM InFlightCorrect == Spec => []InFlightAgreement
BY StepsCorrect, PTL DEF StepInv

\* Steps are attempted in order, whatever is retried, cancelled or resumed.
THEOREM OrderCorrect == Spec => []StepsInOrder
BY StepsCorrect, PTL DEF StepInv

\* No paid call is repeated without a decision of the user, with any delay of
\* the clocks and any number of attempts.
THEOREM NoReplay == Spec => []PaidCallNotReplayed
BY StepsCorrect, PTL DEF StepInv

--------------------------------------------------------------------------------
(* The live lease.                                                             *)

\* What a transaction other than a claim does to the leases: the ones it leaves
\* unexpired were so before, with their tokens.
LeasesKept ==
  /\ token' = token /\ lastToken' = lastToken
  /\ \A s \in Step, n \in Number : lease'[s][n] = "held" /\ expires'[s][n] > now' =>
       lease[s][n] = "held" /\ expires[s][n] > now

\* A claim transaction grants only when it saw no unexpired lease.
LEMMA GrantWhenFree ==
  ASSUME NEW t, NEW w, ClaimNextStep(w, t)
  PROVE  \E reap, fence, block, grant :
           /\ ClaimTables(reap, fence, block, grant, t)
           /\ grant = {} \/ ~LiveLease(t)
BY DEF ClaimNextStep

\* With current clocks the claim transaction gives its lease the newest token
\* when every other one has expired.
LEMMA ClaimKeepsNewest ==
  ASSUME TypeOK, LiveLeaseHoldsNewestToken, NEW w, ClaimNextStep(w, now)
  PROVE  LiveLeaseHoldsNewestToken'
<1>1. PICK reap, fence, block, grant :
        /\ ClaimTables(reap, fence, block, grant, now)
        /\ grant = {} \/ ~LiveLease(now)
  BY GrantWhenFree
<1> SUFFICES ASSUME NEW s \in Step, NEW n \in Number,
                    lease'[s][n] = "held", expires'[s][n] > now'
             PROVE  token'[s][n] = lastToken'
  BY DEF LiveLeaseHoldsNewestToken
<1>2. CASE <<s, n>> \in grant
  BY <1>1, <1>2 DEF ClaimTables
<1>3. CASE <<s, n>> \notin grant
  <2>1. lease[s][n] = "held" /\ expires[s][n] > now /\ token'[s][n] = token[s][n]
    BY <1>1, <1>3 DEF ClaimTables
  <2>2. grant = {}
    BY <1>1, <2>1 DEF LiveLease
  <2>3. lastToken' = lastToken
    BY <1>1, <2>2 DEF ClaimTables
  <2> QED BY <2>1, <2>3 DEF LiveLeaseHoldsNewestToken
<1> QED BY <1>2, <1>3

\* The holder of a claim prolongs a lease only before it expired.
LEMMA HolderKeepsLeases ==
  ASSUME TypeOK, NEW s \in Step, NEW n \in Number, ClaimAction(s, n, now)
  PROVE  LeasesKept
<1> USE DEF leaseVars, tokenVars, budgetVars, LeasesKept
<1>1. CASE HeartbeatAttempt(s, n, now)
  BY <1>1 DEF HeartbeatAttempt, Active, TypeOK
<1>2. CASE CompleteAttempt(s, n, now)
  BY <1>2 DEF CompleteAttempt, Finish, TypeOK
<1>3. CASE SkipAttempt(s, n, now)
  BY <1>3 DEF SkipAttempt, Finish, TypeOK
<1>4. CASE FailAttempt(s, n, now)
  BY <1>4 DEF FailAttempt, Finish, TypeOK
<1>5. CASE CancelClaim(s, n, now)
  BY <1>5 DEF CancelClaim, Finish, TypeOK
<1>6. CASE BlockUnknownOutcome(s, n, now)
  BY <1>6 DEF BlockUnknownOutcome, Finish, TypeOK
<1>7. ASSUME NEW target \in {"succeeded", "partial"}, PublishDelivery(s, n, now, target)
      PROVE  LeasesKept
  BY <1>7 DEF PublishDelivery, Finish, TypeOK
<1>8. CASE AuthorizeCall(s, n, now)
  BY <1>8 DEF AuthorizeCall
<1>9. CASE DenyCall(s, n, now)
  BY <1>9 DEF DenyCall, Finish, TypeOK
<1>10. ASSUME NEW u \in 0..MaxUsage, CompleteExternal(s, n, now, u)
       PROVE  LeasesKept
  BY <1>10 DEF CompleteExternal, Finish, TypeOK
<1>11. ASSUME NEW u \in 0..MaxUsage, RecordLocalUsage(s, n, now, u)
       PROVE  LeasesKept
  BY <1>11 DEF RecordLocalUsage
<1> QED BY <1>1, <1>2, <1>3, <1>4, <1>5, <1>6, <1>7, <1>8, <1>9, <1>10, <1>11 DEF ClaimAction

\* With clocks that are current when the transaction starts, an unexpired lease
\* is held by the newest claim of the database.
THEOREM LeaseCorrect == ASSUME MaxDelay = 0 PROVE Spec => []LiveLeaseHoldsNewestToken
<1>1. Init => LiveLeaseHoldsNewestToken
  BY DEF Init, LiveLeaseHoldsNewestToken
<1>2. TypeOK /\ LiveLeaseHoldsNewestToken /\ [Next]_vars => LiveLeaseHoldsNewestToken'
  <2> SUFFICES ASSUME TypeOK, LiveLeaseHoldsNewestToken, [Next]_vars
               PROVE  LiveLeaseHoldsNewestToken'
    OBVIOUS
  <2> USE DEF leaseVars, tokenVars, budgetVars
  <2>kept. LeasesKept => LiveLeaseHoldsNewestToken'
    BY DEF LeasesKept, LiveLeaseHoldsNewestToken
  <2>clock. \A t \in ReadClock : t = now
    BY DEF ReadClock, TypeOK
  <2>1. CASE Tick
    BY <2>kept, <2>1 DEF Tick, LeasesKept, TypeOK
  <2>2. ASSUME NEW r \in Run, RunAction(r) PROVE LeasesKept
    BY <2>2 DEF RunAction, SubmitTask, TransitionRun, RequestCancel, FinalizeCancellation,
       StopToolBudget, PublishDirect, LeasesKept
  <2>3. ASSUME NEW s \in Step, StepAction(s) PROVE LeasesKept
    BY <2>3 DEF StepAction, RequeueFailedStep, ResumeRetry, ResumeFail, LeasesKept
  <2>4. ASSUME NEW t \in ReadClock, NEW w \in Filters, ClaimNextStep(w, t)
        PROVE  LiveLeaseHoldsNewestToken'
    BY <2>clock, <2>4, ClaimKeepsNewest
  <2>5. ASSUME NEW t \in ReadClock, NEW s \in Step, NEW n \in Number, ClaimAction(s, n, t)
        PROVE  LeasesKept
    BY <2>clock, <2>5, HolderKeepsLeases
  <2>6. CASE UNCHANGED vars
    BY <2>kept, <2>6 DEF vars, LeasesKept
  <2> QED BY <2>kept, <2>1, <2>2, <2>3, <2>4, <2>5, <2>6 DEF Next
<1> QED BY <1>1, <1>2, TypeCorrect, PTL DEF Spec

--------------------------------------------------------------------------------
(* The budget.                                                                 *)

\* A reservation belongs to a row of attempts.
ReservationRows == \A s \in Step, n \in Number :
  reservation[s][n] # "none" => attempt[s][n] # "none"

\* Until the budget of a run is stopped its usage is within the limit, and so is
\* what a call in flight will add.
WithinLimit == \A r \in Run : limitState[r] = "active" =>
  /\ spent[r] <= Limit
  /\ \A p \in Held(r) \cap InFlight : spent[r] + Reserve <= Limit

BudgetInv == ReservationRows /\ WithinLimit

\* What a transaction that charges nothing does to the budgets.
Frugal ==
  /\ spent' = spent
  /\ \A r \in Run : limitState'[r] = "active" => limitState[r] = "active"
  /\ \A s \in Step, n \in Number :
       \/ reservation'[s][n] = reservation[s][n]
       \/ reservation'[s][n] = "released" /\ reservation[s][n] = "active"

\* The in-flight attempts of a run are at most one.
LEMMA OneCall ==
  ASSUME StepInv, NEW p \in InFlight, NEW q \in InFlight, p[1][1] = q[1][1]
  PROVE  p = q
<1>1. /\ p[1] \in Step /\ p[2] \in Number /\ p = <<p[1], p[2]>>
      /\ q[1] \in Step /\ q[2] \in Number /\ q = <<q[1], q[2]>>
  BY DEF InFlight
<1>2. /\ stepStatus[p[1]] = "running" /\ stepAttempt[p[1]] = p[2]
      /\ stepStatus[q[1]] = "running" /\ stepAttempt[q[1]] = q[2]
  BY <1>1 DEF InFlight, StepInv, InFlightAgreement
<1>3. p[1] = q[1]
  BY <1>1, <1>2, OneInFlight DEF StepInv
<1> QED BY <1>1, <1>2, <1>3

\* No transaction puts a row with a reservation back in flight, or removes a row.
LEMMA RowsOfShapes ==
  ASSUME StepInv, [Next]_vars, NEW s \in Step, NEW n \in Number
  PROVE  /\ attempt[s][n] # "none" => attempt'[s][n] # "none"
         /\ attempt'[s][n] = "running" => attempt[s][n] \in {"none", "running"}
<1>1. CASE Kept(s)
  BY <1>1 DEF Kept
<1>2. CASE Ended(s)
  BY <1>2 DEF Ended, StepInv, TypeOK
<1>3. CASE Granted(s)
  <2>1. attempt[s][n] # "none" => n < stepAttempt'[s]
    BY <1>3 DEF Granted
  <2>2. TypeOK'
    BY TypeStep DEF StepInv
  <2>3. stepAttempt'[s] \in Number /\ Number \subseteq Nat
    BY <2>2 DEF TypeOK, Number
  <2>4. attempt[s][n] # "none" => n # stepAttempt'[s]
    BY <2>1, <2>3
  <2> QED BY <1>3, <2>4 DEF Granted
<1> QED BY <1>1, <1>2, <1>3, StepShapes

\* A transaction that charges nothing keeps the budgets.
LEMMA FrugalKeeps ==
  ASSUME StepInv, BudgetInv, [Next]_vars, Frugal
  PROVE  BudgetInv'
<1>1. ReservationRows'
  <2> SUFFICES ASSUME NEW s \in Step, NEW n \in Number, reservation'[s][n] # "none"
               PROVE  attempt'[s][n] # "none"
    BY DEF ReservationRows
  <2>1. reservation[s][n] # "none"
    BY DEF Frugal
  <2> QED BY <2>1, RowsOfShapes DEF BudgetInv, ReservationRows
<1>2. WithinLimit'
  <2> SUFFICES ASSUME NEW r \in Run, limitState'[r] = "active"
               PROVE  /\ spent'[r] <= Limit
                      /\ \A p \in (Held(r) \cap InFlight)' : spent'[r] + Reserve <= Limit
    BY DEF WithinLimit
  <2>1. spent'[r] = spent[r] /\ limitState[r] = "active"
    BY DEF Frugal
  <2>2. ASSUME NEW p \in (Held(r) \cap InFlight)' PROVE p \in Held(r) \cap InFlight
    <3>1. /\ p[1] \in Step /\ p[2] \in Number /\ p[1][1] = r /\ p \in Step \X Number
          /\ reservation'[p[1]][p[2]] = "active" /\ attempt'[p[1]][p[2]] = "running"
      BY DEF Held, InFlight
    <3>2. reservation[p[1]][p[2]] = "active"
      BY <3>1 DEF Frugal
    <3>3. attempt[p[1]][p[2]] = "running"
      BY <3>1, <3>2, RowsOfShapes DEF BudgetInv, ReservationRows
    <3>4. lease[p[1]][p[2]] = "held"
      BY <3>1, <3>3 DEF StepInv, InFlightAgreement
    <3> QED BY <3>1, <3>2, <3>3, <3>4 DEF Held, InFlight
  <2> QED BY <2>1, <2>2 DEF BudgetInv, WithinLimit
<1> QED BY <1>1, <1>2 DEF BudgetInv

\* Three transactions charge a run or reserve for it; each has its active claim.
Charging(s, n, t) ==
  \/ AuthorizeCall(s, n, t)
  \/ \E u \in 0..MaxUsage : CompleteExternal(s, n, t, u) \/ RecordLocalUsage(s, n, t, u)

\* The other transactions of a claim charge nothing.
LEMMA HolderFrugal ==
  ASSUME TypeOK, NEW s \in Step, NEW n \in Number, NEW t, ClaimAction(s, n, t)
  PROVE  Frugal \/ Charging(s, n, t)
<1> USE DEF leaseVars, tokenVars, budgetVars, Frugal
<1>1. CASE HeartbeatAttempt(s, n, t)
  BY <1>1 DEF HeartbeatAttempt
<1>2. CASE CompleteAttempt(s, n, t)
  BY <1>2 DEF CompleteAttempt
<1>3. CASE SkipAttempt(s, n, t)
  BY <1>3 DEF SkipAttempt, CloseReservation, TypeOK
<1>4. CASE FailAttempt(s, n, t)
  BY <1>4 DEF FailAttempt, CloseReservation, TypeOK
<1>5. CASE CancelClaim(s, n, t)
  BY <1>5 DEF CancelClaim, CloseReservation, TypeOK
<1>6. CASE BlockUnknownOutcome(s, n, t)
  BY <1>6 DEF BlockUnknownOutcome, CloseReservation, TypeOK
<1>7. ASSUME NEW target \in {"succeeded", "partial"}, PublishDelivery(s, n, t, target)
      PROVE  Frugal
  BY <1>7 DEF PublishDelivery
<1>8. CASE DenyCall(s, n, t)
  <2>1. \A r \in Run : limitState'[r] = "active" => limitState[r] = "active"
    BY <1>8 DEF DenyCall, TypeOK
  <2>2. \A p \in Step, m \in Number :
          \/ reservation'[p][m] = reservation[p][m]
          \/ reservation'[p][m] = "released" /\ reservation[p][m] = "active"
    BY <1>8 DEF DenyCall, ReleaseStale, Stale, Held
  <2> QED BY <1>8, <2>1, <2>2 DEF DenyCall
<1> QED BY <1>1, <1>2, <1>3, <1>4, <1>5, <1>6, <1>7, <1>8 DEF ClaimAction, Charging

\* Their other rows are kept or released.
LEMMA ChargedElsewhere ==
  ASSUME TypeOK, NEW s \in Step, NEW n \in Number, NEW t, Charging(s, n, t),
         NEW p \in Step, NEW m \in Number, p # s \/ m # n
  PROVE  \/ reservation'[p][m] = reservation[p][m]
         \/ reservation'[p][m] = "released" /\ reservation[p][m] = "active"
<1>1. CASE AuthorizeCall(s, n, t)
  <2>1. reservation'[p][m] = ReleaseStale(s[1], t)[p][m]
    <3> DEFINE old == ReleaseStale(s[1], t)
    <3>1. reservation' = [old EXCEPT ![s][n] = "active"]
      BY <1>1 DEF AuthorizeCall
    <3>2. old[p] = [k \in Number |->
                      IF <<p, k>> \in Stale(s[1], t) THEN "released" ELSE reservation[p][k]]
          /\ DOMAIN old = Step
      BY DEF ReleaseStale
    <3> HIDE DEF old
    <3>3. reservation'[p][m] = old[p][m]
      BY <3>1, <3>2
    <3> QED BY <3>3 DEF old
  <2> QED BY <2>1 DEF ReleaseStale, Stale, Held
<1>2. ASSUME NEW u \in 0..MaxUsage, CompleteExternal(s, n, t, u)
      PROVE  reservation'[p][m] = reservation[p][m]
  BY <1>2 DEF CompleteExternal, TypeOK
<1>3. ASSUME NEW u \in 0..MaxUsage, RecordLocalUsage(s, n, t, u)
      PROVE  reservation'[p][m] = reservation[p][m]
  BY <1>3 DEF RecordLocalUsage, TypeOK
<1> QED BY <1>1, <1>2, <1>3 DEF Charging

\* The rows the three charging transactions write are in flight.
LEMMA ChargedRows ==
  ASSUME StepInv, BudgetInv, [Next]_vars, NEW s \in Step, NEW n \in Number, NEW t,
         Charging(s, n, t)
  PROVE  ReservationRows'
<1>1. attempt[s][n] = "running"
  BY DEF Charging, AuthorizeCall, MayCall, CompleteExternal, RecordLocalUsage, Active
<1>2. \A p \in Step, m \in Number :
        p # s \/ m # n => reservation'[p][m] = reservation[p][m]
                          \/ reservation[p][m] = "active"
  BY ChargedElsewhere DEF StepInv
<1> SUFFICES ASSUME NEW p \in Step, NEW m \in Number, reservation'[p][m] # "none"
             PROVE  attempt'[p][m] # "none"
  BY DEF ReservationRows
<1>3. attempt[p][m] # "none"
  BY <1>1, <1>2 DEF BudgetInv, ReservationRows
<1> QED BY <1>3, RowsOfShapes

\* The only attempt in flight in the run is the one of the claim, and the charge
\* leaves room for it.
LEMMA ChargedLimit ==
  ASSUME StepInv, BudgetInv, [Next]_vars, NEW s \in Step, NEW n \in Number, NEW t,
         Charging(s, n, t)
  PROVE  WithinLimit'
<1> USE RunLedgerAssumption
<1>1. /\ s[1] \in Run /\ <<s, n>> \in InFlight
      /\ attempt[s][n] = "running"
  BY DEF Charging, AuthorizeCall, MayCall, CompleteExternal, RecordLocalUsage, Active,
         InFlight, Step
<1>2. \A p \in InFlight : p[1][1] = s[1] => p = <<s, n>>
  BY <1>1, OneCall
<1>rows. \A p \in Step, m \in Number :
           p # s \/ m # n => /\ reservation'[p][m] = "active" => reservation[p][m] = "active"
                             /\ reservation'[p][m] = "active" /\ attempt'[p][m] = "running"
                                  => <<p, m>> \in Held(p[1]) \cap InFlight
  <2>1. \A p \in Step, m \in Number :
          p # s \/ m # n => reservation'[p][m] = reservation[p][m]
                            \/ reservation'[p][m] = "released"
    BY ChargedElsewhere DEF StepInv
  <2> SUFFICES ASSUME NEW p \in Step, NEW m \in Number, p # s \/ m # n,
                      reservation'[p][m] = "active"
               PROVE  /\ reservation[p][m] = "active"
                      /\ attempt'[p][m] = "running" => <<p, m>> \in Held(p[1]) \cap InFlight
    OBVIOUS
  <2>2. reservation[p][m] = "active"
    BY <2>1
  <2>3. attempt[p][m] # "none"
    BY <2>2 DEF BudgetInv, ReservationRows
  <2>4. attempt'[p][m] = "running" => attempt[p][m] = "running" /\ lease[p][m] = "held"
    BY <2>3, RowsOfShapes DEF StepInv, InFlightAgreement
  <2> QED BY <2>2, <2>4 DEF Held, InFlight
<1>3. \A p \in (Held(s[1]) \cap InFlight)' : p = <<s, n>>
  <2> SUFFICES ASSUME NEW p \in (Held(s[1]) \cap InFlight)', p # <<s, n>>
               PROVE  FALSE
    OBVIOUS
  <2>1. /\ p[1] \in Step /\ p[2] \in Number /\ p = <<p[1], p[2]>> /\ p[1][1] = s[1]
        /\ reservation'[p[1]][p[2]] = "active" /\ attempt'[p[1]][p[2]] = "running"
    BY DEF Held, InFlight
  <2>2. p \in InFlight
    BY <1>rows, <2>1
  <2> QED BY <1>2, <2>1, <2>2
<1>4. ASSUME NEW r \in Run, r # s[1], limitState'[r] = "active"
      PROVE  /\ spent'[r] <= Limit
             /\ \A p \in (Held(r) \cap InFlight)' : spent'[r] + Reserve <= Limit
  <2>1. spent'[r] = spent[r] /\ limitState[r] = "active"
    BY <1>1, <1>4 DEF Charging, AuthorizeCall, CompleteExternal, RecordLocalUsage, StepInv, TypeOK
  <2>2. ASSUME NEW p \in (Held(r) \cap InFlight)' PROVE p \in Held(r) \cap InFlight
    <3>1. /\ p[1] \in Step /\ p[2] \in Number /\ p = <<p[1], p[2]>> /\ p[1][1] = r
          /\ reservation'[p[1]][p[2]] = "active" /\ attempt'[p[1]][p[2]] = "running"
      BY DEF Held, InFlight
    <3>2. p[1] # s
      BY <1>4, <3>1
    <3> QED BY <1>rows, <3>1, <3>2
  <2> QED BY <2>1, <2>2 DEF BudgetInv, WithinLimit
<1>5. ASSUME limitState'[s[1]] = "active"
      PROVE  /\ spent'[s[1]] <= Limit
             /\ \A p \in (Held(s[1]) \cap InFlight)' : spent'[s[1]] + Reserve <= Limit
  <2>1. CASE AuthorizeCall(s, n, t)
    <3> DEFINE live == Held(s[1]) \ Stale(s[1], t)
    <3>1. spent' = spent /\ Sufficient(s[1], t)
      BY <2>1 DEF AuthorizeCall
    <3>2. live \in SUBSET {<<s, n>>}
      <4> SUFFICES ASSUME NEW p \in live PROVE p = <<s, n>>
        OBVIOUS
      <4>1. p \in InFlight /\ p[1][1] = s[1]
        BY DEF Held, Stale, InFlight
      <4> QED BY <1>2, <4>1
    <3>3. Cardinality(live) \in Nat
      BY <3>2, FS_Subset, FS_Singleton, FS_CardinalityType
    <3>4. spent[s[1]] + Reserve * Cardinality(live) + Reserve <= Limit
      BY <3>1 DEF Sufficient
    <3> HIDE DEF live
    <3>5. \A k \in Nat : Reserve * k \in Nat
      OBVIOUS
    <3>6. spent[s[1]] \in Nat
      BY <1>1 DEF StepInv, TypeOK
    <3>7. spent[s[1]] + Reserve <= Limit /\ spent[s[1]] <= Limit
      BY <3>3, <3>4, <3>5, <3>6
    <3> QED BY <3>1, <3>7
  <2>2. ASSUME NEW u \in 0..MaxUsage, CompleteExternal(s, n, t, u) \/ RecordLocalUsage(s, n, t, u)
        PROVE  /\ spent'[s[1]] <= Limit
               /\ \A p \in (Held(s[1]) \cap InFlight)' : spent'[s[1]] + Reserve <= Limit
    <3>0. 0..MaxUsage \subseteq Nat /\ Limit \in Nat
      OBVIOUS
    <3>1. spent[s[1]] \in Nat /\ u \in Nat /\ Limit \in Nat
      BY <1>1, <3>0 DEF StepInv, TypeOK
    <3>2. spent' = [spent EXCEPT ![s[1]] = @ + u] /\ reservation' = [reservation EXCEPT ![s][n] = "settled"]
      BY <2>2 DEF CompleteExternal, RecordLocalUsage
    <3>3. spent'[s[1]] = spent[s[1]] + u /\ reservation'[s][n] = "settled"
      BY <1>1, <3>2 DEF StepInv, TypeOK
    <3>4. spent'[s[1]] <= Limit
      <4>1. CASE CompleteExternal(s, n, t, u)
        <5>1. limitState'[s[1]] = IF spent[s[1]] + u > Limit THEN "stopped" ELSE limitState[s[1]]
          BY <1>1, <4>1 DEF CompleteExternal, StepInv, TypeOK
        <5> QED BY <1>5, <3>1, <3>3, <5>1
      <4>2. CASE RecordLocalUsage(s, n, t, u)
        BY <3>3, <4>2 DEF RecordLocalUsage
      <4> QED BY <2>2, <4>1, <4>2
    <3>5. (Held(s[1]) \cap InFlight)' = {}
      BY <1>3, <3>3 DEF Held
    <3> QED BY <3>4, <3>5
  <2> QED BY <2>1, <2>2 DEF Charging
<1> QED BY <1>4, <1>5 DEF WithinLimit

\* A held lease of a call is counted at most once.
LEMMA OneReserved ==
  ASSUME StepInv, BudgetInv, NEW r \in Run, limitState[r] = "active"
  PROVE  spent[r] + Reserve * Cardinality(Held(r) \cap InFlight) <= Limit
<1> DEFINE calls == Held(r) \cap InFlight
<1>1. spent[r] \in Nat /\ Reserve \in Nat
  BY RunLedgerAssumption DEF StepInv, TypeOK
<1>2. CASE calls = {}
  <2>1. Cardinality(calls) = 0 /\ spent[r] <= Limit
    BY <1>2, FS_EmptySet DEF BudgetInv, WithinLimit
  <2> QED BY <1>1, <2>1
<1>3. CASE calls # {}
  <2>1. PICK p : p \in calls
    BY <1>3
  <2>2. \A q \in calls : q = p
    BY <2>1, OneCall DEF Held
  <2>3. calls = {p}
    BY <2>1, <2>2
  <2>4. Cardinality(calls) = 1 /\ spent[r] + Reserve <= Limit
    BY <2>1, <2>3, FS_Singleton DEF BudgetInv, WithinLimit
  <2> QED BY <1>1, <2>4
<1> QED BY <1>2, <1>3

\* Until a budget is stopped, usage and the reservation of the call in flight
\* stay within the limit, whatever becomes of the workers and their reservations.
THEOREM BudgetCorrect == Spec => []BudgetHeld
<1>1. Init => BudgetInv
  BY RunLedgerAssumption DEF Init, BudgetInv, ReservationRows, WithinLimit, Held
<1>2. StepInv /\ BudgetInv /\ [Next]_vars => BudgetInv'
  <2> SUFFICES ASSUME StepInv, BudgetInv, [Next]_vars PROVE BudgetInv'
    OBVIOUS
  <2> USE DEF leaseVars, tokenVars, budgetVars
  <2>t. TypeOK
    BY DEF StepInv
  <2>1. CASE Tick
    BY <2>1, FrugalKeeps DEF Tick, Frugal
  <2>2. ASSUME NEW r \in Run, RunAction(r) PROVE Frugal
    BY <2>t, <2>2 DEF RunAction, SubmitTask, TransitionRun, RequestCancel, FinalizeCancellation,
       StopToolBudget, PublishDirect, Frugal, TypeOK
  <2>3. ASSUME NEW s \in Step, StepAction(s) PROVE Frugal
    BY <2>3 DEF StepAction, RequeueFailedStep, ResumeRetry, ResumeFail, Frugal
  <2>4. ASSUME NEW t \in ReadClock, NEW w \in Filters, ClaimNextStep(w, t) PROVE Frugal
    BY <2>4, ClaimFrame DEF ClaimTables, Frugal
  <2>5. ASSUME NEW t \in ReadClock, NEW s \in Step, NEW n \in Number, ClaimAction(s, n, t)
        PROVE  BudgetInv'
    BY <2>t, <2>5, HolderFrugal, FrugalKeeps, ChargedRows, ChargedLimit DEF BudgetInv
  <2>6. CASE UNCHANGED vars
    BY <2>6, FrugalKeeps DEF vars, Frugal
  <2> QED BY <2>1, <2>2, <2>3, <2>4, <2>5, <2>6, FrugalKeeps DEF Next
<1>3. StepInv /\ BudgetInv => BudgetHeld
  BY OneReserved DEF BudgetHeld
<1> QED BY <1>1, <1>2, <1>3, StepsCorrect, PTL DEF Spec
================================================================================
