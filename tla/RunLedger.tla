------------------------------- MODULE RunLedger -------------------------------
(* The durable SQLite runtime of conflux_weave: the tables runs, steps,        *)
(* attempts, leases, attempt_effects, budget_reservations, budget_limits and   *)
(* deliveries, with one action for each repository transaction on them.  Every *)
(* repository method opens one BEGIN IMMEDIATE transaction, so each is one     *)
(* atomic step; a caller runs several of them in a row, and anything may       *)
(* happen in between.  A worker that lost its lease keeps its claim and may    *)
(* still call any method with it.                                             *)
EXTENDS Naturals, FiniteSets

CONSTANTS
  Run,          \* run ids; a set of naturals, so that ORDER BY run_id is an order
  Steps,        \* number of steps of a run; ordinals are 1..Steps
  Policy,       \* side effect class of each step (step_policies)
  Workflow,     \* workflow_version of each run
  Direct,       \* the runs the API server executes itself, without a claim
  Filters,      \* workflow filters of the workers ("any" is no filter)
  Limit,        \* budget limit of a run, one budget dimension
  Reserve,      \* worst case a call of the run reserves before it starts
  MaxUsage,     \* bound: usage a tool or a provider may report
  WallClock,    \* wall_clock_seconds of the budget
  LeaseTime,    \* lease_seconds of the workers
  MaxDelay,     \* how stale the clock value of a transaction may be
  MaxAttempts,  \* bound: rows of the attempts table per step
  MaxTime       \* bound: the clock

RunStatus  == {"absent", "accepted", "queued", "running", "waiting_for_user",
               "cancelling", "succeeded", "partial", "failed", "cancelled",
               "expired"}
Terminal   == {"succeeded", "partial", "failed", "cancelled", "expired"}
StepStatus == {"pending", "running", "waiting_for_user", "succeeded",
               "failed", "cancelled", "skipped"}
AttemptStatus == {"none", "running", "succeeded", "failed", "fenced"}
SideEffect == {"none", "replayable_external_read", "paid_external_unknown",
               "idempotent_local_write"}
External   == {"replayable_external_read", "paid_external_unknown"}
EffectState      == {"not_started", "request_started", "response_committed"}
ReservationState == {"none", "active", "settled", "released"}
LeaseState       == {"none", "held", "released"}

Step   == Run \X (1..Steps)
Number == 1..MaxAttempts             \* attempt_number

ASSUME RunLedgerAssumption ==
  /\ Run \subseteq Nat /\ IsFiniteSet(Run)
  /\ Steps \in Nat \ {0}
  /\ Policy \in [Step -> SideEffect]
  /\ Direct \subseteq Run
  /\ "any" \notin {Workflow[r] : r \in Run}
  /\ Limit \in Nat /\ Reserve \in Nat /\ MaxUsage \in Nat
  /\ WallClock \in Nat /\ LeaseTime \in Nat \ {0} /\ MaxDelay \in Nat
  /\ MaxAttempts \in Nat \ {0} /\ MaxTime \in Nat

VARIABLES
  now,          \* the clock all workers read
  runStatus,    \* runs.status, "absent" when there is no row
  createdAt,    \* runs.created_at and budget_limits.created_at
  stepStatus,   \* steps.status
  stepAttempt,  \* steps.attempt, the number of the current attempt
  attempt,      \* attempts.status of attempt n of a step, "none" without a row
  token,        \* attempts.fencing_token, 0 without a row
  lastToken,    \* MAX(fencing_token) over attempts
  lease,        \* leases row of the attempt: released_at IS NULL is "held"
  heartbeat,    \* leases.heartbeat_at
  expires,      \* leases.expires_at
  effect,       \* attempt_effects.effect_state
  reservation,  \* budget_reservations.status of the attempt's reservation
  limitState,   \* budget_limits.state
  spent,        \* sum of the 'actual' budget_entries of a run
  delivered,    \* the runs with a deliveries row
  retried       \* attempts with a recovery_decided event for a retry

leaseVars  == <<attempt, lease, heartbeat, expires>>
tokenVars  == <<token, lastToken>>
budgetVars == <<reservation, limitState, spent>>
vars == <<now, runStatus, createdAt, stepStatus, stepAttempt, attempt, token,
          lastToken, lease, heartbeat, expires, effect, reservation, limitState,
          spent, delivered, retried>>

TypeOK ==
  /\ now \in Nat
  /\ runStatus   \in [Run -> RunStatus]
  /\ createdAt   \in [Run -> Nat]
  /\ stepStatus  \in [Step -> StepStatus]
  /\ stepAttempt \in [Step -> Number]
  /\ attempt     \in [Step -> [Number -> AttemptStatus]]
  /\ token       \in [Step -> [Number -> Nat]]
  /\ lastToken   \in Nat
  /\ lease       \in [Step -> [Number -> LeaseState]]
  /\ heartbeat   \in [Step -> [Number -> Nat]]
  /\ expires     \in [Step -> [Number -> Nat]]
  /\ effect      \in [Step -> [Number -> EffectState]]
  /\ reservation \in [Step -> [Number -> ReservationState]]
  /\ limitState  \in [Run -> {"active", "stopped"}]
  /\ spent       \in [Run -> Nat]
  /\ delivered   \subseteq Run
  /\ retried     \subseteq Step \X Number

Init ==
  /\ now = 0 /\ lastToken = 0 /\ retried = {} /\ delivered = {}
  /\ runStatus   = [r \in Run |-> "absent"]
  /\ createdAt   = [r \in Run |-> 0]
  /\ stepStatus  = [s \in Step |-> "pending"]
  /\ stepAttempt = [s \in Step |-> 1]
  /\ attempt     = [s \in Step |-> [n \in Number |-> "none"]]
  /\ token       = [s \in Step |-> [n \in Number |-> 0]]
  /\ lease       = [s \in Step |-> [n \in Number |-> "none"]]
  /\ heartbeat   = [s \in Step |-> [n \in Number |-> 0]]
  /\ expires     = [s \in Step |-> [n \in Number |-> 0]]
  /\ effect      = [s \in Step |-> [n \in Number |-> "not_started"]]
  /\ reservation = [s \in Step |-> [n \in Number |-> "none"]]
  /\ limitState  = [r \in Run |-> "active"]
  /\ spent       = [r \in Run |-> 0]

--------------------------------------------------------------------------------
(* Queries shared by several transactions.                                     *)

\* A caller reads the clock, then waits for the write lock.
ReadClock == {t \in 0..now : now <= t + MaxDelay}

StepsOf(r) == {s \in Step : s[1] = r}
Done(s)    == stepStatus[s] \in {"succeeded", "skipped"}
PriorDone(s) == \A k \in 1..Steps : k < s[2] => Done(<<s[1], k>>)

InFlight == {p \in Step \X Number :
               attempt[p[1]][p[2]] = "running" /\ lease[p[1]][p[2]] = "held"}
HasInFlight(r) == \E p \in InFlight : p[1][1] = r
\* Mutant of LiveLease: compares the last heartbeat, not the expiry.
LiveLeaseByHeartbeat(t) == \E s \in Step, n \in Number :
                             lease[s][n] = "held" /\ heartbeat[s][n] > t
LiveLease(t) == \E s \in Step, n \in Number :
                  lease[s][n] = "held" /\ expires[s][n] > t

\* Mutant of Active: the lease times alone, not the state of attempt and lease.
ActiveByTime(s, n, t) == /\ heartbeat[s][n] <= t /\ expires[s][n] > t
                         /\ stepStatus[s] = "running"

\* Mutant of Active: the lease of the step's current attempt, whoever calls.
ActiveOfStep(s, n, t) == /\ stepStatus[s] = "running"
                         /\ lease[s][stepAttempt[s]] = "held"
                         /\ expires[s][stepAttempt[s]] > t

\* _require_active_attempt
Active(s, n, t) ==
  /\ attempt[s][n] = "running"
  /\ lease[s][n] = "held"
  /\ heartbeat[s][n] <= t
  /\ expires[s][n] > t
  /\ stepStatus[s] = "running"
  /\ stepAttempt[s] = n

\* Mutant of UnknownOutcome: takes the replayable reads for the paid calls.
UnknownOutcomeOfReads(s, n) == /\ Policy[s] = "replayable_external_read"
                               /\ effect[s][n] = "request_started"
UnknownOutcome(s, n) == /\ Policy[s] = "paid_external_unknown"
                        /\ effect[s][n] = "request_started"

\* core/state_machine.py
Allowed(status) ==
  CASE status = "accepted"         -> {"queued"}
    [] status = "queued"           -> {"running"}
    [] status = "running"          -> {"waiting_for_user", "cancelling",
                                       "succeeded", "partial", "failed"}
    [] status = "waiting_for_user" -> {"queued", "cancelled", "expired"}
    [] status = "cancelling"       -> {"cancelled", "failed"}
    [] OTHER                       -> {}

\* _finish_attempt and the fencing updates: the attempt ends, its lease with it
Finish(s, n, status) ==
  /\ attempt' = [attempt EXCEPT ![s][n] = status]
  /\ lease'   = [lease EXCEPT ![s][n] = "released"]
  /\ UNCHANGED <<heartbeat, expires>>

\* _close_active_reservation
CloseReservation(s, n) ==
  reservation' = [reservation EXCEPT ![s][n] = IF @ = "active" THEN "released" ELSE @]

\* UPDATE steps SET status = new WHERE run_id = r AND status IN old
MarkSteps(r, old, new) ==
  [s \in Step |-> IF s[1] = r /\ stepStatus[s] \in old THEN new ELSE stepStatus[s]]

--------------------------------------------------------------------------------
(* Runs: submission, transitions, cancellation, resumption.                    *)

\* submit_task: the task, its first run and its pending steps in one transaction
SubmitTask(r) ==
  /\ runStatus[r] = "absent"
  /\ runStatus' = [runStatus EXCEPT ![r] = "accepted"]
  /\ createdAt' = [createdAt EXCEPT ![r] = now]
  /\ UNCHANGED <<now, stepStatus, stepAttempt, leaseVars, tokenVars, effect,
                 budgetVars, delivered, retried>>

\* transition_run; the targets its callers ask for are in Next
TransitionRun(r, target) ==
  /\ target \in Allowed(runStatus[r])
  /\ runStatus' = [runStatus EXCEPT ![r] = target]
  /\ UNCHANGED <<now, createdAt, stepStatus, stepAttempt, leaseVars, tokenVars,
                 effect, budgetVars, delivered, retried>>

\* Mutant of RequestCancel: no early return for a terminal run.
RequestCancelAlways(r) ==
  /\ runStatus[r] # "absent" /\ ~HasInFlight(r)
  /\ runStatus' = [runStatus EXCEPT ![r] = "cancelled"]
  /\ stepStatus' = MarkSteps(r, {"pending", "waiting_for_user"}, "cancelled")
  /\ UNCHANGED <<now, createdAt, stepAttempt, leaseVars, tokenVars, effect,
                 budgetVars, delivered, retried>>

RequestCancel(r) ==
  /\ runStatus[r] \notin Terminal \cup {"absent"}
  /\ IF HasInFlight(r)
     THEN /\ runStatus' = [runStatus EXCEPT ![r] = "cancelling"]
          /\ UNCHANGED stepStatus
     ELSE /\ runStatus' = [runStatus EXCEPT ![r] = "cancelled"]
          /\ stepStatus' = MarkSteps(r, {"pending", "waiting_for_user"}, "cancelled")
  /\ UNCHANGED <<now, createdAt, stepAttempt, leaseVars, tokenVars, effect,
                 budgetVars, delivered, retried>>

\* Mutant of FinalizeCancellation: does not look for an attempt in flight.
FinalizeAtOnce(r) ==
  /\ runStatus[r] = "cancelling"
  /\ stepStatus' = MarkSteps(r, {"pending", "waiting_for_user"}, "cancelled")
  /\ runStatus' = [runStatus EXCEPT ![r] = "cancelled"]
  /\ UNCHANGED <<now, createdAt, stepAttempt, leaseVars, tokenVars, effect,
                 budgetVars, delivered, retried>>

FinalizeCancellation(r) ==
  /\ runStatus[r] = "cancelling"
  /\ ~HasInFlight(r)
  /\ stepStatus' = MarkSteps(r, {"pending", "waiting_for_user"}, "cancelled")
  /\ runStatus' = [runStatus EXCEPT ![r] = "cancelled"]
  /\ UNCHANGED <<now, createdAt, stepAttempt, leaseVars, tokenVars, effect,
                 budgetVars, delivered, retried>>

\* the waiting step's latest attempt is a paid call of unknown outcome
LatestAttempt(s, n) == /\ attempt[s][n] # "none"
                       /\ \A m \in Number : attempt[s][m] # "none" => m <= n
Resumable(s, n) ==
  /\ stepStatus[s] = "waiting_for_user"
  /\ LatestAttempt(s, n)
  /\ UnknownOutcome(s, n)

ResumeRetry(s, n) ==
  /\ runStatus[s[1]] = "waiting_for_user"
  /\ Resumable(s, n)
  /\ stepStatus' = [stepStatus EXCEPT ![s] = "pending"]
  /\ runStatus' = [runStatus EXCEPT ![s[1]] = "queued"]
  /\ retried' = retried \cup {<<s, n>>}
  /\ UNCHANGED <<now, createdAt, stepAttempt, leaseVars, tokenVars, effect,
                 budgetVars, delivered>>

ResumeFail(s, n) ==
  /\ runStatus[s[1]] = "waiting_for_user"
  /\ Resumable(s, n)
  /\ stepStatus' = [stepStatus EXCEPT ![s] = "failed"]
  /\ runStatus' = [runStatus EXCEPT ![s[1]] = "failed"]
  /\ UNCHANGED <<now, createdAt, stepAttempt, leaseVars, tokenVars, effect,
                 budgetVars, delivered, retried>>

--------------------------------------------------------------------------------
(* Claiming a step.                                                            *)

Matches(r, w) == w = "any" \/ Workflow[r] = w

Expired(s, n, t) == /\ attempt[s][n] = "running" /\ lease[s][n] = "held"
                    /\ expires[s][n] <= t

Ready(s, t) ==
  \/ stepStatus[s] = "pending" /\ \A n \in Number : attempt[s][n] # "running"
  \/ stepStatus[s] = "running" /\ Expired(s, stepAttempt[s], t)

\* Mutant of Claimable: no test of the earlier steps.
ClaimableOutOfOrder(w, t) ==
  {s \in Step : /\ runStatus[s[1]] \in {"queued", "running"}
                /\ Matches(s[1], w) /\ Ready(s, t)}

Claimable(w, t) ==
  {s \in Step : /\ runStatus[s[1]] \in {"queued", "running"}
                /\ Matches(s[1], w)
                /\ PriorDone(s)
                /\ Ready(s, t)}

\* ORDER BY r.created_at, r.run_id, s.ordinal
Precedes(s, o) ==
  \/ createdAt[s[1]] < createdAt[o[1]]
  \/ createdAt[s[1]] = createdAt[o[1]] /\ s[1] < o[1]
  \/ s[1] = o[1] /\ s[2] <= o[2]
FirstOf(S) == {s \in S : \A o \in S : Precedes(s, o)}

\* the number of the next attempt of a pending step
NextNumber(s, n) ==
  LET used == {m \in Number : attempt[s][m] # "none"} IN
  IF used = {} THEN n = stepAttempt[s]
  ELSE (\E m \in used : n = m + 1) /\ \A m \in used : m < n

\* Mutant of Abandoned: looks for runs that are cancelled already.
AbandonedCancelled(t) == {p \in Step \X Number : /\ Expired(p[1], p[2], t)
                                                 /\ runStatus[p[1][1]] = "cancelled"}
\* The cancelling runs whose worker vanished: the claim closes one of them first.
Abandoned(t) == {p \in Step \X Number : /\ Expired(p[1], p[2], t)
                                        /\ runStatus[p[1][1]] = "cancelling"}

(* The tables after a claim transaction: reap holds the abandoned attempt      *)
(* whose run is cancelled, fence the attempt taken over, block the attempt     *)
(* whose unknown outcome is handed to the user, grant the new attempt.         *)
ClaimTables(reap, fence, block, grant, t) ==
  LET gone    == reap \cup fence \cup block
      reaped  == {p[1][1] : p \in reap}
      blocked == {p[1] : p \in block}
      started == {p[1] : p \in grant}
  IN
  /\ attempt' = [s \in Step |-> [n \in Number |->
       IF <<s, n>> \in grant THEN "running"
       ELSE IF <<s, n>> \in gone THEN "fenced" ELSE attempt[s][n]]]
  /\ lease' = [s \in Step |-> [n \in Number |->
       IF <<s, n>> \in grant THEN "held"
       ELSE IF <<s, n>> \in gone THEN "released" ELSE lease[s][n]]]
  /\ heartbeat' = [s \in Step |-> [n \in Number |->
       IF <<s, n>> \in grant THEN t ELSE heartbeat[s][n]]]
  /\ expires' = [s \in Step |-> [n \in Number |->
       IF <<s, n>> \in grant THEN t + LeaseTime ELSE expires[s][n]]]
  /\ token' = [s \in Step |-> [n \in Number |->
       IF <<s, n>> \in grant THEN lastToken + 1 ELSE token[s][n]]]
  /\ lastToken' = IF grant = {} THEN lastToken ELSE lastToken + 1
  /\ stepStatus' = [s \in Step |->
       IF s \in started THEN "running"
       ELSE IF s \in blocked THEN "waiting_for_user"
       ELSE IF s[1] \in reaped
               /\ stepStatus[s] \in {"pending", "running", "waiting_for_user"}
       THEN "cancelled" ELSE stepStatus[s]]
  /\ stepAttempt' = [s \in Step |->
       IF \E n \in Number : <<s, n>> \in grant
       THEN CHOOSE n \in Number : <<s, n>> \in grant ELSE stepAttempt[s]]
  /\ runStatus' = [r \in Run |->
       IF r \in reaped THEN "cancelled"
       ELSE IF runStatus[r] = "queued" /\ \E s \in started : s[1] = r THEN "running"
       ELSE IF runStatus[r] = "running" /\ \E s \in blocked : s[1] = r
       THEN "waiting_for_user" ELSE runStatus[r]]
  /\ UNCHANGED <<now, createdAt, effect, budgetVars, delivered, retried>>

\* claim_next_step by a worker with workflow filter w, at clock value t
ClaimNextStep(w, t) ==
  \E reap \in IF Abandoned(t) = {} THEN {{}} ELSE {{p} : p \in Abandoned(t)} :
    \/ /\ LiveLease(t) \/ Claimable(w, t) = {}
       /\ reap # {}
       /\ ClaimTables(reap, {}, {}, {}, t)
    \/ /\ ~LiveLease(t)
       /\ \E s \in FirstOf(Claimable(w, t)), n \in Number :
            \/ /\ stepStatus[s] = "pending"
               /\ NextNumber(s, n)
               /\ ClaimTables(reap, {}, {}, {<<s, n>>}, t)
            \/ /\ stepStatus[s] = "running"
               /\ n = stepAttempt[s]
               /\ UnknownOutcome(s, n)
               /\ ClaimTables(reap, {}, {<<s, n>>}, {}, t)
            \/ /\ stepStatus[s] = "running"
               /\ n = stepAttempt[s] + 1
               /\ ~UnknownOutcome(s, stepAttempt[s])
               /\ ClaimTables(reap, {<<s, stepAttempt[s]>>}, {}, {<<s, n>>}, t)

--------------------------------------------------------------------------------
(* What the holder of a claim does with it.                                    *)

HeartbeatAttempt(s, n, t) ==
  /\ Active(s, n, t)
  /\ heartbeat' = [heartbeat EXCEPT ![s][n] = t]
  /\ expires' = [expires EXCEPT ![s][n] = t + LeaseTime]
  /\ UNCHANGED <<now, runStatus, createdAt, stepStatus, stepAttempt, attempt,
                 lease, tokenVars, effect, budgetVars, delivered, retried>>

CompleteAttempt(s, n, t) ==
  /\ Active(s, n, t)
  /\ stepStatus' = [stepStatus EXCEPT ![s] = "succeeded"]
  /\ Finish(s, n, "succeeded")
  /\ UNCHANGED <<now, runStatus, createdAt, stepAttempt, tokenVars, effect,
                 budgetVars, delivered, retried>>

\* Mutant of SkipAttempt: gives the attempt the status of the step.
SkipBoth(s, n, t) ==
  /\ Active(s, n, t)
  /\ CloseReservation(s, n)
  /\ stepStatus' = [stepStatus EXCEPT ![s] = "skipped"]
  /\ Finish(s, n, "skipped")
  /\ UNCHANGED <<now, runStatus, createdAt, stepAttempt, tokenVars, effect,
                 limitState, spent, delivered, retried>>

SkipAttempt(s, n, t) ==
  /\ Active(s, n, t)
  /\ CloseReservation(s, n)
  /\ stepStatus' = [stepStatus EXCEPT ![s] = "skipped"]
  /\ Finish(s, n, "succeeded")
  /\ UNCHANGED <<now, runStatus, createdAt, stepAttempt, tokenVars, effect,
                 limitState, spent, delivered, retried>>

FailAttempt(s, n, t) ==
  /\ Active(s, n, t)
  /\ CloseReservation(s, n)
  /\ stepStatus' = [stepStatus EXCEPT ![s] = "failed"]
  /\ Finish(s, n, "failed")
  /\ UNCHANGED <<now, runStatus, createdAt, stepAttempt, tokenVars, effect,
                 limitState, spent, delivered, retried>>

\* The worker requeues only a failed replayable read, and only twice.
RetryLimit == 3
\* Mutant of Requeueable: does not look at what the failed step may have paid.
RequeueableAny(s) == stepAttempt[s] < RetryLimit
Requeueable(s) == /\ Policy[s] = "replayable_external_read"
                  /\ stepAttempt[s] < RetryLimit

RequeueFailedStep(s) ==
  /\ Requeueable(s)
  /\ stepStatus[s] = "failed"
  /\ stepStatus' = [stepStatus EXCEPT ![s] = "pending"]
  /\ UNCHANGED <<now, runStatus, createdAt, stepAttempt, leaseVars, tokenVars,
                 effect, budgetVars, delivered, retried>>

\* Mutant of CancelClaim: cancels the run whatever its status is.
CancelClaimAnyRun(s, n, t) ==
  /\ Active(s, n, t)
  /\ CloseReservation(s, n)
  /\ Finish(s, n, "fenced")
  /\ stepStatus' = [stepStatus EXCEPT ![s] = "cancelled"]
  /\ runStatus' = [runStatus EXCEPT ![s[1]] = "cancelled"]
  /\ UNCHANGED <<now, createdAt, stepAttempt, tokenVars, effect, limitState,
                 spent, delivered, retried>>

CancelClaim(s, n, t) ==
  /\ Active(s, n, t)
  /\ CloseReservation(s, n)
  /\ Finish(s, n, "fenced")
  /\ stepStatus' = [MarkSteps(s[1], {"pending", "waiting_for_user"}, "cancelled")
                      EXCEPT ![s] = "cancelled"]
  /\ runStatus' = [runStatus EXCEPT
       ![s[1]] = IF @ \in {"running", "cancelling"} THEN "cancelled" ELSE @]
  /\ UNCHANGED <<now, createdAt, stepAttempt, tokenVars, effect, limitState,
                 spent, delivered, retried>>

\* Mutant of BlockUnknownOutcome: does not look at the effect of the attempt.
BlockAnyOutcome(s, n, t) ==
  /\ Active(s, n, t)
  /\ CloseReservation(s, n)
  /\ Finish(s, n, "fenced")
  /\ stepStatus' = [stepStatus EXCEPT ![s] = "waiting_for_user"]
  /\ runStatus' = [runStatus EXCEPT ![s[1]] = IF @ = "running" THEN "waiting_for_user" ELSE @]
  /\ UNCHANGED <<now, createdAt, stepAttempt, tokenVars, effect, limitState,
                 spent, delivered, retried>>

BlockUnknownOutcome(s, n, t) ==
  /\ Active(s, n, t)
  /\ UnknownOutcome(s, n)
  /\ CloseReservation(s, n)
  /\ Finish(s, n, "fenced")
  /\ stepStatus' = [stepStatus EXCEPT ![s] = "waiting_for_user"]
  /\ runStatus' = [runStatus EXCEPT
       ![s[1]] = IF @ = "running" THEN "waiting_for_user" ELSE @]
  /\ UNCHANGED <<now, createdAt, stepAttempt, tokenVars, effect, limitState,
                 spent, delivered, retried>>

\* publish_delivery with the claim of the run's last step
PublishDelivery(s, n, t, target) ==
  /\ s[2] = Steps
  /\ target \in Allowed(runStatus[s[1]])
  /\ Active(s, n, t)
  /\ delivered' = delivered \cup {s[1]}
  /\ runStatus' = [runStatus EXCEPT ![s[1]] = target]
  /\ stepStatus' = [stepStatus EXCEPT ![s] = "succeeded"]
  /\ Finish(s, n, "succeeded")
  /\ UNCHANGED <<now, createdAt, stepAttempt, tokenVars, effect, budgetVars,
                 retried>>

\* publish_delivery without a claim, for a run no attempt was ever made of
PublishDirect(r, target) ==
  /\ r \in Direct
  /\ target \in Allowed(runStatus[r])
  /\ \A s \in StepsOf(r), n \in Number : attempt[s][n] = "none"
  /\ delivered' = delivered \cup {r}
  /\ runStatus' = [runStatus EXCEPT ![r] = target]
  /\ UNCHANGED <<now, createdAt, stepStatus, stepAttempt, leaseVars, tokenVars,
                 effect, budgetVars, retried>>

--------------------------------------------------------------------------------
(* External calls and their budget.                                            *)

Held(r) == {p \in Step \X Number : p[1][1] = r /\ reservation[p[1]][p[2]] = "active"}

\* _release_stale_reservations: reservations no running attempt stands behind
Stale(r, t) == {p \in Held(r) : \/ attempt[p[1]][p[2]] # "running"
                                \/ lease[p[1]][p[2]] # "held"
                                \/ expires[p[1]][p[2]] <= t}

\* Mutant of Sufficient: leaves out what the run already spent.
SufficientForCall(r, t) ==
  /\ limitState[r] = "active"
  /\ t <= createdAt[r] + WallClock
  /\ Reserve * Cardinality(Held(r) \ Stale(r, t)) + Reserve <= Limit

Sufficient(r, t) ==
  /\ limitState[r] = "active"
  /\ t <= createdAt[r] + WallClock
  /\ spent[r] + Reserve * Cardinality(Held(r) \ Stale(r, t)) + Reserve <= Limit

\* Mutant of MayCall: does not read the status of the run.
MayCallInAnyRun(s, n, t) == /\ Active(s, n, t)
                            /\ effect[s][n] = "not_started"
                            /\ Policy[s] \in External

MayCall(s, n, t) ==
  /\ Active(s, n, t)
  /\ runStatus[s[1]] = "running"
  /\ effect[s][n] = "not_started"
  /\ Policy[s] \in External

ReleaseStale(r, t) ==
  [s \in Step |-> [n \in Number |->
     IF <<s, n>> \in Stale(r, t) THEN "released" ELSE reservation[s][n]]]

\* authorize_external_call returning True
AuthorizeCall(s, n, t) ==
  /\ MayCall(s, n, t)
  /\ Sufficient(s[1], t)
  /\ reservation' = [ReleaseStale(s[1], t) EXCEPT ![s][n] = "active"]
  /\ effect' = [effect EXCEPT ![s][n] = "request_started"]
  /\ UNCHANGED <<now, runStatus, createdAt, stepStatus, stepAttempt, leaseVars,
                 tokenVars, limitState, spent, delivered, retried>>

\* authorize_external_call returning False
DenyCall(s, n, t) ==
  /\ MayCall(s, n, t)
  /\ ~Sufficient(s[1], t)
  /\ reservation' = ReleaseStale(s[1], t)
  /\ limitState' = [limitState EXCEPT ![s[1]] = "stopped"]
  /\ stepStatus' = [MarkSteps(s[1], {"pending"}, "skipped") EXCEPT ![s] = "failed"]
  /\ Finish(s, n, "failed")
  /\ runStatus' = [runStatus EXCEPT ![s[1]] = "failed"]
  /\ UNCHANGED <<now, createdAt, stepAttempt, tokenVars, effect, spent,
                 delivered, retried>>

\* complete_external_attempt with reported usage u
CompleteExternal(s, n, t, u) ==
  LET r    == s[1]
      over == spent[r] + u > Limit
  IN
  /\ Active(s, n, t)
  /\ effect[s][n] = "request_started"
  /\ reservation[s][n] = "active"
  /\ spent' = [spent EXCEPT ![r] = @ + u]
  /\ reservation' = [reservation EXCEPT ![s][n] = "settled"]
  /\ effect' = [effect EXCEPT ![s][n] = "response_committed"]
  /\ Finish(s, n, "succeeded")
  /\ limitState' = [limitState EXCEPT ![r] = IF over THEN "stopped" ELSE @]
  /\ stepStatus' =
       [MarkSteps(r, IF over THEN {"pending"} ELSE {}, "skipped") EXCEPT ![s] = "succeeded"]
  /\ runStatus' = [runStatus EXCEPT ![r] = IF over THEN "failed" ELSE @]
  /\ UNCHANGED <<now, createdAt, stepAttempt, tokenVars, delivered, retried>>

\* record_local_attempt_usage
RecordLocalUsage(s, n, t, u) ==
  /\ Active(s, n, t)
  /\ Policy[s] \notin External
  /\ reservation[s][n] = "none"
  /\ spent[s[1]] + u <= Limit
  /\ spent' = [spent EXCEPT ![s[1]] = @ + u]
  /\ reservation' = [reservation EXCEPT ![s][n] = "settled"]
  /\ UNCHANGED <<now, runStatus, createdAt, stepStatus, stepAttempt, leaseVars,
                 tokenVars, effect, limitState, delivered, retried>>

\* stop_tool_budget, from the compute tool endpoint of the API server
StopToolBudget(r) ==
  /\ runStatus[r] # "absent"
  /\ limitState[r] = "active"
  /\ limitState' = [limitState EXCEPT ![r] = "stopped"]
  /\ UNCHANGED <<now, runStatus, createdAt, stepStatus, stepAttempt, leaseVars,
                 tokenVars, effect, reservation, spent, delivered, retried>>

Tick ==
  /\ now < MaxTime
  /\ now' = now + 1
  /\ UNCHANGED <<runStatus, createdAt, stepStatus, stepAttempt, leaseVars,
                 tokenVars, effect, budgetVars, delivered, retried>>

--------------------------------------------------------------------------------
RunAction(r) ==
  \/ SubmitTask(r)
  \/ runStatus[r] = "accepted" /\ TransitionRun(r, "queued")
  \/ r \in Direct /\ TransitionRun(r, "running")
  \/ TransitionRun(r, "failed")
  \/ RequestCancel(r)
  \/ FinalizeCancellation(r)
  \/ StopToolBudget(r)
  \/ \E target \in {"succeeded", "partial"} : PublishDirect(r, target)

StepAction(s) ==
  \/ RequeueFailedStep(s)
  \/ \E n \in Number : ResumeRetry(s, n) \/ ResumeFail(s, n)

ClaimAction(s, n, t) ==
  \/ HeartbeatAttempt(s, n, t)
  \/ CompleteAttempt(s, n, t)
  \/ SkipAttempt(s, n, t)
  \/ FailAttempt(s, n, t)
  \/ CancelClaim(s, n, t)
  \/ BlockUnknownOutcome(s, n, t)
  \/ \E target \in {"succeeded", "partial"} : PublishDelivery(s, n, t, target)
  \/ AuthorizeCall(s, n, t)
  \/ DenyCall(s, n, t)
  \/ \E u \in 0..MaxUsage : CompleteExternal(s, n, t, u) \/ RecordLocalUsage(s, n, t, u)

Next ==
  \/ Tick
  \/ \E r \in Run : RunAction(r)
  \/ \E s \in Step : StepAction(s)
  \/ \E t \in ReadClock :
       \/ \E w \in Filters : ClaimNextStep(w, t)
       \/ \E s \in Step, n \in Number : ClaimAction(s, n, t)

Spec == Init /\ [][Next]_vars

--------------------------------------------------------------------------------
(* Properties.                                                                 *)

\* The three tables agree on who runs what: an attempt is running exactly when
\* its step is running and names it as the current attempt, and exactly then
\* its lease is unreleased.  So a step has one attempt in flight at most, a
\* running step always has one to take over, and no released or fenced attempt
\* can pass _require_active_attempt.
InFlightAgreement ==
  \A s \in Step, n \in Number :
    /\ attempt[s][n] = "running" <=> stepStatus[s] = "running" /\ stepAttempt[s] = n
    /\ attempt[s][n] = "running" <=> lease[s][n] = "held"

\* A step is attempted only when every earlier step of its run is done, and what
\* was done stays done: retries, cancellations and budget stops never reopen a
\* step under the feet of a later one.
StepsInOrder ==
  \A s \in Step, n \in Number : attempt[s][n] # "none" => PriorDone(s)

\* With transactions that use a current clock, a lease that is still running is
\* held by the newest claim of all: the holder of an older fencing token is
\* locked out, whatever workflow it works for.
LiveLeaseHoldsNewestToken ==
  \A s \in Step, n \in Number :
    lease[s][n] = "held" /\ expires[s][n] > now => token[s][n] = lastToken

\* A paid call that may have reached the provider is followed by another attempt
\* of its step only if the user decided to retry that very attempt.
PaidCallNotReplayed ==
  \A s \in Step : Policy[s] = "paid_external_unknown" =>
    \A m, n \in Number : m < n /\ attempt[s][n] # "none" =>
      \/ effect[s][m] = "not_started"
      \/ effect[s][m] = "request_started" /\ <<s, m>> \in retried

\* A run that waits for the user can be resumed: resume_run finds its waiting
\* step and the attempt whose outcome is unknown.
WaitingRunIsResumable ==
  \A r \in Run : runStatus[r] = "waiting_for_user" =>
    \E s \in StepsOf(r), n \in Number : Resumable(s, n)

\* A run is delivered exactly when it succeeded or is partial, and a delivered
\* run that workers executed has no step left undone.
DeliveredIsComplete ==
  \A r \in Run :
    /\ r \in delivered <=> runStatus[r] \in {"succeeded", "partial"}
    /\ r \in delivered =>
         \/ \A s \in StepsOf(r) : Done(s)
         \/ \A s \in StepsOf(r), n \in Number : attempt[s][n] = "none"

\* Nothing is in flight in a run that was delivered or cancelled.
QuietWhenOver ==
  \A r \in Run : runStatus[r] \in {"succeeded", "partial", "cancelled"} => ~HasInFlight(r)

\* Until the budget is stopped, what was spent and what the call in flight
\* reserved stay within the limit, stale reservations or not.
BudgetHeld ==
  \A r \in Run : limitState[r] = "active" =>
    spent[r] + Reserve * Cardinality(Held(r) \cap InFlight) <= Limit

\* A run in a terminal status keeps it, and keeps its delivery.
TerminalIsFinal ==
  [][\A r \in Run : runStatus[r] \in Terminal =>
       runStatus'[r] = runStatus[r] /\ (r \in delivered' <=> r \in delivered)]_vars

\* After a cancel request a run only ends, cancelled or failed: none of its steps
\* gets a new attempt and none of its attempts starts an external call.
NoCallAfterCancel ==
  [][\A r \in Run : runStatus[r] \in {"cancelling", "cancelled"} =>
       /\ runStatus'[r] \in {"cancelling", "cancelled", "failed"}
       /\ \A s \in StepsOf(r), n \in Number :
            /\ attempt[s][n] = "none" => attempt'[s][n] = "none"
            /\ effect[s][n] = "not_started" => effect'[s][n] = "not_started"]_vars
================================================================================
