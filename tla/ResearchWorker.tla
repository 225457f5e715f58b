----------------------------- MODULE ResearchWorker -----------------------------
(* Workers of the durable research workflow.  RunLedger lets anybody run any   *)
(* transaction; here each worker runs those of DurableResearchRuntime.work_once *)
(* in its order, and may lose its lease or crash between any two of them.  The *)
(* client that submits a run and the user who cancels and resumes it are       *)
(* processes of their own.  Step 1 of a run is the paid batch                  *)
(* (execute_research), step 2 the publication (publish_delivery).              *)
EXTENDS RunLedger, Sequences

CONSTANTS
  Worker,       \* the threads that call work_once
  MaxCrashes,   \* bound: crashes of workers and clients together
  MaxRetries    \* bound: retries the user asks for

\* The effects a run is submitted with name its first step a paid call.
ASSUME ResearchWorkerAssumption ==
  /\ Steps = 2 /\ Run # {} /\ IsFiniteSet(Worker)
  /\ \A r \in Run : Policy[<<r, 1>>] = "paid_external_unknown"
  /\ MaxCrashes \in Nat /\ MaxRetries \in Nat

VARIABLES
  pc,           \* where a worker is in work_once
  claim,        \* the step and the attempt number of its last LeaseClaim
  batches,      \* executions of the research workflow, each a batch of paid calls
  checkpoints,  \* status of the 'retrieve' rows of step_checkpoints of a run, oldest first
  submitting,   \* runs whose client is between its two transactions
  crashes       \* crashes so far

workerVars == <<pc, claim, batches, checkpoints, submitting, crashes>>
wvars == <<vars, workerVars>>

Point == {"idle", "claimed", "lookup", "reuse", "record_again", "authorize", "call",
          "call_again", "record", "complete", "publish", "settle", "finalize", "error",
          "cancel", "mark", "block", "fail", "fail_run"}

WorkerTypeOK ==
  /\ pc         \in [Worker -> Point]
  /\ claim      \in [Worker -> Step \X Number]
  /\ batches    \in [Run -> Nat]
  /\ checkpoints \in [Run -> Seq({"succeeded", "unknown_outcome"})]
  /\ submitting \subseteq Run
  /\ crashes    \in 0..MaxCrashes

WorkerInit ==
  /\ Init
  /\ pc         = [w \in Worker |-> "idle"]
  /\ claim      = [w \in Worker |-> CHOOSE p \in Step \X Number : TRUE]
  /\ batches    = [r \in Run |-> 0]
  /\ checkpoints = [r \in Run |-> <<>>]
  /\ submitting = {}
  /\ crashes    = 0

--------------------------------------------------------------------------------
(* One worker.                                                                 *)

RunOf(w) == claim[w][1][1]
CancelRequested(r) == runStatus[r] \in {"cancelling", "cancelled"}

\* The worker goes on at point, and touches only the ledger.
Goto(w, point) == /\ pc' = [pc EXCEPT ![w] = point]
                  /\ UNCHANGED <<claim, batches, checkpoints, submitting, crashes>>
\* It goes on at point and has only read.
ReadAndGoto(w, point) == Goto(w, point) /\ UNCHANGED vars

\* The transaction tx goes through and the worker is at done, or its guard
\* rejects the claim (LeaseRejected and its kin) and the worker is at rejected.
Commit(w, tx, accepted, done, rejected) ==
  \/ accepted /\ tx /\ Goto(w, done)
  \/ ~accepted /\ ReadAndGoto(w, rejected)

\* claim_next, which may also only close or block an expired attempt
Claim(w) ==
  /\ pc[w] = "idle"
  /\ \E f \in Filters, t \in ReadClock : ClaimNextStep(f, t)
  /\ IF lastToken' = lastToken
     THEN UNCHANGED <<pc, claim>>
     ELSE /\ pc' = [pc EXCEPT ![w] = "claimed"]
          /\ \E p \in Step \X Number : /\ token'[p[1]][p[2]] = lastToken'
                                       /\ claim' = [claim EXCEPT ![w] = p]
  /\ UNCHANGED <<batches, checkpoints, submitting, crashes>>

\* the first is_cancel_requested, and the dispatch on the kind of the step
Dispatch(w) ==
  /\ pc[w] = "claimed"
  /\ ReadAndGoto(w, IF CancelRequested(RunOf(w)) THEN "cancel"
                    ELSE IF claim[w][1][2] = 1 THEN "lookup" ELSE "publish")

\* reuse_step_checkpoint: any row that is not marked will do
Reusable(r) == \E i \in DOMAIN checkpoints[r] : checkpoints[r][i] = "succeeded"

Lookup(w) ==
  /\ pc[w] = "lookup"
  /\ ReadAndGoto(w, IF Reusable(RunOf(w)) THEN "reuse" ELSE "authorize")

\* complete_external_attempt registers the response artifact it commits
Registered(r) == \E n \in Number : effect[<<r, 1>>][n] = "response_committed"

\* Mutant of Reuse: takes the artifact without asking for its registration.
ReuseUnregistered(w) ==
  LET s == claim[w][1]  n == claim[w][2] IN
  /\ pc[w] = "reuse"
  /\ \E t \in ReadClock :
       Commit(w, CompleteAttempt(s, n, t), Active(s, n, t), "record_again", "error")

\* _reuse_checkpoint_execution; the artifact of the row must be registered
Reuse(w) ==
  LET s == claim[w][1]  n == claim[w][2] IN
  /\ pc[w] = "reuse"
  /\ \E t \in ReadClock :
       Commit(w, CompleteAttempt(s, n, t), Registered(s[1]) /\ Active(s, n, t),
              "record_again", "error")

Authorize(w) ==
  LET s == claim[w][1]  n == claim[w][2] IN
  /\ pc[w] = "authorize"
  /\ \E t \in ReadClock :
       \/ AuthorizeCall(s, n, t) /\ Goto(w, "call")
       \/ DenyCall(s, n, t) /\ Goto(w, "settle")
       \/ ~MayCall(s, n, t) /\ ReadAndGoto(w, "error")

\* The adapter executes the workflow, and again when that raises a TypeError.
Batch(w, points) ==
  /\ \E k \in 1..2 : batches' = [batches EXCEPT ![RunOf(w)] = @ + k]
  /\ \E point \in points : pc' = [pc EXCEPT ![w] = point]
  /\ UNCHANGED <<vars, claim, checkpoints, submitting, crashes>>

\* the executor: the batch returns a valid execution, or raises; a TypeError is
\* taken for an executor of fewer parameters, which is called again
Call(w)      == pc[w] = "call" /\ Batch(w, {"record", "error", "call_again"})
CallAgain(w) == pc[w] = "call_again" /\ Batch(w, {"record", "error"})

\* record_step_checkpoint: before the attempt is completed with a new response,
\* after it was completed with an old one
Record(w) ==
  /\ pc[w] \in {"record", "record_again"}
  /\ checkpoints' = [checkpoints EXCEPT ![RunOf(w)] = Append(@, "succeeded")]
  /\ pc' = [pc EXCEPT ![w] = IF @ = "record" THEN "complete" ELSE "settle"]
  /\ UNCHANGED <<vars, claim, batches, submitting, crashes>>

Complete(w) ==
  LET s == claim[w][1]  n == claim[w][2] IN
  /\ pc[w] = "complete"
  /\ \E t \in ReadClock, u \in 0..MaxUsage :
       Commit(w, CompleteExternal(s, n, t, u),
              /\ Active(s, n, t)
              /\ effect[s][n] = "request_started" /\ reservation[s][n] = "active",
              "settle", "error")

\* The response is read and its artifacts are copied before the transaction;
\* one that is missing raises.
Publish(w) ==
  LET s == claim[w][1]  n == claim[w][2] IN
  /\ pc[w] = "publish"
  /\ \/ ReadAndGoto(w, "error")
     \/ \E t \in ReadClock, target \in {"succeeded", "partial"} :
          Commit(w, PublishDelivery(s, n, t, target),
                 target \in Allowed(runStatus[s[1]]) /\ Active(s, n, t),
                 "settle", "error")

\* Mutant of Settle: does not ask for a cancel request.
SettleAtOnce(w) == pc[w] = "settle" /\ ReadAndGoto(w, "idle")

\* the last is_cancel_requested of a step that raised nothing
Settle(w) ==
  /\ pc[w] = "settle"
  /\ ReadAndGoto(w, IF CancelRequested(RunOf(w)) THEN "finalize" ELSE "idle")

Finalize(w) ==
  /\ pc[w] = "finalize"
  /\ Commit(w, FinalizeCancellation(RunOf(w)),
            runStatus[RunOf(w)] = "cancelling" /\ ~HasInFlight(RunOf(w)), "idle", "idle")

--------------------------------------------------------------------------------
(* The exception handler of work_once.                                         *)

HandleError(w) ==
  /\ pc[w] = "error"
  /\ ReadAndGoto(w, IF CancelRequested(RunOf(w)) THEN "cancel"
                    ELSE IF UnknownOutcome(claim[w][1], claim[w][2]) THEN "mark"
                    ELSE "fail")

CancelOwn(w) ==
  LET s == claim[w][1]  n == claim[w][2] IN
  /\ pc[w] = "cancel"
  /\ \E t \in ReadClock :
       Commit(w, CancelClaim(s, n, t), Active(s, n, t), "idle", "idle")

\* Marks the newest 'retrieve' row with status.
MarkNewest(r, status) ==
  [checkpoints EXCEPT ![r] = IF @ = <<>> THEN @ ELSE [@ EXCEPT ![Len(@)] = status]]

\* Mutant of Mark: writes the name of the effect, not that of the status.
MarkStarted(w) ==
  /\ pc[w] = "mark"
  /\ checkpoints' = MarkNewest(RunOf(w), "request_started")
  /\ pc' = [pc EXCEPT ![w] = "block"]
  /\ UNCHANGED <<vars, claim, batches, submitting, crashes>>

\* mark_step_checkpoints_unknown_outcome marks the newest row of the run, which
\* is another phase's when a batch has recorded its inner phases since
Mark(w) ==
  /\ pc[w] = "mark"
  /\ checkpoints' \in {checkpoints, MarkNewest(RunOf(w), "unknown_outcome")}
  /\ pc' = [pc EXCEPT ![w] = "block"]
  /\ UNCHANGED <<vars, claim, batches, submitting, crashes>>

Block(w) ==
  LET s == claim[w][1]  n == claim[w][2] IN
  /\ pc[w] = "block"
  /\ \E t \in ReadClock :
       Commit(w, BlockUnknownOutcome(s, n, t), Active(s, n, t), "idle", "idle")

Fail(w) ==
  LET s == claim[w][1]  n == claim[w][2] IN
  /\ pc[w] = "fail"
  /\ \E t \in ReadClock :
       Commit(w, FailAttempt(s, n, t), Active(s, n, t), "fail_run", "idle")

\* Mutant of FailRun: leaves the run as it is.
FailStepOnly(w) == pc[w] = "fail_run" /\ ReadAndGoto(w, "idle")

FailRun(w) ==
  /\ pc[w] = "fail_run"
  /\ Commit(w, TransitionRun(RunOf(w), "failed"),
            "failed" \in Allowed(runStatus[RunOf(w)]), "idle", "idle")

WorkOnce(w) ==
  \/ Claim(w) \/ Dispatch(w) \/ Lookup(w) \/ Reuse(w) \/ Authorize(w) \/ Call(w)
  \/ CallAgain(w) \/ Record(w) \/ Complete(w) \/ Publish(w) \/ Settle(w) \/ Finalize(w)
  \/ HandleError(w) \/ CancelOwn(w) \/ Mark(w) \/ Block(w) \/ Fail(w) \/ FailRun(w)

\* The process of the worker dies: its claim is lost, its rows stay.  Bound: a
\* crash leaves time enough for the lease to expire.
Crash(w) ==
  /\ pc[w] # "idle"
  /\ crashes < MaxCrashes /\ now + LeaseTime <= MaxTime
  /\ pc' = [pc EXCEPT ![w] = "idle"]
  /\ crashes' = crashes + 1
  /\ UNCHANGED <<vars, claim, batches, checkpoints, submitting>>

--------------------------------------------------------------------------------
(* The client, the user and the clock.                                         *)

Submit(r) ==
  /\ SubmitTask(r)
  /\ submitting' = submitting \cup {r}
  /\ UNCHANGED <<pc, claim, batches, checkpoints, crashes>>

\* the second transaction of submit
Queue(r) ==
  /\ r \in submitting
  /\ submitting' = submitting \ {r}
  /\ IF runStatus[r] = "accepted" THEN TransitionRun(r, "queued") ELSE UNCHANGED vars
  /\ UNCHANGED <<pc, claim, batches, checkpoints, crashes>>

ClientCrash(r) ==
  /\ r \in submitting
  /\ crashes < MaxCrashes
  /\ submitting' = submitting \ {r}
  /\ crashes' = crashes + 1
  /\ UNCHANGED <<vars, pc, claim, batches, checkpoints>>

User(r) ==
  /\ \/ RequestCancel(r)
     \/ \E n \in Number : \/ Cardinality(retried) < MaxRetries /\ ResumeRetry(<<r, 1>>, n)
                          \/ ResumeFail(<<r, 1>>, n)
  /\ UNCHANGED workerVars

Clock == Tick /\ UNCHANGED workerVars

WorkerNext ==
  \/ Clock
  \/ \E w \in Worker : WorkOnce(w) \/ Crash(w)
  \/ \E r \in Run : Submit(r) \/ Queue(r) \/ ClientCrash(r) \/ User(r)

\* The loop of the server calls work_once again and again, time passes, and a
\* client that does not crash sends its second transaction.  Nobody has to
\* submit, cancel, resume or crash.
Fairness ==
  /\ WF_wvars(Clock)
  /\ \A w \in Worker : WF_wvars(WorkOnce(w))
  /\ \A r \in Run : WF_wvars(Queue(r))

WorkerSpec == WorkerInit /\ [][WorkerNext]_wvars /\ Fairness

--------------------------------------------------------------------------------
(* Properties.                                                                 *)

\* A worker whose attempt was fenced changes no row of the ledger any more,
\* wherever in work_once it was when it lost its lease: it leaves the step, the
\* budget and the run to the holder of the new claim.
FencedWorkerHarmless ==
  [][\A w \in Worker :
       /\ pc[w] # "idle" /\ pc'[w] # pc[w]
       /\ attempt[claim[w][1]][claim[w][2]] = "fenced"
       => UNCHANGED vars]_wvars

\* A worker that publishes finds the registered response of the paid batch.
PublishedResponseExists ==
  \A w \in Worker : pc[w] = "publish" => Registered(RunOf(w))

\* The state of the workers: the types, and the response they publish.
WorkersInOrder == WorkerTypeOK /\ PublishedResponseExists

\* What a run may cost: its first authorization, and each retry the user decided,
\* is used for at most four batches (two calls of the executor, two executions in
\* each), however many workers lost their lease or died.
BatchesDecided ==
  \A r \in Run :
    batches[r] <= 4 * (1 + Cardinality({p \in retried : p[1][1] = r}))

\* Each authorization of a paid call is used for one batch at most.
OneBatchPerAuthorization ==
  \A r \in Run :
    batches[r] <= Cardinality({n \in Number : effect[<<r, 1>>][n] # "not_started"})

\* No attempt stays in flight for ever, whoever crashes: its worker ends it, or
\* a claim takes it over, hands it to the user or closes it with the cancelled
\* run.
AttemptEnds ==
  \A s \in Step, n \in Number : attempt[s][n] = "running" ~> attempt[s][n] # "running"

\* A run that was queued leaves the hands of the workers, unless one crashed: it
\* ends, waits for the user, or is being cancelled.
RunLeavesUnlessCrash ==
  \A r \in Run : runStatus[r] \in {"queued", "running"} ~>
                   runStatus[r] \notin {"queued", "running"} \/ crashes > 0

\* A cancellation ends, unless a worker crashed, but for one race: the cancel
\* request arrives while a worker hands a paid call of unknown outcome to the user.
CancellationEndsOrAsks ==
  \A r \in Run : runStatus[r] = "cancelling" ~>
                   \/ runStatus[r] # "cancelling"
                   \/ stepStatus[<<r, 1>>] = "waiting_for_user"
                   \/ crashes > 0

\* A run that is being cancelled reaches a final status.
CancellationEnds ==
  \A r \in Run : runStatus[r] = "cancelling" ~> runStatus[r] # "cancelling"

\* A worker that finds the checkpoint of a finished batch and still holds its
\* claim makes use of it, and does not fail the step.
CheckpointRecovers ==
  [][\A w \in Worker :
       pc[w] = "reuse" /\ pc'[w] # pc[w] =>
         \/ pc'[w] # "error"
         \/ ~Active(claim[w][1], claim[w][2], now)]_wvars
================================================================================
