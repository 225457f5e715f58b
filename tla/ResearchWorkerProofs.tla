--------------------------- MODULE ResearchWorkerProofs ---------------------------
(* Theorems about the workers of the research workflow, for any number of        *)
(* workers, runs, attempts, crashes and retries, and any delay of their clocks.  *)
EXTENDS ResearchWorker, RunLedgerRunProofs, FiniteSetTheorems

--------------------------------------------------------------------------------
(* The workers run transactions of the ledger and nothing else.                *)

\* A claim names a step and an attempt number of it.
LEMMA ClaimIsTyped ==
  ASSUME WorkerTypeOK, NEW w \in Worker
  PROVE  /\ claim[w] \in Step \X Number
         /\ claim[w][1] \in Step /\ claim[w][2] \in Number
         /\ RunOf(w) \in Run /\ claim[w][1][2] \in {1, 2}
         /\ claim[w][1] = <<RunOf(w), claim[w][1][2]>>
BY ResearchWorkerAssumption DEF WorkerTypeOK, Step, RunOf

\* Each step of a worker is a transaction of the ledger or leaves it alone.
LEMMA WorkSteps ==
  ASSUME WorkerTypeOK, NEW w \in Worker, WorkOnce(w)
  PROVE  [Next]_vars
<1> DEFINE s == claim[w][1]
           n == claim[w][2]
<1>t. s \in Step /\ n \in Number /\ s[1] \in Run /\ RunOf(w) = s[1]
  BY ClaimIsTyped DEF RunOf
<1> HIDE DEF s, n
<1>a. ASSUME NEW t \in ReadClock, ClaimAction(s, n, t) PROVE Next
  BY <1>t, <1>a DEF Next
<1>r. ASSUME RunAction(s[1]) PROVE Next
  BY <1>t, <1>r DEF Next
<1>1. CASE Claim(w)
  BY <1>1 DEF Claim, Next
<1>2. CASE Dispatch(w) \/ Lookup(w) \/ Settle(w) \/ HandleError(w)
  BY <1>2 DEF Dispatch, Lookup, Settle, HandleError, ReadAndGoto
<1>3. CASE Reuse(w)
  BY <1>3, <1>a DEF Reuse, Commit, ReadAndGoto, ClaimAction, s, n
<1>4. CASE Authorize(w)
  BY <1>4, <1>a DEF Authorize, ReadAndGoto, ClaimAction, s, n
<1>5. CASE Call(w) \/ CallAgain(w) \/ Record(w) \/ Mark(w)
  BY <1>5 DEF Call, CallAgain, Batch, Record, Mark, vars
<1>6. CASE Complete(w)
  BY <1>6, <1>a DEF Complete, Commit, ReadAndGoto, ClaimAction, s, n
<1>7. CASE Publish(w)
  BY <1>7, <1>a DEF Publish, Commit, ReadAndGoto, ClaimAction, s, n
<1>8. CASE Finalize(w)
  BY <1>8, <1>t, <1>r DEF Finalize, Commit, ReadAndGoto, RunAction
<1>9. CASE CancelOwn(w)
  BY <1>9, <1>a DEF CancelOwn, Commit, ReadAndGoto, ClaimAction, s, n
<1>10. CASE Block(w)
  BY <1>10, <1>a DEF Block, Commit, ReadAndGoto, ClaimAction, s, n
<1>11. CASE Fail(w)
  BY <1>11, <1>a DEF Fail, Commit, ReadAndGoto, ClaimAction, s, n
<1>12. CASE FailRun(w)
  BY <1>12, <1>t, <1>r DEF FailRun, Commit, ReadAndGoto, RunAction
<1> QED BY <1>1, <1>2, <1>3, <1>4, <1>5, <1>6, <1>7, <1>8, <1>9, <1>10, <1>11, <1>12
        DEF WorkOnce

\* So is each step of the whole system.
LEMMA LedgerSteps == WorkerTypeOK /\ [WorkerNext]_wvars => [Next]_vars
<1> SUFFICES ASSUME WorkerTypeOK, [WorkerNext]_wvars PROVE [Next]_vars
  OBVIOUS
<1>1. CASE Clock
  BY <1>1 DEF Clock, Next
<1>2. ASSUME NEW w \in Worker, WorkOnce(w) \/ Crash(w) PROVE [Next]_vars
  BY <1>2, WorkSteps DEF Crash
<1>3. ASSUME NEW r \in Run, Submit(r) \/ Queue(r) \/ ClientCrash(r) PROVE [Next]_vars
  BY <1>3 DEF Submit, Queue, ClientCrash, Next, RunAction, TransitionRun
<1>4. ASSUME NEW r \in Run, User(r) PROVE [Next]_vars
  <2>1. <<r, 1>> \in Step
    BY ResearchWorkerAssumption DEF Step
  <2> QED BY <1>4, <2>1 DEF User, Next, RunAction, StepAction
<1>5. CASE UNCHANGED wvars
  BY <1>5 DEF wvars
<1> QED BY <1>1, <1>2, <1>3, <1>4, <1>5 DEF WorkerNext

--------------------------------------------------------------------------------
(* Where a worker is, and what it holds.                                       *)

\* Adding a row of a known status to the checkpoints, or marking the last one.
LEMMA CheckpointsStay ==
  ASSUME WorkerTypeOK, NEW r \in Run, NEW status \in {"succeeded", "unknown_outcome"}
  PROVE  /\ [checkpoints EXCEPT ![r] = Append(@, status)]
              \in [Run -> Seq({"succeeded", "unknown_outcome"})]
         /\ MarkNewest(r, status) \in [Run -> Seq({"succeeded", "unknown_outcome"})]
<1> DEFINE Row == {"succeeded", "unknown_outcome"}
           rows == checkpoints[r]
<1>1. checkpoints \in [Run -> Seq(Row)] /\ rows \in Seq(Row)
  BY DEF WorkerTypeOK
<1>2. Append(rows, status) \in Seq(Row)
  BY <1>1
<1>3. (IF rows = <<>> THEN rows ELSE [rows EXCEPT ![Len(rows)] = status]) \in Seq(Row)
  BY <1>1
<1> QED BY <1>1, <1>2, <1>3 DEF MarkNewest

\* A step of a worker keeps its types.
LEMMA WorkTypes ==
  ASSUME WorkerTypeOK, NEW w \in Worker, WorkOnce(w) \/ Crash(w)
  PROVE  WorkerTypeOK'
<1> USE DEF WorkerTypeOK, Point
<1>t. claim[w][1] \in Step /\ claim[w][2] \in Number /\ RunOf(w) \in Run
  BY ClaimIsTyped
<1>1. ASSUME NEW point \in Point, Goto(w, point) PROVE WorkerTypeOK'
  BY <1>1 DEF Goto
<1>2. CASE Claim(w)
  BY <1>2 DEF Claim
<1>3. CASE Dispatch(w) \/ Lookup(w) \/ Settle(w) \/ HandleError(w)
  BY <1>1, <1>3 DEF Dispatch, Lookup, Settle, HandleError, ReadAndGoto
<1>4. CASE Call(w) \/ CallAgain(w)
  <2>1. /\ \E k \in 1..2 : batches' = [batches EXCEPT ![RunOf(w)] = @ + k]
        /\ \E point \in Point : pc' = [pc EXCEPT ![w] = point]
        /\ UNCHANGED <<claim, checkpoints, submitting, crashes>>
    BY <1>4 DEF Call, CallAgain, Batch
  <2>2. batches' \in [Run -> Nat]
    BY <1>t, <2>1
  <2> QED BY <2>1, <2>2
<1>5. CASE Record(w)
  BY <1>t, <1>5, CheckpointsStay DEF Record
<1>6. CASE Mark(w)
  BY <1>t, <1>6, CheckpointsStay DEF Mark
<1>7. CASE Reuse(w) \/ Complete(w) \/ Publish(w) \/ Authorize(w)
  BY <1>1, <1>7 DEF Reuse, Complete, Publish, Authorize, Commit, ReadAndGoto
<1>8. CASE Finalize(w) \/ CancelOwn(w) \/ Block(w) \/ Fail(w) \/ FailRun(w)
  BY <1>1, <1>8 DEF Finalize, CancelOwn, Block, Fail, FailRun, Commit, ReadAndGoto
<1>9. CASE Crash(w)
  BY <1>9, ResearchWorkerAssumption DEF Crash
<1> QED BY <1>2, <1>3, <1>4, <1>5, <1>6, <1>7, <1>8, <1>9 DEF WorkOnce

LEMMA WorkerTypeStep == WorkerTypeOK /\ [WorkerNext]_wvars => WorkerTypeOK'
<1> SUFFICES ASSUME WorkerTypeOK, [WorkerNext]_wvars PROVE WorkerTypeOK'
  OBVIOUS
<1>1. CASE Clock
  BY <1>1 DEF Clock, workerVars, WorkerTypeOK
<1>2. ASSUME NEW w \in Worker, WorkOnce(w) \/ Crash(w) PROVE WorkerTypeOK'
  BY <1>2, WorkTypes
<1>3. ASSUME NEW r \in Run, Submit(r) \/ Queue(r) \/ ClientCrash(r) \/ User(r)
      PROVE  WorkerTypeOK'
  BY <1>3, ResearchWorkerAssumption DEF Submit, Queue, ClientCrash, User, workerVars, WorkerTypeOK
<1>4. CASE UNCHANGED wvars
  BY <1>4 DEF wvars, workerVars, WorkerTypeOK
<1> QED BY <1>1, <1>2, <1>3, <1>4 DEF WorkerNext

\* WorkerSpec implements the ledger, so each of its theorems is one about the
\* workers.
THEOREM WorkersFollowLedger == WorkerSpec => Spec /\ []WorkerTypeOK
<1>1. WorkerInit => Init /\ WorkerTypeOK
  <2> SUFFICES ASSUME WorkerInit PROVE WorkerTypeOK
    BY DEF WorkerInit
  <2>1. <<CHOOSE r \in Run : TRUE, 1>> \in Step /\ 1 \in Number
    BY ResearchWorkerAssumption, RunLedgerAssumption DEF Step, Number
  <2>2. (CHOOSE p \in Step \X Number : TRUE) \in Step \X Number
    <3>1. \A S : S # {} => (CHOOSE p \in S : TRUE) \in S
      OBVIOUS
    <3>2. PICK s \in Step, n \in Number : TRUE
      BY <2>1
    <3>3. <<s, n>> \in Step \X Number
      OBVIOUS
    <3> QED BY <3>1, <3>3
  <2> QED BY <2>2, ResearchWorkerAssumption DEF WorkerInit, WorkerTypeOK, Point
<1>2. WorkerTypeOK /\ [WorkerNext]_wvars => WorkerTypeOK'
  BY WorkerTypeStep
<1> QED BY <1>1, <1>2, LedgerSteps, PTL DEF WorkerSpec, Spec

\* The promises of the ledger under its workers, which crash, sleep past their leases and
\* come back: the types, the order of the steps, no paid call repeated unasked, the quiet of
\* a run that is over, the question of one that waits, the completeness of what is
\* delivered, the budget, the two action properties and the life of each step.
THEOREM WorkersKeepTheLedger ==
  WorkerSpec => /\ []TypeOK /\ []InFlightAgreement /\ []StepsInOrder /\ []PaidCallNotReplayed
                /\ []QuietWhenOver /\ []WaitingRunIsResumable /\ []DeliveredIsComplete
                /\ []BudgetHeld
                /\ TerminalIsFinal /\ NoCallAfterCancel /\ StepLifeHolds
BY WorkersFollowLedger, TypeCorrect, InFlightCorrect, OrderCorrect, NoReplay, QuietCorrect,
   ResumeCorrect, DeliveryCorrect, BudgetCorrect, TerminalCorrect, CancelCorrect, StepLifeCorrect,
   PTL

\* When the clock that a transaction reads is current, a worker that holds an unexpired
\* lease holds the newest one.
THEOREM WorkersHoldNewestLease ==
  ASSUME MaxDelay = 0
  PROVE  WorkerSpec => []LiveLeaseHoldsNewestToken
<1>1. Spec => []LiveLeaseHoldsNewestToken
  BY LeaseCorrect
<1> QED BY <1>1, WorkersFollowLedger, PTL

--------------------------------------------------------------------------------
(* A worker that lost its claim.                                               *)

\* The points of work_once before the paid step of a run is settled.
FirstStepPoint == {"lookup", "reuse", "record_again", "authorize", "call", "call_again",
                   "record", "complete"}
\* The points a worker reaches only after it ended its own attempt.
OwnEnded == {"record_again", "settle", "finalize", "fail_run"}

OwnAttempt(w) == attempt[claim[w][1]][claim[w][2]]
EndedByOwner == \A w \in Worker : pc[w] \in OwnEnded => OwnAttempt(w) \in {"succeeded", "failed"}

\* What a step of worker w does to w, unless it is a claim.
Proceeds(w) ==
  /\ claim' = claim
  /\ pc'[w] # "claimed"
  /\ pc'[w] \in FirstStepPoint =>
       \/ pc[w] \in FirstStepPoint
       \/ pc[w] = "claimed" /\ claim[w][1][2] = 1
  /\ pc'[w] = "publish" => pc[w] = "claimed" /\ claim[w][1][2] # 1
  /\ pc'[w] \in OwnEnded => \/ pc[w] \in OwnEnded /\ OwnAttempt(w)' = OwnAttempt(w)
                            \/ OwnAttempt(w)' \in {"succeeded", "failed"}
  /\ OwnAttempt(w) # "running" /\ pc[w] \notin OwnEnded => UNCHANGED vars

\* A step of a worker is no other worker's.
LEMMA OthersStay ==
  ASSUME WorkerTypeOK, NEW w \in Worker, WorkOnce(w) \/ Crash(w)
  PROVE  \A v \in Worker \ {w} : pc'[v] = pc[v] /\ claim'[v] = claim[v]
<1> USE DEF WorkerTypeOK
<1>1. ASSUME NEW point, Goto(w, point)
      PROVE  \A v \in Worker \ {w} : pc'[v] = pc[v] /\ claim'[v] = claim[v]
  BY <1>1 DEF Goto
<1>2. CASE Claim(w)
  BY <1>2 DEF Claim
<1>3. CASE Dispatch(w) \/ Lookup(w) \/ Settle(w) \/ HandleError(w)
  BY <1>1, <1>3 DEF Dispatch, Lookup, Settle, HandleError, ReadAndGoto
<1>4. CASE Call(w) \/ CallAgain(w) \/ Record(w) \/ Mark(w) \/ Crash(w)
  BY <1>4 DEF Call, CallAgain, Batch, Record, Mark, Crash
<1>5. CASE Reuse(w) \/ Complete(w) \/ Publish(w) \/ Authorize(w)
  BY <1>1, <1>5 DEF Reuse, Complete, Publish, Authorize, Commit, ReadAndGoto
<1>6. CASE Finalize(w) \/ CancelOwn(w) \/ Block(w) \/ Fail(w) \/ FailRun(w)
  BY <1>1, <1>6 DEF Finalize, CancelOwn, Block, Fail, FailRun, Commit, ReadAndGoto
<1> QED BY <1>2, <1>3, <1>4, <1>5, <1>6 DEF WorkOnce

\* Between its claims a worker goes on from point to point, and where its attempt
\* ended otherwise than by itself it changes no row.
LEMMA WorkProceeds ==
  ASSUME TypeOK, WorkerTypeOK, NEW w \in Worker, WorkOnce(w) \/ Crash(w), ~Claim(w)
  PROVE  Proceeds(w)
<1> DEFINE s == claim[w][1]
           n == claim[w][2]
<1>t. s \in Step /\ n \in Number /\ pc \in [Worker -> Point]
  BY ClaimIsTyped DEF WorkerTypeOK
<1> USE DEF Proceeds, FirstStepPoint, OwnEnded, OwnAttempt
<1>e. \A m \in {"succeeded", "failed"} : Finish(s, n, m) => OwnAttempt(w)' = m \/ claim' # claim
  BY <1>t DEF Finish, TypeOK
<1>g. \A point : Goto(w, point) => pc'[w] = point /\ claim' = claim
  BY <1>t DEF Goto
<1>u. \A point : ReadAndGoto(w, point) =>
        pc'[w] = point /\ claim' = claim /\ UNCHANGED vars /\ OwnAttempt(w)' = OwnAttempt(w)
  BY <1>t DEF ReadAndGoto, Goto, vars
<1>r. \A t : Active(s, n, t) => OwnAttempt(w) = "running"
  BY DEF Active
<1> HIDE DEF OwnAttempt, s, n
<1>1. CASE Dispatch(w)
  BY <1>u, <1>1 DEF Dispatch
<1>2. CASE Lookup(w) \/ Settle(w) \/ HandleError(w)
  BY <1>u, <1>2 DEF Lookup, Settle, HandleError
<1>3. CASE Reuse(w)
  <2>1. PICK t \in ReadClock : \/ Active(s, n, t) /\ CompleteAttempt(s, n, t) /\ Goto(w, "record_again")
                               \/ ReadAndGoto(w, "error")
    BY <1>3 DEF Reuse, Commit, s, n
  <2> QED BY <1>e, <1>g, <1>u, <1>r, <1>3, <2>1 DEF CompleteAttempt, Reuse
<1>4. CASE Authorize(w)
  <2>1. PICK t \in ReadClock : \/ Active(s, n, t) /\ Goto(w, "call")
                               \/ Active(s, n, t) /\ Finish(s, n, "failed") /\ Goto(w, "settle")
                               \/ ReadAndGoto(w, "error")
    BY <1>4 DEF Authorize, AuthorizeCall, DenyCall, MayCall, s, n
  <2> QED BY <1>e, <1>g, <1>u, <1>r, <1>4, <2>1 DEF Authorize
<1>5. CASE Call(w) \/ CallAgain(w) \/ Record(w) \/ Mark(w) \/ Crash(w)
  <2>1. claim' = claim /\ UNCHANGED vars
    BY <1>t, <1>5 DEF Call, CallAgain, Batch, Record, Mark, Crash, vars
  <2>2. /\ pc'[w] \in {"record", "error", "call_again", "complete", "settle", "block", "idle"}
        /\ pc'[w] \in FirstStepPoint => pc[w] \in FirstStepPoint
        /\ pc'[w] = "settle" => pc[w] = "record_again"
    BY <1>t, <1>5 DEF Call, CallAgain, Batch, Record, Mark, Crash
  <2>3. OwnAttempt(w)' = OwnAttempt(w)
    BY <2>1 DEF vars, OwnAttempt
  <2> QED BY <2>1, <2>2, <2>3
<1>6. CASE Complete(w)
  <2>1. PICK t \in ReadClock : \/ Active(s, n, t) /\ Finish(s, n, "succeeded") /\ Goto(w, "settle")
                               \/ ReadAndGoto(w, "error")
    BY <1>6 DEF Complete, Commit, CompleteExternal, s, n
  <2> QED BY <1>e, <1>g, <1>u, <1>r, <1>6, <2>1 DEF Complete
<1>7. CASE Publish(w)
  <2>1. \/ \E t \in ReadClock : Active(s, n, t) /\ Finish(s, n, "succeeded") /\ Goto(w, "settle")
        \/ ReadAndGoto(w, "error")
    BY <1>7 DEF Publish, Commit, PublishDelivery, s, n
  <2> QED BY <1>e, <1>g, <1>u, <1>r, <1>7, <2>1 DEF Publish
<1>8. CASE Finalize(w) \/ FailRun(w)
  BY <1>g, <1>u, <1>8 DEF Finalize, FailRun, Commit
<1>9. CASE CancelOwn(w) \/ Block(w)
  <2>1. \/ \E t \in ReadClock : Active(s, n, t) /\ Goto(w, "idle")
        \/ ReadAndGoto(w, "idle")
    BY <1>9 DEF CancelOwn, Block, Commit, s, n
  <2> QED BY <1>g, <1>u, <1>r, <1>9, <2>1
<1>10. CASE Fail(w)
  <2>1. PICK t \in ReadClock : \/ Active(s, n, t) /\ Finish(s, n, "failed") /\ Goto(w, "fail_run")
                               \/ ReadAndGoto(w, "idle")
    BY <1>10 DEF Fail, Commit, FailAttempt, s, n
  <2> QED BY <1>e, <1>g, <1>u, <1>r, <1>10, <2>1
<1> QED BY <1>1, <1>2, <1>3, <1>4, <1>5, <1>6, <1>7, <1>8, <1>9, <1>10 DEF WorkOnce

\* An attempt that succeeded or failed stays what it is.
LEMMA EndedStays ==
  ASSUME StepInv, [Next]_vars, NEW p \in Step, NEW n \in Number,
         attempt[p][n] \in {"succeeded", "failed"}
  PROVE  attempt'[p][n] = attempt[p][n]
<1>1. TypeOK /\ TypeOK'
  BY TypeStep DEF StepInv
<1>2. CASE Kept(p)
  BY <1>2 DEF Kept
<1>3. CASE Ended(p)
  <2>1. n # stepAttempt[p]
    BY <1>3 DEF Ended, StepInv, InFlightAgreement
  <2> QED BY <1>1, <1>3, <2>1 DEF Ended, TypeOK
<1>4. CASE Granted(p)
  <2>1. n < stepAttempt'[p]
    BY <1>4 DEF Granted
  <2>2. stepAttempt'[p] \in Number
    BY <1>1 DEF TypeOK
  <2>3. n # stepAttempt'[p]
    BY <2>1, <2>2 DEF Number
  <2> QED BY <1>1, <1>4, <2>3 DEF Granted, TypeOK
<1> QED BY <1>2, <1>3, <1>4, StepShapes

\* A worker that is past the end of its attempt ended it itself.
LEMMA EndedByOwnerStep ==
  ASSUME StepInv, WorkerTypeOK, EndedByOwner, [WorkerNext]_wvars
  PROVE  EndedByOwner'
<1> SUFFICES ASSUME NEW v \in Worker, pc'[v] \in OwnEnded
             PROVE  OwnAttempt(v)' \in {"succeeded", "failed"}
  BY DEF EndedByOwner
<1>t. claim[v][1] \in Step /\ claim[v][2] \in Number
  BY ClaimIsTyped
<1>1. ASSUME pc[v] \in OwnEnded, claim'[v] = claim[v]
      PROVE  OwnAttempt(v)' \in {"succeeded", "failed"}
  BY <1>t, <1>1, EndedStays, LedgerSteps DEF EndedByOwner, OwnAttempt
<1>2. ASSUME NEW w \in Worker, WorkOnce(w) \/ Crash(w)
      PROVE  OwnAttempt(v)' \in {"succeeded", "failed"}
  <2>1. CASE v # w
    BY <1>1, <1>2, <2>1, OthersStay
  <2>2. CASE v = w /\ Claim(w)
    BY <2>2 DEF Claim, OwnEnded, WorkerTypeOK
  <2>3. CASE v = w /\ ~Claim(w)
    <3>1. Proceeds(w) /\ claim' = claim
      BY <1>2, <2>3, WorkProceeds DEF StepInv, Proceeds
    <3> QED BY <1>1, <2>3, <3>1 DEF Proceeds
  <2> QED BY <2>1, <2>2, <2>3
<1>3. CASE Clock \/ \E r \in Run : Submit(r) \/ Queue(r) \/ ClientCrash(r) \/ User(r)
  BY <1>1, <1>3 DEF Clock, Submit, Queue, ClientCrash, User, workerVars
<1>4. CASE UNCHANGED wvars
  BY <1>1, <1>4 DEF wvars, workerVars
<1> QED BY <1>2, <1>3, <1>4 DEF WorkerNext

\* A worker whose attempt another claim has fenced touches no row of the ledger
\* until it claims again: in particular the run it fails or cancels at the end of
\* work_once is still its own.
THEOREM FencedWorkersHarmless == WorkerSpec => FencedWorkerHarmless
<1> DEFINE Harmless == \A w \in Worker :
             /\ pc[w] # "idle" /\ pc'[w] # pc[w]
             /\ attempt[claim[w][1]][claim[w][2]] = "fenced"
             => UNCHANGED vars
<1>1. StepInv /\ WorkerTypeOK /\ EndedByOwner /\ [WorkerNext]_wvars => [Harmless]_wvars
  <2> SUFFICES ASSUME StepInv, WorkerTypeOK, EndedByOwner, WorkerNext, NEW v \in Worker,
                      pc[v] # "idle", pc'[v] # pc[v], OwnAttempt(v) = "fenced"
               PROVE  UNCHANGED vars
    BY DEF OwnAttempt
  <2>1. PICK w \in Worker : WorkOnce(w) \/ Crash(w)
    BY DEF WorkerNext, Clock, Submit, Queue, ClientCrash, User, workerVars
  <2>2. w = v
    BY <2>1, OthersStay
  <2>3. Proceeds(v)
    BY <2>1, <2>2, WorkProceeds DEF StepInv, Claim
  <2>4. pc[v] \notin OwnEnded
    BY DEF EndedByOwner
  <2> QED BY <2>3, <2>4 DEF Proceeds
<1>2. WorkerInit => EndedByOwner
  BY DEF WorkerInit, EndedByOwner, OwnEnded
<1>3. StepInv /\ WorkerTypeOK /\ EndedByOwner /\ [WorkerNext]_wvars => EndedByOwner'
  BY EndedByOwnerStep
<1>4. WorkerSpec => []StepInv /\ []WorkerTypeOK /\ WorkerInit /\ [][WorkerNext]_wvars
  BY WorkersFollowLedger, StepsCorrect, PTL DEF WorkerSpec
<1>5. WorkerSpec => [][Harmless]_wvars
  BY <1>1, <1>2, <1>3, <1>4, PTL
<1> QED BY <1>5 DEF FencedWorkerHarmless

--------------------------------------------------------------------------------
(* The response a worker publishes.                                            *)

\* No token was given above the newest one.
TokensKnown == \A s \in Step, n \in Number : token[s][n] <= lastToken

\* A worker is at the points of the step it claimed.
WorkersAtTheirStep ==
  \A w \in Worker : /\ pc[w] \in FirstStepPoint => claim[w][1][2] = 1
                    /\ pc[w] = "publish" => claim[w][1][2] = 2

\* A run whose paid step is done has its response registered, and so has one
\* whose publication a worker was given.
ResponsesRegistered ==
  /\ \A r \in Run : Done(<<r, 1>>) => Registered(r)
  /\ \A w \in Worker : pc[w] \in {"claimed", "publish"} /\ claim[w][1][2] = 2
                         => Registered(RunOf(w))

ResponseInv == TokensKnown /\ WorkersAtTheirStep /\ ResponsesRegistered

\* Only a claim gives tokens.
LEMMA TokensStay ==
  ASSUME TypeOK, [Next]_vars
  PROVE  \/ UNCHANGED tokenVars
         \/ \E t \in ReadClock, f \in Filters : ClaimNextStep(f, t)
<1> USE DEF tokenVars
<1>1. ASSUME NEW r \in Run, RunAction(r) PROVE UNCHANGED tokenVars
  BY <1>1 DEF RunAction, SubmitTask, TransitionRun, RequestCancel, FinalizeCancellation,
     StopToolBudget, PublishDirect
<1>2. ASSUME NEW s \in Step, StepAction(s) PROVE UNCHANGED tokenVars
  BY <1>2 DEF StepAction, RequeueFailedStep, ResumeRetry, ResumeFail
<1>3. ASSUME NEW s \in Step, NEW n \in Number, NEW t \in ReadClock, ClaimAction(s, n, t)
      PROVE  UNCHANGED tokenVars
  BY <1>3 DEF ClaimAction, HeartbeatAttempt, CompleteAttempt, SkipAttempt, FailAttempt,
     CancelClaim, BlockUnknownOutcome, PublishDelivery, AuthorizeCall, DenyCall,
     CompleteExternal, RecordLocalUsage
<1> QED BY <1>1, <1>2, <1>3 DEF Next, Tick, vars

\* Every transaction gives tokens above the earlier ones.
LEMMA TokensStep == TypeOK /\ TokensKnown /\ [Next]_vars => TokensKnown'
<1> SUFFICES ASSUME TypeOK, TokensKnown, [Next]_vars PROVE TokensKnown'
  OBVIOUS
<1>1. CASE UNCHANGED tokenVars
  BY <1>1 DEF tokenVars, TokensKnown
<1>2. ASSUME NEW t, NEW f, ClaimNextStep(f, t) PROVE TokensKnown'
  <2>1. PICK reap, fence, block, grant : ClaimTables(reap, fence, block, grant, t)
    BY <1>2, ClaimFrame
  <2>2. lastToken' >= lastToken /\ lastToken \in Nat
        /\ (grant # {} => lastToken' = lastToken + 1)
    BY <2>1 DEF ClaimTables, TypeOK
  <2>3. ASSUME NEW s \in Step, NEW n \in Number PROVE token'[s][n] <= lastToken'
    <3>1. token'[s][n] = IF <<s, n>> \in grant THEN lastToken + 1 ELSE token[s][n]
      BY <2>1 DEF ClaimTables
    <3>2. token[s][n] <= lastToken /\ token[s][n] \in Nat
      BY DEF TokensKnown, TypeOK
    <3>3. CASE <<s, n>> \in grant
      BY <2>2, <3>1, <3>3
    <3>4. CASE <<s, n>> \notin grant
      BY <2>2, <3>1, <3>2, <3>4, TypeStep DEF TypeOK
    <3> QED BY <3>3, <3>4
  <2> QED BY <2>3 DEF TokensKnown
<1> QED BY <1>1, <1>2, TokensStay

\* The attempt with the newest token after a claim is of a step whose run has its
\* earlier steps done.
LEMMA ClaimedInOrder ==
  ASSUME TypeOK, TokensKnown, NEW t, NEW f, ClaimNextStep(f, t), lastToken' # lastToken,
         NEW p \in Step \X Number, token'[p[1]][p[2]] = lastToken'
  PROVE  PriorDone(p[1])
<1>1. PICK s \in Claimable(f, t), n \in Number :
        \E reap, fence, block : ClaimTables(reap, fence, block, {<<s, n>>}, t)
  <2>1. \A reap, fence, block : ClaimTables(reap, fence, block, {}, t) => lastToken' = lastToken
    BY DEF ClaimTables
  <2> QED BY <2>1 DEF ClaimNextStep, FirstOf
<1>2. p[1] \in Step /\ p[2] \in Number
  OBVIOUS
<1>3. lastToken' = lastToken + 1 /\ lastToken \in Nat
  BY <1>1 DEF ClaimTables, TypeOK
<1>4. token'[p[1]][p[2]] =
        IF <<p[1], p[2]>> \in {<<s, n>>} THEN lastToken + 1 ELSE token[p[1]][p[2]]
  BY <1>1, <1>2 DEF ClaimTables
<1>5. token[p[1]][p[2]] \in Nat /\ token[p[1]][p[2]] <= lastToken
  BY <1>2 DEF TokensKnown, TypeOK
<1>6. <<p[1], p[2]>> = <<s, n>>
  BY <1>3, <1>4, <1>5
<1> QED BY <1>1, <1>6 DEF Claimable

\* A registered response stays registered.
LEMMA RegisteredStays ==
  ASSUME StepInv, [Next]_vars, NEW r \in Run, Registered(r)
  PROVE  Registered(r)'
<1> DEFINE s == <<r, 1>>
<1>s. s \in Step
  BY RunLedgerAssumption DEF Step
<1>t. TypeOK /\ TypeOK'
  BY TypeStep DEF StepInv
<1>1. PICK n \in Number : effect[s][n] = "response_committed"
  BY DEF Registered
<1> HIDE DEF s
<1>2. stepStatus[s] = "succeeded"
  BY <1>1, <1>s DEF StepInv, AttemptRows
<1>3. Kept(s)
  BY <1>2, <1>s, StepShapes DEF Ended, Granted
<1>4. effect'[s] = effect[s]
  BY <1>2, <1>3 DEF Kept, Calls
<1> QED BY <1>1, <1>4 DEF Registered, s

\* The paid step of a run becomes done only with a registered response: the worker
\* ends it after it committed one or found one, and the transactions that skip
\* steps skip later ones.
LEMMA DoneWithResponse ==
  ASSUME StepInv, WorkerTypeOK, WorkersAtTheirStep, [WorkerNext]_wvars, NEW r \in Run,
         Done(<<r, 1>>)', ~Done(<<r, 1>>)
  PROVE  Registered(r)'
<1> DEFINE p == <<r, 1>>
           Same == stepStatus'[p] = stepStatus[p]
           Undone == stepStatus'[p] \notin {"succeeded", "skipped"}
<1>p. p \in Step /\ p[1] = r /\ p[2] = 1
  BY ResearchWorkerAssumption DEF Step
<1>t. TypeOK
  BY DEF StepInv
<1>d. ~Same /\ ~Undone
  BY DEF Done
<1> HIDE DEF p
<1> USE DEF leaseVars, tokenVars, budgetVars
<1>1. CASE Clock
  BY <1>d, <1>1 DEF Clock, Tick
<1>2. CASE \E q \in Run : Submit(q) \/ Queue(q) \/ ClientCrash(q)
  BY <1>d, <1>2 DEF Submit, SubmitTask, Queue, TransitionRun, ClientCrash, vars
<1>3. ASSUME NEW q \in Run, User(q) PROVE FALSE
  <2>1. CASE RequestCancel(q)
    BY <1>p, <1>t, <1>d, <2>1 DEF RequestCancel, MarkSteps
  <2>2. ASSUME NEW s, NEW n, ResumeRetry(s, n) \/ ResumeFail(s, n) PROVE FALSE
    BY <1>p, <1>t, <1>d, <2>2 DEF ResumeRetry, ResumeFail, TypeOK
  <2> QED BY <1>3, <2>1, <2>2 DEF User
<1>4. ASSUME NEW w \in Worker, WorkOnce(w) \/ Crash(w) PROVE Registered(r)'
  <2> DEFINE s == claim[w][1]
             n == claim[w][2]
  <2>s. s \in Step /\ n \in Number /\ s[2] \in {1, 2} /\ (s[2] = 1 /\ s[1] = r => s = p)
    BY ClaimIsTyped DEF p, RunOf
  <2>1. CASE Claim(w)
    <3>1. PICK t, reap, fence, block, grant : ClaimTables(reap, fence, block, grant, t)
      BY <2>1, ClaimFrame DEF Claim
    <3> QED BY <1>p, <1>d, <3>1 DEF ClaimTables
  <2>2. CASE UNCHANGED vars
    BY <1>d, <2>2 DEF vars
  <2>3. ASSUME NEW t, Registered(s[1]), CompleteAttempt(s, n, t) PROVE Registered(r)'
    <3>1. s = p /\ effect' = effect
      BY <1>p, <1>t, <1>d, <2>3 DEF CompleteAttempt, TypeOK
    <3> QED BY <1>p, <2>3, <3>1 DEF Registered
  <2>4. ASSUME NEW t, NEW u, s[2] = 1, CompleteExternal(s, n, t, u) PROVE Registered(r)'
    <3>1. s = p
      BY <1>p, <1>t, <1>d, <2>s, <2>4 DEF CompleteExternal, MarkSteps
    <3>2. effect'[p][n] = "response_committed"
      BY <1>p, <1>t, <2>s, <2>4, <3>1 DEF CompleteExternal, TypeOK
    <3> QED BY <2>s, <3>2 DEF Registered, p
  <2>5. ASSUME NEW t, s[2] = 1, DenyCall(s, n, t) PROVE FALSE
    BY <1>p, <1>t, <1>d, <2>s, <2>5 DEF DenyCall, MarkSteps
  <2>6. ASSUME NEW t, AuthorizeCall(s, n, t) PROVE FALSE
    BY <1>d, <2>6 DEF AuthorizeCall
  <2>7. ASSUME NEW t, NEW target, PublishDelivery(s, n, t, target) PROVE FALSE
    BY <1>p, <1>t, <1>d, <2>7, ResearchWorkerAssumption DEF PublishDelivery, TypeOK
  <2>8. ASSUME NEW t, CancelClaim(s, n, t) PROVE FALSE
    BY <1>p, <1>t, <1>d, <2>8 DEF CancelClaim, MarkSteps
  <2>9. ASSUME NEW t, BlockUnknownOutcome(s, n, t) \/ FailAttempt(s, n, t) PROVE FALSE
    BY <1>p, <1>t, <1>d, <2>9 DEF BlockUnknownOutcome, FailAttempt, TypeOK
  <2>10. ASSUME NEW q, FinalizeCancellation(q) \/ TransitionRun(q, "failed") PROVE FALSE
    BY <1>p, <1>t, <1>d, <2>10 DEF FinalizeCancellation, TransitionRun, MarkSteps
  <2>11. CASE Reuse(w)
    BY <2>2, <2>3, <2>11 DEF Reuse, Commit, ReadAndGoto
  <2>12. CASE Authorize(w) \/ Complete(w)
    <3>1. s[2] = 1
      BY <2>12 DEF Authorize, Complete, WorkersAtTheirStep, FirstStepPoint
    <3> QED BY <2>2, <2>4, <2>5, <2>6, <2>12, <3>1 DEF Authorize, Complete, Commit, ReadAndGoto
  <2>13. CASE Publish(w)
    BY <2>2, <2>7, <2>13 DEF Publish, Commit, ReadAndGoto
  <2>14. CASE CancelOwn(w) \/ Block(w) \/ Fail(w)
    BY <2>2, <2>8, <2>9, <2>14 DEF CancelOwn, Block, Fail, Commit, ReadAndGoto
  <2>15. CASE Finalize(w) \/ FailRun(w)
    BY <2>2, <2>10, <2>15 DEF Finalize, FailRun, Commit, ReadAndGoto
  <2>16. CASE \/ Dispatch(w) \/ Lookup(w) \/ Settle(w) \/ HandleError(w) \/ Call(w)
              \/ CallAgain(w) \/ Record(w) \/ Mark(w) \/ Crash(w)
    BY <2>2, <2>16 DEF Dispatch, Lookup, Settle, HandleError, ReadAndGoto, Call, CallAgain, Batch,
       Record, Mark, Crash, vars
  <2> QED BY <1>4, <2>1, <2>11, <2>12, <2>13, <2>14, <2>15, <2>16 DEF WorkOnce
<1>5. CASE UNCHANGED wvars
  BY <1>d, <1>5 DEF wvars, vars
<1> QED BY <1>1, <1>2, <1>3, <1>4, <1>5 DEF WorkerNext

\* What a step of the system does to where a worker is: its own claim gives it a
\* step whose earlier steps are done, and anything else takes it no further than
\* its claim allows.
LEMMA ResponseStep ==
  StepInv /\ WorkerTypeOK /\ ResponseInv /\ [WorkerNext]_wvars => ResponseInv'
<1> SUFFICES ASSUME StepInv, WorkerTypeOK, ResponseInv, [WorkerNext]_wvars
             PROVE  ResponseInv'
  OBVIOUS
<1> USE DEF ResponseInv
<1>n. [Next]_vars
  BY LedgerSteps
<1>t. TypeOK /\ WorkerTypeOK'
  BY WorkerTypeStep DEF StepInv
<1>1. TokensKnown'
  BY <1>n, <1>t, TokensStep
<1>2. \A r \in Run : Registered(r) => Registered(r)'
  BY <1>n, RegisteredStays
<1>3. \A r \in Run : Done(<<r, 1>>)' => Registered(r)'
  BY <1>2, DoneWithResponse DEF ResponsesRegistered
<1>4. ASSUME NEW v \in Worker
      PROVE  /\ pc'[v] \in FirstStepPoint => claim'[v][1][2] = 1
             /\ pc'[v] = "publish" => claim'[v][1][2] = 2
             /\ pc'[v] \in {"claimed", "publish"} /\ claim'[v][1][2] = 2 => Registered(RunOf(v))'
  <2>c. claim[v][1][2] \in {1, 2} /\ RunOf(v) \in Run
    BY ClaimIsTyped
  <2>0. /\ pc[v] \in FirstStepPoint => claim[v][1][2] = 1
        /\ pc[v] = "publish" => claim[v][1][2] = 2
        /\ pc[v] \in {"claimed", "publish"} /\ claim[v][1][2] = 2 => Registered(RunOf(v))
    BY DEF WorkersAtTheirStep, ResponsesRegistered
  <2>r. claim'[v] = claim[v] => (Registered(RunOf(v)) => Registered(RunOf(v))')
    BY <1>2, <2>c DEF RunOf, Registered
  <2>1. CASE pc'[v] = pc[v] /\ claim'[v] = claim[v]
    BY <2>0, <2>r, <2>1
  <2>2. ASSUME NEW w \in Worker, WorkOnce(w) \/ Crash(w)
        PROVE  /\ pc'[v] \in FirstStepPoint => claim'[v][1][2] = 1
               /\ pc'[v] = "publish" => claim'[v][1][2] = 2
               /\ pc'[v] \in {"claimed", "publish"} /\ claim'[v][1][2] = 2
                    => Registered(RunOf(v))'
    <3>1. CASE v # w
      BY <2>1, <2>2, <3>1, OthersStay
    <3>2. CASE v = w /\ ~Claim(w)
      <4>1. Proceeds(v) /\ claim' = claim
        BY <1>t, <2>2, <3>2, WorkProceeds DEF Proceeds
      <4> QED BY <2>0, <2>c, <2>r, <4>1 DEF Proceeds
    <3>3. CASE v = w /\ Claim(w)
      <4>1. CASE UNCHANGED <<pc, claim>>
        BY <2>1, <4>1
      <4>2. CASE ~UNCHANGED <<pc, claim>>
        <5>1. PICK p \in Step \X Number : token'[p[1]][p[2]] = lastToken'
                                          /\ claim' = [claim EXCEPT ![v] = p]
          BY <3>3, <4>2 DEF Claim
        <5>2. pc'[v] = "claimed" /\ claim'[v] = p
          BY <3>3, <4>2, <5>1 DEF Claim, WorkerTypeOK
        <5>3. PriorDone(p[1])
          BY <1>t, <3>3, <4>2, <5>1, ClaimedInOrder DEF Claim
        <5>4. p[1] \in Step /\ p[1][1] \in Run
          BY DEF Step
        <5>5. p[1][2] = 2 => Done(<<p[1][1], 1>>)
          BY <5>3, ResearchWorkerAssumption DEF PriorDone
        <5>6. p[1][2] = 2 => Registered(p[1][1])'
          BY <1>2, <5>4, <5>5 DEF ResponsesRegistered
        <5>7. RunOf(v)' = p[1][1]
          BY <5>2 DEF RunOf
        <5>8. Registered(p[1][1])' => Registered(RunOf(v))'
          BY <5>7 DEF Registered
        <5> QED BY <5>2, <5>6, <5>8 DEF FirstStepPoint
      <4> QED BY <4>1, <4>2
    <3> QED BY <3>1, <3>2, <3>3
  <2>3. CASE Clock \/ \E r \in Run : Submit(r) \/ Queue(r) \/ ClientCrash(r) \/ User(r)
    BY <2>1, <2>3 DEF Clock, Submit, Queue, ClientCrash, User, workerVars
  <2>4. CASE UNCHANGED wvars
    BY <2>1, <2>4 DEF wvars, workerVars
  <2> QED BY <2>2, <2>3, <2>4 DEF WorkerNext
<1>5. WorkersAtTheirStep'
  BY <1>4 DEF WorkersAtTheirStep
<1>6. ResponsesRegistered'
  BY <1>3, <1>4 DEF ResponsesRegistered
<1> QED BY <1>1, <1>5, <1>6

\* At the start nothing was claimed or done.
LEMMA ResponseInit == WorkerInit => ResponseInv
<1> SUFFICES ASSUME WorkerInit PROVE ResponseInv
  OBVIOUS
<1>1. ASSUME NEW r \in Run PROVE <<r, 1>> \in Step
  BY ResearchWorkerAssumption DEF Step
<1>2. \A w \in Worker : pc[w] = "idle"
  BY DEF WorkerInit
<1> QED BY <1>1, <1>2 DEF WorkerInit, Init, ResponseInv, TokensKnown, WorkersAtTheirStep,
           ResponsesRegistered, FirstStepPoint, Done

\* A worker that publishes finds the response of the paid batch registered,
\* whoever paid for it: no path through claims, retries, expiries and budget
\* stops makes the publication claimable before.
THEOREM ResponsesExist == WorkerSpec => []WorkersInOrder
<1>1. WorkerSpec => []StepInv /\ []WorkerTypeOK /\ WorkerInit /\ [][WorkerNext]_wvars
  BY WorkersFollowLedger, StepsCorrect, PTL DEF WorkerSpec
<1>2. WorkerTypeOK /\ ResponseInv => WorkersInOrder
  BY DEF WorkersInOrder, PublishedResponseExists, ResponseInv, WorkersAtTheirStep,
         ResponsesRegistered
<1> QED BY <1>1, <1>2, ResponseInit, ResponseStep, PTL

--------------------------------------------------------------------------------
(* The batches a run pays for.                                                 *)

\* The workers of a run at a point of their batch, and the authorizations used.
At(r, point) == {w \in Worker : pc[w] = point /\ RunOf(w) = r}
Started(r) == {n \in Number : effect[<<r, 1>>][n] # "not_started"}

\* Each authorization pays for four batches: those executed, and those that a
\* worker may still execute with the one it holds.
BatchesPaid ==
  \A r \in Run :
    batches[r] + 4 * Cardinality(At(r, "call")) + 2 * Cardinality(At(r, "call_again"))
      <= 4 * Cardinality(Started(r))

\* The size of a subset of a finite set and one more element.
LEMMA OneMoreCounts ==
  ASSUME NEW S, IsFiniteSet(S), NEW x, NEW T \in SUBSET (S \cup {x})
  PROVE  Cardinality(T) \in Nat /\ Cardinality(S) \in Nat /\ Cardinality(T) <= Cardinality(S) + 1
<1>1. IsFiniteSet(S \cup {x}) /\ Cardinality(S \cup {x}) <= Cardinality(S) + 1
  <2>1. Cardinality(S) \in Nat
    BY FS_CardinalityType
  <2> QED BY <2>1, FS_AddElement
<1>2. IsFiniteSet(T) /\ Cardinality(T) <= Cardinality(S \cup {x})
  BY <1>1, FS_Subset
<1>3. Cardinality(T) \in Nat /\ Cardinality(S) \in Nat /\ Cardinality(S \cup {x}) \in Nat
  BY <1>1, <1>2, FS_CardinalityType
<1> QED BY <1>1, <1>2, <1>3

\* The size of a subset of a finite set without one of its elements.
LEMMA OneLessCounts ==
  ASSUME NEW S, IsFiniteSet(S), NEW x \in S, NEW T \in SUBSET (S \ {x})
  PROVE  Cardinality(T) \in Nat /\ Cardinality(S) \in Nat /\ Cardinality(T) <= Cardinality(S) - 1
<1>1. IsFiniteSet(S \ {x}) /\ Cardinality(S \ {x}) = Cardinality(S) - 1
  BY FS_RemoveElement
<1>2. IsFiniteSet(T) /\ Cardinality(T) <= Cardinality(S \ {x})
  BY <1>1, FS_Subset
<1>3. Cardinality(T) \in Nat /\ Cardinality(S) \in Nat
  BY <1>2, FS_CardinalityType
<1> QED BY <1>1, <1>2, <1>3

\* Sets of workers are finite.
LEMMA AtCounts ==
  ASSUME NEW S \in SUBSET Worker
  PROVE  IsFiniteSet(S) /\ Cardinality(S) \in Nat
BY ResearchWorkerAssumption, FS_Subset, FS_CardinalityType

\* Sets of attempt numbers are finite.
LEMMA StartedCounts ==
  ASSUME NEW S \in SUBSET Number
  PROVE  IsFiniteSet(S) /\ Cardinality(S) \in Nat
<1>1. IsFiniteSet(Number)
  BY FS_Interval, RunLedgerAssumption DEF Number
<1> QED BY <1>1, FS_Subset, FS_CardinalityType

\* An authorization is never taken back.
LEMMA StartedGrows ==
  ASSUME StepInv, [Next]_vars, NEW r \in Run
  PROVE  Started(r) \subseteq Started(r)'
<1> DEFINE s == <<r, 1>>
<1>s. s \in Step
  BY ResearchWorkerAssumption DEF Step
<1>t. TypeOK /\ TypeOK'
  BY TypeStep DEF StepInv
<1> SUFFICES ASSUME NEW n \in Number, effect[s][n] # "not_started"
             PROVE  effect'[s][n] # "not_started"
  BY DEF Started
<1> HIDE DEF s
<1>e. effect[s] \in [Number -> EffectState] /\ effect'[s] \in [Number -> EffectState]
  BY <1>s, <1>t DEF TypeOK
<1>1. \/ effect'[s] = effect[s]
      \/ effect'[s] = [effect[s] EXCEPT ![stepAttempt[s]] = "request_started"]
      \/ effect'[s] = [effect[s] EXCEPT ![stepAttempt[s]] = "response_committed"]
  BY <1>s, StepShapes DEF Kept, Calls, Ended, Granted
<1> QED BY <1>e, <1>1

\* What a step may do to the account of a run: nothing, or an authorization that
\* puts a worker before its batch, or a batch of at most two executions.
Idles(r) ==
  /\ batches'[r] = batches[r]
  /\ At(r, "call")' \subseteq At(r, "call")
  /\ At(r, "call_again")' \subseteq At(r, "call_again")
Authorizes(r, w) ==
  /\ batches'[r] = batches[r]
  /\ At(r, "call")' \subseteq At(r, "call") \cup {w}
  /\ At(r, "call_again")' \subseteq At(r, "call_again")
  /\ \E n \in Number : effect[<<r, 1>>][n] = "not_started" /\ effect'[<<r, 1>>][n] # "not_started"
Executes(r, w) ==
  /\ batches'[r] \in {batches[r] + 1, batches[r] + 2}
  /\ w \in At(r, "call")
  /\ At(r, "call")' \subseteq At(r, "call") \ {w}
  /\ At(r, "call_again")' \subseteq At(r, "call_again") \cup {w}
ExecutesAgain(r, w) ==
  /\ batches'[r] \in {batches[r] + 1, batches[r] + 2}
  /\ At(r, "call")' \subseteq At(r, "call")
  /\ w \in At(r, "call_again")
  /\ At(r, "call_again")' \subseteq At(r, "call_again") \ {w}

\* The account stays balanced.
LEMMA AccountStays ==
  ASSUME StepInv, WorkerTypeOK, WorkerTypeOK', [Next]_vars, BatchesPaid, NEW r \in Run,
         \/ Idles(r)
         \/ \E w \in Worker : Authorizes(r, w) \/ Executes(r, w) \/ ExecutesAgain(r, w)
  PROVE  batches'[r] + 4 * Cardinality(At(r, "call")') + 2 * Cardinality(At(r, "call_again")')
           <= 4 * Cardinality(Started(r)')
<1> DEFINE C == At(r, "call")
           D == At(r, "call_again")
           S == Started(r)
<1>1. /\ C \in SUBSET Worker /\ D \in SUBSET Worker /\ C' \in SUBSET Worker /\ D' \in SUBSET Worker
      /\ S \in SUBSET Number /\ S' \in SUBSET Number
  BY DEF At, Started
<1>2. /\ IsFiniteSet(C) /\ IsFiniteSet(D) /\ IsFiniteSet(S) /\ IsFiniteSet(S')
      /\ Cardinality(C) \in Nat /\ Cardinality(D) \in Nat /\ Cardinality(S) \in Nat
      /\ Cardinality(C') \in Nat /\ Cardinality(D') \in Nat /\ Cardinality(S') \in Nat
  BY <1>1, AtCounts, StartedCounts
<1>3. S \subseteq S' /\ Cardinality(S) <= Cardinality(S')
  BY <1>2, StartedGrows, FS_Subset
<1>4. batches[r] \in Nat /\ batches'[r] \in Nat
  BY DEF WorkerTypeOK
<1>5. batches[r] + 4 * Cardinality(C) + 2 * Cardinality(D) <= 4 * Cardinality(S)
  BY DEF BatchesPaid
<1> HIDE DEF C, D, S
<1>9. CASE Idles(r)
  <2>1. C' \in SUBSET C /\ D' \in SUBSET D /\ batches'[r] = batches[r]
    BY <1>9 DEF Idles, C, D
  <2>2. Cardinality(C') <= Cardinality(C) /\ Cardinality(D') <= Cardinality(D)
    BY <1>2, <2>1, FS_Subset
  <2> QED BY <1>2, <1>3, <1>4, <1>5, <2>1, <2>2 DEF C, D, S
<1>10. ASSUME NEW w \in Worker, Authorizes(r, w)
       PROVE  batches'[r] + 4 * Cardinality(C') + 2 * Cardinality(D') <= 4 * Cardinality(S')
  <2>1. C' \in SUBSET (C \cup {w}) /\ D' \in SUBSET D /\ batches'[r] = batches[r]
    BY <1>10 DEF Authorizes, C, D
  <2>2. Cardinality(C') <= Cardinality(C) + 1 /\ Cardinality(D') <= Cardinality(D)
    BY <1>2, <2>1, OneMoreCounts, FS_Subset
  <2>3. PICK n \in S' : S \in SUBSET (S' \ {n})
    BY <1>3, <1>10 DEF Authorizes, S, Started
  <2>4. Cardinality(S) <= Cardinality(S') - 1
    BY <1>2, <2>3, OneLessCounts
  <2> QED BY <1>2, <1>4, <1>5, <2>1, <2>2, <2>4
<1>11. ASSUME NEW w \in Worker, Executes(r, w)
       PROVE  batches'[r] + 4 * Cardinality(C') + 2 * Cardinality(D') <= 4 * Cardinality(S')
  <2>1. w \in C /\ C' \in SUBSET (C \ {w}) /\ D' \in SUBSET (D \cup {w})
    BY <1>11 DEF Executes, C, D
  <2>2. batches'[r] <= batches[r] + 2
    BY <1>4, <1>11 DEF Executes
  <2>3. Cardinality(C') <= Cardinality(C) - 1
    BY <1>2, <2>1, OneLessCounts
  <2>4. Cardinality(D') <= Cardinality(D) + 1
    BY <1>2, <2>1, OneMoreCounts
  <2> QED BY <1>2, <1>3, <1>4, <1>5, <2>2, <2>3, <2>4
<1>12. ASSUME NEW w \in Worker, ExecutesAgain(r, w)
       PROVE  batches'[r] + 4 * Cardinality(C') + 2 * Cardinality(D') <= 4 * Cardinality(S')
  <2>1. C' \in SUBSET C /\ w \in D /\ D' \in SUBSET (D \ {w})
    BY <1>12 DEF ExecutesAgain, C, D
  <2>2. batches'[r] <= batches[r] + 2
    BY <1>4, <1>12 DEF ExecutesAgain
  <2>3. Cardinality(C') <= Cardinality(C)
    BY <1>2, <2>1, FS_Subset
  <2>4. Cardinality(D') <= Cardinality(D) - 1
    BY <1>2, <2>1, OneLessCounts
  <2> QED BY <1>2, <1>3, <1>4, <1>5, <2>2, <2>3, <2>4
<1> QED BY <1>9, <1>10, <1>11, <1>12 DEF C, D, S

\* Every step of a worker is one of these for every run.
LEMMA WorkAccounts ==
  ASSUME TypeOK, WorkerTypeOK, WorkersAtTheirStep, NEW w \in Worker, WorkOnce(w) \/ Crash(w),
         NEW r \in Run
  PROVE  Idles(r) \/ Authorizes(r, w) \/ Executes(r, w) \/ ExecutesAgain(r, w)
<1>t. /\ pc \in [Worker -> Point] /\ batches \in [Run -> Nat]
      /\ claim[w][1] \in Step /\ claim[w][2] \in Number /\ RunOf(w) \in Run
      /\ claim[w][1] = <<RunOf(w), claim[w][1][2]>>
  BY ClaimIsTyped DEF WorkerTypeOK
<1>o. \A v \in Worker \ {w} : pc'[v] = pc[v] /\ RunOf(v)' = RunOf(v)
  BY OthersStay DEF RunOf
<1>i. ASSUME batches'[r] = batches[r],
             pc'[w] \notin {"call", "call_again"} \/ RunOf(w)' # r
      PROVE  Idles(r)
  BY <1>i, <1>o DEF Idles, At
<1>s. ASSUME NEW k \in 1..2, batches' = [batches EXCEPT ![RunOf(w)] = @ + k], RunOf(w) = r
      PROVE  batches'[r] \in {batches[r] + 1, batches[r] + 2}
  BY <1>s, <1>t
<1>1. CASE Claim(w)
  BY <1>1, <1>t, <1>i DEF Claim, WorkerTypeOK
<1>2. CASE Dispatch(w) \/ Lookup(w) \/ Settle(w) \/ HandleError(w)
  BY <1>2, <1>t, <1>i DEF Dispatch, Lookup, Settle, HandleError, ReadAndGoto, Goto
<1>3. CASE Record(w) \/ Mark(w) \/ Crash(w)
  BY <1>3, <1>t, <1>i DEF Record, Mark, Crash
<1>4. CASE Reuse(w) \/ Complete(w) \/ Publish(w)
  BY <1>4, <1>t, <1>i DEF Reuse, Complete, Publish, Commit, ReadAndGoto, Goto
<1>5. CASE Finalize(w) \/ CancelOwn(w) \/ Block(w) \/ Fail(w) \/ FailRun(w)
  BY <1>5, <1>t, <1>i DEF Finalize, CancelOwn, Block, Fail, FailRun, Commit, ReadAndGoto, Goto
<1>6. CASE Authorize(w)
  <2> DEFINE s == claim[w][1]
             n == claim[w][2]
  <2>1. /\ claim' = claim /\ batches' = batches
        /\ \/ (\E t \in ReadClock : AuthorizeCall(s, n, t)) /\ pc'[w] = "call"
           \/ pc'[w] \in {"settle", "error"}
    BY <1>6, <1>t DEF Authorize, ReadAndGoto, Goto
  <2>2. CASE RunOf(w) # r \/ pc'[w] \in {"settle", "error"}
    BY <1>i, <2>1, <2>2 DEF RunOf
  <2>3. ASSUME RunOf(w) = r, pc'[w] = "call", NEW t \in ReadClock, AuthorizeCall(s, n, t)
        PROVE  Authorizes(r, w)
    <3>1. s = <<r, 1>>
      BY <1>6, <1>t, <2>3 DEF Authorize, WorkersAtTheirStep, FirstStepPoint
    <3>2. effect[s][n] = "not_started" /\ effect'[s][n] = "request_started"
      BY <1>t, <2>3 DEF AuthorizeCall, MayCall, TypeOK
    <3> QED BY <1>t, <1>o, <2>1, <2>3, <3>1, <3>2 DEF Authorizes, At
  <2> QED BY <2>1, <2>2, <2>3
<1>7. CASE Call(w)
  <2>1. /\ pc[w] = "call" /\ claim' = claim /\ pc'[w] # "call"
        /\ \E k \in 1..2 : batches' = [batches EXCEPT ![RunOf(w)] = @ + k]
    BY <1>7, <1>t DEF Call, Batch
  <2>2. CASE RunOf(w) # r
    BY <1>i, <1>t, <2>1, <2>2 DEF RunOf
  <2>3. CASE RunOf(w) = r
    BY <1>o, <1>s, <2>1, <2>3 DEF Executes, At
  <2> QED BY <2>2, <2>3
<1>8. CASE CallAgain(w)
  <2>1. /\ pc[w] = "call_again" /\ claim' = claim /\ pc'[w] \notin {"call", "call_again"}
        /\ \E k \in 1..2 : batches' = [batches EXCEPT ![RunOf(w)] = @ + k]
    BY <1>8, <1>t DEF CallAgain, Batch
  <2>2. CASE RunOf(w) # r
    BY <1>i, <1>t, <2>1, <2>2 DEF RunOf
  <2>3. CASE RunOf(w) = r
    BY <1>o, <1>s, <2>1, <2>3 DEF ExecutesAgain, At
  <2> QED BY <2>2, <2>3
<1> QED BY <1>1, <1>2, <1>3, <1>4, <1>5, <1>6, <1>7, <1>8 DEF WorkOnce

\* The accounts of the runs stay balanced, and are at the start.
LEMMA BatchesStep ==
  StepInv /\ WorkerTypeOK /\ WorkersAtTheirStep /\ BatchesPaid /\ [WorkerNext]_wvars
    => BatchesPaid'
<1> SUFFICES ASSUME StepInv, WorkerTypeOK, WorkersAtTheirStep, BatchesPaid, [WorkerNext]_wvars
             PROVE  BatchesPaid'
  OBVIOUS
<1>t. WorkerTypeOK' /\ [Next]_vars
  BY WorkerTypeStep, LedgerSteps
<1> SUFFICES ASSUME NEW r \in Run
             PROVE  \/ Idles(r)
                    \/ \E w \in Worker : Authorizes(r, w) \/ Executes(r, w) \/ ExecutesAgain(r, w)
  BY <1>t, AccountStays DEF BatchesPaid
<1>1. ASSUME UNCHANGED <<pc, claim, batches>> PROVE Idles(r)
  BY <1>1 DEF Idles, At, RunOf
<1>2. CASE \E w \in Worker : WorkOnce(w) \/ Crash(w)
  BY <1>2, WorkAccounts DEF StepInv
<1>3. CASE Clock \/ \E q \in Run : Submit(q) \/ Queue(q) \/ ClientCrash(q) \/ User(q)
  BY <1>1, <1>3 DEF Clock, Submit, Queue, ClientCrash, User, workerVars
<1>4. CASE UNCHANGED wvars
  BY <1>1, <1>4 DEF wvars, workerVars
<1> QED BY <1>2, <1>3, <1>4 DEF WorkerNext

LEMMA BatchesInit == WorkerInit => BatchesPaid
<1> SUFFICES ASSUME WorkerInit, NEW r \in Run
             PROVE  batches[r] + 4 * Cardinality(At(r, "call")) + 2 * Cardinality(At(r, "call_again"))
                      <= 4 * Cardinality(Started(r))
  BY DEF BatchesPaid
<1>1. At(r, "call") = {} /\ At(r, "call_again") = {} /\ batches[r] = 0
  BY DEF WorkerInit, At
<1>2. Cardinality(Started(r)) \in Nat
  BY StartedCounts DEF Started
<1> QED BY <1>1, <1>2, FS_EmptySet

\* The retries decided for a run are finitely many.
LEMMA RetriesCount ==
  ASSUME StepInv, NEW r \in Run
  PROVE  LET R == {p \in retried : p[1][1] = r} IN IsFiniteSet(R) /\ Cardinality(R) \in Nat
<1> DEFINE R == {p \in retried : p[1][1] = r}
<1>1. IsFiniteSet(1..Steps) /\ IsFiniteSet(Number)
  BY FS_Interval, RunLedgerAssumption DEF Number
<1>2. IsFiniteSet(Step)
  BY <1>1, FS_Product, RunLedgerAssumption DEF Step
<1>3. IsFiniteSet(Step \X Number)
  BY <1>1, <1>2, FS_Product
<1>4. R \subseteq Step \X Number
  BY DEF StepInv, TypeOK
<1> QED BY <1>3, <1>4, FS_Subset, FS_CardinalityType

\* A run is authorized once, and again for each retry the user decided: all its
\* authorizations but the newest are of calls that were retried.
LEMMA AuthorizationsDecided ==
  ASSUME StepInv, NEW r \in Run
  PROVE  Cardinality(Started(r)) <= 1 + Cardinality({p \in retried : p[1][1] = r})
<1> DEFINE s == <<r, 1>>
           R == {p \in retried : p[1][1] = r}
           Undecided == {n \in Started(r) : <<s, n>> \notin retried}
           Decided == Started(r) \ Undecided
           Pair == [n \in Decided |-> <<s, n>>]
<1>s. s \in Step /\ Policy[s] = "paid_external_unknown"
  BY ResearchWorkerAssumption DEF Step
<1>1. \A m, n \in Undecided : ~(m < n)
  BY <1>s DEF Started, StepInv, PaidCallNotReplayed, AttemptRows
<1>2. Undecided \subseteq Number /\ Decided \subseteq Number /\ Started(r) \subseteq Number
  BY DEF Started
<1>3. IsFiniteSet(R) /\ Cardinality(R) \in Nat
  BY RetriesCount
<1>4. Cardinality(Decided) <= Cardinality(R)
  <2>1. Pair \in Injection(Decided, R)
    BY <1>s DEF Injection, IsInjective
  <2> QED BY <1>3, <2>1, FS_Injection
<1>5. Cardinality(Decided) \in Nat /\ IsFiniteSet(Decided)
  BY <1>2, StartedCounts
<1> HIDE DEF R, Decided
<1>6. CASE Undecided = {}
  <2>1. Started(r) = Decided
    BY <1>6 DEF Decided
  <2> QED BY <1>3, <1>4, <1>5, <2>1 DEF R
<1>7. CASE Undecided # {}
  <2>1. PICK n \in Undecided : TRUE
    BY <1>7
  <2>2. \A m \in Undecided : m = n
    BY <1>1, <1>2, <2>1 DEF Number
  <2>3. Started(r) \in SUBSET (Decided \cup {n})
    BY <2>2 DEF Decided
  <2>4. Cardinality(Started(r)) \in Nat /\ Cardinality(Started(r)) <= Cardinality(Decided) + 1
    BY <1>5, <2>3, OneMoreCounts
  <2> QED BY <1>3, <1>4, <1>5, <2>4 DEF R
<1> QED BY <1>6, <1>7

\* A run costs four batches for its submission and four for each retry the user
\* decided, with any number of workers that lose leases, crash and claim again.
THEOREM BatchesBounded == WorkerSpec => []BatchesDecided
<1>1. StepInv /\ WorkerTypeOK /\ BatchesPaid => BatchesDecided
  <2> SUFFICES ASSUME StepInv, WorkerTypeOK, BatchesPaid, NEW r \in Run
               PROVE  batches[r] <= 4 * (1 + Cardinality({p \in retried : p[1][1] = r}))
    BY DEF BatchesDecided
  <2> DEFINE C == Cardinality(At(r, "call"))
             D == Cardinality(At(r, "call_again"))
             S == Cardinality(Started(r))
             R == Cardinality({p \in retried : p[1][1] = r})
  <2>1. C \in Nat /\ D \in Nat /\ S \in Nat
    BY AtCounts, StartedCounts DEF At, Started
  <2>2. batches[r] \in Nat /\ batches[r] + 4 * C + 2 * D <= 4 * S
    BY DEF WorkerTypeOK, BatchesPaid
  <2>3. S <= 1 + R /\ R \in Nat
    BY AuthorizationsDecided, RetriesCount
  <2> HIDE DEF C, D, S, R
  <2>4. batches[r] <= 4 * (1 + R)
    BY <2>1, <2>2, <2>3
  <2> QED BY <2>4 DEF R
<1>2. WorkerInit => ResponseInv /\ BatchesPaid
  BY ResponseInit, BatchesInit
<1>3. StepInv /\ WorkerTypeOK /\ ResponseInv /\ BatchesPaid /\ [WorkerNext]_wvars
        => ResponseInv' /\ BatchesPaid'
  BY ResponseStep, BatchesStep DEF ResponseInv
<1>4. WorkerSpec => []StepInv /\ []WorkerTypeOK /\ WorkerInit /\ [][WorkerNext]_wvars
  BY WorkersFollowLedger, StepsCorrect, PTL DEF WorkerSpec
<1> QED BY <1>1, <1>2, <1>3, <1>4, PTL
===================================================================================
