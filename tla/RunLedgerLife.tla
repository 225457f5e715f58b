----------------------------- MODULE RunLedgerLife -----------------------------
(* The ledger implements StepLife: what its tables say about a step, as the    *)
(* variables of the abstract specification.                                    *)
EXTENDS RunLedger

PaidSteps   == {s \in Step : Policy[s] = "paid_external_unknown"}
ClosedRuns  == {r \in Run : runStatus[r] \in Terminal \cup {"cancelling"}}
DoneSteps   == {s \in Step : Done(s)}
GrantsMade  == {p \in Step \X Number : attempt[p[1]][p[2]] # "none"}
HolderOf    == [s \in Step |-> IF stepStatus[s] = "running" THEN stepAttempt[s] ELSE 0]
CallsOpen   == {p \in Step \X Number : effect[p[1]][p[2]] = "request_started"} \ retried

Life == INSTANCE StepLife WITH
  Paid <- PaidSteps, closed <- ClosedRuns, done <- DoneSteps,
  granted <- GrantsMade, holder <- HolderOf, open <- CallsOpen

\* Every behaviour of the ledger is a behaviour of StepLife: whoever calls the
\* repository with whatever claim, a step has one holder at a time, in order, and
\* a paid call that may have been charged is never followed by another unasked.
StepLifeHolds == Life!Spec
================================================================================
