------------------------------- MODULE ToolBudget -------------------------------
(* The budget of sandboxed tool calls of one run: reserve, execute, settle or    *)
(* release, stop.  A caller is a request of POST /tools/compute; a process       *)
(* serves one at a time, so several callers are several processes on one         *)
(* database.  reserve_tool_budget opens no transaction before its INSERT: it     *)
(* reads the limit, the usage and the reservations one after the other.  The     *)
(* seconds half of the budget is a free choice (Late): it only denies more.      *)
EXTENDS Naturals, FiniteSets

CONSTANTS
  Caller,     \* processes that run tool calls of the run
  ToolLimit   \* tool_calls of the budget limit

ASSUME ToolBudgetAssumption == IsFiniteSet(Caller) /\ Caller # {} /\ ToolLimit \in Nat

VARIABLES
  callerAt,    \* where each caller is
  seenUsage,   \* tool_calls of the usage table as the caller read it
  toolUsage,   \* tool_calls in tool_budget_usage
  orphans,     \* active reservations whose caller will not close them
  toolState,   \* state of budget_limits
  toolRun,     \* whether the run can still be failed by transition_run
  lateStarts   \* tool calls that started after the budget had stopped

toolVars == <<callerAt, seenUsage, toolUsage, orphans, toolState, toolRun, lateStarts>>

At(places) == {c \in Caller : callerAt[c] \in places}
Holding == At({"reserved"})
Reserved == Cardinality(Holding) + orphans
Charged == toolUsage + Reserved

ToolBudgetTypeOK ==
  /\ callerAt \in [Caller -> {"idle", "limit", "usage", "checked", "reserved", "denied", "stopping"}]
  /\ seenUsage \in [Caller -> Nat]
  /\ toolUsage \in Nat /\ orphans \in Nat /\ lateStarts \in Nat
  /\ toolState \in {"active", "stopped"}
  /\ toolRun \in {"open", "terminal"}

ToolBudgetInit ==
  /\ callerAt = [c \in Caller |-> "idle"]
  /\ seenUsage = [c \in Caller |-> 0]
  /\ toolUsage = 0 /\ orphans = 0 /\ lateStarts = 0
  /\ toolState = "active" /\ toolRun = "open"

Move(c, from, to) == callerAt[c] = from /\ callerAt' = [callerAt EXCEPT ![c] = to]

MayReserve(late) == toolState = "active" /\ ~late

\* reserve_tool_budget reads the limit; a stopped budget, or a run past its
\* wall-clock deadline (late), denies the call
ReadLimit(c, late) ==
  /\ Move(c, "idle", IF MayReserve(late) THEN "limit" ELSE "denied")
  /\ UNCHANGED <<seenUsage, toolUsage, orphans, toolState, toolRun, lateStarts>>

ReadUsage(c) ==
  /\ Move(c, "limit", "usage")
  /\ seenUsage' = [seenUsage EXCEPT ![c] = toolUsage]
  /\ UNCHANGED <<toolUsage, orphans, toolState, toolRun, lateStarts>>

\* Mutant of Fits: the reservations of other callers are not counted.
FitsUsage(c, long) == seenUsage[c] + 1 <= ToolLimit /\ ~long
\* the totals against the limit; long: the seconds do not fit
Fits(c, long) == seenUsage[c] + Reserved + 1 <= ToolLimit /\ ~long

ReadReservations(c, long) ==
  /\ Move(c, "usage", IF Fits(c, long) THEN "checked" ELSE "denied")
  /\ seenUsage' = [seenUsage EXCEPT ![c] = 0]
  /\ UNCHANGED <<toolUsage, orphans, toolState, toolRun, lateStarts>>

\* the INSERT, after which the sandbox starts
InsertReservation(c) ==
  /\ Move(c, "checked", "reserved")
  /\ lateStarts' = IF toolState = "stopped" THEN lateStarts + 1 ELSE lateStarts
  /\ UNCHANGED <<seenUsage, toolUsage, orphans, toolState, toolRun>>

\* the sandbox returned: the usage replaces the reservation
SettleToolBudget(c) ==
  /\ Move(c, "reserved", "idle")
  /\ toolUsage' = toolUsage + 1
  /\ UNCHANGED <<seenUsage, orphans, toolState, toolRun, lateStarts>>

\* it timed out: the reservation is closed and nothing is charged
ReleaseToolBudget(c) ==
  /\ Move(c, "reserved", "idle")
  /\ UNCHANGED <<seenUsage, toolUsage, orphans, toolState, toolRun, lateStarts>>

\* it raised (an input artifact that is missing, the disk), or the process ended
Abandon(c) ==
  /\ callerAt[c] # "idle"
  /\ callerAt' = [callerAt EXCEPT ![c] = "idle"]
  /\ seenUsage' = [seenUsage EXCEPT ![c] = 0]
  /\ orphans' = IF c \in Holding THEN orphans + 1 ELSE orphans
  /\ UNCHANGED <<toolUsage, toolState, toolRun, lateStarts>>

\* the endpoint answers a denial with stop_tool_budget
StopAfterDenial(c) ==
  /\ Move(c, "denied", "stopping")
  /\ toolState' = "stopped"
  /\ UNCHANGED <<seenUsage, toolUsage, orphans, toolRun, lateStarts>>

\* and fails the run; a transition that is refused is ignored
FailRunAfterStop(c) ==
  /\ Move(c, "stopping", "idle")
  /\ toolRun' = "terminal"
  /\ UNCHANGED <<seenUsage, toolUsage, orphans, toolState, lateStarts>>

ToolBudgetStep(c) ==
  \/ \E denies \in BOOLEAN : ReadLimit(c, denies) \/ ReadReservations(c, denies)
  \/ ReadUsage(c) \/ InsertReservation(c) \/ SettleToolBudget(c) \/ ReleaseToolBudget(c)
  \/ Abandon(c) \/ StopAfterDenial(c) \/ FailRunAfterStop(c)

ToolBudgetNext == \E c \in Caller : ToolBudgetStep(c)
ToolBudgetSpec == ToolBudgetInit /\ [][ToolBudgetNext]_toolVars

--------------------------------------------------------------------------------
\* The three unlocked reads of reserve_tool_budget may miss calls, yet however
\* they interleave with inserts, settlements and crashes of the other callers, the
\* calls charged and reserved pass the limit by less than the number of callers.
ToolCallsBounded == Charged <= ToolLimit + Cardinality(Caller) - 1

\* "后续调用一律拒绝" (every later call is refused): a call that starts after the
\* stop had read the limit before it, so there are fewer of them than callers.
LateStartsBounded == lateStarts <= Cardinality(Caller) - 1
================================================================================
