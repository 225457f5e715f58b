------------------------------ MODULE DAGScheduler ------------------------------
(* One plan of DAGTaskScheduler.  Every call of execute_plan (the submission of  *)
(* the plan, then each resume) is an execution with dictionaries of its own; the *)
(* scheduler keeps, by plan id, the execution that decisions and appended nodes  *)
(* go to, the pause token, the wake event and the plan a resume starts from.     *)
(* The server has one event loop: between two awaits of an execution nobody else *)
(* runs, so a pass of the loop (phases in Passing) excludes every other action.  *)
EXTENDS Naturals, FiniteSets

CONSTANTS
  Node,          \* node ids
  Plans,         \* plans a client may submit
  MaxExecutions, \* bound: calls of execute_plan, the resumes included
  Impatient,     \* whether a client may resume a plan that is still executing
  MaxCalls       \* bound: calls of clients after the submission

Result == {"none", "yes", "no"}

\* initial: the nodes submitted; deps, any, gated, when: depends_on, join_policy,
\* requires_approval and condition (nodes whose result must be "yes") of every
\* node, of the ones appended or spawned later too; spawns: __spawn_nodes__
PlanShape == [initial : SUBSET Node, deps : [Node -> SUBSET Node], any : SUBSET Node,
              gated : SUBSET Node, when : [Node -> SUBSET Node], spawns : [Node -> SUBSET Node]]

ASSUME SchedulerAssumption == /\ IsFiniteSet(Node)
                              /\ Plans \subseteq PlanShape
                              /\ Impatient \in BOOLEAN
                              /\ MaxExecutions \in Nat \ {0} /\ MaxCalls \in Nat

VARIABLES
  plan,      \* the plan
  phase,     \* where each execution is in its loop
  todo,      \* candidates or finished tasks its pass has still to handle
  node,      \* node_states
  completed, failed, skipped, cancelled, waiting,  \* its five sets of ids
  results,   \* node_results
  task,      \* running_tasks: the number of the start the loop waits for, or 0
  done,      \* what a finished task of running_tasks returned
  outcome,   \* status of the result it returned
  live,      \* starts whose executor is still at work
  active,    \* the execution in _active_executions, or 0
  stored,    \* node states of the plan in _plans
  token,     \* the execution whose event is in _pause_tokens, or 0
  wake,      \* the execution whose event is in _wake_events, or 0
  paused, woken, cancelling,  \* the pause, wake and cancellation events that are set
  starts,    \* starts of each node so far
  grants,    \* approvals of each node so far
  calls,     \* calls of clients after the submission
  offGate    \* a decision met a node that was not waiting for one

dagCore == <<phase, todo, node, completed, failed, skipped, cancelled, waiting, results, task,
             done, outcome, live>>
dagRegistry == <<active, stored, token, wake>>
dagSignals == <<paused, woken, cancelling>>
dagHistory == <<starts, grants, calls, offGate>>
dagVars == <<plan, dagCore, dagRegistry, dagSignals, dagHistory>>

Execution == 1..MaxExecutions
Status == {"absent", "pending", "ready", "waiting", "running", "completed", "failed",
           "skipped", "cancelled"}
\* bare: it has lost its condition and its join policy
NodeState == [status : Status, gated : BOOLEAN, bare : BOOLEAN, result : Result]
Passing == {"top", "schedule", "settle", "collect", "end"}

SchedulerTypeOK ==
  /\ plan \in Plans
  /\ phase \in [Execution -> Passing \cup {"unused", "wait_task", "wait_user", "ended"}]
  /\ todo \in [Execution -> SUBSET Node]
  /\ node \in [Execution -> [Node -> NodeState]]
  /\ \A ids \in {completed, failed, skipped, cancelled, waiting} :
       ids \in [Execution -> SUBSET Node]
  /\ results \in [Execution -> [Node -> Result]]
  /\ task \in [Execution -> [Node -> Nat]]
  /\ done \in [Execution -> [Node -> Result \cup {"error", "cancel"}]]
  /\ outcome \in [Execution -> {"none", "paused", "cancelled", "failed", "completed"}]
  /\ live \in [Execution -> SUBSET (Node \X Nat)]
  /\ stored \in [Node -> NodeState]
  /\ {active, token, wake} \subseteq 0..MaxExecutions
  /\ {paused, woken, cancelling} \subseteq SUBSET Execution
  /\ starts \in [Node -> Nat] /\ grants \in [Node -> Nat]
  /\ calls \in 0..MaxCalls
  /\ offGate \in BOOLEAN

\* Mutant of Fresh: requires_approval is lost.
FreshUngated(p, n) ==
  [status |-> "pending", gated |-> FALSE, bare |-> FALSE, result |-> "none"]

\* DAGTaskNode of the plan p as the client sends it
Fresh(p, n) == [status |-> "pending", gated |-> n \in p.gated, bare |-> FALSE, result |-> "none"]
Absent == [status |-> "absent", gated |-> FALSE, bare |-> FALSE, result |-> "none"]
Submitted(p) == [n \in Node |-> IF n \in p.initial THEN Fresh(p, n) ELSE Absent]

Present(states) == {n \in Node : states[n].status # "absent"}
With(states, status) == {n \in Node : states[n].status = status}

\* validate_plan: every dependency exists, and no set of nodes waits for itself
Valid(states) ==
  /\ \A n \in Present(states) : plan.deps[n] \subseteq Present(states)
  /\ \A knot \in SUBSET Present(states) :
       (\A n \in knot : plan.deps[n] \cap knot # {}) => knot = {}

SchedulerInit ==
  /\ plan \in Plans
  /\ phase = [e \in Execution |-> "unused"]
  /\ todo = [e \in Execution |-> {}]
  /\ node = [e \in Execution |-> [n \in Node |-> Absent]]
  /\ completed = todo /\ failed = todo /\ skipped = todo /\ cancelled = todo /\ waiting = todo
  /\ results = [e \in Execution |-> [n \in Node |-> "none"]]
  /\ task = [e \in Execution |-> [n \in Node |-> 0]]
  /\ done = results
  /\ outcome = [e \in Execution |-> "none"]
  /\ live = todo
  /\ active = 0 /\ token = 0 /\ wake = 0
  /\ stored = [n \in Node |-> Absent]
  /\ paused = {} /\ woken = {} /\ cancelling = {}
  /\ starts = [n \in Node |-> 0] /\ grants = starts
  /\ calls = 0 /\ offGate = FALSE

Call == calls < MaxCalls /\ calls' = calls + 1

Busy == \E e \in Execution : phase[e] \in Passing
Running(e) == {n \in Node : task[e][n] # 0}
Ongoing == {e \in Execution : phase[e] \notin {"unused", "ended"}}

--------------------------------------------------------------------------------
(* The helpers of a pass.                                                      *)

\* its join policy is any (or first_success)
JoinsAny(states, n) == n \in plan.any /\ ~states[n].bare

\* Mutant of Ready: a dependency that failed counts as resolved.
ReadyAfterFailure(e) ==
  {n \in With(node[e], "pending") \cup With(node[e], "ready") :
     \/ plan.deps[n] = {}
     \/ JoinsAny(node[e], n) /\ plan.deps[n] \cap completed[e] # {}
     \/ ~JoinsAny(node[e], n) /\ plan.deps[n] \subseteq completed[e] \cup skipped[e] \cup failed[e]}

\* compute_ready_nodes
Ready(e) ==
  {n \in With(node[e], "pending") \cup With(node[e], "ready") :
     \/ plan.deps[n] = {}
     \/ JoinsAny(node[e], n) /\ plan.deps[n] \cap completed[e] # {}
     \/ ~JoinsAny(node[e], n) /\ plan.deps[n] \subseteq completed[e] \cup skipped[e]}

\* evaluate_condition: a node without a result makes it false
ConditionMet(e, n) == node[e][n].bare \/ \A m \in plan.when[n] : results[e][m] = "yes"

\* _skip_downstream: what it skips when n fails or is skipped, the least set
\* closed under its rule
Downstream(states, n) ==
  LET Skippable == {m \in Node : ~JoinsAny(states, m) /\ states[m].status \in {"pending", "ready"}}
      ClosedUnderSkips(S) == \A m \in Skippable : plan.deps[m] \cap (S \cup {n}) # {} => m \in S
  IN {m \in Skippable : \A S \in SUBSET Skippable : ClosedUnderSkips(S) => m \in S}

SetStatus(states, ns, status) ==
  [m \in Node |-> IF m \in ns THEN [states[m] EXCEPT !.status = status] ELSE states[m]]
\* what ends a node for want of anything better builds it anew, without them
Strip(states, ns, status) ==
  [m \in Node |-> IF m \in ns THEN [states[m] EXCEPT !.status = status, !.bare = TRUE]
                  ELSE states[m]]

\* Node n gets the status and what _skip_downstream finds under it is skipped.
FallsWithDownstream(e, n, status) ==
  LET fallen == [node[e] EXCEPT ![n].status = status]
      under  == Downstream(fallen, n)
  IN /\ node' = [node EXCEPT ![e] = SetStatus(fallen, under, "skipped")]
     /\ skipped' = [skipped EXCEPT ![e] = @ \cup under \cup
                                         (IF status = "skipped" THEN {n} ELSE {})]

Goto(e, where) == phase' = [phase EXCEPT ![e] = where]
Take(e, n, last) == /\ todo' = [todo EXCEPT ![e] = @ \ {n}]
                    /\ IF todo[e] = {n} THEN Goto(e, last) ELSE UNCHANGED phase

--------------------------------------------------------------------------------
(* execute_plan.                                                               *)

\* Its prologue on the nodes given; the execution takes the place of whatever
\* the scheduler has under this plan id.  A set pause event is carried over.
Enter(e, given) ==
  LET ids(status) == With(given, status) IN
  /\ phase[e] = "unused" /\ \A f \in 1..(e - 1) : phase[f] # "unused"
  /\ Goto(e, "top")
  /\ node' = [node EXCEPT ![e] = given]
  /\ completed' = [completed EXCEPT ![e] = ids("completed")]
  /\ failed' = [failed EXCEPT ![e] = ids("failed")]
  /\ skipped' = [skipped EXCEPT ![e] = ids("skipped")]
  /\ cancelled' = [cancelled EXCEPT ![e] = ids("cancelled")]
  /\ waiting' = [waiting EXCEPT ![e] = ids("waiting")]
  /\ results' = [results EXCEPT ![e] = [n \in Node |-> given[n].result]]
  /\ active' = e /\ token' = e /\ wake' = e
  /\ stored' = given
  /\ UNCHANGED <<plan, todo, task, done, outcome, live, woken, cancelling, starts, grants,
                 offGate>>

Execute ==
  /\ ~Busy
  /\ Valid(Submitted(plan))
  /\ Enter(1, Submitted(plan))
  /\ UNCHANGED <<paused, calls>>

\* resume_plan: clears the pause event it finds, then executes the stored plan
Resume(e) ==
  /\ ~Busy /\ e > 1 /\ Present(stored) # {} /\ Call
  /\ Valid(stored)
  /\ Enter(e, stored)
  /\ paused' = paused \ {token}
  /\ Impatient \/ Ongoing = {}

\* the same when a spawned node depends on nothing the plan has
ResumeInvalid ==
  /\ ~Busy /\ Present(stored) # {} /\ Call
  /\ ~Valid(stored)
  /\ paused' = paused \ {token}
  /\ UNCHANGED <<plan, dagCore, dagRegistry, woken, cancelling, starts, grants, offGate>>

\* Mutant of MayPause: does not wait for the tasks in flight.
MayPauseNow(e) == e \in paused
MayPause(e) == e \in paused /\ Running(e) = {}

\* the checks at the top of the loop
Top(e) ==
  /\ phase[e] = "top"
  /\ LET settled == Cardinality(completed[e]) + Cardinality(failed[e])
                      + Cardinality(skipped[e]) + Cardinality(cancelled[e])
         open == {n \in Node : node[e][n].status \in {"pending", "ready", "waiting", "running"}}
     IN
     \/ /\ settled >= Cardinality(Present(node[e]))
        /\ Goto(e, "end")
        /\ UNCHANGED <<todo, node, cancelled, outcome, live>>
     \/ /\ settled < Cardinality(Present(node[e]))
        /\ \/ /\ e \in cancelling
              /\ node' = [node EXCEPT ![e] = Strip(node[e], open, "cancelled")]
              /\ cancelled' = [cancelled EXCEPT ![e] = @ \cup open]
              /\ live' = [live EXCEPT ![e] = {s \in @ : task[e][s[1]] # s[2]}]
              /\ Goto(e, "end")
              /\ UNCHANGED <<todo, outcome>>
           \/ /\ e \notin cancelling /\ MayPause(e)
              /\ outcome' = [outcome EXCEPT ![e] = "paused"]
              /\ Goto(e, "end")
              /\ UNCHANGED <<todo, node, cancelled, live>>
           \/ /\ e \notin cancelling /\ ~MayPause(e)
              /\ todo' = [todo EXCEPT ![e] = IF e \in paused THEN {} ELSE Ready(e)]
              /\ Goto(e, IF todo'[e] = {} THEN "settle" ELSE "schedule")
              /\ UNCHANGED <<node, cancelled, outcome, live>>
  /\ UNCHANGED <<plan, completed, failed, skipped, waiting, results, task, done,
                 dagRegistry, dagSignals, dagHistory>>

\* a candidate whose condition is false
SkipNode(e, n) ==
  /\ phase[e] = "schedule" /\ n \in todo[e]
  /\ ~ConditionMet(e, n)
  /\ FallsWithDownstream(e, n, "skipped")
  /\ Take(e, n, "settle")
  /\ UNCHANGED <<plan, completed, failed, cancelled, waiting, results, task, done, outcome,
                 live, dagRegistry, dagSignals, dagHistory>>

\* one that needs an approval
AskApproval(e, n) ==
  /\ phase[e] = "schedule" /\ n \in todo[e]
  /\ ConditionMet(e, n) /\ node[e][n].gated
  /\ node' = [node EXCEPT ![e][n].status = "waiting"]
  /\ waiting' = [waiting EXCEPT ![e] = @ \cup {n}]
  /\ Take(e, n, "settle")
  /\ UNCHANGED <<plan, completed, failed, skipped, cancelled, results, task, done, outcome,
                 live, dagRegistry, dagSignals, dagHistory>>

\* one that starts; a task the loop still waits for under this id is forgotten
StartNode(e, n) ==
  /\ phase[e] = "schedule" /\ n \in todo[e]
  /\ ConditionMet(e, n) /\ ~node[e][n].gated
  /\ node' = [node EXCEPT ![e][n].status = "running"]
  /\ waiting' = [waiting EXCEPT ![e] = @ \ {n}]
  /\ starts' = [starts EXCEPT ![n] = @ + 1]
  /\ task' = [task EXCEPT ![e][n] = starts'[n]]
  /\ done' = [done EXCEPT ![e][n] = "none"]
  /\ live' = [live EXCEPT ![e] = @ \cup {<<n, starts'[n]>>}]
  /\ Take(e, n, "settle")
  /\ UNCHANGED <<plan, completed, failed, skipped, cancelled, results, outcome, dagRegistry,
                 dagSignals, grants, calls, offGate>>

\* Mutants of GiveUp: leaves the unresolved nodes pending; goes round again.
GiveUpPending(e) == Goto(e, "end") /\ UNCHANGED <<node, skipped>>
GiveUpNot(e) == Goto(e, "top") /\ UNCHANGED <<node, skipped>>

\* nobody to wait for: what is still pending cannot run any more
GiveUp(e) ==
  LET unresolved == With(node[e], "pending") IN
  /\ node' = [node EXCEPT ![e] = Strip(node[e], unresolved, "skipped")]
  /\ skipped' = [skipped EXCEPT ![e] = @ \cup unresolved]
  /\ Goto(e, "end")

\* after the candidates: wait for tasks or for the user, or give up what is left
Settle(e) ==
  /\ phase[e] = "settle"
  /\ \/ /\ Running(e) # {}
        /\ Goto(e, "wait_task")
        /\ UNCHANGED <<node, skipped, woken>>
     \/ /\ Running(e) = {} /\ waiting[e] # {}
        /\ Goto(e, "wait_user")
        /\ woken' = woken \ {e}
        /\ UNCHANGED <<node, skipped>>
     \/ /\ Running(e) = {} /\ waiting[e] = {}
        /\ GiveUp(e)
        /\ UNCHANGED woken
  /\ UNCHANGED <<plan, todo, completed, failed, cancelled, waiting, results, task, done,
                 outcome, live, dagRegistry, paused, cancelling, dagHistory>>

\* the wait for the user ends with its wake event, or after 0.1 seconds
PollUser(e) ==
  /\ ~Busy /\ phase[e] = "wait_user"
  /\ Goto(e, "top")
  /\ UNCHANGED <<plan, todo, node, completed, failed, skipped, cancelled, waiting, results,
                 task, done, outcome, live, dagRegistry, dagSignals, dagHistory>>

\* asyncio.wait returns: some task is done or the wake event is set
WaitReturns(e) ==
  /\ ~Busy /\ phase[e] = "wait_task"
  /\ LET finished == {n \in Running(e) : done[e][n] # "none"} IN
     /\ finished # {} \/ e \in woken
     /\ todo' = [todo EXCEPT ![e] = finished]
     /\ Goto(e, IF finished = {} THEN "top" ELSE "collect")
  /\ woken' = woken \ {e}
  /\ UNCHANGED <<plan, node, completed, failed, skipped, cancelled, waiting, results, task,
                 done, outcome, live, dagRegistry, paused, cancelling, dagHistory>>

CollectFrame(e, n) ==
  /\ task' = [task EXCEPT ![e][n] = 0]
  /\ done' = [done EXCEPT ![e][n] = "none"]
  /\ Take(e, n, "top")
  /\ UNCHANGED <<plan, waiting, outcome, live, dagRegistry, dagSignals, dagHistory>>

\* a task that succeeded, with the nodes its result spawns, unchecked
Succeeded(e, n) ==
  /\ phase[e] = "collect" /\ n \in todo[e] /\ done[e][n] \in {"yes", "no"}
  /\ node' = [node EXCEPT ![e] =
       [m \in Node |->
          CASE m = n -> [node[e][n] EXCEPT !.status = "completed", !.result = done[e][n]]
            [] m # n /\ m \in plan.spawns[n] \ Present(node[e]) -> Fresh(plan, m)
            [] OTHER -> node[e][m]]]
  /\ completed' = [completed EXCEPT ![e] = @ \cup {n}]
  /\ results' = [results EXCEPT ![e][n] = done[e][n]]
  /\ CollectFrame(e, n)
  /\ UNCHANGED <<failed, skipped, cancelled>>

\* a task that failed
Failed(e, n) ==
  /\ phase[e] = "collect" /\ n \in todo[e] /\ done[e][n] = "error"
  /\ failed' = [failed EXCEPT ![e] = @ \cup {n}]
  /\ FallsWithDownstream(e, n, "failed")
  /\ CollectFrame(e, n)
  /\ UNCHANGED <<completed, cancelled, results>>

\* a task whose executor raised CancelledError
TaskCancelled(e, n) ==
  /\ phase[e] = "collect" /\ n \in todo[e] /\ done[e][n] = "cancel"
  /\ cancelled' = [cancelled EXCEPT ![e] = @ \cup {n}]
  /\ CollectFrame(e, n)
  /\ UNCHANGED <<node, completed, failed, skipped, results>>

\* Mutant of Kept: the stored plan stays the one execute_plan was given.
KeptAsGiven(e) == stored
Kept(e) == node[e]

\* The epilogue: the status, the stored plan, and the entries of the plan id,
\* whichever execution they belong to.  The dictionaries of an execution that is
\* not registered any more are garbage.
End(e) ==
  LET Drop(f, empty) == [f EXCEPT ![e] = IF outcome[e] = "paused" THEN @ ELSE empty]
  IN
  /\ phase[e] = "end"
  /\ Goto(e, "ended")
  /\ node' = Drop(node, [n \in Node |-> Absent])
  /\ completed' = Drop(completed, {}) /\ failed' = Drop(failed, {})
  /\ skipped' = Drop(skipped, {}) /\ cancelled' = Drop(cancelled, {})
  /\ waiting' = Drop(waiting, {})
  /\ results' = Drop(results, [n \in Node |-> "none"])
  /\ task' = [task EXCEPT ![e] = [n \in Node |-> 0]]
  /\ done' = [done EXCEPT ![e] = [n \in Node |-> "none"]]
  /\ outcome' = [outcome EXCEPT ![e] = IF @ = "paused" THEN "paused"
                                       ELSE IF cancelled[e] # {} THEN "cancelled"
                                       ELSE IF failed[e] # {} THEN "failed" ELSE "completed"]
  /\ stored' = Kept(e)
  /\ active' = IF outcome[e] = "paused" THEN active ELSE 0
  /\ wake' = 0
  /\ UNCHANGED <<plan, todo, live, token, dagSignals, dagHistory>>

--------------------------------------------------------------------------------
(* The executors, the user and the other callers.                              *)

\* The executor of start s returns; nobody waits for a start that was forgotten.
Finish(e, s, what) ==
  /\ ~Busy /\ s \in live[e]
  /\ live' = [live EXCEPT ![e] = @ \ {s}]
  /\ done' = IF task[e][s[1]] = s[2] THEN [done EXCEPT ![e][s[1]] = what] ELSE done
  /\ UNCHANGED <<plan, phase, todo, node, completed, failed, skipped, cancelled, waiting,
                 results, task, outcome, dagRegistry, dagSignals, dagHistory>>

WakeUp == woken' = woken \cup ({wake} \ {0})

Decided(states, n, approved) ==
  [status |-> IF approved THEN "ready" ELSE "failed", gated |-> FALSE,
   bare |-> states[n].bare, result |-> "none"]

Decide(n) ==
  /\ ~Busy
  /\ Call
  /\ UNCHANGED <<plan, phase, todo, completed, cancelled, results, task, done, outcome, live,
                 dagRegistry, paused, cancelling, starts>>

\* submit_approval, on the execution registered: the node is not asked where it is
Approve(n) ==
  /\ active # 0 /\ n \in Present(node[active])
  /\ Decide(n)
  /\ node' = [node EXCEPT ![active][n] = Decided(node[active], n, TRUE)]
  /\ waiting' = [waiting EXCEPT ![active] = @ \ {n}]
  /\ grants' = [grants EXCEPT ![n] = @ + 1]
  /\ offGate' = (offGate \/ node[active][n].status # "waiting")
  /\ WakeUp
  /\ UNCHANGED <<failed, skipped>>

Reject(n) ==
  /\ active # 0 /\ n \in Present(node[active])
  /\ Decide(n)
  /\ LET fallen == [node[active] EXCEPT ![n] = Decided(node[active], n, FALSE)]
         under  == Downstream(fallen, n)
     IN /\ node' = [node EXCEPT ![active] = SetStatus(fallen, under, "skipped")]
        /\ skipped' = [skipped EXCEPT ![active] = @ \cup under]
  /\ waiting' = [waiting EXCEPT ![active] = @ \ {n}]
  /\ failed' = [failed EXCEPT ![active] = @ \cup {n}]
  /\ offGate' = (offGate \/ node[active][n].status # "waiting")
  /\ WakeUp
  /\ UNCHANGED grants

\* submit_approval when no execution is registered: on the stored plan
DecideStored(n, approved) ==
  /\ ~Busy /\ active = 0 /\ n \in Present(stored)
  /\ Call
  /\ stored' = [stored EXCEPT ![n] = Decided(stored, n, approved)]
  /\ grants' = IF approved THEN [grants EXCEPT ![n] = @ + 1] ELSE grants
  /\ offGate' = (offGate \/ stored[n].status # "waiting")
  /\ UNCHANGED <<plan, dagCore, active, token, wake, dagSignals, starts>>

\* append_nodes with node n first in the list.  A later node of the list with an
\* unknown dependency makes it raise: n stays, the loop is not woken and the
\* caller gets an error.
AppendNode(n, raises) ==
  /\ ~Busy /\ active # 0 /\ Call
  /\ n \notin Present(node[active]) /\ plan.deps[n] \subseteq Present(node[active])
  /\ node' = [node EXCEPT ![active][n] = Fresh(plan, n)]
  /\ IF raises THEN UNCHANGED woken ELSE WakeUp
  /\ UNCHANGED <<plan, phase, todo, completed, failed, skipped, cancelled, waiting, results, task,
                 done, outcome, live, dagRegistry, paused, cancelling, starts, grants,
                 offGate>>

\* when no execution is registered: on the stored plan, all nodes or none
AppendStored(n) ==
  /\ ~Busy /\ active = 0 /\ Present(stored) # {} /\ Call
  /\ n \notin Present(stored) /\ plan.deps[n] \subseteq Present(stored)
  /\ stored' = [stored EXCEPT ![n] = Fresh(plan, n)]
  /\ UNCHANGED <<plan, dagCore, active, token, wake, dagSignals, starts, grants,
                 offGate>>

\* pause_plan; the token of an execution that ended is still there
Pause ==
  /\ ~Busy /\ token # 0 /\ Call
  /\ paused' = paused \cup {token}
  /\ WakeUp
  /\ UNCHANGED <<plan, dagCore, dagRegistry, cancelling, starts, grants, offGate>>

\* the caller of execute_plan sets its cancellation token, which wakes nobody
CancelPlan(e) ==
  /\ ~Busy /\ e \in Ongoing /\ Call
  /\ cancelling' = cancelling \cup {e}
  /\ UNCHANGED <<plan, dagCore, dagRegistry, paused, woken, starts, grants, offGate>>

--------------------------------------------------------------------------------
Loop(e) ==
  \/ Top(e) \/ Settle(e) \/ PollUser(e) \/ WaitReturns(e) \/ End(e)
  \/ \E n \in Node : \/ SkipNode(e, n) \/ AskApproval(e, n) \/ StartNode(e, n)
                     \/ Succeeded(e, n) \/ Failed(e, n) \/ TaskCancelled(e, n)

\* A result matters only to the conditions that ask for it.
Outcomes(n) == {"yes", "error", "cancel"} \cup
               {what \in {"no"} : \E m \in Node : n \in plan.when[m]}

ExecutorStep(e) == \E s \in live[e] : \E what \in Outcomes(s[1]) : Finish(e, s, what)

UserStep ==
  \/ Execute \/ ResumeInvalid \/ Pause
  \/ \E e \in Execution : Resume(e) \/ CancelPlan(e)
  \/ \E n \in Node : \/ Approve(n) \/ Reject(n) \/ AppendStored(n)
                     \/ \E yes \in BOOLEAN : DecideStored(n, yes)
                     \/ \E raises \in BOOLEAN : AppendNode(n, raises)

SchedulerNext == UserStep \/ \E e \in Execution : Loop(e) \/ ExecutorStep(e)

\* The event loop runs whoever can go on, and every executor returns.
SchedulerFairness ==
  \A e \in Execution : WF_dagVars(Loop(e)) /\ WF_dagVars(ExecutorStep(e))

SchedulerSpec == SchedulerInit /\ [][SchedulerNext]_dagVars /\ SchedulerFairness

--------------------------------------------------------------------------------
(* Properties.                                                                 *)

\* A node runs on what its dependencies left: under join policy all, each of
\* them has a result or was skipped; under any, one has a result.  This is the
\* work of compute_ready_nodes together with every write of the id sets, across
\* pauses, fan-out, appended nodes and decisions.  The policy is the one the node
\* still has: a decision on a node given up or cancelled reopens it under all.
RunsOnUpstreamResults ==
  \A e \in Execution : \A n \in Running(e) : plan.deps[n] # {} /\ phase[e] # "end" =>
    IF JoinsAny(node[e], n) THEN \E d \in plan.deps[n] : results[e][d] # "none"
    ELSE \A d \in plan.deps[n] : results[e][d] # "none" \/ d \in skipped[e]

\* A node that needs an approval never starts without one, whatever was paused,
\* resumed, skipped or reopened before.
GateHolds == \A n \in plan.gated : starts[n] > 0 => grants[n] > 0

\* No start is repeated unless the user approved the node again: what a plan has
\* done before its pause is not done again after it.  A client that resumes before
\* the executions under way have returned (Impatient) gets them all twice.
StartsExplained == \A n \in Node : starts[n] <= 1 + grants[n]

NobodyCancelled == \A e \in Execution : cancelled[e] = {} /\ outcome[e] # "cancelled"

\* A plan that ends as completed has completed or skipped every node, as long as
\* decisions met nodes that were waiting for them and no task was cancelled.
CompletedIsSettled ==
  [][\A e \in Execution :
       /\ phase[e] = "end" /\ phase'[e] = "ended" /\ outcome'[e] = "completed"
       /\ ~offGate /\ NobodyCancelled
       => \A n \in Present(stored') : stored'[n].status \in {"completed", "skipped"}]_dagVars

\* An execution that returns, paused or for good, leaves no executor at work
\* (same proviso): pausing waits for the steps in flight.
NothingLeftBehind ==
  ~offGate => \A e \in Execution : phase[e] = "ended" => live[e] = {}

\* The executions always get back to waiting for the user, or end.
ExecutionEnds ==
  []<>(\A e \in Execution : phase[e] \in {"unused", "wait_user", "ended"})
================================================================================
