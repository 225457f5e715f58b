---------------------------- MODULE DAGSchedulerProofs ----------------------------
(* Theorems about the execution of plans, for any nodes, plans, number of        *)
(* executions and of calls.                                                      *)
EXTENDS DAGScheduler, FiniteSetTheorems, TLAPS

--------------------------------------------------------------------------------
(* Node states.                                                                *)

States == [Node -> NodeState]

\* SetStatus changes the status of some nodes and nothing else.
LEMMA SetStatusIs ==
  ASSUME NEW states \in States, NEW ns, NEW status \in Status
  PROVE  /\ SetStatus(states, ns, status) \in States
         /\ \A n \in Node :
              /\ SetStatus(states, ns, status)[n].gated = states[n].gated
              /\ SetStatus(states, ns, status)[n].bare = states[n].bare
              /\ SetStatus(states, ns, status)[n].result = states[n].result
              /\ SetStatus(states, ns, status)[n].status =
                   IF n \in ns THEN status ELSE states[n].status
BY DEF SetStatus, States, NodeState

\* Strip does, too, and takes the condition and the join policy.
LEMMA StripIs ==
  ASSUME NEW states \in States, NEW ns, NEW status \in Status
  PROVE  /\ Strip(states, ns, status) \in States
         /\ \A n \in Node :
              /\ Strip(states, ns, status)[n].gated = states[n].gated
              /\ Strip(states, ns, status)[n].result = states[n].result
              /\ n \notin ns => Strip(states, ns, status)[n].bare = states[n].bare
              /\ Strip(states, ns, status)[n].status =
                   IF n \in ns THEN status ELSE states[n].status
BY DEF Strip, States, NodeState

\* What a decision makes of a node.
LEMMA DecidedState ==
  ASSUME NEW states \in States, NEW n \in Node, NEW approved \in BOOLEAN
  PROVE  /\ Decided(states, n, approved) \in NodeState
         /\ Decided(states, n, approved).status = IF approved THEN "ready" ELSE "failed"
<1>1. states[n].bare \in BOOLEAN
  BY DEF States, NodeState
<1> QED BY <1>1 DEF Decided, NodeState, Status, Result

\* A node that is not there, one that is new, and the plan as submitted.
LEMMA NewStates ==
  /\ Absent \in NodeState
  /\ \A p, n : Fresh(p, n) \in NodeState
  /\ \A p : Submitted(p) \in States
<1>1. Absent \in NodeState
  BY DEF Absent, NodeState, Status, Result
<1>2. \A p, n : Fresh(p, n) \in NodeState
  BY DEF Fresh, NodeState, Status, Result
<1> QED BY <1>1, <1>2 DEF Submitted, States

\* The states of an execution in which a node falls.
LEMMA FallenStates ==
  ASSUME NEW e \in Execution, NEW n \in Node, node \in [Execution -> States],
         skipped \in [Execution -> SUBSET Node],
         NEW status \in {"failed", "skipped"}, FallsWithDownstream(e, n, status)
  PROVE  /\ node' \in [Execution -> States]
         /\ skipped' \in [Execution -> SUBSET Node]
         /\ \A d \in Execution, m \in Node :
              /\ node'[d][m].gated = node[d][m].gated
              /\ node'[d][m].bare = node[d][m].bare /\ node'[d][m].result = node[d][m].result
              /\ node'[d][m].status \in {node[d][m].status, "failed", "skipped"}
<1> DEFINE fallen == [node[e] EXCEPT ![n].status = status]
           under == Downstream(fallen, n)
<1>1. /\ fallen \in States
      /\ \A m \in Node : /\ fallen[m].gated = node[e][m].gated
                         /\ fallen[m].bare = node[e][m].bare /\ fallen[m].result = node[e][m].result
                         /\ fallen[m].status \in {node[e][m].status, "failed", "skipped"}
  BY DEF States, NodeState, Status
<1>2. under \in SUBSET Node
  BY DEF Downstream
<1>3. /\ node' = [node EXCEPT ![e] = SetStatus(fallen, under, "skipped")]
      /\ skipped' = [skipped EXCEPT ![e] = @ \cup under \cup
                                          (IF status = "skipped" THEN {n} ELSE {})]
  BY DEF FallsWithDownstream
<1> HIDE DEF fallen, under
<1>4. /\ SetStatus(fallen, under, "skipped") \in States
      /\ \A m \in Node :
           /\ SetStatus(fallen, under, "skipped")[m].gated = fallen[m].gated
           /\ SetStatus(fallen, under, "skipped")[m].bare = fallen[m].bare
           /\ SetStatus(fallen, under, "skipped")[m].result = fallen[m].result
           /\ SetStatus(fallen, under, "skipped")[m].status \in {fallen[m].status, "skipped"}
  BY <1>1, SetStatusIs DEF Status
<1>5. node' \in [Execution -> States]
  BY <1>3, <1>4
<1>6. skipped' \in [Execution -> SUBSET Node]
  BY <1>2, <1>3
<1>7. ASSUME NEW d \in Execution, NEW m \in Node
      PROVE  /\ node'[d][m].gated = node[d][m].gated
             /\ node'[d][m].bare = node[d][m].bare /\ node'[d][m].result = node[d][m].result
             /\ node'[d][m].status \in {node[d][m].status, "failed", "skipped"}
  BY <1>1, <1>3, <1>4
<1> QED BY <1>5, <1>6, <1>7

\* The states of an execution in which one node gets a status.
Marked(e, n, status) == [node EXCEPT ![e][n].status = status]

LEMMA MarkedStates ==
  ASSUME NEW e \in Execution, NEW n \in Node, NEW status \in Status,
         node \in [Execution -> States], node' = Marked(e, n, status)
  PROVE  /\ node' \in [Execution -> States]
         /\ \A d \in Execution, m \in Node :
              /\ node'[d][m].gated = node[d][m].gated
              /\ node'[d][m].bare = node[d][m].bare /\ node'[d][m].result = node[d][m].result
              /\ node'[d][m].status = IF d = e /\ m = n THEN status ELSE node[d][m].status
<1> DEFINE marked == [node[e] EXCEPT ![n].status = status]
<1>1. /\ marked \in States
      /\ \A m \in Node : /\ marked[m].gated = node[e][m].gated
                         /\ marked[m].bare = node[e][m].bare /\ marked[m].result = node[e][m].result
                         /\ marked[m].status = IF m = n THEN status ELSE node[e][m].status
  <2>1. node[e] \in States
    OBVIOUS
  <2>2. \A m \in Node : marked[m] = IF m = n THEN [node[e][m] EXCEPT !.status = status]
                                    ELSE node[e][m]
    BY <2>1 DEF States
  <2>3. \A r \in NodeState : /\ [r EXCEPT !.status = status] \in NodeState
                             /\ [r EXCEPT !.status = status].status = status
                             /\ [r EXCEPT !.status = status].gated = r.gated
                             /\ [r EXCEPT !.status = status].bare = r.bare
                             /\ [r EXCEPT !.status = status].result = r.result
    BY DEF NodeState
  <2>4. \A m \in Node : node[e][m] \in NodeState
    BY <2>1 DEF States
  <2>5. marked \in States
    BY <2>1, <2>3, <2>4 DEF States
  <2>6. ASSUME NEW m \in Node
        PROVE  /\ marked[m].gated = node[e][m].gated
               /\ marked[m].bare = node[e][m].bare /\ marked[m].result = node[e][m].result
               /\ marked[m].status = IF m = n THEN status ELSE node[e][m].status
    <3>1. CASE m = n
      <4>1. marked[m] = [node[e][m] EXCEPT !.status = status]
        BY <2>2, <3>1
      <4> HIDE DEF marked
      <4> QED BY <2>3, <2>4, <3>1, <4>1
    <3>2. CASE m # n
      <4>1. marked[m] = node[e][m]
        BY <2>2, <3>2
      <4> HIDE DEF marked
      <4> QED BY <3>2, <4>1
    <3> QED BY <3>1, <3>2
  <2> QED BY <2>5, <2>6
<1>2. node' = [node EXCEPT ![e] = marked]
  BY DEF Marked
<1> HIDE DEF marked
<1> QED BY <1>1, <1>2

--------------------------------------------------------------------------------
(* Type correctness.                                                           *)

\* The steps of the loop.
LEMMA LoopTypes ==
  ASSUME SchedulerTypeOK, NEW e \in Execution, Loop(e)
  PROVE  SchedulerTypeOK'
<1> USE DEF dagCore, dagRegistry, dagSignals, dagHistory, Goto, Take
<1>0. /\ node \in [Execution -> States] /\ skipped \in [Execution -> SUBSET Node]
      /\ stored \in States
  BY DEF SchedulerTypeOK, States
<1>1. CASE Top(e)
  <2> DEFINE kept == {s \in live[e] : task[e][s[1]] # s[2]}
             open == {n \in Node : node[e][n].status \in {"pending", "ready", "waiting", "running"}}
  <2>1. Strip(node[e], open, "cancelled") \in States
    BY <1>0, StripIs DEF Status
  <2>2. Ready(e) \in SUBSET Node
    BY DEF Ready, With
  <2>10. kept \in SUBSET (Node \X Nat)
    BY DEF SchedulerTypeOK
  <2> HIDE DEF open, kept
  <2>3. /\ node' \in {node, [node EXCEPT ![e] = Strip(node[e], open, "cancelled")]}
        /\ todo' \in {todo, [todo EXCEPT ![e] = {}], [todo EXCEPT ![e] = Ready(e)]}
        /\ \E where \in {"end", "settle", "schedule"} : phase' = [phase EXCEPT ![e] = where]
        /\ cancelled' \in {cancelled, [cancelled EXCEPT ![e] = @ \cup open]}
        /\ outcome' \in {outcome, [outcome EXCEPT ![e] = "paused"]}
        /\ live' \in {live, [live EXCEPT ![e] = kept]}
    BY <1>1 DEF Top, open, kept
  <2>4. UNCHANGED <<plan, completed, failed, skipped, waiting, results, task, done,
                    dagRegistry, dagSignals, dagHistory>>
    BY <1>1 DEF Top
  <2>5. open \in SUBSET Node
    BY DEF open
  <2>6. node' \in [Execution -> States]
    BY <1>0, <2>1, <2>3
  <2>7. todo' \in [Execution -> SUBSET Node]
    <3>1. todo \in [Execution -> SUBSET Node]
      BY DEF SchedulerTypeOK
    <3> QED BY <2>2, <2>3, <3>1
  <2>11. cancelled' \in [Execution -> SUBSET Node]
    <3>1. cancelled \in [Execution -> SUBSET Node]
      BY DEF SchedulerTypeOK
    <3> QED BY <2>3, <2>5, <3>1
  <2>8. phase' \in [Execution -> Passing \cup {"unused", "wait_task", "wait_user", "ended"}]
    BY <2>3 DEF SchedulerTypeOK, Passing
  <2>9. /\ live' \in [Execution -> SUBSET (Node \X Nat)]
        /\ outcome' \in [Execution -> {"none", "paused", "cancelled", "failed", "completed"}]
    BY <2>3, <2>10 DEF SchedulerTypeOK
  <2> QED BY <2>4, <2>6, <2>7, <2>8, <2>9, <2>11 DEF SchedulerTypeOK, States
<1>13. ASSUME NEW n \in Node, Take(e, n, "settle") \/ Take(e, n, "top")
       PROVE  /\ todo' \in [Execution -> SUBSET Node]
              /\ phase' \in [Execution -> Passing \cup {"unused", "wait_task", "wait_user", "ended"}]
  <2>1. todo' = [todo EXCEPT ![e] = @ \ {n}]
    BY <1>13
  <2>2. phase' \in {phase, [phase EXCEPT ![e] = "settle"], [phase EXCEPT ![e] = "top"]}
    BY <1>13
  <2> QED BY <2>1, <2>2 DEF SchedulerTypeOK, Passing
<1>2. ASSUME NEW n \in Node, SkipNode(e, n) PROVE SchedulerTypeOK'
  <2>1. node' \in [Execution -> States] /\ skipped' \in [Execution -> SUBSET Node]
    BY <1>0, <1>2, FallenStates DEF SkipNode
  <2>2. /\ todo' \in [Execution -> SUBSET Node]
        /\ phase' \in [Execution -> Passing \cup {"unused", "wait_task", "wait_user", "ended"}]
    BY <1>2, <1>13 DEF SkipNode
  <2>3. UNCHANGED <<plan, completed, failed, cancelled, waiting, results, task, done, outcome,
                    live, dagRegistry, dagSignals, dagHistory>>
    BY <1>2 DEF SkipNode
  <2> QED BY <2>1, <2>2, <2>3 DEF SchedulerTypeOK, States
<1>3. ASSUME NEW n \in Node, AskApproval(e, n) PROVE SchedulerTypeOK'
  <2>1. node' \in [Execution -> States]
    BY <1>0, <1>3, MarkedStates DEF AskApproval, Status, Marked
  <2>2. /\ todo' \in [Execution -> SUBSET Node]
        /\ phase' \in [Execution -> Passing \cup {"unused", "wait_task", "wait_user", "ended"}]
    BY <1>3, <1>13 DEF AskApproval
  <2>3. waiting' \in [Execution -> SUBSET Node]
    BY <1>3 DEF AskApproval, SchedulerTypeOK
  <2>4. UNCHANGED <<plan, completed, failed, skipped, cancelled, results, task, done, outcome,
                    live, dagRegistry, dagSignals, dagHistory>>
    BY <1>3 DEF AskApproval
  <2> QED BY <2>1, <2>2, <2>3, <2>4 DEF SchedulerTypeOK, States
<1>4. ASSUME NEW n \in Node, StartNode(e, n) PROVE SchedulerTypeOK'
  <2>1. node' \in [Execution -> States]
    BY <1>0, <1>4, MarkedStates DEF StartNode, Status, Marked
  <2>2. starts' \in [Node -> Nat] /\ starts'[n] \in Nat
    BY <1>4 DEF StartNode, SchedulerTypeOK
  <2>3. task' \in [Execution -> [Node -> Nat]]
    BY <1>4, <2>2 DEF StartNode, SchedulerTypeOK
  <2>4. live' \in [Execution -> SUBSET (Node \X Nat)]
    BY <1>4, <2>2 DEF StartNode, SchedulerTypeOK
  <2>5. done' \in [Execution -> [Node -> Result \cup {"error", "cancel"}]]
    BY <1>4 DEF StartNode, SchedulerTypeOK, Result
  <2>6. /\ todo' \in [Execution -> SUBSET Node]
        /\ phase' \in [Execution -> Passing \cup {"unused", "wait_task", "wait_user", "ended"}]
    BY <1>4, <1>13 DEF StartNode
  <2>7. waiting' \in [Execution -> SUBSET Node]
    BY <1>4 DEF StartNode, SchedulerTypeOK
  <2>8. UNCHANGED <<plan, completed, failed, skipped, cancelled, results, outcome, dagRegistry,
                    dagSignals, grants, calls, offGate>>
    BY <1>4 DEF StartNode
  <2> QED BY <2>1, <2>2, <2>3, <2>4, <2>5, <2>6, <2>7, <2>8 DEF SchedulerTypeOK, States
<1>5. CASE Settle(e)
  <2>1. Strip(node[e], With(node[e], "pending"), "skipped") \in States
    BY <1>0, StripIs DEF Status
  <2>2. With(node[e], "pending") \in SUBSET Node
    BY DEF With
  <2>3. node' \in [Execution -> States]
    BY <1>0, <1>5, <2>1 DEF Settle, GiveUp
  <2>4. skipped' \in [Execution -> SUBSET Node]
    BY <1>0, <1>5, <2>2 DEF Settle, GiveUp
  <2>5. woken' \in SUBSET Execution
    BY <1>5 DEF Settle, SchedulerTypeOK
  <2>6. phase' \in [Execution -> Passing \cup {"unused", "wait_task", "wait_user", "ended"}]
    BY <1>5 DEF Settle, GiveUp, SchedulerTypeOK, Passing
  <2>7. UNCHANGED <<plan, todo, completed, failed, cancelled, waiting, results, task, done,
                    outcome, live, dagRegistry, paused, cancelling, dagHistory>>
    BY <1>5 DEF Settle
  <2> QED BY <2>3, <2>4, <2>5, <2>6, <2>7 DEF SchedulerTypeOK, States
<1>6. CASE PollUser(e)
  BY <1>6 DEF PollUser, SchedulerTypeOK, Passing
<1>7. CASE WaitReturns(e)
  <2>1. {n \in Running(e) : done[e][n] # "none"} \in SUBSET Node
    BY DEF Running
  <2> QED BY <1>7, <2>1 DEF WaitReturns, SchedulerTypeOK, Passing
<1>8. ASSUME NEW n \in Node, CollectFrame(e, n)
      PROVE  /\ task' \in [Execution -> [Node -> Nat]]
             /\ done' \in [Execution -> [Node -> Result \cup {"error", "cancel"}]]
             /\ todo' \in [Execution -> SUBSET Node]
             /\ phase' \in [Execution -> Passing \cup {"unused", "wait_task", "wait_user", "ended"}]
             /\ UNCHANGED <<plan, waiting, outcome, live, dagRegistry, dagSignals, dagHistory>>
  BY <1>8 DEF CollectFrame, SchedulerTypeOK, Passing, Result
<1>9. ASSUME NEW n \in Node, Succeeded(e, n) PROVE SchedulerTypeOK'
  <2>1. node' \in [Execution -> States]
    <3> DEFINE grown == [m \in Node |->
            CASE m = n -> [node[e][n] EXCEPT !.status = "completed", !.result = done[e][n]]
              [] m # n /\ m \in plan.spawns[n] \ Present(node[e]) -> Fresh(plan, m)
              [] OTHER -> node[e][m]]
    <3>1. done[e][n] \in Result
      BY <1>9 DEF Succeeded, Result
    <3>2. [node[e][n] EXCEPT !.status = "completed", !.result = done[e][n]] \in NodeState
      <4>1. node[e][n] \in NodeState
        BY <1>0 DEF States
      <4>2. "completed" \in Status
        BY DEF Status
      <4> QED BY <3>1, <4>1, <4>2 DEF NodeState
    <3>3. \A m \in Node : node[e][m] \in NodeState /\ Fresh(plan, m) \in NodeState
      BY <1>0, NewStates DEF States
    <3>4. \A m \in Node : grown[m] \in NodeState
      BY <3>2, <3>3
    <3>5. grown \in States
      BY <3>4 DEF States
    <3>6. node' = [node EXCEPT ![e] = grown]
      BY <1>9 DEF Succeeded
    <3> HIDE DEF grown
    <3> QED BY <1>0, <3>5, <3>6
  <2>2. /\ completed' \in [Execution -> SUBSET Node]
        /\ results' \in [Execution -> [Node -> Result]]
    BY <1>9 DEF Succeeded, SchedulerTypeOK, Result
  <2> QED BY <1>8, <1>9, <2>1, <2>2 DEF Succeeded, SchedulerTypeOK, States
<1>10. ASSUME NEW n \in Node, Failed(e, n) PROVE SchedulerTypeOK'
  <2>1. node' \in [Execution -> States] /\ skipped' \in [Execution -> SUBSET Node]
    BY <1>0, <1>10, FallenStates DEF Failed
  <2>2. failed' \in [Execution -> SUBSET Node]
    BY <1>10 DEF Failed, SchedulerTypeOK
  <2> QED BY <1>8, <1>10, <2>1, <2>2 DEF Failed, SchedulerTypeOK, States
<1>11. ASSUME NEW n \in Node, TaskCancelled(e, n) PROVE SchedulerTypeOK'
  <2>1. cancelled' \in [Execution -> SUBSET Node]
    BY <1>11 DEF TaskCancelled, SchedulerTypeOK
  <2> QED BY <1>8, <1>11, <2>1 DEF TaskCancelled, SchedulerTypeOK
<1>12. CASE End(e)
  <2>1. [n \in Node |-> Absent] \in States
    BY NewStates DEF States
  <2>2. node' \in [Execution -> States] /\ stored' \in States
    BY <1>0, <1>12, <2>1 DEF End, Kept
  <2>3. /\ completed' \in [Execution -> SUBSET Node] /\ failed' \in [Execution -> SUBSET Node]
        /\ skipped' \in [Execution -> SUBSET Node] /\ cancelled' \in [Execution -> SUBSET Node]
        /\ waiting' \in [Execution -> SUBSET Node]
    BY <1>12 DEF End, SchedulerTypeOK
  <2>4. /\ results' \in [Execution -> [Node -> Result]]
        /\ task' \in [Execution -> [Node -> Nat]]
        /\ done' \in [Execution -> [Node -> Result \cup {"error", "cancel"}]]
    BY <1>12 DEF End, SchedulerTypeOK, Result
  <2>5. /\ outcome' \in [Execution -> {"none", "paused", "cancelled", "failed", "completed"}]
        /\ phase' \in [Execution -> Passing \cup {"unused", "wait_task", "wait_user", "ended"}]
    BY <1>12 DEF End, SchedulerTypeOK
  <2>6. active' \in 0..MaxExecutions /\ wake' \in 0..MaxExecutions
    BY <1>12, SchedulerAssumption DEF End, SchedulerTypeOK
  <2>7. UNCHANGED <<plan, todo, live, token, dagSignals, dagHistory>>
    BY <1>12 DEF End
  <2> QED BY <2>2, <2>3, <2>4, <2>5, <2>6, <2>7 DEF SchedulerTypeOK, States
<1> QED BY <1>1, <1>2, <1>3, <1>4, <1>5, <1>6, <1>7, <1>9, <1>10, <1>11, <1>12 DEF Loop

\* The prologue of an execution.
LEMMA EnterTypes ==
  ASSUME SchedulerTypeOK, NEW e \in Execution, NEW given \in States, Enter(e, given),
         paused' \in SUBSET Execution, calls' \in 0..MaxCalls
  PROVE  SchedulerTypeOK'
<1> USE DEF dagCore, dagRegistry, dagSignals, dagHistory
<1>1. \A status : With(given, status) \in SUBSET Node
  BY DEF With
<1>2. [n \in Node |-> given[n].result] \in [Node -> Result]
  BY DEF States, NodeState
<1>3. /\ completed' \in [Execution -> SUBSET Node] /\ failed' \in [Execution -> SUBSET Node]
      /\ skipped' \in [Execution -> SUBSET Node] /\ cancelled' \in [Execution -> SUBSET Node]
      /\ waiting' \in [Execution -> SUBSET Node]
  BY <1>1 DEF Enter, SchedulerTypeOK
<1>4. results' \in [Execution -> [Node -> Result]]
  BY <1>2 DEF Enter, SchedulerTypeOK
<1>5. node' \in [Execution -> States] /\ stored' \in States
  BY DEF Enter, SchedulerTypeOK, States
<1>6. active' \in 0..MaxExecutions /\ token' \in 0..MaxExecutions /\ wake' \in 0..MaxExecutions
  BY SchedulerAssumption DEF Enter, Execution
<1>7. phase' \in [Execution -> Passing \cup {"unused", "wait_task", "wait_user", "ended"}]
  BY DEF Enter, Goto, SchedulerTypeOK, Passing
<1>8. UNCHANGED <<plan, todo, task, done, outcome, live, woken, cancelling, starts, grants,
                  offGate>>
  BY DEF Enter
<1> QED BY <1>3, <1>4, <1>5, <1>6, <1>7, <1>8 DEF SchedulerTypeOK, States

\* A decision about node n of the registered execution.
LEMMA DecideTypes ==
  ASSUME SchedulerTypeOK, NEW n \in Node, Decide(n), WakeUp
  PROVE  /\ woken' \in SUBSET Execution /\ calls' \in 0..MaxCalls
         /\ UNCHANGED <<plan, phase, todo, completed, cancelled, results, task, done, outcome, live,
                        dagRegistry, paused, cancelling, starts>>
BY SchedulerAssumption DEF Decide, Call, WakeUp, SchedulerTypeOK, Execution

\* The steps of the users and of the executors.
LEMMA OtherTypes ==
  ASSUME SchedulerTypeOK, UserStep \/ \E e \in Execution : ExecutorStep(e)
  PROVE  SchedulerTypeOK'
<1> USE DEF dagCore, dagRegistry, dagSignals, dagHistory
<1>0. /\ node \in [Execution -> States] /\ skipped \in [Execution -> SUBSET Node]
      /\ stored \in States /\ (active # 0 => active \in Execution)
  <2>1. active \in 0..MaxExecutions
    BY DEF SchedulerTypeOK
  <2>2. active # 0 => active \in Execution
    BY <2>1, SchedulerAssumption DEF Execution
  <2> QED BY <2>2 DEF SchedulerTypeOK, States
<1>1. Call => calls' \in 0..MaxCalls
  BY SchedulerAssumption DEF Call, SchedulerTypeOK
<1>2. WakeUp => woken' \in SUBSET Execution
  BY SchedulerAssumption DEF WakeUp, SchedulerTypeOK, Execution
<1>3. CASE Execute
  <2>1. 1 \in Execution /\ Submitted(plan) \in States
    BY NewStates, SchedulerAssumption DEF Execution
  <2>2. paused' \in SUBSET Execution /\ calls' \in 0..MaxCalls
    BY <1>3 DEF Execute, SchedulerTypeOK
  <2> QED BY <1>3, <2>1, <2>2, EnterTypes DEF Execute
<1>4. ASSUME NEW e \in Execution, Resume(e) PROVE SchedulerTypeOK'
  <2>1. paused' \in SUBSET Execution /\ calls' \in 0..MaxCalls
    BY <1>1, <1>4 DEF Resume, SchedulerTypeOK
  <2> QED BY <1>0, <1>4, <2>1, EnterTypes DEF Resume
<1>5. CASE ResumeInvalid
  BY <1>1, <1>5 DEF ResumeInvalid, SchedulerTypeOK
<1>6. CASE Pause
  <2>1. paused' \in SUBSET Execution
    BY <1>6, SchedulerAssumption DEF Pause, SchedulerTypeOK, Execution
  <2>2. UNCHANGED <<plan, dagCore, dagRegistry, cancelling, starts, grants, offGate>>
    BY <1>6 DEF Pause
  <2> QED BY <1>1, <1>2, <1>6, <2>1, <2>2 DEF Pause, SchedulerTypeOK
<1>7. ASSUME NEW e \in Execution, CancelPlan(e) PROVE SchedulerTypeOK'
  BY <1>1, <1>7 DEF CancelPlan, SchedulerTypeOK
<1>8. ASSUME NEW n \in Node, Approve(n) PROVE SchedulerTypeOK'
  <2>1. /\ woken' \in SUBSET Execution /\ calls' \in 0..MaxCalls
        /\ UNCHANGED <<plan, phase, todo, completed, cancelled, results, task, done, outcome,
                       live, dagRegistry, paused, cancelling, starts>>
    BY <1>8, DecideTypes DEF Approve
  <2>2. active \in Execution /\ Decided(node[active], n, TRUE) \in NodeState
    BY <1>0, <1>8, DecidedState DEF Approve, SchedulerTypeOK, Execution
  <2>3. node' \in [Execution -> States]
    BY <1>0, <1>8, <2>2 DEF Approve, States
  <2>4. waiting' \in [Execution -> SUBSET Node]
    BY <1>8 DEF Approve, SchedulerTypeOK
  <2>5. grants' \in [Node -> Nat]
    BY <1>8 DEF Approve, SchedulerTypeOK
  <2>6. offGate' \in BOOLEAN /\ failed' = failed /\ skipped' = skipped
    BY <1>8 DEF Approve, SchedulerTypeOK
  <2> QED BY <2>1, <2>3, <2>4, <2>5, <2>6 DEF SchedulerTypeOK, States
<1>9. ASSUME NEW n \in Node, Reject(n) PROVE SchedulerTypeOK'
  <2> DEFINE fallen == [node[active] EXCEPT ![n] = Decided(node[active], n, FALSE)]
             under == Downstream(fallen, n)
  <2>1. /\ woken' \in SUBSET Execution /\ calls' \in 0..MaxCalls
        /\ UNCHANGED <<plan, phase, todo, completed, cancelled, results, task, done, outcome,
                       live, dagRegistry, paused, cancelling, starts>>
    BY <1>9, DecideTypes DEF Reject
  <2>2. active \in Execution /\ Decided(node[active], n, FALSE) \in NodeState
    BY <1>0, <1>9, DecidedState DEF Reject, SchedulerTypeOK, Execution
  <2>3. fallen \in States
    BY <1>0, <2>2 DEF States
  <2>10. under \in SUBSET Node
    BY DEF Downstream
  <2>11. "skipped" \in Status
    BY DEF Status
  <2>5. /\ node' = [node EXCEPT ![active] = SetStatus(fallen, under, "skipped")]
        /\ skipped' = [skipped EXCEPT ![active] = @ \cup under]
    BY <1>9 DEF Reject
  <2> HIDE DEF fallen, under
  <2>4. SetStatus(fallen, under, "skipped") \in States
    BY <2>3, <2>11, SetStatusIs
  <2>6. node' \in [Execution -> States] /\ skipped' \in [Execution -> SUBSET Node]
    BY <1>0, <2>2, <2>4, <2>5, <2>10
  <2>7. waiting' \in [Execution -> SUBSET Node]
    BY <1>9 DEF Reject, SchedulerTypeOK
  <2>8. failed' \in [Execution -> SUBSET Node]
    BY <1>9 DEF Reject, SchedulerTypeOK
  <2>9. offGate' \in BOOLEAN /\ grants' = grants
    BY <1>9 DEF Reject, SchedulerTypeOK
  <2> QED BY <2>1, <2>6, <2>7, <2>8, <2>9 DEF SchedulerTypeOK, States
<1>10. ASSUME NEW n \in Node, AppendStored(n) PROVE SchedulerTypeOK'
  <2>1. stored' \in States
    BY <1>0, <1>10, NewStates DEF AppendStored, States
  <2> QED BY <1>1, <1>10, <2>1 DEF AppendStored, SchedulerTypeOK, States
<1>11. ASSUME NEW n \in Node, NEW yes \in BOOLEAN, DecideStored(n, yes) PROVE SchedulerTypeOK'
  <2>1. Decided(stored, n, yes) \in NodeState
    BY <1>0, DecidedState
  <2>2. stored' \in States
    BY <1>0, <1>11, <2>1 DEF DecideStored, States
  <2>3. grants' \in [Node -> Nat] /\ offGate' \in BOOLEAN
    BY <1>11 DEF DecideStored, SchedulerTypeOK
  <2> QED BY <1>1, <1>11, <2>2, <2>3 DEF DecideStored, SchedulerTypeOK, States
<1>12. ASSUME NEW n \in Node, NEW raises \in BOOLEAN, AppendNode(n, raises)
       PROVE  SchedulerTypeOK'
  <2>1. node' \in [Execution -> States]
    BY <1>0, <1>12, NewStates DEF AppendNode, States
  <2>2. woken' \in SUBSET Execution
    BY <1>2, <1>12 DEF AppendNode, SchedulerTypeOK
  <2> QED BY <1>1, <1>12, <2>1, <2>2 DEF AppendNode, SchedulerTypeOK, States
<1>13. ASSUME NEW e \in Execution, NEW s \in live[e], NEW what \in Outcomes(s[1]),
              Finish(e, s, what)
       PROVE  SchedulerTypeOK'
  <2>1. what \in Result \cup {"error", "cancel"}
    BY DEF Outcomes, Result
  <2>2. done' \in [Execution -> [Node -> Result \cup {"error", "cancel"}]]
    BY <1>13, <2>1 DEF Finish, SchedulerTypeOK
  <2>3. live' \in [Execution -> SUBSET (Node \X Nat)]
    BY <1>13 DEF Finish, SchedulerTypeOK
  <2> QED BY <1>13, <2>2, <2>3 DEF Finish, SchedulerTypeOK
<1> QED BY <1>3, <1>4, <1>5, <1>6, <1>7, <1>8, <1>9, <1>10, <1>11, <1>12, <1>13
        DEF UserStep, ExecutorStep

\* The initial states.
LEMMA InitTypes ==
  ASSUME SchedulerInit PROVE SchedulerTypeOK
<1>1. Absent \in NodeState
  BY NewStates
<1>2. /\ todo \in [Execution -> SUBSET Node] /\ live \in [Execution -> SUBSET (Node \X Nat)]
      /\ completed \in [Execution -> SUBSET Node] /\ failed \in [Execution -> SUBSET Node]
      /\ skipped \in [Execution -> SUBSET Node] /\ cancelled \in [Execution -> SUBSET Node]
      /\ waiting \in [Execution -> SUBSET Node]
  BY DEF SchedulerInit
<1>3. node \in [Execution -> [Node -> NodeState]] /\ stored \in [Node -> NodeState]
  BY <1>1 DEF SchedulerInit
<1>4. /\ results \in [Execution -> [Node -> Result]]
      /\ done \in [Execution -> [Node -> Result \cup {"error", "cancel"}]]
      /\ task \in [Execution -> [Node -> Nat]]
      /\ starts \in [Node -> Nat] /\ grants \in [Node -> Nat]
  BY DEF SchedulerInit, Result
<1>5. /\ phase \in [Execution -> Passing \cup {"unused", "wait_task", "wait_user", "ended"}]
      /\ outcome \in [Execution -> {"none", "paused", "cancelled", "failed", "completed"}]
  BY DEF SchedulerInit
<1>6. /\ active \in 0..MaxExecutions /\ token \in 0..MaxExecutions /\ wake \in 0..MaxExecutions
      /\ calls \in 0..MaxCalls
  BY SchedulerAssumption DEF SchedulerInit
<1>7. /\ plan \in Plans /\ offGate \in BOOLEAN
      /\ paused = {} /\ woken = {} /\ cancelling = {}
  BY DEF SchedulerInit
<1> QED BY <1>2, <1>3, <1>4, <1>5, <1>6, <1>7 DEF SchedulerTypeOK

\* The dictionaries of the executions and what the scheduler keeps have their
\* types, whatever plans, decisions and resumes there are.
THEOREM SchedulerTypeCorrect == SchedulerSpec => []SchedulerTypeOK
<1>1. SchedulerTypeOK /\ [SchedulerNext]_dagVars => SchedulerTypeOK'
  <2>1. ASSUME SchedulerTypeOK, UNCHANGED dagVars PROVE SchedulerTypeOK'
    BY <2>1 DEF dagVars, dagCore, dagRegistry, dagSignals, dagHistory, SchedulerTypeOK
  <2> QED BY <2>1, LoopTypes, OtherTypes DEF SchedulerNext
<1> QED BY <1>1, InitTypes, PTL DEF SchedulerSpec

--------------------------------------------------------------------------------
(* Approvals.                                                                  *)

\* The node may be started without asking.
Unlocked(state) == state.status \in {"pending", "ready"} /\ ~state.gated

\* Only an approval unlocks a gated node: in an execution, in the stored plan, and
\* among the candidates of a pass, whose status another candidate may change.
GateInv ==
  /\ SchedulerTypeOK
  /\ GateHolds
  /\ \A n \in plan.gated :
       /\ Unlocked(stored[n]) => grants[n] > 0
       /\ \A e \in Execution :
            /\ Unlocked(node[e][n]) => grants[n] > 0
            /\ phase[e] = "schedule" /\ n \in todo[e] /\ ~node[e][n].gated => grants[n] > 0

\* The nodes of a plan are nodes.
LEMMA GatedNodes == ASSUME SchedulerTypeOK PROVE plan.gated \subseteq Node
BY SchedulerAssumption DEF SchedulerTypeOK, PlanShape

\* What a step must leave alone for the invariant to hold after it.
LEMMA GateKept ==
  ASSUME GateInv, SchedulerTypeOK', plan' = plan,
         \A n \in plan.gated :
           /\ grants'[n] >= grants[n]
           /\ starts'[n] > 0 => starts[n] > 0 \/ grants'[n] > 0
           /\ Unlocked(stored'[n]) =>
                \/ grants'[n] > 0 \/ Unlocked(stored[n])
                \/ \E e \in Execution : Unlocked(node[e][n])
           /\ \A e \in Execution :
                /\ Unlocked(node'[e][n]) =>
                     grants'[n] > 0 \/ Unlocked(stored[n]) \/ Unlocked(node[e][n])
                /\ phase'[e] = "schedule" /\ n \in todo'[e] /\ ~node'[e][n].gated =>
                     \/ Unlocked(node[e][n])
                     \/ phase[e] = "schedule" /\ n \in todo[e] /\ ~node[e][n].gated
  PROVE  GateInv'
<1>1. \A n \in plan.gated : grants[n] \in Nat /\ grants'[n] \in Nat
  BY GatedNodes DEF GateInv, SchedulerTypeOK
<1>2. \A n \in plan.gated : grants[n] > 0 => grants'[n] > 0
  BY <1>1
<1>3. GateHolds'
  BY <1>2 DEF GateInv, GateHolds
<1>4. ASSUME NEW n \in plan.gated
      PROVE  /\ Unlocked(stored'[n]) => grants'[n] > 0
             /\ \A e \in Execution :
                  /\ Unlocked(node'[e][n]) => grants'[n] > 0
                  /\ phase'[e] = "schedule" /\ n \in todo'[e] /\ ~node'[e][n].gated =>
                       grants'[n] > 0
  BY <1>2 DEF GateInv
<1> HIDE DEF Unlocked
<1> QED BY <1>3, <1>4 DEF GateInv

\* A step that touches no node, plan, grant or start and begins no pass.
LEMMA GateQuiet ==
  ASSUME GateInv, SchedulerTypeOK', UNCHANGED <<plan, node, stored, grants, starts>>,
         \A e \in Execution : phase'[e] = "schedule" =>
           phase[e] = "schedule" /\ todo'[e] \subseteq todo[e]
  PROVE  GateInv'
<1>1. \A n \in plan.gated : grants[n] \in Nat
  BY GatedNodes DEF GateInv, SchedulerTypeOK
<1> HIDE DEF Unlocked
<1> QED BY <1>1, GateKept

\* A step that gives nodes of one execution another status, or another record of
\* its own, takes candidates at most from its pass, and starts nothing.
LEMMA GateOneExecution ==
  ASSUME GateInv, SchedulerTypeOK', UNCHANGED <<plan, stored, grants, starts>>,
         \A n \in plan.gated, e \in Execution :
           /\ Unlocked(node'[e][n]) => Unlocked(node[e][n])
           /\ phase'[e] = "schedule" =>
                /\ phase[e] = "schedule" /\ todo'[e] \subseteq todo[e]
                /\ node'[e][n].gated = node[e][n].gated
  PROVE  GateInv'
<1>1. \A n \in plan.gated : grants[n] \in Nat
  BY GatedNodes DEF GateInv, SchedulerTypeOK
<1> HIDE DEF Unlocked
<1> QED BY <1>1, GateKept

\* The steps of the loop.
LEMMA GateLoop ==
  ASSUME GateInv, SchedulerTypeOK', NEW e \in Execution, Loop(e)
  PROVE  GateInv'
<1> USE DEF dagRegistry, dagSignals, dagHistory
<1>0. /\ SchedulerTypeOK /\ plan.gated \subseteq Node
      /\ node \in [Execution -> States] /\ skipped \in [Execution -> SUBSET Node]
      /\ stored \in States /\ todo \in [Execution -> SUBSET Node]
  BY GatedNodes DEF GateInv, SchedulerTypeOK, States
<1>13. ASSUME NEW n \in Node, Take(e, n, "settle") \/ Take(e, n, "top")
       PROVE  \A d \in Execution : phase'[d] = "schedule" =>
                phase[d] = "schedule" /\ todo'[d] \subseteq todo[d]
  <2>1. todo' = [todo EXCEPT ![e] = @ \ {n}]
    BY <1>13 DEF Take
  <2>2. phase' \in {phase, [phase EXCEPT ![e] = "settle"], [phase EXCEPT ![e] = "top"]}
    BY <1>13 DEF Take, Goto
  <2>3. phase \in [Execution -> Passing \cup {"unused", "wait_task", "wait_user", "ended"}]
    BY <1>0 DEF SchedulerTypeOK
  <2> QED BY <1>0, <2>1, <2>2, <2>3
<1>1. CASE Top(e)
  <2> DEFINE open == {n \in Node : node[e][n].status \in {"pending", "ready", "waiting", "running"}}
  <2>1. /\ node' \in {node, [node EXCEPT ![e] = Strip(node[e], open, "cancelled")]}
        /\ \/ todo' = [todo EXCEPT ![e] = Ready(e)]
           \/ \E where \in {"end", "settle"} : phase' = [phase EXCEPT ![e] = where] /\ todo' = todo
           \/ phase' = [phase EXCEPT ![e] = "settle"] /\ todo' = [todo EXCEPT ![e] = {}]
        /\ \E where \in {"end", "settle", "schedule"} : phase' = [phase EXCEPT ![e] = where]
        /\ UNCHANGED <<plan, stored, grants, starts>>
    BY <1>1 DEF Top, open, Goto
  <2>2. /\ Strip(node[e], open, "cancelled") \in States
        /\ \A n \in Node :
             /\ Strip(node[e], open, "cancelled")[n].gated = node[e][n].gated
             /\ Strip(node[e], open, "cancelled")[n].status \in
                  {node[e][n].status, "cancelled"}
    BY <1>0, StripIs DEF Status
  <2> HIDE DEF open
  <2>3. \A d \in Execution, n \in Node :
          /\ node'[d][n].gated = node[d][n].gated
          /\ node'[d][n].status \in {node[d][n].status, "cancelled"}
    BY <1>0, <2>1, <2>2
  <2>4. \A d \in Execution, n \in Node : Unlocked(node'[d][n]) => Unlocked(node[d][n])
    BY <2>3 DEF Unlocked
  <2>5. \A n \in Ready(e) : n \in Node /\ node[e][n].status \in {"pending", "ready"}
    BY DEF Ready, With
  <2>6. phase \in [Execution -> Passing \cup {"unused", "wait_task", "wait_user", "ended"}]
    BY <1>0 DEF SchedulerTypeOK
  <2>7. ASSUME NEW d \in Execution, NEW n \in plan.gated,
               phase'[d] = "schedule", n \in todo'[d], ~node'[d][n].gated
        PROVE  \/ Unlocked(node[d][n])
               \/ phase[d] = "schedule" /\ n \in todo[d] /\ ~node[d][n].gated
    <3>1. ~node[d][n].gated /\ n \in Node
      BY <1>0, <2>3, <2>7
    <3>2. CASE d = e
      <4>1. todo' = [todo EXCEPT ![e] = Ready(e)]
        BY <1>0, <2>1, <2>6, <2>7, <3>2
      <4> QED BY <1>0, <2>5, <2>7, <3>1, <3>2, <4>1 DEF Unlocked
    <3>3. CASE d # e
      BY <1>0, <2>1, <2>6, <2>7, <3>1, <3>3
    <3> QED BY <3>2, <3>3
  <2>8. \A n \in plan.gated : grants[n] \in Nat
    BY <1>0 DEF SchedulerTypeOK
  <2> HIDE DEF Unlocked
  <2> QED BY <1>0, <2>1, <2>4, <2>7, <2>8, GateKept
<1>2. ASSUME NEW n \in Node, SkipNode(e, n) PROVE GateInv'
  <2>1. \A d \in Execution, m \in Node :
          /\ node'[d][m].gated = node[d][m].gated
          /\ node'[d][m].status \in {node[d][m].status, "failed", "skipped"}
    BY <1>0, <1>2, FallenStates DEF SkipNode
  <2>2. \A d \in Execution, m \in Node : Unlocked(node'[d][m]) => Unlocked(node[d][m])
    BY <2>1 DEF Unlocked
  <2>3. UNCHANGED <<plan, stored, grants, starts>> /\ Take(e, n, "settle")
    BY <1>2 DEF SkipNode
  <2> QED BY <1>0, <1>13, <2>1, <2>2, <2>3, GateOneExecution
<1>3. ASSUME NEW n \in Node, AskApproval(e, n) PROVE GateInv'
  <2>1. \A d \in Execution, m \in Node :
          /\ node'[d][m].gated = node[d][m].gated
          /\ node'[d][m].status \in {node[d][m].status, "waiting"}
    <3>1. node' = Marked(e, n, "waiting") /\ "waiting" \in Status
      BY <1>3 DEF AskApproval, Status, Marked
    <3>2. \A d \in Execution, m \in Node :
            /\ node'[d][m].gated = node[d][m].gated
            /\ node'[d][m].status = IF d = e /\ m = n THEN "waiting" ELSE node[d][m].status
      BY <1>0, <3>1, MarkedStates
    <3> QED BY <3>2
  <2>2. \A d \in Execution, m \in Node : Unlocked(node'[d][m]) => Unlocked(node[d][m])
    BY <2>1 DEF Unlocked
  <2>3. UNCHANGED <<plan, stored, grants, starts>> /\ Take(e, n, "settle")
    BY <1>3 DEF AskApproval
  <2> QED BY <1>0, <1>13, <2>1, <2>2, <2>3, GateOneExecution
<1>4. ASSUME NEW n \in Node, StartNode(e, n) PROVE GateInv'
  <2>1. \A d \in Execution, m \in Node :
          /\ node'[d][m].gated = node[d][m].gated
          /\ node'[d][m].status \in {node[d][m].status, "running"}
    <3>1. node' = Marked(e, n, "running") /\ "running" \in Status
      BY <1>4 DEF StartNode, Status, Marked
    <3>2. \A d \in Execution, m \in Node :
            /\ node'[d][m].gated = node[d][m].gated
            /\ node'[d][m].status = IF d = e /\ m = n THEN "running" ELSE node[d][m].status
      BY <1>0, <3>1, MarkedStates
    <3> QED BY <3>2
  <2>2. \A d \in Execution, m \in Node : Unlocked(node'[d][m]) => Unlocked(node[d][m])
    BY <2>1 DEF Unlocked
  <2>3. UNCHANGED <<plan, stored, grants>> /\ Take(e, n, "settle")
    BY <1>4 DEF StartNode
  <2>4. \A m \in Node : starts'[m] > 0 => starts[m] > 0 \/ m = n
    BY <1>0, <1>4 DEF StartNode, SchedulerTypeOK
  <2>5. n \in plan.gated => grants[n] > 0
    BY <1>4 DEF StartNode, GateInv
  <2>6. \A m \in plan.gated : grants[m] \in Nat
    BY <1>0 DEF SchedulerTypeOK
  <2>7. \A d \in Execution : phase'[d] = "schedule" =>
          phase[d] = "schedule" /\ todo'[d] \subseteq todo[d]
    BY <1>13, <2>3
  <2> HIDE DEF Unlocked
  <2> QED BY <1>0, <2>1, <2>2, <2>3, <2>4, <2>5, <2>6, <2>7, GateKept
<1>5. CASE Settle(e)
  <2>1. /\ Strip(node[e], With(node[e], "pending"), "skipped") \in States
        /\ \A n \in Node :
             /\ Strip(node[e], With(node[e], "pending"), "skipped")[n].gated
                  = node[e][n].gated
             /\ Strip(node[e], With(node[e], "pending"), "skipped")[n].status \in
                  {node[e][n].status, "skipped"}
    BY <1>0, StripIs DEF Status
  <2>2. /\ node' \in {node, [node EXCEPT ![e] =
                             Strip(node[e], With(node[e], "pending"), "skipped")]}
        /\ UNCHANGED <<plan, todo, stored, grants, starts>>
        /\ \E where \in {"wait_task", "wait_user", "end"} : phase' = [phase EXCEPT ![e] = where]
    BY <1>5 DEF Settle, GiveUp, Goto
  <2>3. \A d \in Execution, m \in Node :
          /\ node'[d][m].gated = node[d][m].gated
          /\ node'[d][m].status \in {node[d][m].status, "skipped"}
    BY <1>0, <2>1, <2>2
  <2>4. \A d \in Execution, m \in Node : Unlocked(node'[d][m]) => Unlocked(node[d][m])
    BY <2>3 DEF Unlocked
  <2>5. phase \in [Execution -> Passing \cup {"unused", "wait_task", "wait_user", "ended"}]
    BY <1>0 DEF SchedulerTypeOK
  <2>6. \A d \in Execution : phase'[d] = "schedule" => phase[d] = "schedule"
    BY <2>2, <2>5
  <2> QED BY <1>0, <2>2, <2>3, <2>4, <2>6, GateOneExecution
<1>6. CASE PollUser(e)
  <2>1. /\ UNCHANGED <<plan, node, todo, stored, grants, starts>>
        /\ phase' = [phase EXCEPT ![e] = "top"]
    BY <1>6 DEF PollUser, Goto
  <2>2. \A d \in Execution : phase'[d] = "schedule" => phase[d] = "schedule"
    BY <1>0, <2>1 DEF SchedulerTypeOK
  <2> QED BY <2>1, <2>2, GateQuiet
<1>7. CASE WaitReturns(e)
  <2>1. /\ UNCHANGED <<plan, node, stored, grants, starts>>
        /\ \E where \in {"top", "collect"} : phase' = [phase EXCEPT ![e] = where]
        /\ \E set : todo' = [todo EXCEPT ![e] = set]
    BY <1>7 DEF WaitReturns, Goto
  <2>2. phase \in [Execution -> Passing \cup {"unused", "wait_task", "wait_user", "ended"}]
    BY <1>0 DEF SchedulerTypeOK
  <2>3. \A d \in Execution : phase'[d] = "schedule" =>
          phase[d] = "schedule" /\ todo'[d] = todo[d]
    BY <1>0, <2>1, <2>2
  <2> QED BY <2>1, <2>3, GateQuiet
<1>8. ASSUME NEW n \in Node, CollectFrame(e, n)
      PROVE  /\ UNCHANGED <<plan, stored, grants, starts>>
             /\ \A d \in Execution : phase'[d] = "schedule" =>
                  phase[d] = "schedule" /\ todo'[d] \subseteq todo[d]
  <2>1. Take(e, n, "top") /\ UNCHANGED <<plan, stored, grants, starts>>
    BY <1>8 DEF CollectFrame
  <2> QED BY <1>13, <2>1
<1>9. ASSUME NEW n \in Node, Succeeded(e, n) PROVE GateInv'
  <2>1. \A d \in Execution, m \in Node : d # e => node'[d][m] = node[d][m]
    BY <1>0, <1>9 DEF Succeeded
  <2>2. \A m \in Node :
          \/ node'[e][m] = node[e][m]
          \/ node'[e][m] = Fresh(plan, m)
          \/ node'[e][m] = [node[e][m] EXCEPT !.status = "completed", !.result = done[e][m]]
    BY <1>0, <1>9 DEF Succeeded
  <2>3. \A m \in Node :
          [node[e][m] EXCEPT !.status = "completed", !.result = done[e][m]].status = "completed"
    BY <1>0 DEF States, NodeState
  <2>4. \A d \in Execution, m \in plan.gated : Unlocked(node'[d][m]) => Unlocked(node[d][m])
    <3>1. ASSUME NEW m \in plan.gated, Unlocked(node'[e][m]) PROVE Unlocked(node[e][m])
      <4>1. m \in Node /\ Fresh(plan, m).gated
        BY <1>0 DEF Fresh
      <4>2. CASE node'[e][m] = Fresh(plan, m)
        BY <3>1, <4>1, <4>2 DEF Unlocked
      <4>3. CASE node'[e][m] = [node[e][m] EXCEPT !.status = "completed", !.result = done[e][m]]
        BY <2>3, <3>1, <4>1, <4>3 DEF Unlocked
      <4> HIDE DEF Unlocked
      <4> QED BY <2>2, <3>1, <4>1, <4>2, <4>3
    <3>2. ASSUME NEW d \in Execution, NEW m \in plan.gated, d # e
          PROVE  node'[d][m] = node[d][m]
      BY <1>0, <2>1, <3>2
    <3> HIDE DEF Unlocked
    <3> QED BY <3>1, <3>2
  <2>5. phase[e] = "collect" /\ CollectFrame(e, n)
    BY <1>9 DEF Succeeded
  <2> QED BY <1>0, <1>8, <2>1, <2>4, <2>5, GateOneExecution
<1>10. ASSUME NEW n \in Node, Failed(e, n) PROVE GateInv'
  <2>1. \A d \in Execution, m \in Node :
          /\ node'[d][m].gated = node[d][m].gated
          /\ node'[d][m].status \in {node[d][m].status, "failed", "skipped"}
    BY <1>0, <1>10, FallenStates DEF Failed
  <2>2. \A d \in Execution, m \in Node : Unlocked(node'[d][m]) => Unlocked(node[d][m])
    BY <2>1 DEF Unlocked
  <2>3. CollectFrame(e, n)
    BY <1>10 DEF Failed
  <2> QED BY <1>0, <1>8, <2>1, <2>2, <2>3, GateOneExecution
<1>11. ASSUME NEW n \in Node, TaskCancelled(e, n) PROVE GateInv'
  BY <1>8, <1>11, GateQuiet DEF TaskCancelled
<1>12. CASE End(e)
  <2>1. /\ UNCHANGED <<plan, todo, grants, starts>> /\ stored' = node[e]
        /\ phase' = [phase EXCEPT ![e] = "ended"]
        /\ node' \in {node, [node EXCEPT ![e] = [n \in Node |-> Absent]]}
    BY <1>0, <1>12 DEF End, Kept, Goto
  <2>2. \A d \in Execution, m \in Node : Unlocked(node'[d][m]) => Unlocked(node[d][m])
    BY <1>0, <2>1 DEF Unlocked, Absent
  <2>3. \A m \in plan.gated : Unlocked(stored'[m]) => Unlocked(node[e][m])
    BY <2>1
  <2>4. \A m \in plan.gated : grants[m] \in Nat
    BY <1>0 DEF SchedulerTypeOK
  <2>5. ASSUME NEW d \in Execution, phase'[d] = "schedule"
        PROVE  phase[d] = "schedule" /\ node'[d] = node[d] /\ todo' = todo
    <3>1. phase \in [Execution -> Passing \cup {"unused", "wait_task", "wait_user", "ended"}]
      BY <1>0 DEF SchedulerTypeOK
    <3>2. d # e
      BY <2>1, <2>5, <3>1
    <3> QED BY <1>0, <2>1, <2>5, <3>1, <3>2
  <2> HIDE DEF Unlocked
  <2> QED BY <1>0, <2>1, <2>2, <2>3, <2>4, <2>5, GateKept
<1> QED BY <1>1, <1>2, <1>3, <1>4, <1>5, <1>6, <1>7, <1>9, <1>10, <1>11, <1>12 DEF Loop

\* The steps of the users and of the executors.
LEMMA GateOther ==
  ASSUME GateInv, SchedulerTypeOK', UserStep \/ \E e \in Execution : ExecutorStep(e)
  PROVE  GateInv'
<1> USE DEF dagCore, dagRegistry, dagSignals, dagHistory
<1>0. /\ SchedulerTypeOK /\ plan.gated \subseteq Node
      /\ node \in [Execution -> States] /\ stored \in States
      /\ \A m \in Node : grants[m] \in Nat
  BY GatedNodes DEF GateInv, SchedulerTypeOK, States
<1>1. ASSUME NEW e \in Execution, NEW given \in States, Enter(e, given),
             \A m \in plan.gated : Unlocked(given[m]) => Unlocked(stored[m])
      PROVE  GateInv'
  <2>1. /\ UNCHANGED <<plan, todo, grants, starts>> /\ stored' = given
        /\ phase' = [phase EXCEPT ![e] = "top"] /\ node' = [node EXCEPT ![e] = given]
    BY <1>1 DEF Enter, Goto
  <2>2. ASSUME NEW d \in Execution, phase'[d] = "schedule"
        PROVE  phase[d] = "schedule" /\ node'[d] = node[d] /\ todo' = todo
    <3>1. phase \in [Execution -> Passing \cup {"unused", "wait_task", "wait_user", "ended"}]
      BY <1>0 DEF SchedulerTypeOK
    <3>2. d # e
      BY <2>1, <2>2, <3>1
    <3> QED BY <1>0, <2>1, <2>2, <3>1, <3>2
  <2>3. ASSUME NEW d \in Execution, NEW m \in plan.gated
        PROVE  Unlocked(node'[d][m]) => Unlocked(node[d][m]) \/ Unlocked(stored[m])
    <3>1. node'[d] = IF d = e THEN given ELSE node[d]
      BY <1>0, <2>1
    <3> HIDE DEF Unlocked
    <3> QED BY <1>1, <3>1
  <2> HIDE DEF Unlocked
  <2> QED BY <1>0, <1>1, <2>1, <2>2, <2>3, GateKept
<1>2. \A m \in plan.gated : ~Unlocked(Submitted(plan)[m])
  BY <1>0 DEF Unlocked, Submitted, Fresh, Absent
<1>3. CASE Execute
  <2>1. 1 \in Execution /\ Submitted(plan) \in States
    BY NewStates, SchedulerAssumption DEF Execution
  <2> QED BY <1>1, <1>2, <1>3, <2>1 DEF Execute
<1>4. ASSUME NEW e \in Execution, Resume(e) PROVE GateInv'
  BY <1>0, <1>1, <1>4 DEF Resume
<1>5. CASE ResumeInvalid
  BY <1>5, GateQuiet DEF ResumeInvalid
<1>6. CASE Pause
  BY <1>6, GateQuiet DEF Pause
<1>7. ASSUME NEW e \in Execution, CancelPlan(e) PROVE GateInv'
  BY <1>7, GateQuiet DEF CancelPlan
\* between two awaits nobody is in the middle of a pass
<1>8. ASSUME ~Busy PROVE \A d \in Execution : phase[d] # "schedule"
  BY <1>8 DEF Busy, Passing
<1>9. ASSUME NEW n \in Node, Approve(n) PROVE GateInv'
  <2>1. /\ \A d \in Execution, m \in Node : m # n => node'[d][m] = node[d][m]
        /\ \A m \in Node : grants'[m] = IF m = n THEN grants[m] + 1 ELSE grants[m]
    BY <1>0, <1>9 DEF Approve, States, SchedulerTypeOK
  <2>2. \A m \in Node : grants'[m] >= grants[m] /\ (m = n => grants'[m] > 0)
    BY <1>0, <2>1
  <2>3. /\ UNCHANGED <<plan, stored, starts>>
        /\ \A d \in Execution : phase'[d] # "schedule"
    BY <1>8, <1>9 DEF Approve, Decide
  <2>4. ASSUME NEW d \in Execution, NEW m \in plan.gated
        PROVE  Unlocked(node'[d][m]) => Unlocked(node[d][m]) \/ grants'[m] > 0
    BY <1>0, <2>1, <2>2
  <2> HIDE DEF Unlocked
  <2> QED BY <1>0, <2>2, <2>3, <2>4, GateKept
<1>10. ASSUME NEW n \in Node, Reject(n) PROVE GateInv'
  <2> DEFINE fallen == [node[active] EXCEPT ![n] = Decided(node[active], n, FALSE)]
             under == Downstream(fallen, n)
  <2>1. active \in Execution
    BY <1>0, <1>10 DEF Reject, SchedulerTypeOK, Execution
  <2>2. /\ Decided(node[active], n, FALSE) \in NodeState
        /\ Decided(node[active], n, FALSE).status = "failed"
    BY <1>0, <2>1, DecidedState
  <2>3. /\ fallen \in States
        /\ \A m \in Node : m # n => fallen[m] = node[active][m]
        /\ fallen[n].status = "failed"
    BY <1>0, <2>1, <2>2 DEF States
  <2>4. node' = [node EXCEPT ![active] = SetStatus(fallen, under, "skipped")]
    BY <1>10 DEF Reject
  <2> HIDE DEF fallen, under
  <2>5. \A m \in Node :
          /\ SetStatus(fallen, under, "skipped")[m].gated = fallen[m].gated
          /\ SetStatus(fallen, under, "skipped")[m].status \in {fallen[m].status, "skipped"}
    BY <2>3, SetStatusIs DEF Status
  <2>6. \A m \in Node :
          Unlocked(SetStatus(fallen, under, "skipped")[m]) => Unlocked(node[active][m])
    BY <2>3, <2>5 DEF Unlocked
  <2>7. ASSUME NEW d \in Execution, NEW m \in plan.gated
        PROVE  Unlocked(node'[d][m]) => Unlocked(node[d][m])
    <3>1. node'[d] = IF d = active THEN SetStatus(fallen, under, "skipped") ELSE node[d]
      BY <1>0, <2>1, <2>4
    <3> HIDE DEF Unlocked
    <3> QED BY <1>0, <2>6, <3>1
  <2>8. /\ UNCHANGED <<plan, stored, starts, grants>>
        /\ \A d \in Execution : phase'[d] # "schedule"
    BY <1>8, <1>10 DEF Reject, Decide
  <2> HIDE DEF Unlocked
  <2> QED BY <2>7, <2>8, GateOneExecution
<1>11. ASSUME NEW n \in Node, AppendStored(n) PROVE GateInv'
  <2>1. /\ UNCHANGED <<plan, node, todo, phase, starts, grants>>
        /\ stored' = [stored EXCEPT ![n] = Fresh(plan, n)]
    BY <1>11 DEF AppendStored
  <2>2. \A m \in plan.gated : Unlocked(stored'[m]) => Unlocked(stored[m])
    <3>1. \A m \in plan.gated : ~Unlocked(Fresh(plan, m))
      BY DEF Unlocked, Fresh
    <3>2. \A m \in Node : stored'[m] = IF m = n THEN Fresh(plan, m) ELSE stored[m]
      BY <1>0, <2>1 DEF States
    <3> HIDE DEF Unlocked
    <3> QED BY <1>0, <3>1, <3>2
  <2> HIDE DEF Unlocked
  <2> QED BY <1>0, <2>1, <2>2, GateKept
<1>12. ASSUME NEW n \in Node, NEW yes \in BOOLEAN, DecideStored(n, yes) PROVE GateInv'
  <2>1. /\ UNCHANGED <<plan, node, todo, phase, starts>>
        /\ stored' = [stored EXCEPT ![n] = Decided(stored, n, yes)]
        /\ grants' = IF yes THEN [grants EXCEPT ![n] = @ + 1] ELSE grants
    BY <1>12 DEF DecideStored
  <2>2. \A m \in Node : /\ grants'[m] >= grants[m]
                        /\ m = n /\ yes => grants'[m] > 0
    BY <1>0, <2>1 DEF SchedulerTypeOK
  <2>3. \A m \in plan.gated : Unlocked(stored'[m]) => Unlocked(stored[m]) \/ grants'[m] > 0
    <3>1. \A m \in Node : m # n => stored'[m] = stored[m]
      BY <1>0, <2>1 DEF States
    <3>2. stored'[n].status = IF yes THEN "ready" ELSE "failed"
      BY <1>0, <2>1, DecidedState DEF States
    <3>3. ~yes => ~Unlocked(stored'[n])
      BY <3>2 DEF Unlocked
    <3> HIDE DEF Unlocked
    <3> QED BY <1>0, <2>2, <3>1, <3>3
  <2> HIDE DEF Unlocked
  <2> QED BY <1>0, <2>1, <2>2, <2>3, GateKept
<1>13. ASSUME NEW n \in Node, NEW raises \in BOOLEAN, AppendNode(n, raises) PROVE GateInv'
  <2>1. /\ UNCHANGED <<plan, stored, starts, grants>>
        /\ \A d \in Execution : phase'[d] # "schedule"
        /\ node' = [node EXCEPT ![active][n] = Fresh(plan, n)]
    BY <1>8, <1>13 DEF AppendNode
  <2>2. ASSUME NEW d \in Execution, NEW m \in plan.gated
        PROVE  Unlocked(node'[d][m]) => Unlocked(node[d][m])
    <3>1. ~Unlocked(Fresh(plan, m))
      BY DEF Unlocked, Fresh
    <3>2. node'[d][m] = IF d = active /\ m = n THEN Fresh(plan, m) ELSE node[d][m]
      BY <1>0, <2>1 DEF States
    <3> HIDE DEF Unlocked
    <3> QED BY <3>1, <3>2
  <2> HIDE DEF Unlocked
  <2> QED BY <2>1, <2>2, GateOneExecution
<1>14. ASSUME NEW e \in Execution, NEW s, NEW what, Finish(e, s, what) PROVE GateInv'
  BY <1>14, GateQuiet DEF Finish
<1> QED BY <1>3, <1>4, <1>5, <1>6, <1>7, <1>9, <1>10, <1>11, <1>12, <1>13, <1>14
        DEF UserStep, ExecutorStep

\* GateHolds: whatever the plan, and whatever is paused, resumed, appended,
\* spawned, skipped or decided late, a node that needs an approval starts only
\* after one.
THEOREM GatesHold == SchedulerSpec => []GateHolds
<1>1. SchedulerInit => GateInv
  <2> SUFFICES ASSUME SchedulerInit PROVE GateInv
    OBVIOUS
  <2>1. SchedulerTypeOK
    BY InitTypes
  <2>2. \A n \in plan.gated : n \in Node /\ ~(starts[n] > 0)
    BY <2>1, GatedNodes DEF SchedulerInit
  <2>3. \A n \in plan.gated : ~Unlocked(stored[n]) /\
          \A e \in Execution : ~Unlocked(node[e][n]) /\ phase[e] # "schedule"
    BY <2>2 DEF SchedulerInit, Absent, Unlocked
  <2> HIDE DEF Unlocked
  <2> QED BY <2>1, <2>2, <2>3 DEF GateInv, GateHolds
<1>2. GateInv /\ [SchedulerNext]_dagVars => GateInv'
  <2>1. ASSUME GateInv, UNCHANGED dagVars PROVE GateInv'
    BY <2>1 DEF dagVars, dagCore, dagRegistry, dagSignals, dagHistory, GateInv, SchedulerTypeOK,
       GateHolds, Unlocked
  <2>2. ASSUME GateInv, SchedulerNext PROVE GateInv'
    <3>1. SchedulerTypeOK
      BY <2>2 DEF GateInv
    <3>2. ASSUME NEW e \in Execution, Loop(e) PROVE GateInv'
      <4>1. SchedulerTypeOK'
        BY <3>1, <3>2, LoopTypes
      <4> QED BY <2>2, <3>2, <4>1, GateLoop
    <3>3. CASE UserStep \/ \E e \in Execution : ExecutorStep(e)
      <4>1. SchedulerTypeOK'
        BY <3>1, <3>3, OtherTypes
      <4> QED BY <2>2, <3>3, <4>1, GateOther
    <3> QED BY <2>2, <3>2, <3>3 DEF SchedulerNext
  <2> QED BY <2>1, <2>2
<1>3. GateInv => GateHolds
  BY DEF GateInv
<1> QED BY <1>1, <1>2, <1>3, PTL DEF SchedulerSpec

--------------------------------------------------------------------------------
(* What a step of one execution leaves of the others.                          *)

\* The dictionaries of execution d stay as they are.
SameExecution(d) ==
  /\ phase'[d] = phase[d] /\ todo'[d] = todo[d] /\ node'[d] = node[d]
  /\ completed'[d] = completed[d] /\ failed'[d] = failed[d] /\ skipped'[d] = skipped[d]
  /\ cancelled'[d] = cancelled[d] /\ waiting'[d] = waiting[d] /\ results'[d] = results[d]
  /\ task'[d] = task[d] /\ done'[d] = done[d] /\ outcome'[d] = outcome[d] /\ live'[d] = live[d]

\* A step of the loop of an execution touches its own dictionaries only.
LEMMA OthersAlone ==
  ASSUME SchedulerTypeOK, NEW e \in Execution, Loop(e), NEW d \in Execution, d # e
  PROVE  SameExecution(d) /\ plan' = plan
<1> USE DEF SchedulerTypeOK, SameExecution, Goto, dagRegistry, dagSignals, dagHistory
<1>1. CASE Top(e)
  BY <1>1 DEF Top
<1>2. ASSUME NEW n \in Node, Take(e, n, "settle") \/ Take(e, n, "top")
      PROVE  phase'[d] = phase[d] /\ todo'[d] = todo[d]
  BY <1>2 DEF Take
<1>3. ASSUME NEW n \in Node, NEW status, FallsWithDownstream(e, n, status)
      PROVE  node'[d] = node[d] /\ skipped'[d] = skipped[d]
  BY <1>3 DEF FallsWithDownstream
<1>4. ASSUME NEW n \in Node, SkipNode(e, n) PROVE SameExecution(d) /\ plan' = plan
  BY <1>2, <1>3, <1>4 DEF SkipNode
<1>5. ASSUME NEW n \in Node, AskApproval(e, n) PROVE SameExecution(d) /\ plan' = plan
  BY <1>2, <1>5 DEF AskApproval
<1>6. ASSUME NEW n \in Node, StartNode(e, n) PROVE SameExecution(d) /\ plan' = plan
  BY <1>2, <1>6 DEF StartNode
<1>7. CASE Settle(e)
  BY <1>7 DEF Settle, GiveUp
<1>8. CASE PollUser(e)
  BY <1>8 DEF PollUser
<1>9. CASE WaitReturns(e)
  BY <1>9 DEF WaitReturns
<1>10. ASSUME NEW n \in Node, CollectFrame(e, n)
       PROVE  /\ phase'[d] = phase[d] /\ todo'[d] = todo[d] /\ task'[d] = task[d]
              /\ done'[d] = done[d] /\ UNCHANGED <<plan, waiting, outcome, live>>
  BY <1>2, <1>10 DEF CollectFrame
<1>11. ASSUME NEW n \in Node, Succeeded(e, n) PROVE SameExecution(d) /\ plan' = plan
  BY <1>10, <1>11 DEF Succeeded
<1>12. ASSUME NEW n \in Node, Failed(e, n) PROVE SameExecution(d) /\ plan' = plan
  BY <1>3, <1>10, <1>12 DEF Failed
<1>13. ASSUME NEW n \in Node, TaskCancelled(e, n) PROVE SameExecution(d) /\ plan' = plan
  BY <1>10, <1>13 DEF TaskCancelled
<1>14. CASE End(e)
  BY <1>14 DEF End
<1> QED BY <1>1, <1>4, <1>5, <1>6, <1>7, <1>8, <1>9, <1>11, <1>12, <1>13, <1>14 DEF Loop

--------------------------------------------------------------------------------
(* What nodes run on.                                                          *)

\* A completed node has the result it completed with.
Returned(states) == \A n \in Node : states[n].status = "completed" => states[n].result # "none"

\* compute_ready_nodes would still take it.
ReadyNow(e, n) ==
  \/ plan.deps[n] = {}
  \/ JoinsAny(node[e], n) /\ plan.deps[n] \cap completed[e] # {}
  \/ ~JoinsAny(node[e], n) /\ plan.deps[n] \subseteq completed[e] \cup skipped[e]

\* A task's dependencies have left what its policy asks for.
Fed(e) ==
  phase[e] # "end" => \A n \in Running(e) : plan.deps[n] # {} =>
    IF JoinsAny(node[e], n) THEN \E d \in plan.deps[n] : results[e][d] # "none"
    ELSE \A d \in plan.deps[n] : results[e][d] # "none" \/ d \in skipped[e]

\* What keeps an execution to that: what it takes for completed has a result, its
\* tasks and candidates are nodes it has, whose policy can change no more, and the
\* candidates stay ready while the others of their pass are handled.
UpstreamOf(e) ==
  /\ Returned(node[e])
  /\ \A n \in completed[e] : results[e][n] # "none"
  /\ Running(e) \subseteq Present(node[e])
  /\ phase[e] \in {"unused", "ended"} => Running(e) = {}
  /\ phase[e] = "schedule" => todo[e] \subseteq Present(node[e]) /\ \A n \in todo[e] : ReadyNow(e, n)
  /\ Fed(e)

UpstreamInv == SchedulerTypeOK /\ Returned(stored) /\ \A e \in Execution : UpstreamOf(e)

\* An execution whose dictionaries stay keeps it.
LEMMA UpstreamSame ==
  ASSUME NEW d \in Execution, UpstreamOf(d), SameExecution(d), plan' = plan
  PROVE  UpstreamOf(d)'
BY DEF UpstreamOf, SameExecution, Returned, Running, Present, ReadyNow, JoinsAny, Fed

\* So does one in which results, skipped and completed nodes only accumulate,
\* the nodes it has stay and keep their policy, and only candidates start.
LEMMA UpstreamGrows ==
  ASSUME SchedulerTypeOK, NEW e \in Execution, UpstreamOf(e), plan' = plan, SchedulerTypeOK',
         phase[e] # "end",
         phase'[e] = "unused" => phase[e] = "unused", phase'[e] = "ended" => phase[e] = "ended",
         \A n \in Node : results[e][n] # "none" => results'[e][n] # "none",
         skipped[e] \subseteq skipped'[e], completed[e] \subseteq completed'[e],
         \A n \in completed'[e] : results'[e][n] # "none",
         Returned(node'[e]), Present(node[e]) \subseteq Present(node'[e]),
         phase'[e] # "end" => \A n \in Present(node[e]) : node'[e][n].bare = node[e][n].bare,
         \A n \in Node : task'[e][n] # 0 =>
           \/ task[e][n] # 0
           \/ phase[e] = "schedule" /\ n \in todo[e],
         phase'[e] = "schedule" => todo'[e] \subseteq Present(node[e]) /\ \A n \in todo'[e] : ReadyNow(e, n)
  PROVE  UpstreamOf(e)'
<1>0. /\ \A n \in Node : plan.deps[n] \subseteq Node
      /\ completed[e] \subseteq Node /\ todo[e] \subseteq Node /\ todo'[e] \subseteq Node
  BY SchedulerAssumption DEF SchedulerTypeOK, PlanShape
<1>1. \A n \in Node : ReadyNow(e, n) /\ n \in Present(node[e]) /\ phase'[e] # "end" => ReadyNow(e, n)'
  BY <1>0 DEF ReadyNow, JoinsAny
<1>2. Running(e)' \subseteq Present(node'[e])
  BY DEF Running, UpstreamOf
<1>3. phase'[e] \in {"unused", "ended"} => Running(e)' = {}
  BY DEF Running, UpstreamOf
<1>4. phase'[e] = "schedule" =>
        todo'[e] \subseteq Present(node'[e]) /\ \A n \in todo'[e] : ReadyNow(e, n)'
  BY <1>0, <1>1
<1>5. ASSUME phase'[e] # "end", NEW n \in Node, task'[e][n] # 0, plan.deps[n] # {}
      PROVE  IF JoinsAny(node'[e], n) THEN \E d \in plan.deps[n] : results'[e][d] # "none"
             ELSE \A d \in plan.deps[n] : results'[e][d] # "none" \/ d \in skipped'[e]
  <2>1. n \in Present(node[e]) /\ node'[e][n].bare = node[e][n].bare
    BY <1>5 DEF Running, UpstreamOf
  <2>2. JoinsAny(node[e], n) = JoinsAny(node'[e], n)
    BY <2>1 DEF JoinsAny
  <2>3. CASE task[e][n] # 0
    <3>1. IF JoinsAny(node[e], n) THEN \E d \in plan.deps[n] : results[e][d] # "none"
          ELSE \A d \in plan.deps[n] : results[e][d] # "none" \/ d \in skipped[e]
      BY <1>5, <2>3 DEF UpstreamOf, Fed, Running
    <3> QED BY <1>0, <2>2, <3>1
  <2>4. CASE phase[e] = "schedule" /\ n \in todo[e]
    <3>1. ReadyNow(e, n)
      BY <2>4 DEF UpstreamOf
    <3>2. \A d \in completed[e] : results'[e][d] # "none"
      OBVIOUS
    <3> QED BY <1>0, <1>5, <2>2, <3>1, <3>2 DEF ReadyNow
  <2> QED BY <1>5, <2>3, <2>4
<1>6. Fed(e)'
  <2>1. \A n \in Node, s \in {node'[e]} : JoinsAny(s, n)' = JoinsAny(s, n)
    BY DEF JoinsAny
  <2> QED BY <1>5, <2>1 DEF Fed, Running, JoinsAny
<1> QED BY <1>2, <1>3, <1>4, <1>6 DEF UpstreamOf, Returned, Present

\* The steps of the loop.
LEMMA UpstreamLoop ==
  ASSUME UpstreamInv, SchedulerTypeOK', NEW e \in Execution, Loop(e)
  PROVE  UpstreamInv'
<1> USE DEF dagRegistry, dagSignals, dagHistory
<1>0. /\ SchedulerTypeOK /\ UpstreamOf(e) /\ Returned(node[e]) /\ Returned(stored)
      /\ \A n \in completed[e] : results[e][n] # "none"
      /\ node \in [Execution -> States] /\ skipped \in [Execution -> SUBSET Node]
      /\ todo \in [Execution -> SUBSET Node] /\ completed \in [Execution -> SUBSET Node]
      /\ results \in [Execution -> [Node -> Result]] /\ task \in [Execution -> [Node -> Nat]]
      /\ phase \in [Execution -> Passing \cup {"unused", "wait_task", "wait_user", "ended"}]
  BY DEF UpstreamInv, UpstreamOf, SchedulerTypeOK, States
<1>1. plan' = plan
  BY <1>0, SchedulerAssumption DEF Loop, Top, Settle, PollUser, WaitReturns, End, SkipNode,
     AskApproval, StartNode, Succeeded, Failed, TaskCancelled, CollectFrame
<1>2. ASSUME UpstreamOf(e)', stored' = stored \/ stored' = node[e] PROVE UpstreamInv'
  <2>1. ASSUME NEW d \in Execution, d # e PROVE UpstreamOf(d)'
    <3>1. SameExecution(d)
      BY <1>0, <2>1, OthersAlone
    <3> QED BY <1>1, <3>1, UpstreamSame DEF UpstreamInv
  <2>2. Returned(stored')
    BY <1>0, <1>2
  <2> QED BY <1>2, <2>1, <2>2 DEF UpstreamInv, Returned
<1>3. ASSUME NEW n \in Node, Take(e, n, "settle")
      PROVE  /\ phase[e] = "schedule" => phase'[e] \in {"schedule", "settle"}
             /\ todo'[e] \subseteq todo[e]
  BY <1>0, <1>3 DEF Take, Goto
<1>4. ASSUME NEW n \in Node, phase[e] = "schedule", Take(e, n, "settle")
      PROVE  phase'[e] = "schedule" =>
               todo'[e] \subseteq Present(node[e]) /\ \A m \in todo'[e] : ReadyNow(e, m)
  BY <1>0, <1>3, <1>4 DEF UpstreamOf
<1>5. ASSUME NEW n \in Node, CollectFrame(e, n), phase[e] = "collect"
      PROVE  /\ phase'[e] \in {"collect", "top"} /\ UNCHANGED stored
             /\ \A m \in Node : task'[e][m] # 0 => task[e][m] # 0
  BY <1>0, <1>5 DEF CollectFrame, Take, Goto
\* a node that changes its status to one that is neither absent nor completed
<1>6. ASSUME \A m \in Node :
               /\ node'[e][m].bare = node[e][m].bare /\ node'[e][m].result = node[e][m].result
               /\ node'[e][m].status \in {node[e][m].status, "failed", "skipped", "waiting", "running"}
      PROVE  Returned(node'[e]) /\ Present(node[e]) \subseteq Present(node'[e])
  BY <1>0, <1>6 DEF Returned, Present
<1>7. ASSUME NEW n \in Node, NEW status \in {"waiting", "running"},
             node' = [node EXCEPT ![e][n].status = status]
      PROVE  \A m \in Node :
               /\ node'[e][m].bare = node[e][m].bare /\ node'[e][m].result = node[e][m].result
               /\ node'[e][m].status \in {node[e][m].status, "failed", "skipped", "waiting", "running"}
  <2>1. node' = Marked(e, n, status) /\ status \in Status
    BY <1>7 DEF Marked, Status
  <2>2. \A m \in Node :
          /\ node'[e][m].bare = node[e][m].bare /\ node'[e][m].result = node[e][m].result
          /\ node'[e][m].status = IF m = n THEN status ELSE node[e][m].status
    BY <1>0, <2>1, MarkedStates
  <2> QED BY <2>2
<1>8. CASE Top(e)
  <2> DEFINE open == {n \in Node : node[e][n].status \in {"pending", "ready", "waiting", "running"}}
             stripped == Strip(node[e], open, "cancelled")
  <2>1. /\ phase[e] = "top" /\ phase'[e] \in {"end", "settle", "schedule"}
        /\ UNCHANGED <<completed, skipped, results, task, stored>>
        /\ \/ node' = node
           \/ node' = [node EXCEPT ![e] = stripped] /\ phase'[e] = "end"
        /\ phase'[e] = "schedule" => todo'[e] = Ready(e)
    BY <1>0, <1>8 DEF Top, open, stripped, Goto
  <2>2. \A m \in Node : /\ stripped[m].result = node[e][m].result
                        /\ stripped[m].status = IF m \in open THEN "cancelled" ELSE node[e][m].status
    BY <1>0, StripIs DEF Status, stripped
  <2> HIDE DEF open, stripped
  <2>3. Returned(stripped) /\ Present(node[e]) \subseteq Present(stripped)
    BY <1>0, <2>2 DEF Returned, Present
  <2>4. node'[e] = node[e] \/ (node'[e] = stripped /\ phase'[e] = "end")
    BY <1>0, <2>1
  <2>5. Returned(node'[e]) /\ Present(node[e]) \subseteq Present(node'[e])
    BY <1>0, <2>3, <2>4
  <2>6. Ready(e) \subseteq Present(node[e]) /\ \A n \in Ready(e) : ReadyNow(e, n)
    BY DEF Ready, ReadyNow, With, Present
  <2>7. UpstreamOf(e)'
    BY <1>0, <1>1, <2>1, <2>4, <2>5, <2>6, UpstreamGrows
  <2> QED BY <1>2, <2>1, <2>7
<1>9. ASSUME NEW n \in Node, SkipNode(e, n) PROVE UpstreamInv'
  <2>1. /\ phase[e] = "schedule" /\ Take(e, n, "settle")
        /\ UNCHANGED <<completed, results, task, stored>>
    BY <1>9 DEF SkipNode
  <2>2. \A m \in Node :
          /\ node'[e][m].bare = node[e][m].bare /\ node'[e][m].result = node[e][m].result
          /\ node'[e][m].status \in {node[e][m].status, "failed", "skipped", "waiting", "running"}
    BY <1>0, <1>9, FallenStates DEF SkipNode
  <2>3. skipped[e] \subseteq skipped'[e]
    BY <1>0, <1>9 DEF SkipNode, FallsWithDownstream
  <2>5. /\ phase'[e] \in {"schedule", "settle"}
        /\ phase'[e] = "schedule" =>
             todo'[e] \subseteq Present(node[e]) /\ \A m \in todo'[e] : ReadyNow(e, m)
    BY <1>3, <1>4, <2>1
  <2>6. /\ Returned(node'[e]) /\ Present(node[e]) \subseteq Present(node'[e])
        /\ \A m \in Present(node[e]) : node'[e][m].bare = node[e][m].bare
    <3>1. Returned(node'[e]) /\ Present(node[e]) \subseteq Present(node'[e])
      BY <1>6, <2>2
    <3> QED BY <2>2, <3>1 DEF Present
  <2>7. UpstreamOf(e)'
    BY <1>0, <1>1, <2>5, <2>1, <2>3, <2>6, UpstreamGrows
  <2> QED BY <1>2, <2>1, <2>7
<1>10. ASSUME NEW n \in Node, AskApproval(e, n) PROVE UpstreamInv'
  <2>1. /\ phase[e] = "schedule" /\ Take(e, n, "settle")
        /\ UNCHANGED <<completed, skipped, results, task, stored>>
        /\ node' = [node EXCEPT ![e][n].status = "waiting"]
    BY <1>10 DEF AskApproval
  <2>2. \A m \in Node :
          /\ node'[e][m].bare = node[e][m].bare /\ node'[e][m].result = node[e][m].result
          /\ node'[e][m].status \in {node[e][m].status, "failed", "skipped", "waiting", "running"}
    BY <1>7, <2>1
  <2>5. /\ phase'[e] \in {"schedule", "settle"}
        /\ phase'[e] = "schedule" =>
             todo'[e] \subseteq Present(node[e]) /\ \A m \in todo'[e] : ReadyNow(e, m)
    BY <1>3, <1>4, <2>1
  <2>6. /\ Returned(node'[e]) /\ Present(node[e]) \subseteq Present(node'[e])
        /\ \A m \in Present(node[e]) : node'[e][m].bare = node[e][m].bare
    <3>1. Returned(node'[e]) /\ Present(node[e]) \subseteq Present(node'[e])
      BY <1>6, <2>2
    <3> QED BY <2>2, <3>1 DEF Present
  <2>7. UpstreamOf(e)'
    BY <1>0, <1>1, <2>5, <2>1, <2>6, UpstreamGrows
  <2> QED BY <1>2, <2>1, <2>7
<1>11. ASSUME NEW n \in Node, StartNode(e, n) PROVE UpstreamInv'
  <2>1. /\ phase[e] = "schedule" /\ n \in todo[e] /\ Take(e, n, "settle")
        /\ UNCHANGED <<completed, skipped, results, stored>>
        /\ node' = [node EXCEPT ![e][n].status = "running"]
        /\ task' = [task EXCEPT ![e][n] = starts'[n]]
    BY <1>11 DEF StartNode
  <2>2. \A m \in Node :
          /\ node'[e][m].bare = node[e][m].bare /\ node'[e][m].result = node[e][m].result
          /\ node'[e][m].status \in {node[e][m].status, "failed", "skipped", "waiting", "running"}
    BY <1>7, <2>1
  <2>3. \A m \in Node : task'[e][m] # 0 => task[e][m] # 0 \/ m \in todo[e]
    BY <1>0, <2>1
  <2>5. /\ phase'[e] \in {"schedule", "settle"}
        /\ phase'[e] = "schedule" =>
             todo'[e] \subseteq Present(node[e]) /\ \A m \in todo'[e] : ReadyNow(e, m)
    BY <1>3, <1>4, <2>1
  <2>6. /\ Returned(node'[e]) /\ Present(node[e]) \subseteq Present(node'[e])
        /\ \A m \in Present(node[e]) : node'[e][m].bare = node[e][m].bare
    <3>1. Returned(node'[e]) /\ Present(node[e]) \subseteq Present(node'[e])
      BY <1>6, <2>2
    <3> QED BY <2>2, <3>1 DEF Present
  <2>7. UpstreamOf(e)'
    BY <1>0, <1>1, <2>5, <2>1, <2>3, <2>6, UpstreamGrows
  <2> QED BY <1>2, <2>1, <2>7
<1>12. CASE Settle(e)
  <2> DEFINE pending == With(node[e], "pending")
             stripped == Strip(node[e], pending, "skipped")
  <2>1. /\ phase[e] = "settle" /\ phase'[e] \in {"end", "wait_task", "wait_user"}
        /\ UNCHANGED <<completed, results, task, stored>>
        /\ \/ node' = node
           \/ node' = [node EXCEPT ![e] = stripped] /\ phase'[e] = "end"
        /\ skipped[e] \subseteq skipped'[e]
    BY <1>0, <1>12 DEF Settle, GiveUp, Goto
  <2>2. \A m \in Node : /\ stripped[m].result = node[e][m].result
                        /\ stripped[m].status = IF m \in pending THEN "skipped" ELSE node[e][m].status
    BY <1>0, StripIs DEF Status
  <2> HIDE DEF pending, stripped
  <2>3. Returned(stripped) /\ Present(node[e]) \subseteq Present(stripped)
    BY <1>0, <2>2 DEF Returned, Present
  <2>4. node'[e] = node[e] \/ (node'[e] = stripped /\ phase'[e] = "end")
    BY <1>0, <2>1
  <2>5. Returned(node'[e]) /\ Present(node[e]) \subseteq Present(node'[e])
    BY <1>0, <2>3, <2>4
  <2>6. UpstreamOf(e)'
    BY <1>0, <1>1, <2>1, <2>4, <2>5, UpstreamGrows
  <2> QED BY <1>2, <2>1, <2>6
<1>13. CASE PollUser(e) \/ WaitReturns(e)
  <2>1. /\ phase[e] \in {"wait_user", "wait_task"} /\ phase'[e] \in {"top", "collect"}
        /\ UNCHANGED <<completed, skipped, results, task, stored, node>>
    BY <1>0, <1>13 DEF PollUser, WaitReturns, Goto
  <2>2. UpstreamOf(e)'
    BY <1>0, <1>1, <2>1, UpstreamGrows
  <2> QED BY <1>2, <2>1, <2>2
<1>14. ASSUME NEW n \in Node, Succeeded(e, n) PROVE UpstreamInv'
  <2>1. /\ phase[e] = "collect" /\ CollectFrame(e, n) /\ done[e][n] \in {"yes", "no"}
        /\ skipped' = skipped
        /\ completed'[e] = completed[e] \cup {n}
        /\ results'[e] = [results[e] EXCEPT ![n] = done[e][n]]
    BY <1>0, <1>14 DEF Succeeded
  <2>2. \A m \in Node :
          \/ node'[e][m] = node[e][m]
          \/ node'[e][m] = Fresh(plan, m) /\ m \notin Present(node[e])
          \/ m = n /\ node'[e][m] = [node[e][m] EXCEPT !.status = "completed", !.result = done[e][m]]
    BY <1>0, <1>14 DEF Succeeded
  <2>3. \A m \in Node :
          LET ended == [node[e][m] EXCEPT !.status = "completed", !.result = done[e][m]] IN
          ended.status = "completed" /\ ended.result = done[e][m] /\ ended.bare = node[e][m].bare
    BY <1>0 DEF States, NodeState
  <2>4. \A m \in Node : Fresh(plan, m).status = "pending"
    BY DEF Fresh
  <2>5. /\ Returned(node'[e]) /\ Present(node[e]) \subseteq Present(node'[e])
        /\ \A m \in Present(node[e]) : node'[e][m].bare = node[e][m].bare
    <3>1. ASSUME NEW m \in Node
          PROVE  /\ node'[e][m].status = "completed" => node'[e][m].result # "none"
                 /\ m \in Present(node[e]) =>
                      node'[e][m].status # "absent" /\ node'[e][m].bare = node[e][m].bare
      <4>1. CASE node'[e][m] = node[e][m]
        BY <1>0, <4>1 DEF Returned, Present
      <4>2. CASE node'[e][m] = Fresh(plan, m) /\ m \notin Present(node[e])
        BY <2>4, <4>2
      <4>3. CASE m = n /\ node'[e][m] = [node[e][m] EXCEPT !.status = "completed", !.result = done[e][m]]
        BY <2>1, <2>3, <4>3
      <4> QED BY <2>2, <4>1, <4>2, <4>3
    <3> QED BY <3>1 DEF Returned, Present
  <2>6. /\ \A m \in Node : results[e][m] # "none" => results'[e][m] # "none"
        /\ \A m \in completed'[e] : results'[e][m] # "none"
    BY <1>0, <2>1 DEF UpstreamOf
  <2>7. UpstreamOf(e)'
    BY <1>0, <1>1, <1>5, <2>1, <2>5, <2>6, UpstreamGrows
  <2> QED BY <1>2, <1>5, <2>1, <2>7
<1>15. ASSUME NEW n \in Node, Failed(e, n) PROVE UpstreamInv'
  <2>1. phase[e] = "collect" /\ CollectFrame(e, n) /\ UNCHANGED <<completed, results>>
    BY <1>15 DEF Failed
  <2>2. \A m \in Node :
          /\ node'[e][m].bare = node[e][m].bare /\ node'[e][m].result = node[e][m].result
          /\ node'[e][m].status \in {node[e][m].status, "failed", "skipped", "waiting", "running"}
    BY <1>0, <1>15, FallenStates DEF Failed
  <2>3. skipped[e] \subseteq skipped'[e]
    BY <1>0, <1>15 DEF Failed, FallsWithDownstream
  <2>6. /\ Returned(node'[e]) /\ Present(node[e]) \subseteq Present(node'[e])
        /\ \A m \in Present(node[e]) : node'[e][m].bare = node[e][m].bare
    <3>1. Returned(node'[e]) /\ Present(node[e]) \subseteq Present(node'[e])
      BY <1>6, <2>2
    <3> QED BY <2>2, <3>1 DEF Present
  <2>7. UpstreamOf(e)'
    BY <1>0, <1>1, <1>5, <2>1, <2>3, <2>6, UpstreamGrows
  <2> QED BY <1>2, <1>5, <2>1, <2>7
<1>16. ASSUME NEW n \in Node, TaskCancelled(e, n) PROVE UpstreamInv'
  <2>1. phase[e] = "collect" /\ CollectFrame(e, n) /\ UNCHANGED <<node, completed, skipped, results>>
    BY <1>16 DEF TaskCancelled
  <2>2. UpstreamOf(e)'
    BY <1>0, <1>1, <1>5, <2>1, UpstreamGrows
  <2> QED BY <1>2, <1>5, <2>1, <2>2
<1>17. CASE End(e)
  <2>1. /\ phase'[e] = "ended" /\ stored' = node[e]
        /\ \/ node'[e] = node[e] /\ completed'[e] = completed[e] /\ results'[e] = results[e]
           \/ node'[e] = [n \in Node |-> Absent] /\ completed'[e] = {}
        /\ task'[e] = [n \in Node |-> 0]
    BY <1>0, <1>17 DEF End, Kept, Goto, SchedulerTypeOK
  <2>2. Returned([n \in Node |-> Absent])
    BY DEF Returned, Absent
  <2>3. Running(e)' = {}
    BY <2>1 DEF Running
  <2>4. Returned(node'[e]) /\ \A n \in completed'[e] : results'[e][n] # "none"
    BY <1>0, <2>1, <2>2 DEF UpstreamOf
  <2>5. UpstreamOf(e)'
    BY <2>1, <2>3, <2>4 DEF UpstreamOf, Returned, Fed
  <2> QED BY <1>2, <2>1, <2>5
<1> QED BY <1>8, <1>9, <1>10, <1>11, <1>12, <1>13, <1>14, <1>15, <1>16, <1>17 DEF Loop

\* The steps of the users and of the executors.
LEMMA UpstreamOther ==
  ASSUME UpstreamInv, SchedulerTypeOK', UserStep \/ \E e \in Execution : ExecutorStep(e)
  PROVE  UpstreamInv'
<1> USE DEF dagCore, dagRegistry, dagSignals, dagHistory
<1>0. /\ SchedulerTypeOK /\ Returned(stored) /\ stored \in States
      /\ node \in [Execution -> States] /\ skipped \in [Execution -> SUBSET Node]
      /\ todo \in [Execution -> SUBSET Node] /\ completed \in [Execution -> SUBSET Node]
      /\ results \in [Execution -> [Node -> Result]] /\ task \in [Execution -> [Node -> Nat]]
      /\ phase \in [Execution -> Passing \cup {"unused", "wait_task", "wait_user", "ended"}]
      /\ \A e \in Execution :
           UpstreamOf(e) /\ Returned(node[e]) /\ \A n \in completed[e] : results[e][n] # "none"
  BY DEF UpstreamInv, UpstreamOf, SchedulerTypeOK, States
<1>1. active # 0 => active \in Execution
  <2>1. active \in 0..MaxExecutions
    BY <1>0 DEF SchedulerTypeOK
  <2> QED BY <2>1, SchedulerAssumption DEF Execution
\* between two awaits nobody is in the middle of a pass
<1>2. ASSUME ~Busy PROVE \A e \in Execution : phase[e] \notin Passing
  BY <1>2 DEF Busy
<1>3. ASSUME plan' = plan, UNCHANGED dagCore, Returned(stored') PROVE UpstreamInv'
  <2>1. \A e \in Execution : UpstreamOf(e)'
    BY <1>0, <1>3, UpstreamSame DEF SameExecution
  <2> QED BY <1>3, <2>1 DEF UpstreamInv, Returned
<1>4. ASSUME NEW e \in Execution, NEW given \in States, Returned(given), Enter(e, given)
      PROVE  UpstreamInv'
  <2>1. /\ phase[e] = "unused" /\ UNCHANGED <<plan, todo, task, done, outcome, live>>
        /\ phase' = [phase EXCEPT ![e] = "top"] /\ node' = [node EXCEPT ![e] = given]
        /\ stored' = given
    BY <1>4 DEF Enter, Goto
  <2>2. completed'[e] = With(given, "completed") /\ results'[e] = [n \in Node |-> given[n].result]
    BY <1>0, <1>4 DEF Enter
  <2>3. ASSUME NEW d \in Execution, d # e PROVE UpstreamOf(d)'
    <3>1. SameExecution(d)
      BY <1>0, <1>4, <2>3 DEF Enter, Goto, SameExecution, SchedulerTypeOK
    <3> QED BY <1>0, <2>1, <3>1, UpstreamSame
  <2>4. Running(e)' = {}
    BY <1>0, <2>1 DEF UpstreamOf, Running
  <2>5. UpstreamOf(e)'
    <3>1. node'[e] = given /\ phase'[e] = "top"
      BY <1>0, <2>1
    <3>2. \A n \in completed'[e] : results'[e][n] # "none"
      BY <1>4, <2>2 DEF With, Returned
    <3> QED BY <1>4, <2>4, <3>1, <3>2 DEF UpstreamOf, Returned, Fed
  <2> QED BY <1>4, <2>1, <2>3, <2>5 DEF UpstreamInv, Returned
<1>5. CASE Execute
  <2>1. 1 \in Execution /\ Submitted(plan) \in States
    BY NewStates, SchedulerAssumption DEF Execution
  <2>2. Returned(Submitted(plan))
    BY DEF Returned, Submitted, Fresh, Absent
  <2> QED BY <1>4, <1>5, <2>1, <2>2 DEF Execute
<1>6. ASSUME NEW e \in Execution, Resume(e) PROVE UpstreamInv'
  BY <1>0, <1>4, <1>6 DEF Resume
<1>7. CASE ResumeInvalid
  BY <1>0, <1>3, <1>7 DEF ResumeInvalid
<1>8. CASE Pause
  BY <1>0, <1>3, <1>8 DEF Pause
<1>9. ASSUME NEW e \in Execution, CancelPlan(e) PROVE UpstreamInv'
  BY <1>0, <1>3, <1>9 DEF CancelPlan
\* a decision or an append touches the nodes of the registered execution
<1>10. ASSUME NEW e \in Execution, ~Busy, plan' = plan, stored' = stored,
              UNCHANGED <<phase, todo, completed, results, task>>,
              \A d \in Execution : d # e => node'[d] = node[d] /\ skipped'[d] = skipped[d],
              skipped[e] \subseteq skipped'[e], Returned(node'[e]),
              \A n \in Present(node[e]) :
                node'[e][n].status # "absent" /\ node'[e][n].bare = node[e][n].bare
       PROVE  UpstreamInv'
  <2>1. \A d \in Execution : phase[d] # "end" /\ phase[d] # "schedule"
    BY <1>2, <1>10 DEF Passing
  <2>2. Present(node[e]) \subseteq Present(node'[e])
    BY <1>10 DEF Present
  <2>3. UpstreamOf(e)'
    BY <1>0, <1>10, <2>1, <2>2, UpstreamGrows
  <2>4. ASSUME NEW d \in Execution, d # e PROVE UpstreamOf(d)'
    BY <1>0, <1>10, <2>1, <2>4, UpstreamGrows
  <2> QED BY <1>0, <1>10, <2>3, <2>4 DEF UpstreamInv, Returned
<1>11. ASSUME NEW states \in States, NEW n \in Node, NEW yes \in BOOLEAN, Returned(states)
       PROVE  /\ Decided(states, n, yes) \in NodeState
              /\ Decided(states, n, yes).status = IF yes THEN "ready" ELSE "failed"
              /\ Decided(states, n, yes).bare = states[n].bare
  BY DecidedState DEF Decided
<1>12. ASSUME NEW n \in Node, Approve(n) PROVE UpstreamInv'
  <2>1. /\ active \in Execution /\ ~Busy /\ skipped' = skipped
        /\ UNCHANGED <<plan, phase, todo, completed, results, task, stored>>
        /\ node' = [node EXCEPT ![active][n] = Decided(node[active], n, TRUE)]
    BY <1>1, <1>12 DEF Approve, Decide
  <2>2. \A m \in Node : node'[active][m] = IF m = n THEN Decided(node[active], n, TRUE)
                                           ELSE node[active][m]
    BY <1>0, <2>1 DEF States
  <2>3. /\ Decided(node[active], n, TRUE).status = "ready"
        /\ Decided(node[active], n, TRUE).bare = node[active][n].bare
    BY <1>0, <1>11, <2>1, ZenonT(60)
  <2>4. ASSUME NEW m \in Node
        PROVE  /\ node'[active][m].status = "completed" => node'[active][m].result # "none"
               /\ m \in Present(node[active]) =>
                    /\ node'[active][m].status # "absent"
                    /\ node'[active][m].bare = node[active][m].bare
    <3>1. CASE m = n
      BY <2>2, <2>3, <3>1
    <3>2. CASE m # n
      BY <1>0, <2>1, <2>2, <3>2 DEF Returned, Present
    <3> QED BY <3>1, <3>2
  <2>5. /\ Returned(node'[active])
        /\ \A m \in Present(node[active]) :
             node'[active][m].status # "absent" /\ node'[active][m].bare = node[active][m].bare
    BY <2>4 DEF Returned, Present
  <2> QED BY <1>0, <1>10, <2>1, <2>5
<1>13. ASSUME NEW n \in Node, Reject(n) PROVE UpstreamInv'
  <2> DEFINE fallen == [node[active] EXCEPT ![n] = Decided(node[active], n, FALSE)]
             under == Downstream(fallen, n)
  <2>1. /\ active \in Execution /\ ~Busy
        /\ UNCHANGED <<plan, phase, todo, completed, results, task, stored>>
        /\ node' = [node EXCEPT ![active] = SetStatus(fallen, under, "skipped")]
        /\ skipped' = [skipped EXCEPT ![active] = @ \cup under]
    BY <1>1, <1>13 DEF Reject, Decide
  <2>2. /\ Decided(node[active], n, FALSE) \in NodeState
        /\ Decided(node[active], n, FALSE).status = "failed"
        /\ Decided(node[active], n, FALSE).bare = node[active][n].bare
    BY <1>0, <1>11, <2>1
  <2>3. /\ fallen \in States
        /\ \A m \in Node : fallen[m] = IF m = n THEN Decided(node[active], n, FALSE)
                                       ELSE node[active][m]
    BY <1>0, <2>1, <2>2 DEF States
  <2> HIDE DEF fallen, under
  <2>4. \A m \in Node :
          /\ SetStatus(fallen, under, "skipped")[m].bare = fallen[m].bare
          /\ SetStatus(fallen, under, "skipped")[m].result = fallen[m].result
          /\ SetStatus(fallen, under, "skipped")[m].status \in {fallen[m].status, "skipped"}
    BY <2>3, SetStatusIs DEF Status
  <2>5. node'[active] = SetStatus(fallen, under, "skipped")
    BY <1>0, <2>1
  <2>6. ASSUME NEW m \in Node
        PROVE  /\ node'[active][m].status = "completed" => node'[active][m].result # "none"
               /\ m \in Present(node[active]) => node'[active][m].status # "absent"
               /\ node'[active][m].bare = node[active][m].bare
    <3>1. CASE m = n
      BY <2>2, <2>3, <2>4, <2>5, <3>1
    <3>2. CASE m # n
      BY <1>0, <2>1, <2>3, <2>4, <2>5, <3>2, ZenonT(60) DEF Returned, Present
    <3> QED BY <3>1, <3>2
  <2>7. /\ Returned(node'[active])
        /\ \A m \in Present(node[active]) :
             node'[active][m].status # "absent" /\ node'[active][m].bare = node[active][m].bare
    BY <2>6 DEF Returned, Present
  <2>8. /\ skipped[active] \subseteq skipped'[active]
        /\ \A d \in Execution : d # active => node'[d] = node[d] /\ skipped'[d] = skipped[d]
    BY <1>0, <2>1
  <2> QED BY <1>10, <2>1, <2>7, <2>8
<1>14. ASSUME NEW n \in Node, NEW raises \in BOOLEAN, AppendNode(n, raises) PROVE UpstreamInv'
  <2>1. /\ active \in Execution /\ ~Busy /\ skipped' = skipped
        /\ UNCHANGED <<plan, phase, todo, completed, results, task, stored>>
        /\ n \notin Present(node[active])
        /\ node' = [node EXCEPT ![active][n] = Fresh(plan, n)]
    BY <1>1, <1>14 DEF AppendNode
  <2>2. \A m \in Node : node'[active][m] = IF m = n THEN Fresh(plan, n) ELSE node[active][m]
    BY <1>0, <2>1 DEF States
  <2>4. ASSUME NEW m \in Node
        PROVE  /\ node'[active][m].status = "completed" => node'[active][m].result # "none"
               /\ m \in Present(node[active]) =>
                    /\ node'[active][m].status # "absent"
                    /\ node'[active][m].bare = node[active][m].bare
    <3>1. CASE m = n
      <4>1. Fresh(plan, n).status = "pending"
        BY DEF Fresh
      <4> QED BY <2>1, <2>2, <3>1, <4>1
    <3>2. CASE m # n
      BY <1>0, <2>1, <2>2, <3>2 DEF Returned, Present
    <3> QED BY <3>1, <3>2
  <2>5. /\ Returned(node'[active])
        /\ \A m \in Present(node[active]) :
             node'[active][m].status # "absent" /\ node'[active][m].bare = node[active][m].bare
    BY <2>4 DEF Returned, Present
  <2> QED BY <1>0, <1>10, <2>1, <2>5
<1>15. ASSUME NEW n \in Node, AppendStored(n) PROVE UpstreamInv'
  <2>1. plan' = plan /\ UNCHANGED dagCore /\ stored' = [stored EXCEPT ![n] = Fresh(plan, n)]
    BY <1>15 DEF AppendStored
  <2>2. \A m \in Node : stored'[m] = IF m = n THEN Fresh(plan, n) ELSE stored[m]
    BY <1>0, <2>1 DEF States
  <2>3. Returned(stored')
    BY <1>0, <2>2 DEF Returned, Fresh
  <2> QED BY <1>3, <2>1, <2>3
<1>16. ASSUME NEW n \in Node, NEW yes \in BOOLEAN, DecideStored(n, yes) PROVE UpstreamInv'
  <2>1. plan' = plan /\ UNCHANGED dagCore /\ stored' = [stored EXCEPT ![n] = Decided(stored, n, yes)]
    BY <1>16 DEF DecideStored
  <2>2. \A m \in Node : stored'[m] = IF m = n THEN Decided(stored, n, yes) ELSE stored[m]
    BY <1>0, <2>1 DEF States
  <2>3. Returned(stored')
    BY <1>0, <1>11, <2>2 DEF Returned
  <2> QED BY <1>3, <2>1, <2>3
<1>17. ASSUME NEW e \in Execution, NEW s, NEW what, Finish(e, s, what) PROVE UpstreamInv'
  <2>1. /\ ~Busy /\ plan' = plan
        /\ UNCHANGED <<phase, todo, node, completed, skipped, results, task, stored>>
    BY <1>17 DEF Finish
  <2> QED BY <1>0, <1>10, <1>17, <2>1 DEF Present
<1> QED BY <1>5, <1>6, <1>7, <1>8, <1>9, <1>12, <1>13, <1>14, <1>15, <1>16, <1>17
        DEF UserStep, ExecutorStep

\* RunsOnUpstreamResults: whatever is skipped, cancelled, appended, decided or
\* resumed meanwhile, a node runs on what its dependencies left.
THEOREM NodesRunOnResults == SchedulerSpec => []RunsOnUpstreamResults
<1>1. SchedulerInit => UpstreamInv
  <2> SUFFICES ASSUME SchedulerInit PROVE UpstreamInv
    OBVIOUS
  <2>1. SchedulerTypeOK
    BY InitTypes
  <2>2. Returned(stored)
    BY DEF SchedulerInit, Returned, Absent
  <2>3. ASSUME NEW e \in Execution PROVE UpstreamOf(e)
    BY DEF SchedulerInit, UpstreamOf, Returned, Absent, Running, Fed
  <2> QED BY <2>1, <2>2, <2>3 DEF UpstreamInv
<1>2. UpstreamInv /\ [SchedulerNext]_dagVars => UpstreamInv'
  <2>1. ASSUME UpstreamInv, UNCHANGED dagVars PROVE UpstreamInv'
    <3>1. SchedulerTypeOK'
      BY <2>1 DEF dagVars, dagCore, dagRegistry, dagSignals, dagHistory, UpstreamInv, SchedulerTypeOK
    <3>2. \A e \in Execution : UpstreamOf(e)'
      BY <2>1, UpstreamSame DEF dagVars, dagCore, UpstreamInv, SameExecution
    <3> QED BY <2>1, <3>1, <3>2 DEF dagVars, dagRegistry, UpstreamInv, Returned
  <2>2. ASSUME UpstreamInv, SchedulerNext PROVE UpstreamInv'
    <3>1. SchedulerTypeOK
      BY <2>2 DEF UpstreamInv
    <3>2. ASSUME NEW e \in Execution, Loop(e) PROVE UpstreamInv'
      <4>1. SchedulerTypeOK'
        BY <3>1, <3>2, LoopTypes
      <4> QED BY <2>2, <3>2, <4>1, UpstreamLoop
    <3>3. CASE UserStep \/ \E e \in Execution : ExecutorStep(e)
      <4>1. SchedulerTypeOK'
        BY <3>1, <3>3, OtherTypes
      <4> QED BY <2>2, <3>3, <4>1, UpstreamOther
    <3> QED BY <2>2, <3>2, <3>3 DEF SchedulerNext
  <2> QED BY <2>1, <2>2
<1>3. UpstreamInv => RunsOnUpstreamResults
  BY DEF UpstreamInv, UpstreamOf, Fed, RunsOnUpstreamResults
<1> QED BY <1>1, <1>2, <1>3, PTL DEF SchedulerSpec

--------------------------------------------------------------------------------
(* Repeated starts.                                                            *)

Startable(status) == status \in {"absent", "pending", "ready", "waiting"}

\* The execution may still start the node.
MayStart(e, n) == Startable(node[e][n].status) \/ (phase[e] = "schedule" /\ n \in todo[e])

\* No start is left to make without an approval to spare: in the one execution
\* under way, which is the one registered, or in the plan a resume would take.
StartsInv ==
  /\ SchedulerTypeOK
  /\ StartsExplained
  /\ \A e \in Ongoing : active = e /\ \A n \in Node : MayStart(e, n) => starts[n] <= grants[n]
  /\ Ongoing = {} => \A n \in Node : Startable(stored[n].status) => starts[n] <= grants[n]
  /\ phase[1] = "unused" =>
       /\ \A e \in Execution : phase[e] = "unused"
       /\ \A n \in Node : starts[n] = 0

\* A step of the execution under way after which it is still under way.
LEMMA StartsGoOn ==
  ASSUME StartsInv, SchedulerTypeOK', NEW e \in Execution, e \in Ongoing,
         UNCHANGED <<active, grants>>, phase'[e] \notin {"unused", "ended"},
         \A d \in Execution : d # e => SameExecution(d),
         \A n \in Node : starts'[n] <= 1 + grants[n],
         \A n \in Node : MayStart(e, n)' => starts'[n] <= grants[n]
  PROVE  StartsInv'
<1>1. \A d \in Execution : d \in Ongoing <=> d \in Ongoing'
  BY DEF Ongoing, SameExecution
<1>2. e \in Ongoing' /\ \A d \in Ongoing' : d = e /\ active' = e
  BY <1>1 DEF Ongoing, StartsInv
<1>3. phase'[1] # "unused"
  <2>1. phase[1] # "unused" /\ 1 \in Execution
    BY SchedulerAssumption DEF StartsInv, Ongoing, Execution
  <2> QED BY <2>1 DEF SameExecution
<1>4. StartsExplained'
  BY DEF StartsExplained
<1> HIDE DEF MayStart, Startable, Ongoing
<1> QED BY <1>2, <1>3, <1>4 DEF StartsInv

\* The steps of the loop.
LEMMA StartsLoop ==
  ASSUME StartsInv, SchedulerTypeOK', NEW e \in Execution, Loop(e)
  PROVE  StartsInv'
<1> USE DEF dagRegistry, dagSignals, dagHistory
<1>0. /\ SchedulerTypeOK /\ StartsExplained
      /\ node \in [Execution -> States] /\ skipped \in [Execution -> SUBSET Node]
      /\ todo \in [Execution -> SUBSET Node]
      /\ phase \in [Execution -> Passing \cup {"unused", "wait_task", "wait_user", "ended"}]
      /\ starts \in [Node -> Nat] /\ grants \in [Node -> Nat]
  BY DEF StartsInv, SchedulerTypeOK, States
<1>1. phase[e] \notin {"unused", "ended"} /\ e \in Ongoing
  BY DEF Loop, Top, Settle, PollUser, WaitReturns, End, SkipNode, AskApproval, StartNode,
     Succeeded, Failed, TaskCancelled, Ongoing
<1>2. \A d \in Execution : d # e => SameExecution(d)
  BY <1>0, OthersAlone
<1>3. /\ \A n \in Node : Startable(node[e][n].status) => starts[n] <= grants[n]
      /\ phase[e] = "schedule" => \A n \in todo[e] : starts[n] <= grants[n]
  BY <1>0, <1>1 DEF StartsInv, MayStart
<1>4. \A n \in Node : starts[n] <= 1 + grants[n]
  BY <1>0 DEF StartsExplained
<1> HIDE DEF Startable
\* a step that starts no node, and takes candidates at most from its pass
<1>5. ASSUME UNCHANGED <<active, grants, starts>>, phase'[e] \notin {"unused", "ended"},
             \A n \in Node :
               \/ Startable(node'[e][n].status) => Startable(node[e][n].status)
               \/ phase[e] = "schedule" /\ n \in todo[e],
             phase'[e] = "schedule" => phase[e] = "schedule" /\ todo'[e] \subseteq todo[e]
      PROVE  StartsInv'
  <2>1. \A n \in Node : MayStart(e, n)' => starts[n] <= grants[n]
    BY <1>0, <1>3, <1>5 DEF MayStart
  <2> QED BY <1>1, <1>2, <1>4, <1>5, <2>1, StartsGoOn
<1>6. ASSUME NEW n \in Node, phase[e] = "schedule", Take(e, n, "settle")
      PROVE  phase'[e] \in {"schedule", "settle"} /\ todo'[e] = todo[e] \ {n}
  BY <1>0, <1>6 DEF Take, Goto
<1>7. ASSUME NEW n \in Node, CollectFrame(e, n), phase[e] = "collect"
      PROVE  phase'[e] \in {"collect", "top"} /\ UNCHANGED <<active, grants, starts>>
  BY <1>0, <1>7 DEF CollectFrame, Take, Goto
<1>8. CASE Top(e)
  <2> DEFINE open == {n \in Node : node[e][n].status \in {"pending", "ready", "waiting", "running"}}
             stripped == Strip(node[e], open, "cancelled")
  <2>1. /\ phase'[e] \in {"end", "settle", "schedule"}
        /\ UNCHANGED <<active, grants, starts>>
        /\ node' = node \/ node' = [node EXCEPT ![e] = stripped]
        /\ phase'[e] = "schedule" => todo'[e] = Ready(e)
    BY <1>0, <1>8 DEF Top, open, stripped, Goto
  <2>2. \A n \in Node : stripped[n].status = IF n \in open THEN "cancelled" ELSE node[e][n].status
    BY <1>0, StripIs DEF Status, stripped
  <2> HIDE DEF open, stripped
  <2>3. \A n \in Node : node'[e][n].status \in {node[e][n].status, "cancelled"}
    BY <1>0, <2>1, <2>2
  <2>4. \A n \in Node : Startable(node'[e][n].status) => starts[n] <= grants[n]
    BY <1>3, <2>3 DEF Startable
  <2>5. \A n \in Ready(e) : n \in Node /\ Startable(node[e][n].status)
    BY DEF Ready, With, Startable
  <2>6. \A n \in Node : MayStart(e, n)' => starts[n] <= grants[n]
    BY <1>3, <2>1, <2>4, <2>5 DEF MayStart
  <2> QED BY <1>1, <1>2, <1>4, <2>1, <2>6, StartsGoOn
<1>9. ASSUME NEW n \in Node, SkipNode(e, n) PROVE StartsInv'
  <2>1. /\ phase[e] = "schedule" /\ Take(e, n, "settle") /\ UNCHANGED <<active, grants, starts>>
    BY <1>9 DEF SkipNode
  <2>2. \A m \in Node : node'[e][m].status \in {node[e][m].status, "failed", "skipped"}
    BY <1>0, <1>9, FallenStates DEF SkipNode
  <2>3. \A m \in Node : Startable(node'[e][m].status) => Startable(node[e][m].status)
    BY <2>2 DEF Startable
  <2> QED BY <1>5, <1>6, <2>1, <2>3
<1>10. ASSUME NEW n \in Node, NEW status \in {"waiting", "running"},
              node' = [node EXCEPT ![e][n].status = status]
       PROVE  \A m \in Node : node'[e][m].status = IF m = n THEN status ELSE node[e][m].status
  <2>1. node' = Marked(e, n, status) /\ status \in Status
    BY <1>10 DEF Marked, Status
  <2> QED BY <1>0, <2>1, MarkedStates
<1>11. ASSUME NEW n \in Node, AskApproval(e, n) PROVE StartsInv'
  <2>1. /\ phase[e] = "schedule" /\ n \in todo[e] /\ Take(e, n, "settle")
        /\ UNCHANGED <<active, grants, starts>>
        /\ node' = [node EXCEPT ![e][n].status = "waiting"]
    BY <1>11 DEF AskApproval
  <2>2. \A m \in Node : m # n => node'[e][m].status = node[e][m].status
    BY <1>10, <2>1
  <2> QED BY <1>5, <1>6, <2>1, <2>2
<1>12. ASSUME NEW n \in Node, StartNode(e, n) PROVE StartsInv'
  <2>1. /\ phase[e] = "schedule" /\ n \in todo[e] /\ Take(e, n, "settle")
        /\ UNCHANGED <<active, grants>>
        /\ node' = [node EXCEPT ![e][n].status = "running"]
        /\ starts' = [starts EXCEPT ![n] = @ + 1]
    BY <1>12 DEF StartNode
  <2>2. \A m \in Node : node'[e][m].status = IF m = n THEN "running" ELSE node[e][m].status
    BY <1>10, <2>1
  <2>3. phase'[e] \in {"schedule", "settle"} /\ todo'[e] = todo[e] \ {n}
    BY <1>6, <2>1
  <2>4. \A m \in Node : starts'[m] = IF m = n THEN starts[n] + 1 ELSE starts[m]
    BY <1>0, <2>1
  <2>5. \A m \in Node : starts'[m] <= 1 + grants[m]
    BY <1>0, <1>3, <1>4, <2>1, <2>4
  <2>6. ~Startable("running")
    BY DEF Startable
  <2>7. \A m \in Node : MayStart(e, m)' => m # n /\ MayStart(e, m)
    BY <2>1, <2>2, <2>3, <2>6 DEF MayStart
  <2>8. \A m \in Node : MayStart(e, m)' => starts'[m] <= grants[m]
    BY <1>3, <2>4, <2>7 DEF MayStart
  <2> QED BY <1>1, <1>2, <2>1, <2>3, <2>5, <2>8, StartsGoOn
<1>13. CASE Settle(e)
  <2> DEFINE pending == With(node[e], "pending")
             stripped == Strip(node[e], pending, "skipped")
  <2>1. /\ phase'[e] \in {"end", "wait_task", "wait_user"}
        /\ UNCHANGED <<active, grants, starts>>
        /\ node' = node \/ node' = [node EXCEPT ![e] = stripped]
    BY <1>0, <1>13 DEF Settle, GiveUp, Goto
  <2>2. \A n \in Node : stripped[n].status = IF n \in pending THEN "skipped" ELSE node[e][n].status
    BY <1>0, StripIs DEF Status
  <2> HIDE DEF pending, stripped
  <2>3. \A n \in Node : node'[e][n].status \in {node[e][n].status, "skipped"}
    BY <1>0, <2>1, <2>2
  <2>4. \A n \in Node : Startable(node'[e][n].status) => Startable(node[e][n].status)
    BY <2>3 DEF Startable
  <2> QED BY <1>5, <2>1, <2>4
<1>14. CASE PollUser(e) \/ WaitReturns(e)
  <2>1. phase'[e] \in {"top", "collect"} /\ UNCHANGED <<active, grants, starts, node>>
    BY <1>0, <1>14 DEF PollUser, WaitReturns, Goto
  <2> QED BY <1>5, <2>1
<1>15. ASSUME NEW n \in Node, Succeeded(e, n) PROVE StartsInv'
  <2>1. phase[e] = "collect" /\ CollectFrame(e, n)
    BY <1>15 DEF Succeeded
  <2>2. \A m \in Node :
          \/ node'[e][m] = node[e][m]
          \/ m \notin Present(node[e])
          \/ node'[e][m] = [node[e][m] EXCEPT !.status = "completed", !.result = done[e][m]]
    BY <1>0, <1>15 DEF Succeeded
  <2>3. \A m \in Node :
          [node[e][m] EXCEPT !.status = "completed", !.result = done[e][m]].status = "completed"
    BY <1>0 DEF States, NodeState
  <2>4. /\ \A m \in Node : m \notin Present(node[e]) => Startable(node[e][m].status)
        /\ ~Startable("completed")
    BY DEF Present, Startable
  <2>5. \A m \in Node : Startable(node'[e][m].status) => Startable(node[e][m].status)
    BY <2>2, <2>3, <2>4
  <2> QED BY <1>5, <1>7, <2>1, <2>5
<1>16. ASSUME NEW n \in Node, Failed(e, n) PROVE StartsInv'
  <2>1. phase[e] = "collect" /\ CollectFrame(e, n)
    BY <1>16 DEF Failed
  <2>2. \A m \in Node : node'[e][m].status \in {node[e][m].status, "failed", "skipped"}
    BY <1>0, <1>16, FallenStates DEF Failed
  <2>3. \A m \in Node : Startable(node'[e][m].status) => Startable(node[e][m].status)
    BY <2>2 DEF Startable
  <2> QED BY <1>5, <1>7, <2>1, <2>3
<1>17. ASSUME NEW n \in Node, TaskCancelled(e, n) PROVE StartsInv'
  <2>1. phase[e] = "collect" /\ CollectFrame(e, n) /\ node' = node
    BY <1>17 DEF TaskCancelled
  <2> QED BY <1>5, <1>7, <2>1
<1>18. CASE End(e)
  <2>1. /\ phase' = [phase EXCEPT ![e] = "ended"] /\ stored' = node[e]
        /\ UNCHANGED <<grants, starts>>
    BY <1>18 DEF End, Kept, Goto
  <2>2. Ongoing' = {}
    BY <1>0, <1>1, <2>1 DEF Ongoing, StartsInv
  <2>3. phase[1] # "unused" /\ 1 \in Execution
    BY <1>1, SchedulerAssumption DEF StartsInv, Execution
  <2>4. phase'[1] # "unused"
    BY <1>0, <2>1, <2>3
  <2>5. \A n \in Node : Startable(stored'[n].status) => starts'[n] <= grants'[n]
    BY <1>3, <2>1
  <2>6. StartsExplained'
    BY <1>0, <2>1 DEF StartsExplained
  <2> QED BY <2>2, <2>4, <2>5, <2>6 DEF StartsInv
<1> QED BY <1>8, <1>9, <1>11, <1>12, <1>13, <1>14, <1>15, <1>16, <1>17, <1>18 DEF Loop

\* The steps of the users and of the executors, when no client resumes a plan
\* that is still executing.
LEMMA StartsOther ==
  ASSUME ~Impatient, StartsInv, SchedulerTypeOK',
         UserStep \/ \E e \in Execution : ExecutorStep(e)
  PROVE  StartsInv'
<1> USE DEF dagCore, dagRegistry, dagSignals, dagHistory
<1>0. /\ SchedulerTypeOK /\ StartsExplained /\ stored \in States
      /\ node \in [Execution -> States]
      /\ phase \in [Execution -> Passing \cup {"unused", "wait_task", "wait_user", "ended"}]
      /\ starts \in [Node -> Nat] /\ grants \in [Node -> Nat]
      /\ \A n \in Node : starts[n] <= 1 + grants[n]
  BY DEF StartsInv, SchedulerTypeOK, States, StartsExplained
<1>1. 1 \in Execution /\ (active # 0 => active \in Execution)
  <2>1. active \in 0..MaxExecutions
    BY <1>0 DEF SchedulerTypeOK
  <2> QED BY <2>1, SchedulerAssumption DEF Execution
<1>2. \A n \in Node :
        /\ \A e \in Ongoing : Startable(node[e][n].status) => starts[n] <= grants[n]
        /\ Ongoing = {} /\ Startable(stored[n].status) => starts[n] <= grants[n]
  BY DEF StartsInv, MayStart
<1> HIDE DEF Startable
\* a step between two passes after which the same executions are under way
<1>3. ASSUME ~Busy, UNCHANGED <<phase, active, starts>>,
             \A n \in Node :
               /\ grants'[n] >= grants[n]
               /\ \A e \in Ongoing : Startable(node'[e][n].status) =>
                    Startable(node[e][n].status) \/ grants'[n] > grants[n]
               /\ Ongoing = {} /\ Startable(stored'[n].status) =>
                    Startable(stored[n].status) \/ grants'[n] > grants[n]
      PROVE  StartsInv'
  <2>1. Ongoing' = Ongoing
    BY <1>3 DEF Ongoing
  <2>2. \A n \in Node : grants'[n] \in Nat
    BY DEF SchedulerTypeOK
  <2>3. \A n \in Node : grants'[n] > grants[n] => starts'[n] <= grants'[n]
    BY <1>0, <1>3, <2>2
  <2>4. \A n \in Node : /\ starts[n] <= grants[n] => starts'[n] <= grants'[n]
                        /\ starts'[n] <= 1 + grants'[n]
    BY <1>0, <1>3, <2>2
  <2>5. \A e \in Ongoing', n \in Node : MayStart(e, n)' => Startable(node'[e][n].status)
    BY <1>3 DEF MayStart, Busy, Passing, Ongoing
  <2>6. \A e \in Ongoing', n \in Node : MayStart(e, n)' => starts'[n] <= grants'[n]
    BY <1>2, <1>3, <2>1, <2>3, <2>4, <2>5
  <2>7. Ongoing' = {} => \A n \in Node : Startable(stored'[n].status) => starts'[n] <= grants'[n]
    BY <1>2, <1>3, <2>1, <2>3, <2>4
  <2>8. StartsExplained'
    BY <2>4 DEF StartsExplained
  <2>9. /\ \A e \in Ongoing' : active' = e
        /\ phase'[1] = "unused" => /\ \A e \in Execution : phase'[e] = "unused"
                                   /\ \A n \in Node : starts'[n] = 0
    BY <1>3, <2>1 DEF StartsInv
  <2> QED BY <2>6, <2>7, <2>8, <2>9 DEF StartsInv
<1>4. ASSUME ~Busy, UNCHANGED <<phase, active, starts, node, stored, grants>> PROVE StartsInv'
  BY <1>0, <1>3, <1>4
\* an execution enters when none is under way, with nodes it may start once
<1>5. ASSUME NEW e \in Execution, NEW given \in States, Enter(e, given), ~Busy, Ongoing = {},
             \A n \in Node : Startable(given[n].status) => starts[n] <= grants[n],
             e = 1 \/ phase[1] # "unused"
      PROVE  StartsInv'
  <2>1. /\ phase' = [phase EXCEPT ![e] = "top"] /\ node' = [node EXCEPT ![e] = given]
        /\ UNCHANGED <<starts, grants>> /\ active' = e
    BY <1>5 DEF Enter, Goto
  <2>2. Ongoing' = {e}
    BY <1>0, <1>5, <2>1 DEF Ongoing
  <2>3. \A n \in Node : MayStart(e, n)' => starts'[n] <= grants'[n]
    BY <1>0, <1>5, <2>1 DEF MayStart
  <2>4. phase'[1] # "unused"
    BY <1>0, <1>1, <1>5, <2>1
  <2>5. StartsExplained'
    BY <1>0, <2>1 DEF StartsExplained
  <2> QED BY <2>1, <2>2, <2>3, <2>4, <2>5 DEF StartsInv
<1>6. CASE Execute
  <2>1. Submitted(plan) \in States
    BY NewStates
  <2>2. Enter(1, Submitted(plan)) /\ ~Busy /\ phase[1] = "unused"
    BY <1>6 DEF Execute, Enter
  <2>3. Ongoing = {} /\ \A n \in Node : starts[n] = 0
    BY <2>2 DEF StartsInv, Ongoing
  <2> QED BY <1>0, <1>1, <1>5, <2>1, <2>2, <2>3
<1>7. ASSUME NEW e \in Execution, Resume(e) PROVE StartsInv'
  <2>1. Enter(e, stored) /\ ~Busy /\ Ongoing = {} /\ e > 1
    BY <1>7 DEF Resume
  <2>2. phase[1] # "unused"
    BY <2>1 DEF Enter, Execution
  <2> QED BY <1>0, <1>2, <1>5, <2>1, <2>2
<1>8. CASE ResumeInvalid
  BY <1>4, <1>8 DEF ResumeInvalid
<1>9. CASE Pause
  BY <1>4, <1>9 DEF Pause
<1>10. ASSUME NEW e \in Execution, CancelPlan(e) PROVE StartsInv'
  BY <1>4, <1>10 DEF CancelPlan
<1>11. ASSUME NEW e \in Execution, NEW s, NEW what, Finish(e, s, what) PROVE StartsInv'
  BY <1>4, <1>11 DEF Finish
<1>12. \A n \in Node : grants[n] + 1 > grants[n] /\ grants[n] >= grants[n]
  BY <1>0
<1>13. ASSUME NEW n \in Node, Approve(n) PROVE StartsInv'
  <2>1. /\ active \in Execution /\ ~Busy /\ UNCHANGED <<phase, active, starts, stored>>
        /\ node' = [node EXCEPT ![active][n] = Decided(node[active], n, TRUE)]
        /\ grants' = [grants EXCEPT ![n] = @ + 1]
    BY <1>1, <1>13 DEF Approve, Decide
  <2>2. \A e \in Execution, m \in Node : m # n => node'[e][m] = node[e][m]
    BY <1>0, <2>1 DEF States
  <2>3. \A m \in Node : grants'[m] >= grants[m] /\ (m = n => grants'[m] > grants[m])
    BY <1>0, <2>1
  <2>4. \A e \in Ongoing : e \in Execution
    BY DEF Ongoing
  <2> QED BY <1>3, <2>1, <2>2, <2>3, <2>4
<1>14. ASSUME NEW n \in Node, Reject(n) PROVE StartsInv'
  <2> DEFINE fallen == [node[active] EXCEPT ![n] = Decided(node[active], n, FALSE)]
             under == Downstream(fallen, n)
  <2>1. /\ active \in Execution /\ ~Busy /\ UNCHANGED <<phase, active, starts, stored, grants>>
        /\ node' = [node EXCEPT ![active] = SetStatus(fallen, under, "skipped")]
    BY <1>1, <1>14 DEF Reject, Decide
  <2>2. /\ Decided(node[active], n, FALSE) \in NodeState
        /\ Decided(node[active], n, FALSE).status = "failed"
    BY <1>0, <2>1, DecidedState
  <2>3. /\ fallen \in States
        /\ \A m \in Node : fallen[m] = IF m = n THEN Decided(node[active], n, FALSE)
                                       ELSE node[active][m]
    BY <1>0, <2>1, <2>2 DEF States
  <2> HIDE DEF fallen, under
  <2>4. \A m \in Node :
          SetStatus(fallen, under, "skipped")[m].status \in {fallen[m].status, "skipped"}
    BY <2>3, SetStatusIs DEF Status
  <2>5. \A m \in Node :
          SetStatus(fallen, under, "skipped")[m].status \in {node[active][m].status, "failed", "skipped"}
    BY <2>2, <2>3, <2>4
  <2>6. \A e \in Execution, m \in Node :
          node'[e][m].status \in {node[e][m].status, "failed", "skipped"}
    BY <1>0, <2>1, <2>5
  <2>7. \A e \in Ongoing, m \in Node :
          Startable(node'[e][m].status) => Startable(node[e][m].status)
    BY <2>6 DEF Startable, Ongoing
  <2> QED BY <1>3, <1>12, <2>1, <2>7
<1>15. ASSUME NEW n \in Node, NEW yes \in BOOLEAN, DecideStored(n, yes) PROVE StartsInv'
  <2>1. /\ ~Busy /\ UNCHANGED <<phase, active, starts, node>>
        /\ stored' = [stored EXCEPT ![n] = Decided(stored, n, yes)]
        /\ grants' = IF yes THEN [grants EXCEPT ![n] = @ + 1] ELSE grants
    BY <1>15 DEF DecideStored
  <2>2. Decided(stored, n, yes).status = IF yes THEN "ready" ELSE "failed"
    BY <1>0, DecidedState
  <2>3. \A m \in Node : stored'[m] = IF m = n THEN Decided(stored, n, yes) ELSE stored[m]
    BY <1>0, <2>1 DEF States
  <2>4. \A m \in Node : grants'[m] = IF m = n /\ yes THEN grants[m] + 1 ELSE grants[m]
    BY <1>0, <2>1
  <2>5. ~Startable("failed")
    BY DEF Startable
  <2>6. \A m \in Node : Startable(stored'[m].status) =>
          Startable(stored[m].status) \/ grants'[m] > grants[m]
    BY <1>12, <2>2, <2>3, <2>4, <2>5
  <2>7. \A m \in Node : grants'[m] >= grants[m]
    BY <1>0, <2>4
  <2> QED BY <1>3, <2>1, <2>6, <2>7
<1>16. ASSUME NEW n \in Node, NEW raises \in BOOLEAN, AppendNode(n, raises) PROVE StartsInv'
  <2>1. /\ active \in Execution /\ ~Busy /\ UNCHANGED <<phase, active, starts, stored, grants>>
        /\ n \notin Present(node[active])
        /\ node' = [node EXCEPT ![active][n] = Fresh(plan, n)]
    BY <1>1, <1>16 DEF AppendNode
  <2>2. \A e \in Execution, m \in Node : e # active \/ m # n => node'[e][m] = node[e][m]
    BY <1>0, <2>1 DEF States
  <2>3. Startable(node[active][n].status)
    BY <2>1 DEF Present, Startable
  <2>4. \A e \in Ongoing, m \in Node :
          Startable(node'[e][m].status) => Startable(node[e][m].status)
    BY <2>2, <2>3 DEF Ongoing
  <2> QED BY <1>3, <1>12, <2>1, <2>4
<1>17. ASSUME NEW n \in Node, AppendStored(n) PROVE StartsInv'
  <2>1. /\ ~Busy /\ UNCHANGED <<phase, active, starts, node, grants>>
        /\ n \notin Present(stored)
        /\ stored' = [stored EXCEPT ![n] = Fresh(plan, n)]
    BY <1>17 DEF AppendStored
  <2>2. \A m \in Node : m # n => stored'[m] = stored[m]
    BY <1>0, <2>1 DEF States
  <2>3. Startable(stored[n].status)
    BY <2>1 DEF Present, Startable
  <2> QED BY <1>3, <1>12, <2>1, <2>2, <2>3
<1> QED BY <1>6, <1>7, <1>8, <1>9, <1>10, <1>11, <1>13, <1>14, <1>15, <1>16, <1>17
        DEF UserStep, ExecutorStep

\* StartsExplained: unless a client resumes a plan that is still executing, no
\* node is started again without another approval.
THEOREM StartsAreExplained == ~Impatient => (SchedulerSpec => []StartsExplained)
<1> SUFFICES ASSUME ~Impatient PROVE SchedulerSpec => []StartsExplained
  OBVIOUS
<1>1. SchedulerInit => StartsInv
  <2> SUFFICES ASSUME SchedulerInit PROVE StartsInv
    OBVIOUS
  <2>1. SchedulerTypeOK
    BY InitTypes
  <2>2. Ongoing = {} /\ \A e \in Execution : phase[e] = "unused"
    BY DEF SchedulerInit, Ongoing
  <2>3. \A n \in Node : starts[n] = 0 /\ grants[n] = 0
    BY DEF SchedulerInit
  <2> QED BY <2>1, <2>2, <2>3 DEF StartsInv, StartsExplained
<1>2. StartsInv /\ [SchedulerNext]_dagVars => StartsInv'
  <2>1. ASSUME StartsInv, UNCHANGED dagVars PROVE StartsInv'
    BY <2>1 DEF dagVars, dagCore, dagRegistry, dagSignals, dagHistory, StartsInv, SchedulerTypeOK,
       StartsExplained, Ongoing, MayStart
  <2>2. ASSUME StartsInv, SchedulerNext PROVE StartsInv'
    <3>1. SchedulerTypeOK
      BY <2>2 DEF StartsInv
    <3>2. ASSUME NEW e \in Execution, Loop(e) PROVE StartsInv'
      <4>1. SchedulerTypeOK'
        BY <3>1, <3>2, LoopTypes
      <4> QED BY <2>2, <3>2, <4>1, StartsLoop
    <3>3. CASE UserStep \/ \E e \in Execution : ExecutorStep(e)
      <4>1. SchedulerTypeOK'
        BY <3>1, <3>3, OtherTypes
      <4> QED BY <2>2, <3>3, <4>1, StartsOther
    <3> QED BY <2>2, <3>2, <3>3 DEF SchedulerNext
  <2> QED BY <2>1, <2>2
<1>3. StartsInv => StartsExplained
  BY DEF StartsInv
<1> QED BY <1>1, <1>2, <1>3, PTL DEF SchedulerSpec

--------------------------------------------------------------------------------
(* What an execution leaves behind.                                            *)

\* compute_ready_nodes takes the node, as far as statuses tell.
Eligible(states, n) ==
  \/ plan.deps[n] = {}
  \/ JoinsAny(states, n) /\ \E d \in plan.deps[n] : states[d].status = "completed"
  \/ ~JoinsAny(states, n) /\ \A d \in plan.deps[n] : states[d].status \in {"completed", "skipped"}

\* An approval was asked of, or given to, nodes whose turn it was.
AskedInOrder(states) ==
  \A n \in Node : states[n].status \in {"ready", "waiting"} => Eligible(states, n)

\* The ids an execution keeps of node n, its task and its turn agree with its
\* status.
Tracked(e, n) ==
  LET status == node[e][n].status IN
  /\ n \in completed[e] <=> status = "completed"
  /\ n \in failed[e] <=> status = "failed"
  /\ n \in skipped[e] <=> status = "skipped"
  /\ phase[e] # "end" => (n \in waiting[e] <=> status = "waiting")
  /\ status = "cancelled" => n \in cancelled[e]
  /\ n \in cancelled[e] => status \in {"cancelled", "running"}
  /\ phase[e] # "end" /\ task[e][n] # 0 => status = "running" /\ n \notin cancelled[e]
  /\ NobodyCancelled /\ status = "running" => phase[e] # "end" /\ task[e][n] # 0
  /\ phase[e] = "schedule" /\ n \in todo[e] => status \in {"pending", "ready"} /\ Eligible(node[e], n)
  /\ phase[e] = "schedule" /\ status = "ready" => n \in todo[e]
  /\ phase[e] = "settle" /\ status = "ready" => Running(e) # {}
  /\ phase[e] = "end" /\ NobodyCancelled /\ failed[e] = {} /\ outcome[e] # "paused" =>
       status \in {"absent", "completed", "skipped"}

\* The executors at work are those of the tasks the execution waits for.
Waited(e) ==
  /\ \A s \in live[e] : task[e][s[1]] = s[2] /\ s[2] # 0 /\ done[e][s[1]] = "none"
  /\ \A n \in Node : done[e][n] # "none" => task[e][n] # 0
  /\ phase[e] \in {"unused", "end", "ended"} => live[e] = {}

SettledOf(e) ==
  /\ Waited(e)
  /\ outcome[e] = "cancelled" => phase[e] = "ended"
  /\ phase[e] = "unused" => cancelled[e] = {} /\ \A n \in Node : task[e][n] = 0
  /\ e \in Ongoing => AskedInOrder(node[e]) /\ \A n \in Node : Tracked(e, n)

\* As long as decisions meet nodes that wait for them.
SettledInv ==
  /\ SchedulerTypeOK
  /\ ~offGate =>
       /\ AskedInOrder(stored)
       /\ NobodyCancelled => \A n \in Node : stored[n].status # "running"
       /\ \A e \in Execution : SettledOf(e)

\* The plan stays, so the turns of nodes may be compared before and after a step.
LEMMA SamePlan ==
  ASSUME plan' = plan
  PROVE  /\ \A e, n : Eligible(node[e], n)' <=> Eligible(node'[e], n)
         /\ \A e : AskedInOrder(node[e])' <=> AskedInOrder(node'[e])
         /\ AskedInOrder(stored)' <=> AskedInOrder(stored')
BY DEF AskedInOrder, Eligible, JoinsAny

\* A node's turn has come for good while it keeps its policy and the nodes that
\* are completed or skipped stay so.
LEMMA TurnStays ==
  ASSUME SchedulerTypeOK, NEW old, NEW new, NEW n \in Node, Eligible(old, n),
         new[n].bare = old[n].bare,
         \A d \in Node : old[d].status \in {"completed", "skipped"} => new[d].status = old[d].status
  PROVE  Eligible(new, n)
<1>1. plan.deps[n] \subseteq Node
  BY SchedulerAssumption DEF SchedulerTypeOK, PlanShape
<1> QED BY <1>1 DEF Eligible, JoinsAny

\* What _skip_downstream finds under a node that fell was pending or ready, and it
\* was not its turn.
LEMMA SkippedUnder ==
  ASSUME SchedulerTypeOK, NEW states \in States, NEW n \in Node, NEW state \in NodeState,
         state.status \in {"failed", "skipped"},
         states[n].status \notin {"completed", "skipped"}
  PROVE  LET fallen == [states EXCEPT ![n] = state]
             under == Downstream(fallen, n)
         IN \A m \in under : /\ m \in Node /\ m # n
                             /\ states[m].status \in {"pending", "ready"}
                             /\ ~Eligible(states, m)
<1> DEFINE fallen == [states EXCEPT ![n] = state]
           Skippable == {m \in Node : ~JoinsAny(fallen, m) /\ fallen[m].status \in {"pending", "ready"}}
           Closed(S) == \A m \in Skippable : plan.deps[m] \cap (S \cup {n}) # {} => m \in S
           under == {m \in Skippable : \A S \in SUBSET Skippable : Closed(S) => m \in S}
           S == {m \in under : ~Eligible(states, m)}
<1>1. fallen \in States /\ \A m \in Node : fallen[m] = IF m = n THEN state ELSE states[m]
  BY DEF States
<1>2. Downstream(fallen, n) = under
  BY DEF Downstream
<1> HIDE DEF fallen
<1>3. S \in SUBSET Skippable /\ S \subseteq under /\ under \subseteq Skippable
  OBVIOUS
<1>4. \A m \in Skippable : m \in Node /\ m # n /\ states[m].status \in {"pending", "ready"} /\ ~JoinsAny(states, m)
  BY <1>1 DEF JoinsAny
<1>5. ASSUME NEW m \in Skippable, plan.deps[m] \cap (S \cup {n}) # {} PROVE m \in S
  <2>1. m \in under
    <3> SUFFICES ASSUME NEW T \in SUBSET Skippable, Closed(T) PROVE m \in T
      BY <1>5
    <3>1. S \subseteq T
      BY <1>3
    <3>2. plan.deps[m] \cap (T \cup {n}) # {}
      BY <1>5, <3>1
    <3> QED BY <3>2
  <2>2. ~Eligible(states, m)
    <3>1. PICK d \in plan.deps[m] : d \in S \cup {n}
      BY <1>5
    <3>2. states[d].status \notin {"completed", "skipped"}
      BY <1>3, <1>4, <3>1
    <3> QED BY <1>4, <1>5, <3>1, <3>2 DEF Eligible
  <2> QED BY <2>1, <2>2
<1>6. under \subseteq S
  BY <1>3, <1>5
<1>7. \A m \in under : m \in Node /\ m # n /\ states[m].status \in {"pending", "ready"} /\ ~Eligible(states, m)
  BY <1>3, <1>4, <1>6
<1> HIDE DEF under
<1> QED BY <1>2, <1>7 DEF fallen

\* The nodes after one of them fell.
LEMMA NodesAfterFall ==
  ASSUME SchedulerTypeOK, NEW states \in States, NEW n \in Node, NEW state \in NodeState,
         state.status \in {"failed", "skipped"}, state.bare = states[n].bare,
         states[n].status \notin {"completed", "skipped"}
  PROVE  LET fallen == [states EXCEPT ![n] = state]
             under == Downstream(fallen, n)
             after == SetStatus(fallen, under, "skipped")
         IN \A m \in Node :
              /\ after[m].status = IF m = n THEN state.status
                                   ELSE IF m \in under THEN "skipped" ELSE states[m].status
              /\ after[m].bare = states[m].bare
<1> DEFINE fallen == [states EXCEPT ![n] = state]
           under == Downstream(fallen, n)
           after == SetStatus(fallen, under, "skipped")
<1>1. fallen \in States /\ \A m \in Node : fallen[m] = IF m = n THEN state ELSE states[m]
  BY DEF States
<1>2. \A m \in under : m # n
  BY SkippedUnder
<1> HIDE DEF fallen, under
<1>3. \A m \in Node : /\ after[m].bare = fallen[m].bare
                      /\ after[m].status = IF m \in under THEN "skipped" ELSE fallen[m].status
  BY <1>1, SetStatusIs DEF Status
<1> HIDE DEF after
<1>4. \A m \in Node :
        /\ after[m].status = IF m = n THEN state.status
                             ELSE IF m \in under THEN "skipped" ELSE states[m].status
        /\ after[m].bare = states[m].bare
  BY <1>1, <1>2, <1>3
<1> QED BY <1>4 DEF after, under, fallen

\* What becomes of the nodes of an execution when n gets the status and the nodes
\* under it are skipped.
Fallen(e, n, status, under) ==
  /\ \A m \in under : /\ m # n /\ node[e][m].status \in {"pending", "ready"}
                      /\ ~Eligible(node[e], m)
  /\ \A m \in Node :
       /\ node'[e][m].status = IF m = n THEN status
                               ELSE IF m \in under THEN "skipped" ELSE node[e][m].status
       /\ node'[e][m].bare = node[e][m].bare
       /\ m \in skipped'[e] <=> m \in skipped[e] \cup under \/ (status = "skipped" /\ m = n)

\* A node that fails or is skipped in an execution, and those that follow it.
LEMMA FallsIs ==
  ASSUME SchedulerTypeOK, NEW e \in Execution, NEW n \in Node,
         NEW status \in {"failed", "skipped"}, FallsWithDownstream(e, n, status),
         node[e][n].status \notin {"completed", "skipped"}
  PROVE  \E under \in SUBSET Node : Fallen(e, n, status, under)
<1> DEFINE state == [node[e][n] EXCEPT !.status = status]
           fallen == [node[e] EXCEPT ![n] = state]
           under == Downstream(fallen, n)
           after == SetStatus(fallen, under, "skipped")
<1>0. node \in [Execution -> States] /\ skipped \in [Execution -> SUBSET Node] /\ node[e] \in States
  BY DEF SchedulerTypeOK, States
<1>1. /\ state \in NodeState /\ state.status = status /\ state.bare = node[e][n].bare
  <2>1. node[e][n] \in NodeState /\ status \in Status
    BY <1>0 DEF States, Status
  <2> QED BY <2>1 DEF NodeState
<1>2. /\ node' = [node EXCEPT ![e] = after]
      /\ skipped' = [skipped EXCEPT ![e] = @ \cup under \cup
                                          (IF status = "skipped" THEN {n} ELSE {})]
  BY DEF FallsWithDownstream
<1> HIDE DEF state
<1>3. \A m \in under : /\ m \in Node /\ m # n /\ node[e][m].status \in {"pending", "ready"}
                       /\ ~Eligible(node[e], m)
  BY <1>0, <1>1, SkippedUnder
<1>4. \A m \in Node :
        /\ after[m].status = IF m = n THEN status
                             ELSE IF m \in under THEN "skipped" ELSE node[e][m].status
        /\ after[m].bare = node[e][m].bare
  BY <1>0, <1>1, NodesAfterFall
<1> HIDE DEF under, after
<1>5. /\ node'[e] = after
      /\ skipped'[e] = skipped[e] \cup under \cup (IF status = "skipped" THEN {n} ELSE {})
  BY <1>0, <1>2
<1>6. under \in SUBSET Node
  BY <1>3
<1>7. Fallen(e, n, status, under)
  BY <1>3, <1>4, <1>5 DEF Fallen
<1> QED BY <1>6, <1>7

\* The size of two sets that share nothing.
LEMMA DisjointUnion ==
  ASSUME NEW S, NEW T, IsFiniteSet(S), IsFiniteSet(T), S \cap T = {}
  PROVE  IsFiniteSet(S \cup T) /\ Cardinality(S \cup T) = Cardinality(S) + Cardinality(T)
<1>1. Cardinality(S) \in Nat /\ Cardinality(T) \in Nat /\ Cardinality(S \cap T) = 0
  BY FS_CardinalityType, FS_EmptySet
<1>2. /\ IsFiniteSet(S \cup T)
      /\ Cardinality(S \cup T) = Cardinality(S) + Cardinality(T) - Cardinality(S \cap T)
  BY FS_Union
<1> QED BY <1>1, <1>2

\* When as many nodes are settled as there are, all are.
LEMMA AllSettled ==
  ASSUME SchedulerTypeOK, NEW e \in Execution, \A n \in Node : Tracked(e, n),
         Cardinality(completed[e]) + Cardinality(failed[e]) + Cardinality(skipped[e])
           + Cardinality(cancelled[e]) >= Cardinality(Present(node[e]))
  PROVE  Present(node[e]) = completed[e] \cup failed[e] \cup skipped[e] \cup cancelled[e]
<1> DEFINE A == completed[e]  B == failed[e]  C == skipped[e]  D == cancelled[e]
<1>1. /\ A \subseteq Node /\ B \subseteq Node /\ C \subseteq Node /\ D \subseteq Node
      /\ IsFiniteSet(Node)
  BY SchedulerAssumption DEF SchedulerTypeOK
<1>2. A \cap B = {} /\ (A \cup B) \cap C = {} /\ (A \cup B \cup C) \cap D = {}
  BY <1>1 DEF Tracked
<1>3. A \cup B \cup C \cup D \subseteq Present(node[e]) /\ Present(node[e]) \subseteq Node
  BY <1>1 DEF Tracked, Present
<1> HIDE DEF A, B, C, D
<1>4. IsFiniteSet(A) /\ IsFiniteSet(B) /\ IsFiniteSet(C) /\ IsFiniteSet(D) /\ IsFiniteSet(Present(node[e]))
  BY <1>1, <1>3, FS_Subset
<1>5. /\ Cardinality(A) \in Nat /\ Cardinality(B) \in Nat /\ Cardinality(C) \in Nat
      /\ Cardinality(D) \in Nat /\ Cardinality(Present(node[e])) \in Nat /\ Cardinality({}) = 0
  BY <1>4, FS_CardinalityType, FS_EmptySet
<1>6. IsFiniteSet(A \cup B) /\ Cardinality(A \cup B) = Cardinality(A) + Cardinality(B)
  BY <1>2, <1>4, DisjointUnion
<1>7. IsFiniteSet(A \cup B \cup C) /\ Cardinality(A \cup B \cup C) = Cardinality(A \cup B) + Cardinality(C)
  BY <1>2, <1>4, <1>6, DisjointUnion
<1>8. /\ IsFiniteSet(A \cup B \cup C \cup D)
      /\ Cardinality(A \cup B \cup C \cup D) = Cardinality(A \cup B \cup C) + Cardinality(D)
  BY <1>2, <1>4, <1>7, DisjointUnion
<1>9. Cardinality(A \cup B \cup C \cup D) >= Cardinality(Present(node[e]))
  BY <1>5, <1>6, <1>7, <1>8 DEF A, B, C, D
<1>10. Cardinality(A \cup B \cup C \cup D) <= Cardinality(Present(node[e]))
  BY <1>3, <1>4, FS_Subset
<1>11. Cardinality(A \cup B \cup C \cup D) \in Nat
  BY <1>8, FS_CardinalityType
<1>12. A \cup B \cup C \cup D = Present(node[e])
  BY <1>3, <1>4, <1>5, <1>9, <1>10, <1>11, FS_Subset
<1> QED BY <1>12 DEF A, B, C, D

\* Once something was cancelled, it stays known.
LEMMA CancelledIsKnown ==
  ASSUME NEW e \in Execution, \A d \in Execution : d # e => SameExecution(d),
         cancelled[e] \subseteq cancelled'[e], outcome'[e] \in {outcome[e], "paused"},
         outcome[e] # "cancelled", NobodyCancelled'
  PROVE  NobodyCancelled
BY DEF NobodyCancelled, SameExecution

\* An execution whose dictionaries stay keeps its part.
LEMMA SettledSame ==
  ASSUME NEW d \in Execution, SettledOf(d), SameExecution(d), plan' = plan,
         NobodyCancelled' => NobodyCancelled
  PROVE  SettledOf(d)'
<1>1. Waited(d)'
  BY DEF SettledOf, Waited, SameExecution
<1>2. AskedInOrder(node[d])' <=> AskedInOrder(node[d])
  BY SamePlan DEF SameExecution
<1>3. \A n : Eligible(node[d], n)' <=> Eligible(node[d], n)
  BY SamePlan DEF SameExecution
<1>4. Running(d)' = Running(d)
  BY DEF Running, SameExecution
<1>5. \A n \in Node : Tracked(d, n) => Tracked(d, n)'
  BY <1>3, <1>4 DEF Tracked, SameExecution
<1>6. d \in Ongoing' <=> d \in Ongoing
  BY DEF Ongoing, SameExecution
<1> QED BY <1>1, <1>2, <1>5, <1>6 DEF SettledOf, SameExecution

\* A step of an execution after which it is still under way.
LEMMA SettledGoOn ==
  ASSUME SettledInv, ~offGate, SchedulerTypeOK', NEW e \in Execution, e \in Ongoing,
         UNCHANGED <<plan, stored>>, phase'[e] \notin {"unused", "ended"},
         \A d \in Execution : d # e => SameExecution(d),
         cancelled[e] \subseteq cancelled'[e], outcome'[e] \in {outcome[e], "paused"},
         Waited(e)', AskedInOrder(node'[e]), \A n \in Node : Tracked(e, n)'
  PROVE  SettledInv'
<1>1. outcome[e] # "cancelled" /\ outcome'[e] # "cancelled"
  BY DEF SettledInv, SettledOf, Ongoing
<1>2. NobodyCancelled' => NobodyCancelled
  BY <1>1, CancelledIsKnown
<1>3. ASSUME NEW d \in Execution, d # e PROVE SettledOf(d)'
  BY <1>2, <1>3, SettledSame DEF SettledInv
<1>4. SettledOf(e)'
  BY <1>1, SamePlan DEF SettledOf
<1>5. AskedInOrder(stored)'
  BY SamePlan DEF SettledInv
<1> HIDE DEF SettledOf
<1> QED BY <1>2, <1>3, <1>4, <1>5 DEF SettledInv

\* The checks at the top of the loop.
LEMMA SettledTop ==
  ASSUME SettledInv, SchedulerTypeOK', NEW e \in Execution, Top(e)
  PROVE  SettledInv'
<1> SUFFICES ASSUME ~offGate PROVE SettledInv'
  BY DEF SettledInv, Top, dagHistory
<1> USE DEF dagRegistry, dagSignals, dagHistory
<1>0. /\ SchedulerTypeOK /\ e \in Ongoing /\ phase[e] = "top" /\ outcome[e] # "cancelled"
      /\ node \in [Execution -> States] /\ cancelled \in [Execution -> SUBSET Node]
      /\ phase \in [Execution -> Passing \cup {"unused", "wait_task", "wait_user", "ended"}]
      /\ live \in [Execution -> SUBSET (Node \X Nat)]
      /\ Waited(e) /\ AskedInOrder(node[e]) /\ \A n \in Node : Tracked(e, n)
  BY DEF SettledInv, SettledOf, Ongoing, SchedulerTypeOK, States, Top
<1>1. /\ UNCHANGED <<plan, stored, completed, failed, skipped, waiting, results, task, done>>
      /\ \A d \in Execution : d # e => SameExecution(d)
  <2>1. Loop(e)
    BY DEF Loop
  <2> QED BY <1>0, <2>1, OthersAlone DEF Top
<1>2. \A s \in live[e] : s[1] \in Node /\ task[e][s[1]] # 0
  BY <1>0 DEF Waited
<1>3. ASSUME UNCHANGED <<node, cancelled, live>>, AskedInOrder(node'[e]) => \A n \in Node : Tracked(e, n)',
             outcome'[e] \in {outcome[e], "paused"}, phase'[e] \in {"end", "settle", "schedule"},
             phase'[e] = "end" => live[e] = {}
      PROVE  SettledInv'
  <2>1. Waited(e)'
    BY <1>0, <1>1, <1>3 DEF Waited
  <2> QED BY <1>0, <1>1, <1>3, <2>1, SettledGoOn
<1> DEFINE settled == Cardinality(completed[e]) + Cardinality(failed[e])
                        + Cardinality(skipped[e]) + Cardinality(cancelled[e])
           open == {n \in Node : node[e][n].status \in {"pending", "ready", "waiting", "running"}}
<1>4. CASE settled >= Cardinality(Present(node[e])) /\ Goto(e, "end")
             /\ UNCHANGED <<todo, node, cancelled, outcome, live>>
  <2>1. Present(node[e]) = completed[e] \cup failed[e] \cup skipped[e] \cup cancelled[e]
    BY <1>0, <1>4, AllSettled
  <2>2. phase'[e] = "end" /\ outcome'[e] = outcome[e]
    BY <1>0, <1>4 DEF Goto
  <2>3. ASSUME NEW n \in Node
        PROVE  /\ node[e][n].status = "running" => n \in cancelled[e]
               /\ task[e][n] = 0
    BY <1>0, <2>1, <2>3 DEF Tracked, Present
  <2>4. ASSUME NEW n \in Node PROVE Tracked(e, n)'
    <3>1. NobodyCancelled' => NobodyCancelled /\ cancelled[e] = {}
      BY <1>4 DEF NobodyCancelled
    <3>2. /\ phase'[e] = "end" /\ node' = node /\ cancelled' = cancelled /\ failed' = failed
          /\ completed' = completed /\ skipped' = skipped
      BY <1>1, <1>4, <2>2
    <3>3. n \in Present(node[e]) => n \in completed[e] \cup failed[e] \cup skipped[e] \cup cancelled[e]
      BY <2>1
    <3> QED BY <1>0, <2>3, <3>1, <3>2, <3>3 DEF Tracked, Present
  <2>5. live[e] = {}
    BY <1>2, <2>3
  <2> QED BY <1>3, <1>4, <2>2, <2>4, <2>5
<1>5. CASE /\ node' = [node EXCEPT ![e] = Strip(node[e], open, "cancelled")]
           /\ cancelled' = [cancelled EXCEPT ![e] = @ \cup open]
           /\ live' = [live EXCEPT ![e] = {s \in @ : task[e][s[1]] # s[2]}]
           /\ Goto(e, "end")
           /\ UNCHANGED <<todo, outcome>>
  <2>1. /\ phase'[e] = "end" /\ outcome'[e] = outcome[e]
        /\ cancelled'[e] = cancelled[e] \cup open /\ node'[e] = Strip(node[e], open, "cancelled")
        /\ live'[e] = {s \in live[e] : task[e][s[1]] # s[2]}
    BY <1>0, <1>5 DEF Goto
  <2>2. live'[e] = {}
    BY <1>0, <2>1 DEF Waited
  <2>3. \A n \in Node :
          node'[e][n].status = IF n \in open THEN "cancelled" ELSE node[e][n].status
    BY <1>0, <2>1, StripIs DEF Status
  <2>4. AskedInOrder(node'[e])
    BY <2>3 DEF AskedInOrder
  <2>5. NobodyCancelled' => cancelled'[e] = {}
    BY DEF NobodyCancelled
  <2>6. ASSUME NEW n \in Node PROVE Tracked(e, n)'
    <3>1. node[e][n].status \in Status
      BY <1>0 DEF States, NodeState
    <3>2. n \in open <=> node[e][n].status \in {"pending", "ready", "waiting", "running"}
      OBVIOUS
    <3> HIDE DEF open
    <3>3. /\ node'[e][n].status = IF n \in open THEN "cancelled" ELSE node[e][n].status
          /\ n \in cancelled'[e] <=> n \in cancelled[e] \/ n \in open
      BY <2>1, <2>3
    <3>4. NobodyCancelled' => n \notin open /\ n \notin cancelled[e]
      BY <2>1, <2>5
    <3> QED BY <1>0, <1>1, <2>1, <3>1, <3>2, <3>3, <3>4 DEF Tracked, Status
  <2>7. Waited(e)'
    BY <1>0, <1>1, <2>1, <2>2 DEF Waited
  <2>8. cancelled[e] \subseteq cancelled'[e]
    BY <2>1
  <2> HIDE DEF open
  <2> QED BY <1>0, <1>1, <2>1, <2>4, <2>6, <2>7, <2>8, SettledGoOn
<1>6. CASE /\ MayPause(e) /\ outcome' = [outcome EXCEPT ![e] = "paused"] /\ Goto(e, "end")
           /\ UNCHANGED <<todo, node, cancelled, live>>
  <2>1. phase'[e] = "end" /\ outcome'[e] = "paused" /\ \A n \in Node : task[e][n] = 0
    BY <1>0, <1>6 DEF Goto, MayPause, Running, SchedulerTypeOK
  <2>2. NobodyCancelled' => NobodyCancelled
    BY <1>0, <1>1, <1>6, <2>1, CancelledIsKnown
  <2>3. ASSUME NEW n \in Node PROVE Tracked(e, n)'
    BY <1>0, <1>1, <1>6, <2>1, <2>2, SamePlan DEF Tracked
  <2>4. live[e] = {}
    BY <1>2, <2>1
  <2> QED BY <1>3, <1>6, <2>1, <2>3, <2>4
<1>7. CASE /\ ~MayPause(e)
           /\ todo' = [todo EXCEPT ![e] = IF e \in paused THEN {} ELSE Ready(e)]
           /\ Goto(e, IF todo'[e] = {} THEN "settle" ELSE "schedule")
           /\ UNCHANGED <<node, cancelled, outcome, live>>
  <2>1. /\ phase'[e] = IF todo'[e] = {} THEN "settle" ELSE "schedule"
        /\ todo'[e] = IF e \in paused THEN {} ELSE Ready(e)
    BY <1>0, <1>7 DEF Goto, SchedulerTypeOK
  <2>2. NobodyCancelled' <=> NobodyCancelled
    BY <1>7 DEF NobodyCancelled
  <2>3. \A n \in Node : n \in Ready(e) <=>
          node[e][n].status \in {"pending", "ready"} /\ Eligible(node[e], n)
    <3>1. \A n \in Node : plan.deps[n] \subseteq Node
      BY <1>0, SchedulerAssumption DEF SchedulerTypeOK, PlanShape
    <3>2. \A n \in Node : /\ n \in completed[e] <=> node[e][n].status = "completed"
                          /\ n \in skipped[e] <=> node[e][n].status = "skipped"
      BY <1>0 DEF Tracked
    <3> QED BY <3>1, <3>2 DEF Ready, With, Eligible
  <2>4. e \in paused => Running(e) # {}
    BY <1>7 DEF MayPause
  <2>5. \A n \in Node : node[e][n].status = "ready" => Eligible(node[e], n)
    BY <1>0 DEF AskedInOrder
  <2>6. Running(e)' = Running(e)
    BY <1>1 DEF Running
  <2>7. ASSUME NEW n \in Node PROVE Tracked(e, n)'
    <3>1. node' = node /\ (Eligible(node[e], n)' <=> Eligible(node[e], n))
      BY <1>1, <1>7, SamePlan
    <3>2. n \in todo'[e] => node[e][n].status \in {"pending", "ready"} /\ Eligible(node[e], n)
      BY <2>1, <2>3
    <3>3. node[e][n].status = "ready" => n \in todo'[e] \/ Running(e) # {}
      BY <2>1, <2>3, <2>4, <2>5
    <3>4. node[e][n].status = "ready" /\ phase'[e] = "schedule" => n \in todo'[e]
      BY <2>1, <2>3, <2>5
    <3> QED BY <1>0, <1>1, <1>7, <2>1, <2>2, <2>6, <3>1, <3>2, <3>3, <3>4 DEF Tracked
  <2> QED BY <1>3, <1>7, <2>1, <2>7
<1> QED BY <1>4, <1>5, <1>6, <1>7 DEF Top

\* The other steps of the loop.
LEMMA SettledLoop ==
  ASSUME SettledInv, SchedulerTypeOK', NEW e \in Execution, Loop(e)
  PROVE  SettledInv'
<1> USE DEF dagRegistry, dagSignals, dagHistory
<1>1. CASE Top(e)
  BY <1>1, SettledTop
<1> SUFFICES ASSUME ~offGate, ~Top(e) PROVE SettledInv'
  <2>1. offGate' = offGate
    BY DEF Loop, Top, Settle, PollUser, WaitReturns, End, SkipNode, AskApproval, StartNode,
       Succeeded, Failed, TaskCancelled, CollectFrame
  <2> QED BY <1>1, <2>1 DEF SettledInv
<1>0. /\ SchedulerTypeOK
      /\ node \in [Execution -> States] /\ cancelled \in [Execution -> SUBSET Node]
      /\ phase \in [Execution -> Passing \cup {"unused", "wait_task", "wait_user", "ended"}]
      /\ live \in [Execution -> SUBSET (Node \X Nat)] /\ todo \in [Execution -> SUBSET Node]
      /\ task \in [Execution -> [Node -> Nat]]
      /\ done \in [Execution -> [Node -> Result \cup {"error", "cancel"}]]
      /\ skipped \in [Execution -> SUBSET Node] /\ failed \in [Execution -> SUBSET Node]
      /\ waiting \in [Execution -> SUBSET Node] /\ completed \in [Execution -> SUBSET Node]
  BY DEF SettledInv, SchedulerTypeOK, States
<1>2. e \in Ongoing
  BY DEF Loop, Top, Settle, PollUser, WaitReturns, End, SkipNode, AskApproval, StartNode,
     Succeeded, Failed, TaskCancelled, Ongoing
<1>3. /\ plan' = plan /\ \A d \in Execution : d # e => SameExecution(d)
      /\ outcome[e] # "cancelled"
      /\ Waited(e) /\ AskedInOrder(node[e]) /\ \A n \in Node : Tracked(e, n)
  <2>1. \A d \in Execution : d # e => SameExecution(d)
    BY <1>0, OthersAlone
  <2>2. plan' = plan
    BY DEF Loop, Top, Settle, PollUser, WaitReturns, End, SkipNode, AskApproval, StartNode,
       Succeeded, Failed, TaskCancelled, CollectFrame
  <2> QED BY <1>2, <2>1, <2>2 DEF SettledInv, SettledOf, Ongoing
<1>4. \A s \in live[e] : s[1] \in Node /\ task[e][s[1]] # 0
  BY <1>0, <1>3 DEF Waited
\* the turn of a node stays, as what is completed or skipped does
<1>5. ASSUME NEW m \in Node, Eligible(node[e], m), node'[e][m].bare = node[e][m].bare,
             \A d \in Node : node[e][d].status \in {"completed", "skipped"} =>
               node'[e][d].status = node[e][d].status
      PROVE  Eligible(node'[e], m) /\ Eligible(node[e], m)'
  <2> DEFINE old == node[e]  new == node'[e]
  <2>1. /\ Eligible(old, m) /\ new[m].bare = old[m].bare
        /\ \A d \in Node : old[d].status \in {"completed", "skipped"} => new[d].status = old[d].status
    BY <1>5
  <2> HIDE DEF old, new
  <2>2. Eligible(new, m)
    BY <1>0, <2>1, TurnStays
  <2> QED BY <1>3, <2>2, SamePlan DEF new
\* a candidate that is handled
<1>6. ASSUME NEW n \in todo[e], phase[e] = "schedule", Take(e, n, "settle")
      PROVE  /\ phase'[e] \in {"schedule", "settle"} /\ todo'[e] = todo[e] \ {n}
             /\ phase'[e] = "settle" => todo[e] = {n}
             /\ n \in Node /\ node[e][n].status \in {"pending", "ready"} /\ Eligible(node[e], n)
             /\ task[e][n] = 0 /\ n \notin cancelled[e]
  <2>1. n \in Node /\ Tracked(e, n)
    BY <1>0, <1>3
  <2>2. /\ phase'[e] \in {"schedule", "settle"} /\ todo'[e] = todo[e] \ {n}
        /\ phase'[e] = "settle" => todo[e] = {n}
    BY <1>0, <1>6 DEF Take, Goto
  <2> QED BY <1>6, <2>1, <2>2 DEF Tracked
<1>7. ASSUME NEW n \in Node, SkipNode(e, n) PROVE SettledInv'
  <2>1. /\ phase[e] = "schedule" /\ n \in todo[e] /\ Take(e, n, "settle")
        /\ FallsWithDownstream(e, n, "skipped")
        /\ UNCHANGED <<plan, stored, completed, failed, cancelled, waiting, task, done, outcome, live>>
    BY <1>7 DEF SkipNode
  <2>2. /\ phase'[e] \in {"schedule", "settle"} /\ todo'[e] = todo[e] \ {n}
        /\ phase'[e] = "settle" => todo[e] = {n}
        /\ node[e][n].status \in {"pending", "ready"} /\ Eligible(node[e], n)
        /\ task[e][n] = 0 /\ n \notin cancelled[e]
    BY <1>6, <2>1
  <2>3. PICK under \in SUBSET Node : Fallen(e, n, "skipped", under)
    <3>1. node[e][n].status \notin {"completed", "skipped"}
      BY <2>2
    <3> QED BY <1>0, <2>1, <3>1, FallsIs
  <2>4. NobodyCancelled' <=> NobodyCancelled
    BY <2>1 DEF NobodyCancelled
  <2>5. \A m \in Node : Eligible(node[e], m) => Eligible(node'[e], m) /\ Eligible(node[e], m)'
    BY <1>5, <2>2, <2>3 DEF Fallen
  <2>6. AskedInOrder(node'[e])
    BY <1>3, <2>3, <2>5 DEF AskedInOrder, Fallen
  <2>7. ASSUME NEW m \in Node PROVE Tracked(e, m)'
    BY <1>3, <2>1, <2>2, <2>3, <2>4, <2>5, <2>7 DEF Tracked, Fallen
  <2>8. Waited(e)'
    BY <1>3, <2>1, <2>2 DEF Waited
  <2> QED BY <1>2, <1>3, <2>1, <2>2, <2>6, <2>7, <2>8, SettledGoOn
<1>8. ASSUME NEW n \in Node, NEW status \in {"waiting", "running"},
             node' = [node EXCEPT ![e][n].status = status]
      PROVE  \A m \in Node :
               /\ node'[e][m].status = IF m = n THEN status ELSE node[e][m].status
               /\ node'[e][m].bare = node[e][m].bare
  <2>1. node' = Marked(e, n, status) /\ status \in Status
    BY <1>8 DEF Marked, Status
  <2> QED BY <1>0, <2>1, MarkedStates, SMTT(30)
<1>9. ASSUME NEW n \in Node, AskApproval(e, n) PROVE SettledInv'
  <2>1. /\ phase[e] = "schedule" /\ n \in todo[e] /\ Take(e, n, "settle")
        /\ node' = [node EXCEPT ![e][n].status = "waiting"]
        /\ waiting' = [waiting EXCEPT ![e] = @ \cup {n}]
        /\ UNCHANGED <<plan, stored, completed, failed, skipped, cancelled, task, done, outcome, live>>
    BY <1>9 DEF AskApproval
  <2>2. /\ phase'[e] \in {"schedule", "settle"} /\ todo'[e] = todo[e] \ {n}
        /\ phase'[e] = "settle" => todo[e] = {n}
        /\ node[e][n].status \in {"pending", "ready"} /\ Eligible(node[e], n)
        /\ task[e][n] = 0 /\ n \notin cancelled[e]
    BY <1>6, <2>1
  <2>3. /\ \A m \in Node : /\ node'[e][m].status = IF m = n THEN "waiting" ELSE node[e][m].status
                           /\ node'[e][m].bare = node[e][m].bare
        /\ waiting'[e] = waiting[e] \cup {n}
    BY <1>0, <1>8, <2>1
  <2>4. NobodyCancelled' <=> NobodyCancelled
    BY <2>1 DEF NobodyCancelled
  <2>5. \A m \in Node : Eligible(node[e], m) => Eligible(node'[e], m) /\ Eligible(node[e], m)'
    BY <1>5, <2>2, <2>3
  <2>6. AskedInOrder(node'[e])
    BY <1>3, <2>2, <2>3, <2>5 DEF AskedInOrder
  <2>7. ASSUME NEW m \in Node PROVE Tracked(e, m)'
    <3>1. /\ UNCHANGED <<completed, failed, skipped, cancelled, task, outcome>>
          /\ phase[e] = "schedule" /\ n \in todo[e] /\ Tracked(e, m)
      BY <1>3, <2>1
    <3>2. /\ node'[e][m].status = IF m = n THEN "waiting" ELSE node[e][m].status
          /\ m \in waiting'[e] <=> m \in waiting[e] \/ m = n
          /\ m \in todo'[e] <=> m \in todo[e] /\ m # n
      BY <2>2, <2>3
    <3>3. /\ phase'[e] \in {"schedule", "settle"}
          /\ phase'[e] = "settle" => (m \in todo[e] => m = n)
          /\ NobodyCancelled' <=> NobodyCancelled
          /\ Eligible(node[e], m) => Eligible(node[e], m)'
      BY <2>2, <2>4, <2>5
    <3>4. CASE m = n
      BY <2>2, <3>1, <3>2, <3>3, <3>4 DEF Tracked
    <3>5. CASE m # n
      BY <3>1, <3>2, <3>3, <3>5 DEF Tracked
    <3> QED BY <3>4, <3>5
  <2>8. Waited(e)'
    BY <1>3, <2>1, <2>2 DEF Waited
  <2> QED BY <1>2, <1>3, <2>1, <2>2, <2>6, <2>7, <2>8, SettledGoOn
<1>10. ASSUME NEW n \in Node, StartNode(e, n) PROVE SettledInv'
  <2>1. /\ phase[e] = "schedule" /\ n \in todo[e] /\ Take(e, n, "settle")
        /\ node' = [node EXCEPT ![e][n].status = "running"]
        /\ waiting' = [waiting EXCEPT ![e] = @ \ {n}]
        /\ starts' = [starts EXCEPT ![n] = @ + 1]
        /\ task' = [task EXCEPT ![e][n] = starts'[n]]
        /\ done' = [done EXCEPT ![e][n] = "none"]
        /\ live' = [live EXCEPT ![e] = @ \cup {<<n, starts'[n]>>}]
        /\ UNCHANGED <<plan, stored, completed, failed, skipped, cancelled, outcome>>
    BY <1>10 DEF StartNode
  <2>2. /\ phase'[e] \in {"schedule", "settle"} /\ todo'[e] = todo[e] \ {n}
        /\ phase'[e] = "settle" => todo[e] = {n}
        /\ node[e][n].status \in {"pending", "ready"} /\ Eligible(node[e], n)
        /\ task[e][n] = 0 /\ n \notin cancelled[e]
    BY <1>6, <2>1
  <2>3. /\ \A m \in Node : /\ node'[e][m].status = IF m = n THEN "running" ELSE node[e][m].status
                           /\ node'[e][m].bare = node[e][m].bare
        /\ waiting'[e] = waiting[e] \ {n}
    BY <1>0, <1>8, <2>1
  <2>4. NobodyCancelled' <=> NobodyCancelled
    BY <2>1 DEF NobodyCancelled
  <2>5. \A m \in Node : Eligible(node[e], m) => Eligible(node'[e], m) /\ Eligible(node[e], m)'
    BY <1>5, <2>2, <2>3
  <2>6. AskedInOrder(node'[e])
    BY <1>3, <2>3, <2>5 DEF AskedInOrder
  <2>7. starts'[n] # 0
    <3>1. starts \in [Node -> Nat]
      BY <1>0 DEF SchedulerTypeOK
    <3> QED BY <2>1, <3>1
  <2>8. /\ \A m \in Node : task'[e][m] = IF m = n THEN starts'[n] ELSE task[e][m]
        /\ \A m \in Node : done'[e][m] = IF m = n THEN "none" ELSE done[e][m]
        /\ live'[e] = live[e] \cup {<<n, starts'[n]>>}
    BY <1>0, <2>1
  <2>9. ASSUME NEW m \in Node PROVE Tracked(e, m)'
    <3>1. /\ UNCHANGED <<completed, failed, skipped, cancelled, outcome>>
          /\ phase[e] = "schedule" /\ n \in todo[e] /\ Tracked(e, m)
      BY <1>3, <2>1
    <3>2. /\ node'[e][m].status = IF m = n THEN "running" ELSE node[e][m].status
          /\ m \in waiting'[e] <=> m \in waiting[e] /\ m # n
          /\ m \in todo'[e] <=> m \in todo[e] /\ m # n
          /\ task'[e][m] # 0 <=> task[e][m] # 0 \/ m = n
      BY <2>2, <2>3, <2>7, <2>8
    <3>3. /\ phase'[e] \in {"schedule", "settle"}
          /\ phase'[e] = "settle" => (m \in todo[e] => m = n)
          /\ NobodyCancelled' <=> NobodyCancelled
          /\ Eligible(node[e], m) => Eligible(node[e], m)'
      BY <2>2, <2>4, <2>5
    <3>4. CASE m = n
      BY <2>2, <3>1, <3>2, <3>3, <3>4 DEF Tracked
    <3>5. CASE m # n
      BY <3>1, <3>2, <3>3, <3>5 DEF Tracked
    <3> QED BY <3>4, <3>5
  <2>10. Waited(e)'
    <3>1. ASSUME NEW s \in live'[e]
          PROVE  task'[e][s[1]] = s[2] /\ s[2] # 0 /\ done'[e][s[1]] = "none"
      <4>1. CASE s \in live[e]
        <5>1. s[1] \in Node /\ s[1] # n
          BY <1>4, <2>2, <4>1
        <5> QED BY <1>3, <2>8, <4>1, <5>1 DEF Waited
      <4>2. CASE s = <<n, starts'[n]>>
        BY <2>7, <2>8, <4>2
      <4> QED BY <2>8, <4>1, <4>2
    <3>2. \A m \in Node : done'[e][m] # "none" => task'[e][m] # 0
      BY <1>3, <2>7, <2>8 DEF Waited
    <3> QED BY <2>2, <3>1, <3>2 DEF Waited
  <2> QED BY <1>2, <1>3, <2>1, <2>2, <2>6, <2>9, <2>10, SettledGoOn
<1>11. CASE Settle(e)
  <2>1. /\ phase[e] = "settle"
        /\ UNCHANGED <<plan, stored, todo, completed, failed, cancelled, waiting, task, done,
                       outcome, live>>
    BY <1>11 DEF Settle
  <2>2. NobodyCancelled' <=> NobodyCancelled
    BY <2>1 DEF NobodyCancelled
  <2>3. CASE UNCHANGED <<node, skipped>> /\ \E where \in {"wait_task", "wait_user"} : Goto(e, where)
    <3>1. phase'[e] \in {"wait_task", "wait_user"}
      BY <1>0, <2>3 DEF Goto
    <3>2. ASSUME NEW m \in Node PROVE Tracked(e, m)'
      BY <1>3, <2>1, <2>2, <2>3, <3>1 DEF Tracked
    <3>3. Waited(e)'
      BY <1>3, <2>1, <3>1 DEF Waited
    <3> QED BY <1>2, <1>3, <2>1, <2>3, <3>1, <3>2, <3>3, SettledGoOn
  <2>4. CASE Running(e) = {} /\ waiting[e] = {} /\ GiveUp(e)
    <3> DEFINE pending == With(node[e], "pending")
    <3>1. /\ phase'[e] = "end" /\ node'[e] = Strip(node[e], pending, "skipped")
          /\ skipped'[e] = skipped[e] \cup pending
      BY <1>0, <2>4 DEF GiveUp, Goto
    <3>2. \A m \in Node :
            node'[e][m].status = IF node[e][m].status = "pending" THEN "skipped" ELSE node[e][m].status
      <4>1. \A m \in Node : m \in pending <=> node[e][m].status = "pending"
        BY DEF With
      <4>2. \A m \in Node :
              node'[e][m].status = IF m \in pending THEN "skipped" ELSE node[e][m].status
        BY <1>0, <3>1, StripIs DEF Status
      <4> QED BY <4>1, <4>2
    <3>3. \A m \in Node : node[e][m].status \notin {"ready", "waiting"} /\ task[e][m] = 0
      BY <1>0, <1>3, <2>1, <2>4 DEF Tracked, Running
    <3>4. AskedInOrder(node'[e])
      BY <3>2, <3>3 DEF AskedInOrder
    <3>5. NobodyCancelled => cancelled[e] = {}
      BY DEF NobodyCancelled
    <3>6. ASSUME NEW m \in Node PROVE Tracked(e, m)'
      <4>1. node[e][m].status \in Status
        BY <1>0 DEF States, NodeState
      <4>2. m \in skipped'[e] <=> m \in skipped[e] \/ node[e][m].status = "pending"
        BY <3>1 DEF With
      <4> QED BY <1>3, <2>1, <2>2, <3>1, <3>2, <3>3, <3>5, <4>1, <4>2 DEF Tracked, Status
    <3>7. live[e] = {}
      BY <1>4, <3>3
    <3>8. Waited(e)'
      BY <1>3, <2>1, <3>1, <3>7 DEF Waited
    <3> QED BY <1>2, <1>3, <2>1, <3>1, <3>4, <3>6, <3>8, SettledGoOn
  <2> QED BY <1>11, <2>3, <2>4 DEF Settle
<1>12. CASE PollUser(e) \/ WaitReturns(e)
  <2>1. /\ phase[e] \in {"wait_user", "wait_task"} /\ phase'[e] \in {"top", "collect"}
        /\ UNCHANGED <<plan, stored, node, completed, failed, skipped, cancelled, waiting, task,
                       done, outcome, live>>
    BY <1>0, <1>12 DEF PollUser, WaitReturns, Goto
  <2>2. NobodyCancelled' <=> NobodyCancelled
    BY <2>1 DEF NobodyCancelled
  <2>3. ASSUME NEW m \in Node PROVE Tracked(e, m)'
    BY <1>3, <2>1, <2>2 DEF Tracked
  <2>4. Waited(e)'
    BY <1>3, <2>1 DEF Waited
  <2> QED BY <1>2, <1>3, <2>1, <2>3, <2>4, SettledGoOn
\* a task that is collected
<1>13. ASSUME NEW n \in Node, phase[e] = "collect", done[e][n] # "none", CollectFrame(e, n)
       PROVE  /\ phase'[e] \in {"collect", "top"}
              /\ UNCHANGED <<plan, stored, waiting, outcome>>
              /\ node[e][n].status = "running" /\ n \notin cancelled[e]
              /\ \A m \in Node : task'[e][m] = IF m = n THEN 0 ELSE task[e][m]
              /\ Waited(e)'
  <2>1. phase'[e] \in {"collect", "top"} /\ UNCHANGED <<plan, stored, waiting, outcome, live>>
    BY <1>0, <1>13 DEF CollectFrame, Take, Goto
  <2>2. task[e][n] # 0 /\ Tracked(e, n)
    BY <1>3, <1>13 DEF Waited
  <2>3. /\ \A m \in Node : task'[e][m] = IF m = n THEN 0 ELSE task[e][m]
        /\ \A m \in Node : done'[e][m] = IF m = n THEN "none" ELSE done[e][m]
    BY <1>0, <1>13 DEF CollectFrame
  <2>4. \A s \in live[e] : s[1] \in Node /\ s[1] # n
    BY <1>3, <1>4, <1>13 DEF Waited
  <2>5. Waited(e)'
    BY <1>3, <2>1, <2>3, <2>4 DEF Waited
  <2> QED BY <1>13, <2>1, <2>2, <2>3, <2>5 DEF Tracked
<1>14. ASSUME NEW n \in Node, Succeeded(e, n) PROVE SettledInv'
  <2>1. /\ phase[e] = "collect" /\ done[e][n] # "none" /\ CollectFrame(e, n)
        /\ UNCHANGED <<failed, skipped, cancelled>>
        /\ completed'[e] = completed[e] \cup {n}
    BY <1>0, <1>14 DEF Succeeded
  <2>2. /\ phase'[e] \in {"collect", "top"} /\ UNCHANGED <<plan, stored, waiting, outcome>>
        /\ node[e][n].status = "running" /\ n \notin cancelled[e]
        /\ \A m \in Node : task'[e][m] = IF m = n THEN 0 ELSE task[e][m]
        /\ Waited(e)'
    BY <1>13, <2>1
  <2>3. \A m \in Node :
          \/ m # n /\ node'[e][m] = node[e][m]
          \/ m # n /\ node'[e][m] = Fresh(plan, m) /\ node[e][m].status = "absent"
          \/ m = n /\ node'[e][m] = [node[e][m] EXCEPT !.status = "completed", !.result = done[e][m]]
    BY <1>0, <1>14 DEF Succeeded, Present
  <2>4. \A m \in Node :
          LET ended == [node[e][m] EXCEPT !.status = "completed", !.result = done[e][m]] IN
          ended.status = "completed" /\ ended.bare = node[e][m].bare
    BY <1>0 DEF States, NodeState
  <2>5. \A m \in Node : Fresh(plan, m).status = "pending"
    BY DEF Fresh
  <2>6. /\ node'[e][n].status = "completed"
        /\ \A m \in Node : m # n =>
             \/ node'[e][m].status = node[e][m].status /\ node'[e][m].bare = node[e][m].bare
             \/ node'[e][m].status = "pending" /\ node[e][m].status = "absent"
    BY <2>3, <2>4, <2>5, ZenonT(60)
  <2>7. NobodyCancelled' <=> NobodyCancelled
    BY <2>1, <2>2 DEF NobodyCancelled
  <2>8. \A d \in Node : node[e][d].status \in {"completed", "skipped"} =>
          node'[e][d].status = node[e][d].status
    BY <2>2, <2>6
  <2>9. AskedInOrder(node'[e])
    <3> SUFFICES ASSUME NEW m \in Node, node'[e][m].status \in {"ready", "waiting"}
                 PROVE  Eligible(node'[e], m)
      BY DEF AskedInOrder
    <3>1. node'[e][m].status = node[e][m].status /\ node'[e][m].bare = node[e][m].bare
      BY <2>6
    <3> QED BY <1>3, <1>5, <2>8, <3>1 DEF AskedInOrder
  <2>10. ASSUME NEW m \in Node PROVE Tracked(e, m)'
    BY <1>3, <2>1, <2>2, <2>6, <2>7 DEF Tracked
  <2> QED BY <1>2, <1>3, <2>1, <2>2, <2>9, <2>10, SettledGoOn
<1>15. ASSUME NEW n \in Node, Failed(e, n) PROVE SettledInv'
  <2>1. /\ phase[e] = "collect" /\ done[e][n] # "none" /\ CollectFrame(e, n)
        /\ UNCHANGED <<completed, cancelled>> /\ FallsWithDownstream(e, n, "failed")
        /\ failed'[e] = failed[e] \cup {n}
    BY <1>0, <1>15 DEF Failed
  <2>2. /\ phase'[e] \in {"collect", "top"} /\ UNCHANGED <<plan, stored, waiting, outcome>>
        /\ node[e][n].status = "running" /\ n \notin cancelled[e]
        /\ \A m \in Node : task'[e][m] = IF m = n THEN 0 ELSE task[e][m]
        /\ Waited(e)'
    BY <1>13, <2>1
  <2>3. PICK under \in SUBSET Node : Fallen(e, n, "failed", under)
    <3>1. node[e][n].status \notin {"completed", "skipped"}
      BY <2>2
    <3> QED BY <1>0, <2>1, <3>1, FallsIs
  <2>4. NobodyCancelled' <=> NobodyCancelled
    BY <2>1, <2>2 DEF NobodyCancelled
  <2>5. \A m \in Node : Eligible(node[e], m) => Eligible(node'[e], m)
    BY <1>5, <2>2, <2>3 DEF Fallen
  <2>6. AskedInOrder(node'[e])
    BY <1>3, <2>3, <2>5 DEF AskedInOrder, Fallen
  <2>7. ASSUME NEW m \in Node PROVE Tracked(e, m)'
    BY <1>3, <2>1, <2>2, <2>3, <2>4 DEF Tracked, Fallen
  <2> QED BY <1>2, <1>3, <2>1, <2>2, <2>6, <2>7, SettledGoOn
<1>16. ASSUME NEW n \in Node, TaskCancelled(e, n) PROVE SettledInv'
  <2>1. /\ phase[e] = "collect" /\ done[e][n] # "none" /\ CollectFrame(e, n)
        /\ UNCHANGED <<node, completed, failed, skipped>>
        /\ cancelled'[e] = cancelled[e] \cup {n}
    BY <1>0, <1>16 DEF TaskCancelled
  <2>2. /\ phase'[e] \in {"collect", "top"} /\ UNCHANGED <<plan, stored, waiting, outcome>>
        /\ node[e][n].status = "running" /\ n \notin cancelled[e]
        /\ \A m \in Node : task'[e][m] = IF m = n THEN 0 ELSE task[e][m]
        /\ Waited(e)'
    BY <1>13, <2>1
  <2>3. ~NobodyCancelled'
    BY <2>1 DEF NobodyCancelled
  <2>4. ASSUME NEW m \in Node PROVE Tracked(e, m)'
    BY <1>3, <2>1, <2>2, <2>3 DEF Tracked
  <2> QED BY <1>2, <1>3, <2>1, <2>2, <2>4, SettledGoOn
<1>17. CASE End(e)
  <2>1. /\ phase[e] = "end" /\ phase'[e] = "ended" /\ stored' = node[e] /\ UNCHANGED live
        /\ \A n \in Node : done'[e][n] = "none"
        /\ IF outcome[e] = "paused" THEN cancelled'[e] = cancelled[e] /\ outcome'[e] = "paused"
           ELSE cancelled[e] # {} => outcome'[e] = "cancelled"
    BY <1>0, <1>17 DEF End, Kept, Goto, SchedulerTypeOK
  <2>2. NobodyCancelled' => NobodyCancelled
    <3> SUFFICES ASSUME NobodyCancelled' PROVE NobodyCancelled
      OBVIOUS
    <3>1. cancelled[e] = {} /\ outcome[e] # "cancelled"
      BY <1>3, <2>1 DEF NobodyCancelled
    <3>2. \A d \in Execution : d # e => cancelled[d] = {} /\ outcome[d] # "cancelled"
      BY <1>3 DEF NobodyCancelled, SameExecution
    <3> QED BY <3>1, <3>2 DEF NobodyCancelled
  <2>3. live'[e] = {}
    BY <1>3, <2>1 DEF Waited
  <2>4. SettledOf(e)'
    BY <2>1, <2>3 DEF SettledOf, Waited, Ongoing
  <2>5. ASSUME NEW d \in Execution, d # e PROVE SettledOf(d)'
    BY <1>3, <2>2, <2>5, SettledSame DEF SettledInv
  <2>6. AskedInOrder(stored)'
    BY <1>3, <2>1, SamePlan
  <2>7. NobodyCancelled' => \A n \in Node : stored'[n].status # "running"
    BY <1>3, <2>1, <2>2 DEF Tracked
  <2> HIDE DEF SettledOf
  <2> QED BY <2>4, <2>5, <2>6, <2>7 DEF SettledInv
<1> QED BY <1>7, <1>9, <1>10, <1>11, <1>12, <1>14, <1>15, <1>16, <1>17 DEF Loop

\* A step between two passes that changes no execution.
LEMMA SettledQuiet ==
  ASSUME SettledInv, SchedulerTypeOK', ~offGate, UNCHANGED <<plan, dagCore>>,
         AskedInOrder(stored'), \A n \in Node : stored'[n].status = "running" => stored[n].status = "running"
  PROVE  SettledInv'
<1>1. NobodyCancelled' <=> NobodyCancelled
  BY DEF NobodyCancelled, dagCore
<1>2. \A d \in Execution : SameExecution(d)
  BY DEF SameExecution, dagCore
<1>3. \A d \in Execution : SettledOf(d)'
  BY <1>1, <1>2, SettledSame DEF SettledInv
<1>4. AskedInOrder(stored)'
  BY SamePlan
<1> HIDE DEF SettledOf
<1> QED BY <1>1, <1>3, <1>4 DEF SettledInv

\* An execution that begins, with the stored plan or the one submitted.
LEMMA SettledEnter ==
  ASSUME SettledInv, SchedulerTypeOK', ~offGate, NEW e \in Execution, NEW given \in States,
         Enter(e, given), AskedInOrder(given),
         NobodyCancelled => \A n \in Node : given[n].status # "running"
  PROVE  SettledInv'
<1>0. /\ SchedulerTypeOK /\ phase[e] = "unused" /\ SettledOf(e)
      /\ UNCHANGED <<plan, todo, task, done, outcome, live>>
      /\ phase'[e] = "top" /\ node'[e] = given /\ stored' = given
      /\ completed'[e] = With(given, "completed") /\ failed'[e] = With(given, "failed")
      /\ skipped'[e] = With(given, "skipped") /\ cancelled'[e] = With(given, "cancelled")
      /\ waiting'[e] = With(given, "waiting")
  BY DEF SettledInv, SchedulerTypeOK, Enter, Goto
<1>1. ASSUME NEW d \in Execution, d # e PROVE SameExecution(d)
  BY <1>0, <1>1 DEF Enter, Goto, SameExecution, SchedulerTypeOK
<1>2. cancelled[e] = {} /\ outcome[e] # "cancelled" /\ \A n \in Node : task[e][n] = 0
  BY <1>0 DEF SettledOf
<1>3. NobodyCancelled' => NobodyCancelled
  <2>1. cancelled[e] \subseteq cancelled'[e] /\ outcome'[e] \in {outcome[e], "paused"}
    BY <1>0, <1>2
  <2> QED BY <1>1, <1>2, <2>1, CancelledIsKnown
<1>4. Waited(e)'
  BY <1>0, <1>2 DEF SettledOf, Waited
<1>5. \A n \in Node : /\ n \in completed'[e] <=> given[n].status = "completed"
                      /\ n \in failed'[e] <=> given[n].status = "failed"
                      /\ n \in skipped'[e] <=> given[n].status = "skipped"
                      /\ n \in cancelled'[e] <=> given[n].status = "cancelled"
                      /\ n \in waiting'[e] <=> given[n].status = "waiting"
                      /\ task'[e][n] = 0
  BY <1>0, <1>2 DEF With
<1>6. \A n \in Node : Tracked(e, n)'
  BY <1>0, <1>3, <1>5 DEF Tracked
<1>7. AskedInOrder(node[e])' /\ AskedInOrder(stored)'
  BY <1>0, SamePlan
<1>8. SettledOf(e)'
  BY <1>0, <1>2, <1>4, <1>6, <1>7 DEF SettledOf
<1>9. ASSUME NEW d \in Execution, d # e PROVE SettledOf(d)'
  BY <1>0, <1>1, <1>3, <1>9, SettledSame DEF SettledInv
<1> HIDE DEF SettledOf
<1> QED BY <1>0, <1>3, <1>7, <1>8, <1>9 DEF SettledInv

\* A decision, or a node appended, between two passes of the registered execution.
LEMMA SettledTouched ==
  ASSUME SettledInv, SchedulerTypeOK', ~offGate, ~Busy, NEW e \in Execution,
         UNCHANGED <<plan, stored, phase, todo, cancelled, task, done, outcome, live>>,
         \A d \in Execution : d # e => SameExecution(d),
         e \in Ongoing => AskedInOrder(node'[e]) /\ \A n \in Node : Tracked(e, n)'
  PROVE  SettledInv'
<1>1. Waited(e)'
  BY DEF SettledInv, SettledOf, Waited
<1>2. CASE e \in Ongoing
  <2>1. phase'[e] \notin {"unused", "ended"}
    BY <1>2 DEF Ongoing
  <2> QED BY <1>1, <1>2, <2>1, SettledGoOn
<1>3. CASE e \notin Ongoing
  <2>1. SettledOf(e)'
    BY <1>1, <1>3 DEF SettledInv, SettledOf, Ongoing
  <2>2. NobodyCancelled' <=> NobodyCancelled
    BY DEF NobodyCancelled
  <2>3. ASSUME NEW d \in Execution, d # e PROVE SettledOf(d)'
    BY <2>2, <2>3, SettledSame DEF SettledInv
  <2>4. AskedInOrder(stored)'
    BY SamePlan DEF SettledInv
  <2> HIDE DEF SettledOf
  <2> QED BY <2>1, <2>2, <2>3, <2>4 DEF SettledInv
<1> QED BY <1>2, <1>3

\* The steps of the users and of the executors.
LEMMA SettledOther ==
  ASSUME SettledInv, SchedulerTypeOK', UserStep \/ \E e \in Execution : ExecutorStep(e)
  PROVE  SettledInv'
<1> USE DEF dagCore, dagRegistry, dagSignals, dagHistory
<1> SUFFICES ASSUME ~offGate' PROVE SettledInv'
  BY DEF SettledInv
<1>1. ~offGate
  BY DEF UserStep, ExecutorStep, Execute, Resume, Enter, ResumeInvalid, Pause, CancelPlan, Approve,
     Reject, AppendStored, DecideStored, AppendNode, Finish
<1>0. /\ SchedulerTypeOK /\ node \in [Execution -> States] /\ stored \in States
      /\ live \in [Execution -> SUBSET (Node \X Nat)]
      /\ done \in [Execution -> [Node -> Result \cup {"error", "cancel"}]]
      /\ skipped \in [Execution -> SUBSET Node] /\ failed \in [Execution -> SUBSET Node]
      /\ waiting \in [Execution -> SUBSET Node]
      /\ AskedInOrder(stored)
      /\ NobodyCancelled => \A n \in Node : stored[n].status # "running"
  BY <1>1 DEF SettledInv, SchedulerTypeOK, States
<1>2. active # 0 => active \in Execution
  <2>1. active \in 0..MaxExecutions
    BY <1>0 DEF SchedulerTypeOK
  <2> QED BY <2>1, SchedulerAssumption DEF Execution
<1>3. ASSUME NEW e \in Ongoing
      PROVE  e \in Execution /\ AskedInOrder(node[e]) /\ Waited(e) /\ \A n \in Node : Tracked(e, n)
  <2>1. e \in Execution
    BY DEF Ongoing
  <2> QED BY <1>1, <2>1 DEF SettledInv, SettledOf
<1>4. CASE Execute
  <2>1. 1 \in Execution /\ Submitted(plan) \in States
    BY NewStates, SchedulerAssumption DEF Execution
  <2>2. \A n \in Node : Submitted(plan)[n].status \in {"pending", "absent"}
    BY DEF Submitted, Fresh, Absent
  <2>3. AskedInOrder(Submitted(plan)) /\ \A n \in Node : Submitted(plan)[n].status # "running"
    BY <2>2 DEF AskedInOrder
  <2>4. Enter(1, Submitted(plan))
    BY <1>4 DEF Execute
  <2> QED BY <1>1, <2>1, <2>3, <2>4, SettledEnter
<1>5. ASSUME NEW e \in Execution, Resume(e) PROVE SettledInv'
  <2>1. Enter(e, stored)
    BY <1>5 DEF Resume
  <2> QED BY <1>0, <1>1, <2>1, SettledEnter
<1>6. ASSUME UNCHANGED <<plan, dagCore, stored>> PROVE SettledInv'
  BY <1>0, <1>1, <1>6, SettledQuiet
<1>7. CASE ResumeInvalid \/ Pause \/ \E e \in Execution : CancelPlan(e)
  BY <1>6, <1>7 DEF ResumeInvalid, Pause, CancelPlan
<1>8. ASSUME NEW n \in Node, NEW yes \in BOOLEAN, DecideStored(n, yes) PROVE SettledInv'
  <2>1. /\ UNCHANGED <<plan, dagCore>> /\ stored[n].status = "waiting"
        /\ stored' = [stored EXCEPT ![n] = Decided(stored, n, yes)]
    BY <1>1, <1>8 DEF DecideStored
  <2>2. /\ Decided(stored, n, yes).status \in {"ready", "failed"}
        /\ Decided(stored, n, yes).bare = stored[n].bare
    BY <1>0, DecidedState DEF Decided
  <2>3. \A m \in Node : /\ m # n => stored'[m] = stored[m]
                        /\ m = n => stored'[m] = Decided(stored, n, yes)
    BY <1>0, <2>1 DEF States
  <2>4. \A m \in Node :
          /\ stored'[m].bare = stored[m].bare
          /\ stored'[m].status = IF m = n THEN Decided(stored, n, yes).status ELSE stored[m].status
    BY <2>2, <2>3
  <2>5. AskedInOrder(stored')
    <3> SUFFICES ASSUME NEW m \in Node, stored'[m].status \in {"ready", "waiting"}
                 PROVE  Eligible(stored', m)
      BY DEF AskedInOrder
    <3>1. Eligible(stored, m)
      BY <1>0, <2>1, <2>4 DEF AskedInOrder
    <3>2. \A d \in Node : stored[d].status \in {"completed", "skipped"} => stored'[d].status = stored[d].status
      BY <2>1, <2>4
    <3> QED BY <1>0, <2>4, <3>1, <3>2, TurnStays
  <2>6. \A m \in Node : stored'[m].status = "running" => stored[m].status = "running"
    BY <2>2, <2>4
  <2> QED BY <1>1, <2>1, <2>5, <2>6, SettledQuiet
<1>9. ASSUME NEW n \in Node, AppendStored(n) PROVE SettledInv'
  <2>1. /\ UNCHANGED <<plan, dagCore>> /\ stored[n].status = "absent"
        /\ stored' = [stored EXCEPT ![n] = Fresh(plan, n)]
    BY <1>9 DEF AppendStored, Present
  <2>2. /\ \A m \in Node : m # n => stored'[m] = stored[m]
        /\ stored'[n].status = "pending"
    BY <1>0, <2>1 DEF States, Fresh
  <2>3. AskedInOrder(stored')
    <3> SUFFICES ASSUME NEW m \in Node, stored'[m].status \in {"ready", "waiting"}
                 PROVE  Eligible(stored', m)
      BY DEF AskedInOrder
    <3>1. m # n /\ stored'[m] = stored[m] /\ Eligible(stored, m)
      BY <1>0, <2>2 DEF AskedInOrder
    <3>2. \A d \in Node : stored[d].status \in {"completed", "skipped"} => stored'[d].status = stored[d].status
      BY <2>1, <2>2
    <3> QED BY <1>0, <3>1, <3>2, TurnStays
  <2>4. \A m \in Node : stored'[m].status = "running" => stored[m].status = "running"
    BY <2>2
  <2> QED BY <1>1, <2>1, <2>3, <2>4, SettledQuiet
\* between two awaits an execution under way waits for its tasks or for the user
<1>10. ASSUME ~Busy, NEW e \in Ongoing PROVE phase[e] \in {"wait_task", "wait_user"}
  BY <1>0, <1>10 DEF Busy, Ongoing, SchedulerTypeOK, Passing
<1>11. ASSUME NEW n \in Node, NEW e \in Execution, e = active, Approve(n) PROVE SettledInv'
  <2>1. /\ ~Busy /\ node[e][n].status = "waiting"
        /\ UNCHANGED <<plan, stored, phase, todo, completed, failed, skipped, cancelled, results,
                       task, done, outcome, live>>
        /\ node' = [node EXCEPT ![e][n] = Decided(node[e], n, TRUE)]
        /\ waiting' = [waiting EXCEPT ![e] = @ \ {n}]
    BY <1>1, <1>11 DEF Approve, Decide
  <2> DEFINE old == node[e]
  <2>2. /\ Decided(old, n, TRUE).status = "ready" /\ Decided(old, n, TRUE).bare = old[n].bare
    BY DEF Decided
  <2>3. /\ \A d \in Execution : d # e => SameExecution(d)
        /\ \A m \in Node : node'[e][m] = IF m = n THEN Decided(old, n, TRUE) ELSE old[m]
        /\ waiting'[e] = waiting[e] \ {n}
    BY <1>0, <2>1 DEF States, SameExecution
  <2>4. \A m \in Node : /\ node'[e][m].status = IF m = n THEN "ready" ELSE old[m].status
                        /\ node'[e][m].bare = old[m].bare
    BY <2>2, <2>3
  <2>5. ASSUME e \in Ongoing PROVE AskedInOrder(node'[e])
    <3> SUFFICES ASSUME NEW m \in Node, node'[e][m].status \in {"ready", "waiting"}
                 PROVE  Eligible(node'[e], m)
      BY DEF AskedInOrder
    <3>1. Eligible(old, m)
      BY <1>3, <2>1, <2>4, <2>5 DEF AskedInOrder
    <3>2. \A d \in Node : old[d].status \in {"completed", "skipped"} => node'[e][d].status = old[d].status
      BY <2>1, <2>4
    <3> HIDE DEF old
    <3> QED BY <1>0, <2>4, <3>1, <3>2, TurnStays
  <2>6. ASSUME e \in Ongoing, NEW m \in Node PROVE Tracked(e, m)'
    <3>1. Tracked(e, m) /\ phase[e] \in {"wait_task", "wait_user"}
      BY <1>3, <1>10, <2>1, <2>6
    <3>2. NobodyCancelled' <=> NobodyCancelled
      BY <2>1 DEF NobodyCancelled
    <3>3. m = n => node[e][m].status = "waiting"
      BY <2>1
    <3>4. /\ node'[e][m].status = IF m = n THEN "ready" ELSE node[e][m].status
          /\ m \in waiting'[e] <=> m \in waiting[e] /\ m # n
          /\ UNCHANGED <<phase, completed, failed, skipped, cancelled, task, outcome>>
      BY <2>1, <2>3, <2>4
    <3> QED BY <3>1, <3>2, <3>3, <3>4 DEF Tracked
  <2> HIDE DEF old
  <2> QED BY <1>1, <2>1, <2>3, <2>5, <2>6, SettledTouched
<1>12. ASSUME NEW n \in Node, NEW e \in Execution, e = active, Reject(n) PROVE SettledInv'
  <2> DEFINE old == node[e]
             state == Decided(old, n, FALSE)
             fallen == [old EXCEPT ![n] = state]
             under == Downstream(fallen, n)
             after == SetStatus(fallen, under, "skipped")
  <2>1. /\ ~Busy /\ old[n].status = "waiting"
        /\ UNCHANGED <<plan, stored, phase, todo, completed, cancelled, results,
                       task, done, outcome, live>>
        /\ node' = [node EXCEPT ![e] = after]
        /\ skipped' = [skipped EXCEPT ![e] = @ \cup under]
        /\ waiting' = [waiting EXCEPT ![e] = @ \ {n}]
        /\ failed' = [failed EXCEPT ![e] = @ \cup {n}]
    BY <1>1, <1>12 DEF Reject, Decide
  <2>2. old \in States /\ state \in NodeState /\ state.status = "failed" /\ state.bare = old[n].bare
    BY <1>0, <2>1, DecidedState DEF Decided
  <2> HIDE DEF old, state
  <2>3. \A m \in under : /\ m \in Node /\ m # n /\ old[m].status \in {"pending", "ready"}
                         /\ ~Eligible(old, m)
    BY <1>0, <2>1, <2>2, SkippedUnder
  <2>4. \A m \in Node :
          /\ after[m].status = IF m = n THEN state.status
                               ELSE IF m \in under THEN "skipped" ELSE old[m].status
          /\ after[m].bare = old[m].bare
    <3>1. SchedulerTypeOK /\ old[n].status \notin {"completed", "skipped"}
      BY <1>0, <2>1
    <3> QED BY <2>2, <3>1, NodesAfterFall
  <2> HIDE DEF fallen, under, after
  <2>5. /\ \A d \in Execution : d # e => SameExecution(d)
        /\ node'[e] = after /\ waiting'[e] = waiting[e] \ {n}
        /\ failed'[e] = failed[e] \cup {n}
        /\ skipped'[e] = skipped[e] \cup under
    BY <1>0, <2>1 DEF SameExecution
  <2>6. \A d \in Node : old[d].status \in {"completed", "skipped"} => after[d].status = old[d].status
    BY <2>1, <2>3, <2>4
  <2>7. ASSUME e \in Ongoing PROVE AskedInOrder(node'[e])
    <3> SUFFICES ASSUME NEW m \in Node, after[m].status \in {"ready", "waiting"}
                 PROVE  Eligible(after, m)
      BY <2>5 DEF AskedInOrder
    <3>1. Eligible(old, m)
      BY <1>3, <2>2, <2>4, <2>7 DEF AskedInOrder, old
    <3> QED BY <1>0, <2>4, <2>6, <3>1, TurnStays
  <2>8. ASSUME e \in Ongoing, NEW m \in Node PROVE Tracked(e, m)'
    <3>1. Tracked(e, m) /\ phase[e] \in {"wait_task", "wait_user"}
      BY <1>3, <1>10, <2>1, <2>8
    <3>2. NobodyCancelled' <=> NobodyCancelled
      BY <2>1 DEF NobodyCancelled
    <3>3. /\ m = n => node[e][m].status = "waiting"
          /\ m \in under => m # n /\ node[e][m].status \in {"pending", "ready"}
      BY <2>1, <2>3 DEF old
    <3>4. /\ node'[e][m].status = IF m = n THEN "failed"
                                       ELSE IF m \in under THEN "skipped" ELSE node[e][m].status
          /\ m \in waiting'[e] <=> m \in waiting[e] /\ m # n
          /\ m \in failed'[e] <=> m \in failed[e] \/ m = n
          /\ m \in skipped'[e] <=> m \in skipped[e] \/ m \in under
          /\ UNCHANGED <<phase, completed, cancelled, task, outcome>>
      BY <2>1, <2>2, <2>4, <2>5 DEF old
    <3> QED BY <3>1, <3>2, <3>3, <3>4 DEF Tracked
  <2> QED BY <1>1, <2>1, <2>5, <2>7, <2>8, SettledTouched
<1>13. ASSUME NEW n \in Node, NEW e \in Execution, e = active, NEW raises \in BOOLEAN,
              AppendNode(n, raises)
       PROVE  SettledInv'
  <2>1. /\ ~Busy /\ node[e][n].status = "absent"
        /\ UNCHANGED <<plan, stored, phase, todo, completed, failed, skipped, cancelled, waiting,
                       results, task, done, outcome, live>>
        /\ node' = [node EXCEPT ![e][n] = Fresh(plan, n)]
    BY <1>13 DEF AppendNode, Present
  <2>2. /\ \A d \in Execution : d # e => SameExecution(d)
        /\ \A m \in Node : m # n => node'[e][m] = node[e][m]
        /\ node'[e][n].status = "pending"
    BY <1>0, <2>1 DEF States, SameExecution, Fresh
  <2>3. ASSUME e \in Ongoing PROVE AskedInOrder(node'[e])
    <3> SUFFICES ASSUME NEW m \in Node, node'[e][m].status \in {"ready", "waiting"}
                 PROVE  Eligible(node'[e], m)
      BY DEF AskedInOrder
    <3>1. node'[e][m] = node[e][m] /\ Eligible(node[e], m)
      BY <1>3, <2>2, <2>3 DEF AskedInOrder
    <3>2. \A d \in Node : node[e][d].status \in {"completed", "skipped"} =>
            node'[e][d].status = node[e][d].status
      BY <2>1, <2>2
    <3> QED BY <1>0, <3>1, <3>2, TurnStays
  <2>4. ASSUME e \in Ongoing, NEW m \in Node PROVE Tracked(e, m)'
    <3>1. Tracked(e, m) /\ phase[e] \in {"wait_task", "wait_user"}
      BY <1>3, <1>10, <2>1, <2>4
    <3>2. NobodyCancelled' <=> NobodyCancelled
      BY <2>1 DEF NobodyCancelled
    <3>3. /\ m = n => node[e][m].status = "absent"
          /\ node'[e][m].status = IF m = n THEN "pending" ELSE node[e][m].status
          /\ UNCHANGED <<phase, completed, failed, skipped, cancelled, waiting, task, outcome>>
      BY <2>1, <2>2
    <3> QED BY <3>1, <3>2, <3>3 DEF Tracked
  <2> QED BY <1>1, <2>1, <2>2, <2>3, <2>4, SettledTouched
<1>14. ASSUME NEW e \in Execution, NEW s \in live[e], NEW what \in Outcomes(s[1]),
              Finish(e, s, what)
       PROVE  SettledInv'
  <2>1. /\ ~Busy /\ SettledOf(e) /\ s \in Node \X Nat
        /\ live' = [live EXCEPT ![e] = @ \ {s}]
        /\ UNCHANGED <<plan, stored, phase, todo, node, completed, failed, skipped, cancelled,
                       waiting, results, task, outcome>>
    BY <1>0, <1>1, <1>14 DEF Finish, SettledInv
  <2>2. e \in Ongoing /\ Waited(e) /\ phase[e] \in {"wait_task", "wait_user"}
    <3>1. phase[e] \notin {"unused", "end", "ended"}
      BY <2>1 DEF SettledOf, Waited
    <3>2. e \in Ongoing
      BY <3>1 DEF Ongoing
    <3> QED BY <1>10, <2>1, <3>2 DEF SettledOf
  <2>3. /\ task[e][s[1]] = s[2] /\ s[2] # 0 /\ s[1] \in Node
        /\ done' = [done EXCEPT ![e][s[1]] = what]
    BY <1>14, <2>1, <2>2 DEF Finish, Waited
  <2>4. /\ \A m \in Node : done'[e][m] = IF m = s[1] THEN what ELSE done[e][m]
        /\ live'[e] = live[e] \ {s}
        /\ \A d \in Execution : d # e => SameExecution(d)
    BY <1>0, <2>1, <2>3 DEF SameExecution
  <2>5. \A r \in live'[e] : r \in live[e] /\ r \in Node \X Nat /\ r[1] # s[1]
    <3>1. \A r \in live'[e] : r \in live[e] /\ r # s /\ r \in Node \X Nat /\ task[e][r[1]] = r[2]
      BY <1>0, <2>2, <2>4 DEF Waited
    <3>2. ASSUME NEW r \in Node \X Nat, r[1] = s[1], r[2] = s[2] PROVE r = s
      BY <2>1, <3>2
    <3> QED BY <2>3, <3>1, <3>2
  <2>6. Waited(e)'
    <3>1. \A r \in live'[e] : task'[e][r[1]] = r[2] /\ r[2] # 0 /\ done'[e][r[1]] = "none"
      BY <2>1, <2>2, <2>4, <2>5 DEF Waited
    <3>2. \A m \in Node : done'[e][m] # "none" => task'[e][m] # 0
      BY <2>1, <2>2, <2>3, <2>4 DEF Waited
    <3> QED BY <2>1, <2>2, <3>1, <3>2 DEF Waited
  <2>7. NobodyCancelled' <=> NobodyCancelled
    BY <2>1 DEF NobodyCancelled
  <2>8. ASSUME NEW m \in Node PROVE Tracked(e, m)'
    <3>1. Tracked(e, m)
      BY <1>3, <2>2
    <3> QED BY <2>1, <2>2, <2>7, <3>1 DEF Tracked
  <2>9. AskedInOrder(node'[e])
    BY <1>3, <2>1, <2>2
  <2> QED BY <1>1, <2>1, <2>2, <2>4, <2>6, <2>8, <2>9, SettledGoOn
<1>15. ASSUME NEW n \in Node, Approve(n) \/ Reject(n) \/ \E raises \in BOOLEAN : AppendNode(n, raises)
       PROVE  SettledInv'
  <2>1. active \in Execution
    BY <1>2, <1>15 DEF Approve, Reject, AppendNode
  <2> QED BY <1>11, <1>12, <1>13, <1>15, <2>1
<1> QED BY <1>4, <1>5, <1>7, <1>8, <1>9, <1>14, <1>15 DEF UserStep, ExecutorStep

\* SettledInv is an invariant.
LEMMA SettledHolds ==
  /\ SchedulerInit => SettledInv
  /\ SettledInv /\ [SchedulerNext]_dagVars => SettledInv'
<1>1. SchedulerInit => SettledInv
  <2> SUFFICES ASSUME SchedulerInit PROVE SettledInv
    OBVIOUS
  <2>1. SchedulerTypeOK
    BY InitTypes
  <2>2. \A n \in Node : stored[n].status = "absent"
    BY DEF SchedulerInit, Absent
  <2>3. AskedInOrder(stored)
    BY <2>2 DEF AskedInOrder
  <2>4. ASSUME NEW e \in Execution PROVE SettledOf(e)
    <3>1. /\ live[e] = {} /\ cancelled[e] = {} /\ phase[e] = "unused" /\ outcome[e] = "none"
          /\ \A n \in Node : task[e][n] = 0 /\ done[e][n] = "none"
      BY DEF SchedulerInit
    <3> QED BY <3>1 DEF SettledOf, Waited, Ongoing
  <2> QED BY <2>1, <2>2, <2>3, <2>4 DEF SettledInv
<1>2. ASSUME SettledInv, UNCHANGED dagVars PROVE SettledInv'
  <2> USE <1>2 DEF dagVars, dagRegistry, dagSignals, dagHistory
  <2>1. SchedulerTypeOK'
    BY DEF SettledInv, SchedulerTypeOK, dagCore
  <2>2. CASE offGate
    BY <2>1, <2>2 DEF SettledInv
  <2>3. CASE ~offGate
    <3>1. AskedInOrder(stored') /\ UNCHANGED <<plan, dagCore>>
      BY <2>3 DEF SettledInv
    <3> QED BY <2>1, <2>3, <3>1, SettledQuiet
  <2> QED BY <2>2, <2>3
<1>3. ASSUME SettledInv, SchedulerNext PROVE SettledInv'
  <2>1. SchedulerTypeOK
    BY <1>3 DEF SettledInv
  <2>2. ASSUME NEW e \in Execution, Loop(e) PROVE SettledInv'
    <3>1. SchedulerTypeOK'
      BY <2>1, <2>2, LoopTypes
    <3> QED BY <1>3, <2>2, <3>1, SettledLoop
  <2>3. CASE UserStep \/ \E e \in Execution : ExecutorStep(e)
    <3>1. SchedulerTypeOK'
      BY <2>1, <2>3, OtherTypes
    <3> QED BY <1>3, <2>3, <3>1, SettledOther
  <2> QED BY <1>3, <2>2, <2>3 DEF SchedulerNext
<1> QED BY <1>1, <1>2, <1>3

\* NothingLeftBehind: an execution that returned has no executor at work, as long
\* as decisions met nodes that waited for them.
THEOREM NothingStaysBehind == SchedulerSpec => []NothingLeftBehind
<1>1. SettledInv => NothingLeftBehind
  BY DEF SettledInv, SettledOf, Waited, NothingLeftBehind
<1> QED BY <1>1, SettledHolds, PTL DEF SchedulerSpec

\* CompletedIsSettled: a plan that ends as completed has completed or skipped
\* every node, with the same proviso and when no task was cancelled.
THEOREM CompletedPlansAreSettled == SchedulerSpec => CompletedIsSettled
<1> DEFINE Settled == \A e \in Execution :
             /\ phase[e] = "end" /\ phase'[e] = "ended" /\ outcome'[e] = "completed"
             /\ ~offGate /\ NobodyCancelled
             => \A n \in Present(stored') : stored'[n].status \in {"completed", "skipped"}
<1>1. ASSUME SettledInv, SettledInv', [SchedulerNext]_dagVars PROVE Settled
  <2> SUFFICES ASSUME NEW e \in Execution, phase[e] = "end", phase'[e] = "ended",
                      outcome'[e] = "completed", ~offGate, NobodyCancelled
               PROVE  \A n \in Present(stored') : stored'[n].status \in {"completed", "skipped"}
    OBVIOUS
  <2>1. SchedulerNext
    <3>1. phase' # phase
      OBVIOUS
    <3> QED BY <1>1, <3>1 DEF dagVars, dagCore
  \* nobody else runs while it is in its pass
  <2>2. Busy
    BY DEF Busy, Passing
  <2>3. ~UserStep /\ \A d \in Execution : ~ExecutorStep(d)
    BY <2>2 DEF UserStep, ExecutorStep, Execute, Resume, ResumeInvalid, Pause, CancelPlan, Approve,
       Reject, Decide, AppendStored, DecideStored, AppendNode, Finish
  <2>4. PICK d \in Execution : Loop(d)
    BY <2>1, <2>3 DEF SchedulerNext
  <2>5. SchedulerTypeOK /\ SettledOf(e)
    BY <1>1 DEF SettledInv
  <2>6. d = e
    BY <2>4, <2>5, OthersAlone DEF SameExecution
  <2>7. End(e)
    BY <2>4, <2>6 DEF Loop, Top, Settle, PollUser, WaitReturns, SkipNode, AskApproval, StartNode,
       Succeeded, Failed, TaskCancelled
  <2>8. /\ stored' = node[e] /\ outcome[e] # "paused" /\ failed[e] = {}
    BY <2>5, <2>7 DEF End, Kept, SchedulerTypeOK
  <2>9. \A n \in Node : Tracked(e, n)
    BY <2>5 DEF SettledOf, Ongoing
  <2>10. \A n \in Node : stored'[n].status \in {"absent", "completed", "skipped"}
    BY <2>8, <2>9 DEF Tracked
  <2> QED BY <2>10 DEF Present
<1> HIDE DEF Settled
<1>2. SchedulerSpec => [][Settled]_dagVars
  BY <1>1, SettledHolds, PTL DEF SchedulerSpec
<1>3. Settled <=> \A e \in Execution :
             /\ phase[e] = "end" /\ phase'[e] = "ended" /\ outcome'[e] = "completed"
             /\ ~offGate /\ NobodyCancelled
             => \A n \in Present(stored') : stored'[n].status \in {"completed", "skipped"}
  BY DEF Settled
<1> QED BY <1>2, <1>3, PTL DEF CompletedIsSettled
================================================================================
