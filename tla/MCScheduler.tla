------------------------------ MODULE MCScheduler ------------------------------
(* Instances of DAGScheduler.                                                  *)
EXTENDS DAGScheduler

None == [n \in Node |-> {}]

\* 1 -> 2 (gated); a client appends 3 after 1
GatedPlan ==
  [initial |-> {1, 2}, deps |-> [None EXCEPT ![2] = {1}, ![3] = {1}], any |-> {},
   gated |-> {2}, when |-> None, spawns |-> None]
\* 1 -> 2 (if 1 says yes); 3 joins any of 1 and 2
BranchPlan ==
  [initial |-> {1, 2, 3}, deps |-> [None EXCEPT ![2] = {1}, ![3] = {1, 2}], any |-> {3},
   gated |-> {}, when |-> [None EXCEPT ![2] = {1}], spawns |-> None]
\* 1 spawns 3, which needs 2, and 2 is not there unless a client appends it
SpawnPlan ==
  [initial |-> {1}, deps |-> [None EXCEPT ![3] = {2}], any |-> {}, gated |-> {},
   when |-> None, spawns |-> [None EXCEPT ![1] = {3}]]
OnePlan == {GatedPlan}
ThreePlans == {GatedPlan, BranchPlan, SpawnPlan}
================================================================================
