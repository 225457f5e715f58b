---------------------------- MODULE MCResearchWorker ----------------------------
(* Instances of ResearchWorker for TLC.                                        *)
EXTENDS ResearchWorker

BatchPolicy == [s \in Step |-> IF s[2] = 1 THEN "paid_external_unknown"
                               ELSE "idempotent_local_write"]
OneWorkflow == [r \in Run |-> "research"]
================================================================================
