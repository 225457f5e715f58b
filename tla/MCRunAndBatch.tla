------------------------------- MODULE MCRunAndBatch -------------------------------
(* A run on the ledger, or the batch of a research that one step of a run pays    *)
(* for.  The batch takes the ledger's answers as given (ResearchWorker has its    *)
(* place among the transactions), so one of the two goes on in each behaviour.    *)
EXTENDS MCRunLedger, VerifiedResearch

VARIABLE part   \* what goes on

partVars == <<part, vars, researchVars>>

PartInit ==
  /\ part \in {"ledger", "batch"}
  /\ Init /\ ResearchInit
  /\ part # "batch" => managed

PartNext ==
  /\ UNCHANGED part
  /\ IF part = "ledger" THEN Next ELSE UNCHANGED vars
  /\ IF part = "batch" THEN ResearchNext ELSE UNCHANGED researchVars

PartSpec == PartInit /\ [][PartNext]_partVars
================================================================================
