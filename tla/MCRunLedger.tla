------------------------------ MODULE MCRunLedger ------------------------------
(* Instances of RunLedger for TLC.                                             *)
EXTENDS RunLedgerLife

\* One research run: a paid batch, then the local publication.
ResearchPolicy == [s \in Step |-> IF s[2] = 1 THEN "paid_external_unknown"
                                  ELSE "idempotent_local_write"]

\* One paper run: a replayable search, a paid synthesis, the publication.
PaperPolicy == [s \in Step |-> CASE s[2] = 1 -> "replayable_external_read"
                                [] s[2] = 2 -> "paid_external_unknown"
                                [] OTHER    -> "idempotent_local_write"]

\* Runs of one step each: run 1 makes a paid call, run 2 a replayable read.
PairPolicy == [s \in Step |-> IF s[1] = 1 THEN "paid_external_unknown"
                              ELSE "replayable_external_read"]
PaperOnly == [r \in Run |-> "paper"]
Workflows == [r \in Run |-> IF r = 1 THEN "research" ELSE "paper"]
================================================================================
