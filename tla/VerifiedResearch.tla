----------------------------- MODULE VerifiedResearch -----------------------------
(* The batch of a durable research run, as the workflow executes it: the manager *)
(* splits the objective into subquestions, and each is planned, retrieved,       *)
(* drafted, verified, distilled and written.  Every phase leaves a row of        *)
(* step_checkpoints under a digest of its input, which a later execution of the  *)
(* run takes instead of paying again.  Evidence, claims and citations are named  *)
(* by their number, and the digests are made of these names.  An attempt whose   *)
(* lease expired may still be at work when the user has retried the run.         *)
EXTENDS SequencesExt

CONSTANTS
  Question,      \* what a manager may ask; a research without one has a single question
  Passage,       \* passages of the corpus
  Finding,       \* texts of claims
  MaxQuestions,  \* bound: subquestions of a plan (max_subquestions)
  MaxQueries,    \* bound: sets of queries the planner may choose from
  MaxEvidence,   \* EVIDENCE_LIMIT
  MaxClaims,     \* MAX_CANDIDATE_CLAIMS
  MaxBatchTries, \* bound: attempts of the run
  MaxMishaps,    \* bound: executions that break off, fall back or overlap
  MayOverlap     \* bound: whether attempts of a managed research may overlap

ASSUME VerifiedResearchAssumption ==
  /\ Question # {} /\ MaxQuestions \in Nat \ {0} /\ MaxQueries \in Nat \ {0}
  /\ MaxEvidence \in Nat /\ MaxClaims \in Nat
  /\ MaxBatchTries \in Nat /\ MaxMishaps \in Nat /\ MayOverlap \in BOOLEAN

VARIABLES
  managed,     \* the task is managed_research, not verified_research
  stepRows,    \* data of the live rows of step_checkpoints of a phase and digest, oldest first
  newest,      \* phase and digest of the row that was written last, <<>> if it is not live
  batch,       \* what each attempt of the run has in memory
  verified,    \* claims a Verifier accepted, with the passages it named for them
  overlapping, \* an attempt began while an earlier one was at work
  mishaps      \* executions that broke off, fell back or overlapped

researchVars == <<managed, stepRows, newest, batch, verified, overlapping, mishaps>>

Try == 1..MaxBatchTries
Stage == {"idle", "manage", "plan", "retrieve", "claim", "verify", "synthesize", "write",
          "assess", "done", "over"}
Evidence == {e \in SeqOf(Passage, MaxEvidence) : IsInjective(e)}
\* what the Verifier says of a claim: the evidence, and whether it is accepted as supported
Assessment == [cites : (SUBSET (1..MaxEvidence)) \ {{}}, supported : BOOLEAN]
\* by the number of the claim: its text, the passages it cites, what the report says
Result == LET ByClaim(S) == UNION {[K -> S] : K \in SUBSET (1..MaxClaims)} IN
          [claims : ByClaim(Finding), cites : ByClaim(SUBSET Passage), text : ByClaim(Finding)]
NoBatch == [stage |-> "idle", bare |-> FALSE, plan |-> <<>>, query |-> 1, evidence |-> <<>>,
            claims |-> <<>>, assessed |-> <<>>, cards |-> <<>>, results |-> <<>>,
            pending |-> <<>>, disposition |-> "complete"]

ResearchTypeOK ==
  /\ managed \in BOOLEAN /\ overlapping \in BOOLEAN /\ mishaps \in 0..MaxMishaps
  /\ newest = <<>> \/ newest \in DOMAIN stepRows
  /\ verified \subseteq [text : Finding, passages : SUBSET Passage]
  /\ \A a \in Try :
       /\ batch[a].stage \in Stage /\ batch[a].bare \in BOOLEAN
       /\ batch[a].plan \in SeqOf(Question, MaxQuestions) /\ batch[a].query \in 1..MaxQueries
       /\ batch[a].evidence \in Evidence /\ batch[a].claims \in SeqOf(Finding, MaxClaims)
       /\ batch[a].assessed \in Seq(Assessment) /\ batch[a].results \in Seq(Result)
       /\ batch[a].disposition \in {"complete", "partial", "no_answer"}

ResearchInit ==
  /\ managed \in BOOLEAN
  /\ stepRows = <<>> /\ newest = <<>> /\ batch = [a \in Try |-> NoBatch]
  /\ verified = {} /\ overlapping = FALSE /\ mishaps = 0

--------------------------------------------------------------------------------
(* Rows and digests.                                                           *)

Rows(key) == IF key \in DOMAIN stepRows THEN stepRows[key] ELSE <<>>
\* reuse_step_checkpoint: the data of the newest row of the phase and the digest
Reusable(b, key) == IF b.bare \/ Rows(key) = <<>> THEN {} ELSE {Last(Rows(key))}

InStage(a, stage) == batch[a].stage = stage /\ batch[a].pending = <<>>

\* A phase takes the data of the newest row of its digest,
Recovers(a, key, Take(_, _)) ==
  /\ \E data \in Reusable(batch[a], key) : batch' = [batch EXCEPT ![a] = Take(@, data)]
  /\ UNCHANGED <<managed, stepRows, newest, verified, overlapping, mishaps>>

\* or if there is none computes new data, which is then to be recorded.
Computes(a, key, data, Take(_, _)) ==
  LET b == batch[a] IN
  /\ Reusable(b, key) = {}
  /\ batch' = [batch EXCEPT ![a] = [Take(b, data) EXCEPT
       !.pending = IF b.bare THEN <<>> ELSE <<[key |-> key, data |-> data]>>]]
  /\ UNCHANGED <<managed, stepRows, newest, overlapping, mishaps>>

Phase(a, stage, key, outcomes, Take(_, _)) ==
  /\ InStage(a, stage)
  /\ \/ Recovers(a, key, Take)
     \/ \E data \in outcomes : Computes(a, key, data, Take) /\ UNCHANGED verified

\* record_step_checkpoint
RecordRow(a) ==
  /\ batch[a].pending # <<>>
  /\ LET row == batch[a].pending[1] IN
     /\ stepRows' = [key \in DOMAIN stepRows \cup {row.key} |->
                         IF key = row.key THEN Append(Rows(key), row.data) ELSE stepRows[key]]
     /\ newest' = row.key
  /\ batch' = [batch EXCEPT ![a].pending = <<>>]
  /\ UNCHANGED <<managed, verified, overlapping, mishaps>>

--------------------------------------------------------------------------------
(* The phases of one subquestion.                                              *)

Asked(b) == b.plan[Len(b.results) + 1]
Supported(b) == {k \in DOMAIN b.claims : b.assessed[k].supported}
\* what the ids of an assessment mean in the evidence the execution holds
Quoted(b, k) == {b.evidence[n] : n \in b.assessed[k].cites}
\* by number of the claim
AcceptedTexts(b) == [k \in Supported(b) |-> b.claims[k]]
AcceptedCites(b) == [k \in Supported(b) |-> Quoted(b, k)]
\* every accepted claim has a citation for each passage it cites
Citations(b) ==
  Cardinality({c \in Supported(b) \X (1..MaxEvidence) : c[2] \in b.assessed[c[1]].cites})

\* The execution goes on to the next subquestion, or to the end of the batch.
Answered(b, result) ==
  LET all == Append(b.results, result) IN
  [b EXCEPT !.results = all, !.query = 1, !.evidence = <<>>, !.claims = <<>>,
            !.assessed = <<>>, !.cards = <<>>,
            !.stage = IF Len(all) = Len(b.plan) THEN "assess" ELSE "plan"]
NoAnswer(b) == Answered(b, [claims |-> <<>>, cites |-> <<>>, text |-> <<>>])

TakePlan(b, plan) == [b EXCEPT !.plan = plan, !.stage = "plan"]
TakeQueries(b, query) == [b EXCEPT !.query = query, !.stage = "retrieve"]
TakeEvidence(b, evidence) == [b EXCEPT !.evidence = evidence, !.stage = "claim"]
TakeClaims(b, claims) ==
  IF claims = <<>> THEN NoAnswer(b) ELSE [b EXCEPT !.claims = claims, !.stage = "verify"]
\* Mutant of TakeVerified: keeps the claims it has, with the assessments of the row.
TakeAssessments(b, data) ==
  LET claims == [k \in DOMAIN data.claims |->
                   IF k \in DOMAIN b.claims THEN b.claims[k] ELSE data.claims[k]]
      c == [b EXCEPT !.claims = claims, !.assessed = data.assessed, !.stage = "synthesize"] IN
  IF Supported(c) = {} THEN NoAnswer(c) ELSE c
TakeVerified(b, data) ==
  LET c == [b EXCEPT !.claims = data.claims, !.assessed = data.assessed,
                     !.stage = "synthesize"] IN
  IF Supported(c) = {} THEN NoAnswer(c) ELSE c
TakeCards(b, cards) == [b EXCEPT !.cards = cards, !.stage = "write"]
TakeDocument(b, document) ==
  Answered(b, [claims |-> AcceptedTexts(b), cites |-> AcceptedCites(b),
               text |-> IF document = <<>> THEN AcceptedTexts(b) ELSE document])

\* _plan_queries: only verified_research asks a model for other queries
PlanQueries(a) ==
  Phase(a, "plan", <<"plan", Asked(batch[a])>>, IF managed THEN {1} ELSE 1..MaxQueries,
        TakeQueries)

\* Mutant of Retrieve: searches again whatever the rows say.
SearchAgain(a) ==
  /\ InStage(a, "retrieve")
  /\ \E e \in Evidence : batch' = [batch EXCEPT ![a] = TakeEvidence(batch[a], e)]
  /\ UNCHANGED <<managed, stepRows, newest, verified, overlapping, mishaps>>

\* the documents may have changed, and the order of the hits with them
Retrieve(a) ==
  Phase(a, "retrieve", <<"retrieve", Asked(batch[a]), batch[a].query>>, Evidence, TakeEvidence)

\* A claim must cite evidence, so without any there is no claim.
Draftable(b) == IF b.evidence = <<>> THEN {<<>>} ELSE SeqOf(Finding, MaxClaims)

Draft(a) ==
  Phase(a, "claim", <<"claim", Asked(batch[a]), Len(batch[a].evidence)>>, Draftable(batch[a]),
        TakeClaims)

\* What the Verifier says of claims c.
Verdicts(b, c) ==
  [DOMAIN c -> [cites : (SUBSET DOMAIN b.evidence) \ {{}}, supported : BOOLEAN]]
\* the claims that b accepts, each with what it cites
Accepted(b) == {[text |-> b.claims[k], passages |-> Quoted(b, k)] : k \in Supported(b)}

\* One round, or a second one with the claims repaired: any claims the draft may
\* return, and any verdict on them.
Verify(a) ==
  LET b == batch[a]  key == <<"verify", Len(b.claims), Len(b.evidence)>> IN
  /\ InStage(a, "verify")
  /\ \/ Recovers(a, key, TakeVerified)
     \/ \E c \in Draftable(b) : \E v \in Verdicts(b, c) :
          /\ Computes(a, key, [claims |-> c, assessed |-> v], TakeVerified)
          /\ verified' = verified \cup Accepted([b EXCEPT !.claims = c, !.assessed = v])

\* distill_evidence_cards and compose_report_document may fail, and are left out
\* of a managed research; <<>> stands for no cards, or no document.  Bound: they
\* fail only while there may be a mishap.
Composed(b) ==
  IF managed THEN {<<>>}
  ELSE {AcceptedTexts(b)} \cup IF mishaps < MaxMishaps THEN {<<>>} ELSE {}

Synthesize(a) ==
  Phase(a, "synthesize", <<"synthesize", Supported(batch[a]), Citations(batch[a])>>,
        Composed(batch[a]), TakeCards)
Write(a) ==
  Phase(a, "write", <<"write", Asked(batch[a]), Supported(batch[a]), batch[a].cards>>,
        Composed(batch[a]), TakeDocument)

--------------------------------------------------------------------------------
(* The batch.                                                                  *)

Plans == {p \in SeqOf(Question, MaxQuestions) : Len(p) >= 2 /\ IsInjective(p)}

\* the plan of the manager
Manage(a) == Phase(a, "manage", <<"manager_plan">>, Plans, TakePlan)

\* whether the audit of the manager finds a part of the objective not covered
Uncovered(answered) == IF managed /\ answered > 0 THEN BOOLEAN ELSE {FALSE}

\* The manager audits the coverage of the objective; the result of the batch is
\* recorded as a row of its own.  A single research is complete or has no answer.
Return(a) ==
  LET b == batch[a]
      answered == Cardinality({i \in DOMAIN b.results : b.results[i].claims # <<>>}) IN
  /\ InStage(a, "assess")
  /\ \E missing \in Uncovered(answered) :
       LET d == IF answered = 0 THEN "no_answer"
                ELSE IF answered = Len(b.results) /\ ~missing THEN "complete"
                ELSE "partial"
           row == [key |-> <<"batch">>, data |-> d] IN
       batch' = [batch EXCEPT ![a] = [b EXCEPT !.stage = "done", !.disposition = d,
                                               !.pending = <<row>>]]
  /\ UNCHANGED <<managed, stepRows, newest, verified, overlapping, mishaps>>

\* What an execution begins with; bare is one that is given no repository.
Begun(bare) ==
  LET b == [NoBatch EXCEPT !.bare = bare] IN
  IF managed THEN [b EXCEPT !.stage = "manage"]
  ELSE [b EXCEPT !.stage = "plan", !.plan = <<CHOOSE q \in Question : TRUE>>]

Ended == [NoBatch EXCEPT !.stage = "over"]
AtWork(a) == batch[a].stage \notin {"idle", "over"}

Mishap == mishaps < MaxMishaps /\ mishaps' = mishaps + 1

\* The worker of a new attempt begins; that of an earlier one may still be at work,
\* after its lease expired.  No batch is executed if the result of one is recorded.
Start(a) ==
  /\ batch[a].stage = "idle" /\ Rows(<<"batch">>) = <<>>
  /\ \A e \in 1..(a - 1) : batch[e].stage # "idle"
  /\ batch' = [batch EXCEPT ![a] = Begun(FALSE)]
  /\ IF \E e \in 1..(a - 1) : AtWork(e)
     THEN (managed => MayOverlap) /\ Mishap /\ overlapping' = TRUE
     ELSE UNCHANGED <<overlapping, mishaps>>
  /\ UNCHANGED <<managed, stepRows, newest, verified>>

\* _assess_coverage is called: some subquestion has verified claims
Audited(b) == managed /\ b.stage = "assess" /\ \E i \in DOMAIN b.results : b.results[i].claims # <<>>

\* The draft, the verdict or the audit is malformed in a way that raises a TypeError:
\* the adapter takes it for an executor of fewer parameters and calls that one.
FallBack(a) ==
  LET b == batch[a] IN
  /\ ~b.bare /\ b.pending = <<>> /\ (b.stage \in {"claim", "verify"} \/ Audited(b))
  /\ Mishap
  /\ batch' = [batch EXCEPT ![a] = Begun(TRUE)]
  /\ UNCHANGED <<managed, stepRows, newest, verified, overlapping>>

\* Any other exception of the newest attempt: the outcome of the batch is unknown,
\* and so is that of the row written last (mark_step_checkpoints_unknown_outcome).
Fail(a) ==
  /\ AtWork(a) /\ batch[a].pending = <<>>
  /\ \A e \in Try : e > a => batch[e].stage = "idle"
  /\ Mishap
  /\ batch' = [batch EXCEPT ![a] = Ended]
  /\ stepRows' = IF newest = <<>> THEN stepRows
                   ELSE [stepRows EXCEPT ![newest] = Front(@)]
  /\ newest' = <<>>
  /\ UNCHANGED <<managed, verified, overlapping>>

\* The worker dies, or raises after it lost its lease: it marks nothing.
Crash(a) ==
  /\ AtWork(a)
  /\ Mishap
  /\ batch' = [batch EXCEPT ![a] = Ended]
  /\ UNCHANGED <<managed, stepRows, newest, verified, overlapping>>

ResearchNext ==
  \E a \in Try :
    \/ Start(a) \/ Manage(a) \/ PlanQueries(a) \/ Retrieve(a) \/ Draft(a) \/ Verify(a)
    \/ Synthesize(a) \/ Write(a) \/ Return(a) \/ RecordRow(a)
    \/ FallBack(a) \/ Fail(a) \/ Crash(a)

ResearchSpec == ResearchInit /\ [][ResearchNext]_researchVars

--------------------------------------------------------------------------------
(* Properties.                                                                 *)

Results(a) == {batch[a].results[i] : i \in DOMAIN batch[a].results}
Cited(r) == \A k \in DOMAIN r.claims :
              [text |-> r.claims[k], passages |-> r.cites[k]] \in verified

\* Whatever rows an execution takes over, also those of another question or of an
\* attempt that is still at work, a claim it delivers is one that the Verifier
\* accepted as supported in this run.
OnlyAcceptedClaimsDelivered ==
  \A a \in Try : \A r \in Results(a) : \A k \in DOMAIN r.claims :
    \E v \in verified : v.text = r.claims[k]

\* The attempts of a research without a manager that never overlap deliver each
\* claim with the passages for which the Verifier accepted it, and a report of
\* just these claims, however often a phase failed, was marked unknown or crashed.
SoleAttemptCitesItsEvidence ==
  ~managed /\ ~overlapping =>
    \A a \in Try : \A r \in Results(a) : Cited(r) /\ r.text = r.claims

\* managed_research.py:269 "Each subquestion is independently retrieved and
\* verified": what a subquestion cites for a claim is what its Verifier saw.
SubquestionsVerifiedIndependently ==
  managed => \A a \in Try : \A r \in Results(a) : Cited(r)
================================================================================
