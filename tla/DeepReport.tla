------------------------------- MODULE DeepReport --------------------------------
(* One deep research, from the material of the engine to the delivery: draft,    *)
(* verification and one repair; the merge of the accepted claims into the report  *)
(* of the engine and the cards of their evidence, side by side; the writing, its  *)
(* audit, and what is delivered without them.  Each answer of a model is a choice, *)
(* also of everything its parser refuses.  Texts, digits, sources and citations   *)
(* are left out: a claim is a claim, and a paragraph the claims it cites.         *)
EXTENDS Integers, FiniteSets

CONSTANTS
  Claim,
  Sections,       \* of the report of the engine
  PerCall,        \* FUSED_MAX_SECTIONS_PER_CALL
  FusedAttempts   \* FUSED_MAX_ATTEMPTS

ASSUME DeepAssumption == Sections \in Nat \ {0} /\ PerCall \in Nat \ {0} /\ FusedAttempts \in Nat

\* MERGE_MAX_ATTEMPTS and WRITER_MAX_ATTEMPTS; a draft is asked for twice as well
TwoAttempts == 2

VARIABLES
  stage,          \* what is done next
  refusals,       \* refused answers of this step
  sourced,     \* there are pages of the web or local passages
  body,        \* the report of the engine
  candidates,  \* drafted claims
  repaired,
  accepted,    \* what the Verifier accepted as supported
  merge,       \* what became of the merge
  place,       \* its plan
  cards,       \* what became of the cards
  cited,       \* what the paragraphs of the document cite, by section
  next,        \* the section that is written next
  refused,     \* an audit has found this document unsupported
  delivered

deepVars == <<stage, refusals, sourced, body, candidates, repaired, accepted, merge, place, cards,
              cited, next, refused, delivered>>

\* what engine and retrievers find; of a page that gave no text only the title is kept
Lane == {"web", "local", "image", "title"}
Section == 1..Sections
Space == Sections + 1     \* the heading of open questions
LeftOut == Sections + 2   \* left out, in the plan only
Place == 1..LeftOut
Nowhere == 0
DeepStage == {"gather", "draft", "verify", "repair", "prepare", "fused", "fused audit",
          "flat", "flat audit", "over", "raised"}
Nothing == [disposition |-> "none"]
Delivery == [disposition : {"complete", "partial", "no_answer"}, shape : {"fused", "flat", "raw"},
             written : BOOLEAN, body : SUBSET Claim, extra : SUBSET Claim,
             space : SUBSET Claim, dropped : SUBSET Claim]

DeepTypeOK ==
  /\ stage \in DeepStage /\ refusals \in 0..(FusedAttempts + TwoAttempts)
  /\ sourced \in BOOLEAN /\ body \in {"none", "text", "sections"}
  /\ candidates \subseteq Claim /\ accepted \subseteq Claim /\ repaired \in BOOLEAN
  /\ merge \in {"pending", "skipped", "ok", "degraded"}
  /\ cards \in {"pending", "ok", "failed"}
  /\ merge = "ok" => place \in [accepted -> Place \cup {Nowhere}]
  /\ cited \in [Section -> SUBSET Claim] /\ next \in 1..(Sections + PerCall)
  /\ refused \in BOOLEAN /\ delivered \in Delivery \cup {Nothing}

DeepInit ==
  /\ stage = "gather" /\ refusals = 0 /\ sourced = FALSE /\ body = "none"
  /\ candidates = {} /\ accepted = {} /\ repaired = FALSE
  /\ merge = "pending" /\ place = <<>> /\ cards = "pending"
  /\ cited = [s \in Section |-> {}] /\ next = 1 /\ refused = FALSE /\ delivered = Nothing

--------------------------------------------------------------------------------
(* Deliveries.                                                                 *)

HandOver(d) == stage' = "over" /\ delivered' = d
Raw(disposition) ==
  [disposition |-> disposition, shape |-> "raw", written |-> FALSE,
   body |-> {}, extra |-> {}, space |-> {}, dropped |-> {}]
PlacedAt(p) == {c \in accepted : place[c] = p}
Fused(written, claims) ==
  [disposition |-> "complete", shape |-> "fused", written |-> written, body |-> claims,
   extra |-> {}, space |-> PlacedAt(Space), dropped |-> PlacedAt(LeftOut)]
Flat(written, claims, extra) ==
  [disposition |-> "complete", shape |-> "flat", written |-> written, body |-> claims,
   extra |-> extra, space |-> {}, dropped |-> {}]

\* the claims of a document made of the cards: each card brings those of its evidence
\* that no card before it brought, and the rest follow without one
CardDocument == accepted

Raise == stage' = "raised" /\ UNCHANGED delivered

--------------------------------------------------------------------------------
(* Material, draft and verification.                                           *)

\* the engine and the retrievers return, or raise
Gather ==
  /\ stage = "gather"
  /\ \/ \E m \in SUBSET Lane, b \in {"none", "text", "sections"} :
          /\ sourced' = (m \cap {"web", "local"} # {}) /\ body' = b
          /\ IF m = {} /\ b = "none" THEN HandOver(Raw("no_answer"))
             ELSE stage' = "draft" /\ UNCHANGED delivered
     \/ Raise /\ UNCHANGED <<sourced, body>>
  /\ UNCHANGED <<refusals, candidates, repaired, accepted, merge, place, cards, cited, next, refused>>

\* Without claims what the engine wrote is delivered, marked as not verified.  An
\* answer that breaks the contract is asked for once more; the second one raises, and
\* so does the provider.
DraftClaims ==
  /\ stage = "draft"
  /\ \/ \E c \in SUBSET Claim :
          /\ c # {} => sourced
          /\ candidates' = c /\ refusals' = 0
          /\ IF c = {} THEN HandOver(Raw("partial")) ELSE stage' = "verify" /\ UNCHANGED delivered
     \/ /\ refusals + 1 < TwoAttempts
        /\ refusals' = refusals + 1 /\ UNCHANGED <<stage, candidates, delivered>>
     \/ Raise /\ UNCHANGED <<refusals, candidates>>
  /\ UNCHANGED <<sourced, body, repaired, accepted, merge, place, cards, cited, next, refused>>

\* A claim is accepted and supported, accepted in another relation, or not accepted.
VerifyClaims ==
  /\ stage = "verify"
  /\ \/ \E good \in SUBSET candidates, other \in SUBSET candidates :
          /\ good \cap other = {}
          /\ IF good \cup other # candidates /\ ~repaired
             THEN stage' = "repair" /\ UNCHANGED <<accepted, delivered>>
             ELSE /\ accepted' = good
                  /\ IF good = {} THEN HandOver(Raw("partial"))
                     ELSE stage' = "prepare" /\ UNCHANGED delivered
     \/ Raise /\ UNCHANGED accepted
  /\ UNCHANGED <<refusals, sourced, body, candidates, repaired, merge, place, cards, cited, next, refused>>

\* the repair sees the images too
RepairClaims ==
  /\ stage = "repair"
  /\ \/ \E c \in SUBSET Claim :
          candidates' = c /\ repaired' = TRUE /\ stage' = "verify" /\ UNCHANGED delivered
     \/ Raise /\ UNCHANGED <<candidates, repaired>>
  /\ UNCHANGED <<refusals, sourced, body, accepted, merge, place, cards, cited, next, refused>>

--------------------------------------------------------------------------------
(* Merge and cards, in two threads.                                            *)

\* how often a plan names each claim
\* Mutant of PlacesAll: claims that the plan leaves out are not missed.
PlacesAllOrNot(times) == \A c \in accepted : times[c] <= 1
PlacesAll(times) == \A c \in accepted : times[c] = 1
\* of a claim named twice the first place stays; that does not bring one left out
Repeats(times) == \E c \in accepted : times[c] > 1
Once(times) == [c \in accepted |-> IF times[c] > 1 THEN 1 ELSE times[c]]
Planned(where, times) == [c \in accepted |-> IF times[c] = 0 THEN Nowhere ELSE where[c]]

MergeOver(outcome, plan) == merge' = outcome /\ place' = plan /\ refusals' = 0

PlanMerge ==
  /\ stage = "prepare" /\ merge = "pending"
  /\ \/ body # "sections" /\ MergeOver("skipped", <<>>)
     \/ /\ body = "sections"
        /\ \/ \E where \in [accepted -> Place], times \in [accepted -> 0..2] :
                /\ PlacesAll(times) \/ (Repeats(times) /\ PlacesAll(Once(times)))
                /\ MergeOver("ok", Planned(where, times))
           \/ /\ refusals + 1 < TwoAttempts
              /\ refusals' = refusals + 1 /\ UNCHANGED <<merge, place>>
           \/ MergeOver("degraded", <<>>)
  /\ UNCHANGED <<stage, sourced, body, candidates, repaired, accepted, cards, cited, next, refused, delivered>>

Distill ==
  /\ stage = "prepare" /\ cards = "pending"
  /\ cards' \in {"ok", "failed"}
  /\ UNCHANGED <<stage, refusals, sourced, body, candidates, repaired, accepted, merge, place, cited, next,
                 refused, delivered>>

Prepared ==
  /\ stage = "prepare" /\ merge # "pending" /\ cards # "pending"
  /\ stage' = IF merge = "ok" THEN "fused" ELSE "flat"
  /\ UNCHANGED <<refusals, sourced, body, candidates, repaired, accepted, merge, place, cards, cited, next,
                 refused, delivered>>

--------------------------------------------------------------------------------
(* The report of the engine, with the claims woven in.                         *)

Batch == {s \in Section : next <= s /\ s < next + PerCall}
Assigned(s) == {c \in accepted : place[c] = s}
BatchClaims == UNION {Assigned(s) : s \in Batch}
\* Mutant of Woven: claims of the batch that its answer leaves out are not missed.
WovenOrNot(answer) == TRUE
Woven(answer) == UNION {answer[s] : s \in Batch} = BatchClaims

\* What is assembled without a model must be whole too: it raises when a paragraph of
\* the engine, or a claim woven in, is not.  The assembled document itself is replaced.
FusedFallBack ==
  \/ HandOver(Fused(FALSE, CardDocument))
  \/ Raise

\* the sections of a batch; what the parser refuses is asked for again
WriteBatch ==
  /\ stage = "fused" /\ next <= Sections
  /\ \/ \E answer \in [Batch -> SUBSET BatchClaims] :
          /\ Woven(answer)
          /\ cited' = [s \in Section |-> IF s \in Batch THEN answer[s] ELSE cited[s]]
          /\ next' = next + PerCall /\ refusals' = 0 /\ UNCHANGED <<stage, delivered>>
     \/ /\ refusals + 1 < FusedAttempts
        /\ refusals' = refusals + 1 /\ UNCHANGED <<stage, cited, next, delivered>>
     \/ FusedFallBack /\ UNCHANGED <<refusals, cited, next>>
  /\ UNCHANGED <<sourced, body, candidates, repaired, accepted, merge, place, cards, refused>>

\* all sections, each whole
Assemble ==
  /\ stage = "fused" /\ next > Sections
  /\ \/ stage' = "fused audit" /\ UNCHANGED delivered
     \/ FusedFallBack
  /\ UNCHANGED <<refusals, sourced, body, candidates, repaired, accepted, merge, place, cards, cited, next,
                 refused>>

\* An audit that finds a paragraph unsupported is asked for again, as one that cannot
\* be read: the document stays as it is.
AuditFused ==
  /\ stage = "fused audit"
  /\ \/ /\ HandOver(Fused(TRUE, UNION {cited[s] : s \in Section}))
        /\ UNCHANGED <<refusals, refused>>
     \/ /\ refusals + 1 < FusedAttempts /\ refusals' = refusals + 1
        /\ refused' \in {refused, TRUE} /\ UNCHANGED <<stage, delivered>>
     \/ FusedFallBack /\ UNCHANGED <<refusals, refused>>
  /\ UNCHANGED <<sourced, body, candidates, repaired, accepted, merge, place, cards, cited, next>>

--------------------------------------------------------------------------------
(* A report of its own, from the claims.                                       *)

\* Mutant of Enough: the claims a writer may leave out are not counted.
EnoughAlways(claims) == TRUE
Enough(claims) == 2 * Cardinality(accepted \ claims) <= Cardinality(accepted)
Supplement(claims) == accepted \ claims

WriteFlat ==
  /\ stage = "flat"
  /\ \/ \E claims \in SUBSET accepted :
          /\ claims # {} /\ Enough(claims)
          /\ cited' = [s \in Section |-> IF s = 1 THEN claims ELSE {}]
          /\ refused' = FALSE /\ stage' = "flat audit" /\ UNCHANGED <<refusals, delivered>>
     \/ /\ refusals + 1 < TwoAttempts
        /\ refusals' = refusals + 1 /\ UNCHANGED <<stage, cited, refused, delivered>>
     \/ HandOver(Flat(FALSE, CardDocument, {})) /\ UNCHANGED <<refusals, cited, refused>>
  /\ UNCHANGED <<sourced, body, candidates, repaired, accepted, merge, place, cards, next>>

\* a rejected document is written again
\* Mutant of AuditFlat: it is audited again, as the fused one is.
AuditAgain ==
  /\ stage = "flat audit"
  /\ \/ HandOver(Flat(TRUE, cited[1], Supplement(cited[1]))) /\ UNCHANGED <<refusals, refused>>
     \/ /\ refusals + 1 < TwoAttempts /\ refusals' = refusals + 1
        /\ refused' \in {refused, TRUE} /\ UNCHANGED <<stage, delivered>>
     \/ HandOver(Flat(FALSE, CardDocument, {})) /\ UNCHANGED <<refusals, refused>>
  /\ UNCHANGED <<sourced, body, candidates, repaired, accepted, merge, place, cards, cited, next>>
AuditFlat ==
  /\ stage = "flat audit"
  /\ \/ HandOver(Flat(TRUE, cited[1], Supplement(cited[1]))) /\ UNCHANGED <<refusals, refused>>
     \/ /\ refusals + 1 < TwoAttempts /\ refusals' = refusals + 1
        /\ refused' \in {refused, TRUE} /\ stage' = "flat" /\ UNCHANGED delivered
     \/ HandOver(Flat(FALSE, CardDocument, {})) /\ UNCHANGED <<refusals, refused>>
  /\ UNCHANGED <<sourced, body, candidates, repaired, accepted, merge, place, cards, cited, next>>

DeepNext ==
  \/ Gather \/ DraftClaims \/ VerifyClaims \/ RepairClaims
  \/ PlanMerge \/ Distill \/ Prepared
  \/ WriteBatch \/ Assemble \/ AuditFused
  \/ WriteFlat \/ AuditFlat

DeepSpec == DeepInit /\ [][DeepNext]_deepVars

--------------------------------------------------------------------------------
\* However answers are refused, repaired and replaced, a delivered report has each
\* claim that the Verifier accepted and no other: in a paragraph, in the supplement,
\* as an open question, or in the list of the plan that says it was left out, and in
\* one of these only when a model wrote the report.  What no model could write has all
\* of them in paragraphs; a report of its own kind has no paragraph that its audit
\* refused.  Without accepted claims nothing is delivered as verified.
ReportAccountsForClaims ==
  LET d == delivered IN
  /\ d.disposition = "complete" =>
       /\ accepted # {}
       /\ d.body \cup d.extra \cup d.space \cup d.dropped = accepted
       /\ d.written => d.body \cap (d.extra \cup d.space \cup d.dropped) = {}
       /\ ~d.written => d.body = accepted
       /\ d.shape = "flat" /\ d.written => ~refused /\ 2 * Cardinality(d.extra) <= Cardinality(accepted)
  /\ d.disposition \in {"partial", "no_answer"} => accepted = {}
================================================================================
