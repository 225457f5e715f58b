------------------------------ MODULE KnowledgeProofs ------------------------------
(* Theorems about what the program knows and tells: its skills, the report of a  *)
(* deep research, its memories, its library and the notes of its documents, for  *)
(* any sets of skills, claims, places, documents and calls.                      *)
EXTENDS SkillRegistry, DeepReport, MemoryStore, Library, NoteRevisions, FiniteSetTheorems,
        SequenceTheorems, WellFoundedInduction, TLAPS

--------------------------------------------------------------------------------
(* Skills.                                                                     *)

SkillInv == SkillTypeOK /\ SkillFollowsHistory

\* A registration writes the row of the skill and that of its version alike.
LEMMA RegisteredSkill ==
  ASSUME SkillInv, NEW s \in Skill, NEW v, NEW def \in Definition \cup {Unrecorded},
         NEW status \in {"active", "disabled"}, NEW builtin \in BOOLEAN,
         RegisterSkill(s, v, def, status, builtin)
  PROVE  SkillInv'
<1>1. /\ v \in Version
      /\ skill' = [skill EXCEPT ![s] =
                     [version |-> v, is |-> def, status |-> status, builtin |-> builtin]]
      /\ snapshot' = [snapshot EXCEPT ![s][v] = def]
  BY DEF RegisterSkill, Recorded
<1>2. SkillTypeOK'
  <2>1. [version |-> v, is |-> def, status |-> status, builtin |-> builtin] \in
          [version : 0..MaxVersion, is : Definition \cup {Unrecorded},
           status : {"none", "active", "disabled"}, builtin : BOOLEAN]
    BY <1>1 DEF Version
  <2> QED BY <1>1, <2>1 DEF SkillInv, SkillTypeOK
<1>3. skill'[s].is = def /\ skill'[s].version = v /\ snapshot'[s][v] = def
  BY <1>1 DEF SkillInv, SkillTypeOK
<1>4. \A r \in Skill : r # s => skill'[r] = skill[r] /\ snapshot'[r] = snapshot[r]
  BY <1>1 DEF SkillInv, SkillTypeOK
<1> QED BY <1>2, <1>3, <1>4 DEF SkillInv, SkillFollowsHistory, Known

\* A start installs what was shipped and leaves the records there are.
LEMMA InstalledSkills ==
  ASSUME SkillInv, InitBuiltins
  PROVE  SkillInv'
<1>1. 1 \in Version /\ 1 \in 0..MaxVersion /\ Shipped \in Definition
  BY SkillAssumption DEF Version
<1>2. \A s \in Skill : skill'[s] = IF s \in Builtin THEN Reinstalled(s) ELSE skill[s]
  BY DEF InitBuiltins
<1>3. \A s \in Skill : /\ Reinstalled(s).is = Shipped /\ Reinstalled(s).version = 1
                       /\ Reinstalled(s) \in [version : 0..MaxVersion, is : Definition \cup {Unrecorded},
                            status : {"none", "active", "disabled"}, builtin : BOOLEAN]
  BY <1>1 DEF Reinstalled, SkillInv, SkillTypeOK
<1>4. \A s \in Skill : s \notin Builtin => snapshot'[s] = snapshot[s]
  BY DEF InitBuiltins
<1>5. SkillTypeOK'
  BY <1>1, <1>3 DEF InitBuiltins, SkillInv, SkillTypeOK
<1> QED BY <1>2, <1>3, <1>4, <1>5 DEF SkillInv, SkillFollowsHistory, Known

\* Every skill keeps its types and its history.
LEMMA SkillsTold == SkillSpec => []SkillInv
<1>1. SkillInit => SkillInv
  <2> SUFFICES ASSUME SkillInit PROVE SkillInv
    OBVIOUS
  <2>1. 1 \in Version /\ 1 \in 0..MaxVersion /\ 0 \in 0..MaxVersion /\ Shipped \in Definition
    BY SkillAssumption DEF Version
  <2>2. SkillTypeOK
    BY <2>1 DEF SkillInit, SkillTypeOK, NoSkill
  <2>3. SkillFollowsHistory
    BY <2>1 DEF SkillInit, SkillFollowsHistory, Known, NoSkill
  <2> QED BY <2>2, <2>3 DEF SkillInv
<1>2. SkillInv /\ [SkillNext]_skillVars => SkillInv'
  <2> SUFFICES ASSUME SkillInv, [SkillNext]_skillVars PROVE SkillInv'
    OBVIOUS
  <2>0. /\ \A s \in Skill : /\ Known(s) => skill[s].status \in {"active", "disabled"}
                            /\ skill[s].builtin \in BOOLEAN
        /\ \A s \in Skill, v \in Version : snapshot[s][v] \in Definition \cup {Unrecorded}
    BY DEF SkillInv, SkillTypeOK, Known
  <2>1. CASE InitBuiltins
    BY <2>1, InstalledSkills
  <2>2. ASSUME NEW s \in Skill, NEW def \in Definition,
               \/ UpdateSkillBudget(s, def)
               \/ \E v \in Version : UpdateSkillSchema(s, v, def)
        PROVE  SkillInv'
    <3>1. PICK v \in Version : RegisterSkill(s, v, def, skill[s].status, skill[s].builtin) /\ Known(s)
      BY <2>2 DEF UpdateSkillBudget, UpdateSkillSchema, RegisterSkill
    <3> QED BY <2>0, <3>1, RegisteredSkill
  <2>3. ASSUME NEW s \in Skill, NEW def \in Definition, NEW v \in Version,
               NEW status \in {"active", "disabled"}, NEW builtin \in BOOLEAN,
               RegisterSkill(s, v, def, status, builtin)
        PROVE  SkillInv'
    BY <2>3, RegisteredSkill
  <2>4. ASSUME NEW s \in Skill, NEW v \in Version, RollbackSkill(s, v) PROVE SkillInv'
    <3>1. RegisterSkill(s, v, snapshot[s][v], "active", FALSE)
      BY <2>4 DEF RollbackSkill
    <3> QED BY <2>0, <3>1, RegisteredSkill
  <2>5. ASSUME NEW s \in Skill, DisableSkill(s) PROVE SkillInv'
    BY <2>5, SMTT(30) DEF DisableSkill, SkillInv, SkillTypeOK, SkillFollowsHistory, Known
  <2>6. CASE UNCHANGED skillVars
    BY <2>6 DEF skillVars, SkillInv, SkillTypeOK, SkillFollowsHistory, Known
  <2> QED BY <2>1, <2>2, <2>3, <2>4, <2>5, <2>6 DEF SkillNext
<1> QED BY <1>1, <1>2, PTL DEF SkillSpec

\* The versions and the definitions of a skill stay within their sets.
THEOREM SkillTypeCorrect == SkillSpec => []SkillTypeOK
<1>1. SkillInv => SkillTypeOK
  BY DEF SkillInv
<1> QED BY <1>1, SkillsTold, PTL

\* SkillFollowsHistory: what a skill is, its version has on record, or it is what
\* was shipped.
THEOREM SkillsFollowHistory == SkillSpec => []SkillFollowsHistory
<1>1. SkillInv => SkillFollowsHistory
  BY DEF SkillInv
<1> QED BY <1>1, SkillsTold, PTL

--------------------------------------------------------------------------------
(* The report of a deep research.                                              *)

InReport == {"prepare", "fused", "fused audit", "flat", "flat audit"}

\* Claims whose place in the plan is a section before this one.
PlacedBefore(s) == {c \in accepted : place[c] \in Section /\ place[c] < s}

\* What is known of the claims at each stage.
ClaimsInHand ==
  /\ stage # "over" => delivered = Nothing
  /\ stage \in {"gather", "draft", "verify", "repair"} => accepted = {} /\ merge = "pending"
  /\ stage \in {"gather", "draft", "verify", "repair", "prepare"} =>
       next = 1 /\ \A s \in Section : cited[s] = {}
  /\ stage \in InReport => accepted # {}
  /\ merge = "ok" => place \in [accepted -> Place]
  /\ stage \in {"fused", "fused audit"} => merge = "ok"
  /\ stage = "fused" => UNION {cited[s] : s \in Section} = PlacedBefore(next)
                        /\ \A s \in Section : s >= next => cited[s] = {}
  /\ stage = "fused audit" => UNION {cited[s] : s \in Section} = PlacedBefore(Sections + 1)
  /\ stage = "flat audit" => cited[1] \subseteq accepted /\ Enough(cited[1]) /\ ~refused

DeepInv == DeepTypeOK /\ ClaimsInHand /\ ReportAccountsForClaims

\* The sections of the plan, and what is not one of them.
LEMMA PlanPlaces ==
  /\ Section \subseteq Place /\ Space \in Place /\ LeftOut \in Place /\ 1 \in Section
  /\ \A p \in Place : p \in Section \/ p = Space \/ p = LeftOut
  /\ Space \notin Section /\ LeftOut \notin Section /\ Space # LeftOut
  /\ \A p \in Section : p < Sections + 1
BY DeepAssumption DEF Section, Place, Space, LeftOut

\* Every delivery of accepted claims is a delivery.
LEMMA Deliverable ==
  ASSUME accepted \subseteq Claim, NEW written \in BOOLEAN, NEW claims \in SUBSET accepted,
         NEW extra \in SUBSET accepted
  PROVE  /\ Raw("partial") \in Delivery /\ Raw("no_answer") \in Delivery
         /\ Fused(written, claims) \in Delivery /\ Flat(written, claims, extra) \in Delivery
<1>1. PlacedAt(Space) \subseteq Claim /\ PlacedAt(LeftOut) \subseteq Claim
  BY DEF PlacedAt
<1> QED BY <1>1 DEF Raw, Fused, Flat, Delivery

\* A document that no model wrote has the accepted claims in paragraphs.
LEMMA CardsDelivered ==
  ASSUME DeepInv, stage \in InReport, UNCHANGED <<accepted, place, merge>>,
         \/ HandOver(Fused(FALSE, CardDocument))
         \/ HandOver(Flat(FALSE, CardDocument, {}))
  PROVE  /\ stage' = "over" /\ delivered' \in Delivery
         /\ ReportAccountsForClaims'
<1>1. accepted \subseteq Claim /\ accepted # {}
  BY DEF DeepInv, DeepTypeOK, ClaimsInHand
<1>2. PlacedAt(Space) \subseteq accepted /\ PlacedAt(LeftOut) \subseteq accepted
  BY DEF PlacedAt
<1>3. delivered' \in Delivery
  BY <1>1, Deliverable DEF HandOver, CardDocument
<1>4. CASE HandOver(Fused(FALSE, CardDocument))
  BY <1>1, <1>2, <1>3, <1>4 DEF HandOver, Fused, CardDocument, ReportAccountsForClaims
<1>5. CASE HandOver(Flat(FALSE, CardDocument, {}))
  BY <1>1, <1>3, <1>5 DEF HandOver, Flat, CardDocument, ReportAccountsForClaims
<1> QED BY <1>3, <1>4, <1>5 DEF HandOver

\* Material, draft, verification and repair: nothing is accepted before the end of it.
LEMMA DeepVerification ==
  ASSUME DeepInv, Gather \/ DraftClaims \/ VerifyClaims \/ RepairClaims
  PROVE  DeepInv'
<1>0. /\ DeepTypeOK /\ delivered = Nothing /\ accepted = {} /\ merge = "pending"
      /\ stage \in {"gather", "draft", "verify", "repair"}
      /\ next = 1 /\ \A s \in Section : cited[s] = {}
  BY DEF DeepInv, ClaimsInHand, Gather, DraftClaims, VerifyClaims, RepairClaims
<1>1. /\ Raw("partial") \in Delivery /\ Raw("no_answer") \in Delivery
      /\ Raw("partial").disposition = "partial" /\ Raw("no_answer").disposition = "no_answer"
  BY DEF Raw, Delivery
<1> USE DEF DeepTypeOK, DeepStage, HandOver, Raise, Nothing
\* nothing is accepted yet, and nothing is delivered or nothing was verified
<1>2. ASSUME DeepTypeOK', accepted' = {}, UNCHANGED merge,
             stage' \in {"gather", "draft", "verify", "repair", "over", "raised"},
             UNCHANGED <<cited, next>>,
             \/ stage' # "over" /\ delivered' = Nothing
             \/ stage' = "over" /\ delivered' \in {Raw("partial"), Raw("no_answer")}
      PROVE  DeepInv'
  <2>1. ClaimsInHand'
    BY <1>0, <1>2 DEF ClaimsInHand, InReport
  <2>2. delivered'.disposition \in {"none", "partial", "no_answer"}
    <3>1. delivered' \in {Nothing, Raw("partial"), Raw("no_answer")}
      BY <1>2
    <3> QED BY <1>1, <3>1
  <2>3. ReportAccountsForClaims'
    BY <1>2, <2>2 DEF ReportAccountsForClaims
  <2> QED BY <1>2, <2>1, <2>3 DEF DeepInv
<1>3. CASE Gather
  <2>1. /\ accepted' = accepted /\ merge' = merge /\ stage' \in {"draft", "over", "raised"}
        /\ \/ stage' # "over" /\ delivered' = Nothing
           \/ stage' = "over" /\ delivered' = Raw("no_answer")
    BY <1>0, <1>3 DEF Gather
  <2>2. sourced' \in BOOLEAN /\ body' \in {"none", "text", "sections"}
    BY <1>0, <1>3 DEF Gather
  <2>3. DeepTypeOK'
    BY <1>0, <1>1, <1>3, <2>1, <2>2 DEF Gather
  <2> QED BY <1>0, <1>2, <1>3, <2>1, <2>3 DEF Gather
<1>4. CASE DraftClaims
  <2>1. /\ accepted' = accepted /\ merge' = merge /\ stage' \in {"draft", "verify", "over", "raised"}
        /\ \/ stage' # "over" /\ delivered' = Nothing
           \/ stage' = "over" /\ delivered' = Raw("partial")
    BY <1>0, <1>4 DEF DraftClaims
  <2>2. refusals' \in 0..(FusedAttempts + TwoAttempts) /\ candidates' \subseteq Claim
    BY <1>0, <1>4, DeepAssumption DEF DraftClaims, TwoAttempts
  <2>3. DeepTypeOK'
    BY <1>0, <1>1, <1>4, <2>1, <2>2 DEF DraftClaims
  <2> QED BY <1>0, <1>2, <1>4, <2>1, <2>3 DEF DraftClaims
<1>5. CASE VerifyClaims
  <2>1. CASE stage' = "prepare"
    <3>1. accepted' # {} /\ accepted' \subseteq Claim /\ delivered' = Nothing
      BY <1>0, <1>5, <2>1 DEF VerifyClaims
    <3>2. DeepTypeOK'
      BY <1>0, <1>5, <2>1, <3>1 DEF VerifyClaims
    <3>3. ClaimsInHand'
      BY <1>0, <1>5, <2>1, <3>1 DEF ClaimsInHand, VerifyClaims, InReport
    <3>4. ReportAccountsForClaims'
      BY <3>1 DEF ReportAccountsForClaims
    <3> QED BY <3>2, <3>3, <3>4 DEF DeepInv
  <2>2. CASE stage' # "prepare"
    <3>1. /\ accepted' = {} /\ merge' = merge /\ stage' \in {"repair", "over", "raised"}
          /\ \/ stage' # "over" /\ delivered' = Nothing
             \/ stage' = "over" /\ delivered' = Raw("partial")
      BY <1>0, <1>5, <2>2 DEF VerifyClaims
    <3>2. DeepTypeOK'
      BY <1>0, <1>1, <1>5, <3>1 DEF VerifyClaims
    <3> QED BY <1>2, <1>5, <3>1, <3>2 DEF VerifyClaims
  <2> QED BY <2>1, <2>2
<1>6. CASE RepairClaims
  <2>1. /\ accepted' = accepted /\ merge' = merge /\ stage' \in {"verify", "raised"}
        /\ delivered' = Nothing
    BY <1>0, <1>6 DEF RepairClaims
  <2>2. candidates' \subseteq Claim /\ repaired' \in BOOLEAN
    BY <1>0, <1>6 DEF RepairClaims
  <2>3. DeepTypeOK'
    BY <1>0, <1>6, <2>1, <2>2 DEF RepairClaims
  <2> QED BY <1>0, <1>2, <1>6, <2>1, <2>3 DEF RepairClaims
<1> QED BY <1>3, <1>4, <1>5, <1>6

\* The merge and the cards.
LEMMA DeepPreparation ==
  ASSUME DeepInv, PlanMerge \/ Distill \/ Prepared
  PROVE  DeepInv'
<1>0. /\ DeepTypeOK /\ delivered = Nothing /\ accepted # {} /\ stage = "prepare"
      /\ merge = "ok" => place \in [accepted -> Place]
  BY DEF DeepInv, ClaimsInHand, PlanMerge, Distill, Prepared, InReport
<1> USE DEF DeepTypeOK, DeepStage, Nothing
<1>1. ASSUME DeepTypeOK', UNCHANGED <<stage, accepted, cited, next, delivered>>,
             merge' = "ok" => place' \in [accepted -> Place]
      PROVE  DeepInv'
  <2>1. ClaimsInHand'
    BY <1>0, <1>1 DEF DeepInv, ClaimsInHand, InReport
  <2>2. ReportAccountsForClaims'
    BY <1>0, <1>1 DEF ReportAccountsForClaims
  <2> QED BY <1>1, <2>1, <2>2 DEF DeepInv
<1>2. CASE PlanMerge
  <2>1. ASSUME NEW where \in [accepted -> Place], NEW times \in [accepted -> 0..2],
               PlacesAll(times) \/ (Repeats(times) /\ PlacesAll(Once(times)))
        PROVE  Planned(where, times) \in [accepted -> Place]
    <3>1. \A c \in accepted : times[c] # 0
      BY <2>1 DEF PlacesAll, Once
    <3> QED BY <3>1 DEF Planned
  <2>2. merge' = "ok" => place' \in [accepted -> Place]
    BY <1>0, <1>2, <2>1 DEF PlanMerge, MergeOver
  <2>3. /\ refusals' \in 0..(FusedAttempts + TwoAttempts)
        /\ merge' \in {"pending", "skipped", "ok", "degraded"}
    BY <1>0, <1>2, DeepAssumption DEF PlanMerge, MergeOver, TwoAttempts
  <2>4. DeepTypeOK'
    BY <1>0, <1>2, <2>2, <2>3 DEF PlanMerge
  <2> QED BY <1>1, <1>2, <2>2, <2>4 DEF PlanMerge
<1>3. CASE Distill
  <2>1. DeepTypeOK'
    BY <1>0, <1>3 DEF Distill
  <2> QED BY <1>0, <1>1, <1>3, <2>1 DEF Distill
<1>4. CASE Prepared
  <2>1. DeepTypeOK'
    BY <1>0, <1>4 DEF Prepared
  <2>2. /\ stage' = IF merge = "ok" THEN "fused" ELSE "flat"
        /\ UNCHANGED <<accepted, merge, place, cited, next, delivered>>
    BY <1>4 DEF Prepared
  <2>3. stage' = "fused" => merge = "ok"
    BY <2>2
  <2>4. next' = 1 /\ \A s \in Section : cited'[s] = {}
    BY <1>0, <2>2 DEF DeepInv, ClaimsInHand
  <2>5. PlacedBefore(next)' = {} /\ UNION {cited'[s] : s \in Section} = {}
    BY <2>4 DEF PlacedBefore, Section
  <2>6. ClaimsInHand'
    BY <1>0, <2>2, <2>4, <2>5 DEF ClaimsInHand, InReport
  <2>7. ReportAccountsForClaims'
    BY <1>0, <2>2 DEF ReportAccountsForClaims
  <2> QED BY <2>1, <2>6, <2>7 DEF DeepInv
<1> QED BY <1>2, <1>3, <1>4

\* The report of the engine with the claims woven in: a batch cites the claims that
\* are placed in its sections, so after the last one every claim placed in a section
\* is cited.
LEMMA BatchWritten ==
  ASSUME DeepInv, stage = "fused", next <= Sections, NEW answer \in [Batch -> SUBSET BatchClaims],
         Woven(answer), UNCHANGED <<accepted, place>>, next' = next + PerCall,
         cited' = [s \in Section |-> IF s \in Batch THEN answer[s] ELSE cited[s]]
  PROVE  /\ UNION {cited'[s] : s \in Section} = PlacedBefore(next)'
         /\ \A s \in Section : s >= next' => cited'[s] = {}
<1>0. /\ DeepTypeOK /\ place \in [accepted -> Place] /\ next \in Nat /\ PerCall \in Nat
      /\ UNION {cited[s] : s \in Section} = PlacedBefore(next)
      /\ \A s \in Section : s >= next => cited[s] = {}
  BY DeepAssumption DEF DeepInv, ClaimsInHand, DeepTypeOK
<1>1. /\ \A s \in Section : s \in Nat /\ (s \in Batch <=> next <= s /\ s < next + PerCall)
      /\ Batch \subseteq Section
  BY DEF Batch, Section
<1>2. \A c : c \in PlacedBefore(next)' <=>
               c \in accepted /\ place[c] \in Section /\ place[c] < next + PerCall
  BY DEF PlacedBefore
<1>3. \A c : c \in BatchClaims <=> c \in accepted /\ place[c] \in Batch
  BY DEF BatchClaims, Assigned
<1>4. ASSUME NEW s \in Section, NEW c \in cited'[s] PROVE c \in PlacedBefore(next)'
  <2>1. CASE s \in Batch
    BY <1>1, <1>2, <1>3, <1>4, <2>1
  <2>2. CASE s \notin Batch
    <3>1. c \in PlacedBefore(next)
      BY <1>0, <1>4, <2>2
    <3> QED BY <1>0, <1>1, <1>2, <3>1 DEF PlacedBefore
  <2> QED BY <2>1, <2>2
<1>5. ASSUME NEW c \in PlacedBefore(next)' PROVE \E s \in Section : c \in cited'[s]
  <2>1. c \in accepted /\ place[c] \in Section /\ place[c] < next + PerCall
    BY <1>2
  <2>2. CASE place[c] < next
    <3>1. c \in PlacedBefore(next)
      BY <2>1, <2>2 DEF PlacedBefore
    <3>2. PICK s \in Section : c \in cited[s]
      BY <1>0, <3>1
    <3>3. s \notin Batch
      BY <1>0, <1>1, <3>2
    <3> QED BY <3>2, <3>3
  <2>3. CASE ~(place[c] < next)
    <3>1. c \in BatchClaims
      BY <1>0, <1>1, <1>3, <2>1, <2>3
    <3>2. PICK s \in Batch : c \in answer[s]
      BY <3>1 DEF Woven
    <3> QED BY <1>1, <3>2
  <2> QED BY <2>2, <2>3
<1>6. ASSUME NEW s \in Section, s >= next' PROVE cited'[s] = {}
  <2>1. s \notin Batch /\ s >= next
    BY <1>0, <1>1, <1>6
  <2> QED BY <1>0, <2>1
<1> QED BY <1>4, <1>5, <1>6

\* The writing of that report and its audit.
LEMMA DeepFused ==
  ASSUME DeepInv, WriteBatch \/ Assemble \/ AuditFused
  PROVE  DeepInv'
<1>0. /\ DeepTypeOK /\ delivered = Nothing /\ accepted # {} /\ accepted \subseteq Claim
      /\ merge = "ok" /\ place \in [accepted -> Place]
      /\ stage \in {"fused", "fused audit"} /\ stage \in InReport
      /\ UNCHANGED <<accepted, merge, place, cards, candidates, repaired, sourced, body>>
  BY DEF DeepInv, ClaimsInHand, DeepTypeOK, WriteBatch, Assemble, AuditFused, InReport
<1>1. refusals' \in 0..(FusedAttempts + TwoAttempts) /\ refused' \in BOOLEAN
  <2>1. refusals \in 0..(FusedAttempts + TwoAttempts) /\ refused \in BOOLEAN
    BY <1>0 DEF DeepTypeOK
  <2>2. refused' \in BOOLEAN
    BY <2>1 DEF WriteBatch, Assemble, AuditFused
  <2>3. \/ refusals' \in {0, refusals}
        \/ refusals + 1 < FusedAttempts /\ refusals' = refusals + 1
    BY DEF WriteBatch, Assemble, AuditFused
  <2>4. refusals' \in 0..(FusedAttempts + 2)
    BY <2>1, <2>3, DeepAssumption DEF TwoAttempts
  <2> QED BY <2>2, <2>4 DEF TwoAttempts
<1>2. next' \in 1..(Sections + PerCall) /\ cited' \in [Section -> SUBSET Claim]
  <2>1. CASE UNCHANGED <<cited, next>>
    BY <1>0, <2>1 DEF DeepTypeOK
  <2>2. ASSUME next <= Sections, next' = next + PerCall, NEW answer \in [Batch -> SUBSET BatchClaims],
               cited' = [s \in Section |-> IF s \in Batch THEN answer[s] ELSE cited[s]]
        PROVE  next' \in 1..(Sections + PerCall) /\ cited' \in [Section -> SUBSET Claim]
    <3>1. BatchClaims \subseteq Claim
      BY <1>0 DEF BatchClaims, Assigned
    <3>2. cited \in [Section -> SUBSET Claim] /\ next \in 1..(Sections + PerCall)
      BY <1>0 DEF DeepTypeOK
    <3>3. next' \in 1..(Sections + PerCall)
      BY <2>2, <3>2, DeepAssumption
    <3>4. cited' \in [Section -> SUBSET Claim]
      BY <2>2, <3>1, <3>2
    <3> QED BY <3>3, <3>4
  <2> QED BY <2>1, <2>2 DEF WriteBatch, Assemble, AuditFused
<1>3. ASSUME stage' \in DeepStage, delivered' \in Delivery \cup {Nothing} PROVE DeepTypeOK'
  BY <1>0, <1>1, <1>2, <1>3 DEF DeepTypeOK
\* a document that is replaced, or cannot be
<1>4. ASSUME FusedFallBack PROVE DeepInv'
  <2>1. CASE Raise
    <3>1. DeepTypeOK'
      BY <1>0, <1>3, <2>1 DEF Raise, DeepStage
    <3>2. ClaimsInHand' /\ ReportAccountsForClaims'
      BY <1>0, <2>1 DEF Raise, ClaimsInHand, ReportAccountsForClaims, Nothing, InReport
    <3> QED BY <3>1, <3>2 DEF DeepInv
  <2>2. CASE HandOver(Fused(FALSE, CardDocument))
    <3>1. stage' = "over" /\ delivered' \in Delivery /\ ReportAccountsForClaims'
      BY <1>0, <2>2, CardsDelivered
    <3>2. DeepTypeOK'
      BY <1>3, <3>1 DEF DeepStage
    <3>3. ClaimsInHand'
      BY <1>0, <3>1 DEF ClaimsInHand, InReport
    <3> QED BY <3>1, <3>2, <3>3 DEF DeepInv
  <2> QED BY <1>4, <2>1, <2>2 DEF FusedFallBack
\* a document under way
<1>5. ASSUME delivered' = delivered,
             \/ /\ stage' = "fused" /\ UNION {cited'[s] : s \in Section} = PlacedBefore(next)'
                /\ \A s \in Section : s >= next' => cited'[s] = {}
             \/ /\ stage' = "fused audit"
                /\ UNION {cited'[s] : s \in Section} = PlacedBefore(Sections + 1)'
      PROVE  DeepInv'
  <2>1. DeepTypeOK'
    BY <1>0, <1>3, <1>5 DEF DeepStage
  <2>2. ClaimsInHand'
    BY <1>0, <1>5 DEF ClaimsInHand, InReport
  <2>3. ReportAccountsForClaims'
    BY <1>0, <1>5 DEF ReportAccountsForClaims, Nothing
  <2> QED BY <2>1, <2>2, <2>3 DEF DeepInv
<1>6. /\ \A s : PlacedBefore(s) = {c \in accepted : place[c] \in Section /\ place[c] < s}
      /\ \A s : PlacedBefore(s)' = {c \in accepted : place[c] \in Section /\ place[c] < s}
  BY <1>0 DEF PlacedBefore
<1>7. CASE WriteBatch
  <2>1. stage = "fused" /\ next <= Sections
    BY <1>7 DEF WriteBatch
  <2>2. ASSUME NEW answer \in [Batch -> SUBSET BatchClaims], Woven(answer),
               cited' = [s \in Section |-> IF s \in Batch THEN answer[s] ELSE cited[s]],
               next' = next + PerCall, UNCHANGED <<stage, delivered>>
        PROVE  DeepInv'
    BY <1>0, <1>5, <2>1, <2>2, BatchWritten
  <2>3. ASSUME UNCHANGED <<stage, cited, next, delivered>> PROVE DeepInv'
    <3>1. /\ UNION {cited[s] : s \in Section} = PlacedBefore(next)
          /\ \A s \in Section : s >= next => cited[s] = {}
      BY <2>1 DEF DeepInv, ClaimsInHand
    <3>2. PlacedBefore(next)' = PlacedBefore(next)
      BY <1>0, <2>3 DEF PlacedBefore
    <3> QED BY <1>5, <2>1, <2>3, <3>1, <3>2
  <2> QED BY <1>4, <1>7, <2>2, <2>3 DEF WriteBatch
<1>8. CASE Assemble
  <2>1. /\ UNION {cited[s] : s \in Section} = PlacedBefore(next) /\ next > Sections
        /\ next \in Nat /\ UNCHANGED cited
    <3>1. stage = "fused" /\ next > Sections /\ UNCHANGED cited
      BY <1>8 DEF Assemble
    <3>2. next \in Nat
      <4>1. next \in 1..(Sections + PerCall)
        BY <1>0 DEF DeepTypeOK
      <4> QED BY <4>1, DeepAssumption
    <3> QED BY <3>1, <3>2 DEF DeepInv, ClaimsInHand
  <2>2. \A s \in Section : s < next /\ s < Sections + 1
    BY <2>1, DeepAssumption DEF Section
  <2>3. PlacedBefore(Sections + 1)' = PlacedBefore(next)
    BY <1>0, <2>2 DEF PlacedBefore
  <2> QED BY <1>4, <1>5, <1>8, <2>1, <2>3 DEF Assemble
<1>9. CASE AuditFused
  <2> DEFINE claims == UNION {cited[s] : s \in Section}
  <2>1. claims = PlacedBefore(Sections + 1) /\ UNCHANGED cited
    BY <1>9 DEF DeepInv, ClaimsInHand, AuditFused
  <2>2. PlacedBefore(Sections + 1)' = PlacedBefore(Sections + 1)
    BY <1>0 DEF PlacedBefore
  <2>3. CASE HandOver(Fused(TRUE, claims))
    <3>1. \A c \in accepted : c \in claims <=> place[c] \in Section
      BY <1>0, <2>1, PlanPlaces DEF PlacedBefore
    <3>2. claims \subseteq accepted
      BY <2>1 DEF PlacedBefore
    <3> DEFINE space == {c \in accepted : place[c] = Space}
               dropped == {c \in accepted : place[c] = LeftOut}
    <3>3. claims \cup space \cup dropped = accepted /\ claims \cap (space \cup dropped) = {}
      BY <1>0, <3>1, <3>2, PlanPlaces
    <3>4. stage' = "over" /\ delivered' = Fused(TRUE, claims) /\ delivered' \in Delivery
      BY <1>0, <2>3, <3>2, Deliverable DEF HandOver
    <3>5. Fused(TRUE, claims) =
            [disposition |-> "complete", shape |-> "fused", written |-> TRUE, body |-> claims,
             extra |-> {}, space |-> space, dropped |-> dropped]
      BY DEF Fused, PlacedAt
    <3> HIDE DEF claims, space, dropped
    <3>9. /\ delivered'.disposition = "complete" /\ delivered'.shape = "fused"
          /\ delivered'.written = TRUE /\ delivered'.body = claims /\ delivered'.extra = {}
          /\ delivered'.space = space /\ delivered'.dropped = dropped
      <4>1. delivered' = [disposition |-> "complete", shape |-> "fused", written |-> TRUE,
                          body |-> claims, extra |-> {}, space |-> space, dropped |-> dropped]
        BY <3>4, <3>5, Zenon
      <4> QED BY <4>1
    <3>10. accepted' = accepted /\ accepted # {}
      BY <1>0
    <3>6. ReportAccountsForClaims'
      BY <3>3, <3>9, <3>10 DEF ReportAccountsForClaims
    <3>7. DeepTypeOK'
      BY <1>3, <3>4 DEF DeepStage
    <3>8. ClaimsInHand'
      BY <1>0, <3>4 DEF ClaimsInHand, InReport
    <3> QED BY <3>6, <3>7, <3>8 DEF DeepInv
  <2>4. CASE UNCHANGED <<stage, delivered>>
    BY <1>5, <1>9, <2>1, <2>2, <2>4 DEF AuditFused
  <2> QED BY <1>4, <1>9, <2>3, <2>4 DEF AuditFused
<1> QED BY <1>7, <1>8, <1>9

\* A report of its own and its audit.
LEMMA DeepFlat ==
  ASSUME DeepInv, WriteFlat \/ AuditFlat
  PROVE  DeepInv'
<1>0. /\ DeepTypeOK /\ delivered = Nothing /\ accepted # {} /\ accepted \subseteq Claim
      /\ merge = "ok" => place \in [accepted -> Place]
      /\ stage \in {"flat", "flat audit"} /\ stage \in InReport
      /\ UNCHANGED <<accepted, merge, place, cards, candidates, repaired, sourced, body, next>>
  BY DEF DeepInv, ClaimsInHand, DeepTypeOK, WriteFlat, AuditFlat, InReport
<1>1. refusals' \in 0..(FusedAttempts + TwoAttempts) /\ refused' \in BOOLEAN
  <2>1. refusals \in 0..(FusedAttempts + TwoAttempts) /\ refused \in BOOLEAN
    BY <1>0 DEF DeepTypeOK
  <2>2. refused' \in BOOLEAN
    BY <2>1 DEF WriteFlat, AuditFlat
  <2>3. \/ refusals' = refusals
        \/ refusals + 1 < 2 /\ refusals' = refusals + 1
    BY DEF WriteFlat, AuditFlat, TwoAttempts
  <2>4. refusals' \in 0..(FusedAttempts + 2)
    BY <2>1, <2>3, DeepAssumption DEF TwoAttempts
  <2> QED BY <2>2, <2>4 DEF TwoAttempts
<1>2. cited' \in [Section -> SUBSET Claim]
  BY <1>0 DEF WriteFlat, AuditFlat, DeepTypeOK
<1>3. ASSUME stage' \in DeepStage, delivered' \in Delivery \cup {Nothing} PROVE DeepTypeOK'
  BY <1>0, <1>1, <1>2, <1>3 DEF DeepTypeOK
<1>4. ASSUME HandOver(Flat(FALSE, CardDocument, {})) PROVE DeepInv'
  <2>1. stage' = "over" /\ delivered' \in Delivery /\ ReportAccountsForClaims'
    BY <1>0, <1>4, CardsDelivered
  <2>2. DeepTypeOK'
    BY <1>3, <2>1 DEF DeepStage
  <2>3. ClaimsInHand'
    BY <1>0, <2>1 DEF ClaimsInHand, InReport
  <2> QED BY <2>1, <2>2, <2>3 DEF DeepInv
<1>5. ASSUME delivered' = delivered,
             \/ stage' = "flat"
             \/ stage' = "flat audit" /\ cited'[1] \subseteq accepted /\ Enough(cited'[1]) /\ ~refused'
      PROVE  DeepInv'
  <2>1. DeepTypeOK'
    BY <1>0, <1>3, <1>5 DEF DeepStage
  <2>2. Enough(cited[1])' <=> Enough(cited'[1])
    BY <1>0 DEF Enough
  <2>3. ClaimsInHand'
    BY <1>0, <1>5, <2>2 DEF ClaimsInHand, InReport
  <2>4. ReportAccountsForClaims'
    BY <1>0, <1>5 DEF ReportAccountsForClaims, Nothing
  <2> QED BY <2>1, <2>3, <2>4 DEF DeepInv
<1>6. CASE WriteFlat
  <2>1. ASSUME NEW claims \in SUBSET accepted, Enough(claims), refused' = FALSE,
               cited' = [s \in Section |-> IF s = 1 THEN claims ELSE {}],
               stage' = "flat audit", delivered' = delivered
        PROVE  DeepInv'
    <3>1. cited'[1] = claims
      BY <2>1, PlanPlaces
    <3> QED BY <1>5, <2>1, <3>1
  <2>2. ASSUME UNCHANGED <<stage, delivered>> PROVE DeepInv'
    BY <1>5, <1>6, <2>2 DEF WriteFlat
  <2> QED BY <1>4, <1>6, <2>1, <2>2 DEF WriteFlat
<1>7. CASE AuditFlat
  <2>1. /\ cited[1] \subseteq accepted /\ Enough(cited[1]) /\ ~refused
    BY <1>7 DEF DeepInv, ClaimsInHand, AuditFlat
  <2>2. CASE HandOver(Flat(TRUE, cited[1], Supplement(cited[1]))) /\ UNCHANGED refused
    <3> DEFINE claims == cited[1]  extra == accepted \ claims
    <3>1. extra \subseteq accepted /\ claims \subseteq accepted
      BY <2>1
    <3>2. stage' = "over" /\ delivered' = Flat(TRUE, claims, extra)
      BY <2>2 DEF HandOver, Supplement
    <3>3. delivered' \in Delivery
      BY <1>0, <3>1, <3>2, Deliverable
    <3>4. 2 * Cardinality(extra) <= Cardinality(accepted)
      BY <2>1 DEF Enough
    <3>5. claims \cup extra = accepted /\ claims \cap extra = {} /\ ~refused'
      BY <2>1, <2>2
    <3> HIDE DEF claims, extra
    <3>6. ReportAccountsForClaims'
      BY <1>0, <3>2, <3>4, <3>5 DEF ReportAccountsForClaims, Flat
    <3>7. DeepTypeOK'
      BY <1>3, <3>2, <3>3 DEF DeepStage
    <3>8. ClaimsInHand'
      BY <1>0, <3>2 DEF ClaimsInHand, InReport
    <3> QED BY <3>6, <3>7, <3>8 DEF DeepInv
  <2> QED BY <1>4, <1>5, <1>7, <2>2 DEF AuditFlat
<1> QED BY <1>6, <1>7

\* What is known of the claims at a stage holds whenever a research is at it.
LEMMA DeepReportsHold == DeepSpec => []DeepInv
<1>1. DeepInit => DeepInv
  <2> SUFFICES ASSUME DeepInit PROVE DeepInv
    OBVIOUS
  <2>3. refusals \in 0..(FusedAttempts + TwoAttempts)
    BY DeepAssumption DEF DeepInit, TwoAttempts
  <2>4. next \in 1..(Sections + PerCall)
    BY DeepAssumption DEF DeepInit
  <2>5. cited \in [Section -> SUBSET Claim] /\ delivered \in Delivery \cup {Nothing}
    BY DEF DeepInit
  <2>6. stage \in DeepStage
    BY DEF DeepInit, DeepStage
  <2>1. DeepTypeOK
    BY <2>3, <2>4, <2>5, <2>6 DEF DeepInit, DeepTypeOK
  <2>2. ClaimsInHand /\ ReportAccountsForClaims
    BY DEF DeepInit, ClaimsInHand, ReportAccountsForClaims, Nothing, InReport
  <2> QED BY <2>1, <2>2 DEF DeepInv
<1>2. DeepInv /\ [DeepNext]_deepVars => DeepInv'
  <2> SUFFICES ASSUME DeepInv, [DeepNext]_deepVars PROVE DeepInv'
    OBVIOUS
  <2>1. CASE DeepNext
    BY <2>1, DeepVerification, DeepPreparation, DeepFused, DeepFlat DEF DeepNext
  <2>2. CASE UNCHANGED deepVars
    <3>1. DeepTypeOK'
      BY <2>2 DEF deepVars, DeepInv, DeepTypeOK
    <3>2. ReportAccountsForClaims'
      BY <2>2 DEF deepVars, DeepInv, ReportAccountsForClaims
    <3>3. ClaimsInHand'
      <4>1. \A s : PlacedBefore(s)' = PlacedBefore(s)
        BY <2>2 DEF deepVars, PlacedBefore
      <4>2. /\ PlacedBefore(next)' = PlacedBefore(next)
            /\ Enough(cited[1])' <=> Enough(cited[1])
        BY <2>2 DEF deepVars, PlacedBefore, Enough
      <4>3. ClaimsInHand /\ UNCHANGED deepVars
        BY <2>2 DEF DeepInv
      <4> QED BY <4>1, <4>2, <4>3 DEF deepVars, ClaimsInHand
    <3> QED BY <3>1, <3>2, <3>3 DEF DeepInv
  <2> QED BY <2>1, <2>2
<1> QED BY <1>1, <1>2, PTL DEF DeepSpec

\* A research keeps to its stages, its sections and the attempts it may make.
THEOREM DeepTypeCorrect == DeepSpec => []DeepTypeOK
<1>1. DeepInv => DeepTypeOK
  BY DEF DeepInv
<1> QED BY <1>1, DeepReportsHold, PTL

\* ReportAccountsForClaims: a delivered report has each accepted claim and no other.
THEOREM ReportsAccountForClaims == DeepSpec => []ReportAccountsForClaims
<1>1. DeepInv => ReportAccountsForClaims
  BY DEF DeepInv
<1> QED BY <1>1, DeepReportsHold, PTL

--------------------------------------------------------------------------------
(* Memories.                                                                   *)

Used(mem) == {m \in Memories : mem[m].status # "none"}
Active(mem) == {m \in Memories : mem[m].status = "active"}
Drafted(cand) == {c \in Candidates : cand[c].status # "none"}
Filled(S) == \E k \in Nat : S = 1..k
\* What a check has found out of the memories it listed stays true of those that are
\* still active.
Compared(mem, ms, says, conflict) ==
  /\ ms \subseteq Used(mem) /\ conflict \in {0} \cup Used(mem)
  /\ conflict = 0 =>
       \A a \in ms \cap Active(mem) : mem[a].says # says /\ {mem[a].says, says} \notin Opposing
CandidatesCompared ==
  /\ \A c \in Candidates : reported[c] \in {0} \cup Used(memory)
  /\ \A c \in Drafted(candidate) :
       Compared(memory, noticed[c], candidate[c].says, reported[c])
  /\ \A t \in Chat : chatAt[t] = "checked" =>
       /\ extracted[t].status = "pending"
       /\ Compared(memory, listed[t], extracted[t].says, extracted[t].conflict)
\* an approved candidate has archived what its check reported, unless that was deleted
Decided(mem, cand, rep, c) == c \in Drafted(cand) /\ rep[c] \notin Active(mem)
ApprovalsDecided ==
  /\ approving # 0 => Decided(memory, candidate, reported, approving)
  /\ \A b \in Used(memory) : madeFrom[b] # 0 =>
       /\ Decided(memory, candidate, reported, madeFrom[b])
       /\ b \in Active(memory) => memory[b].says = candidate[madeFrom[b]].says
RecallsInHand == \A t \in Chat : chatAt[t] # "checked" => listed[t] \subseteq Stored \cup escaped
\* ids are given in order
PlacesFilled == Filled(Used(memory)) /\ Filled(Drafted(candidate))
MemoryInv == /\ MemoryTypeOK /\ PlacesFilled /\ CandidatesCompared /\ ApprovalsDecided
             /\ RecallsInHand /\ VectorsFollowDeletion /\ ConflictsStand

\* The next id is free, and the ids stay in order.
LEMMA NextPlace ==
  ASSUME NEW S, Filled(S), NEW m, m = 1 + Cardinality(S)
  PROVE  m \in Nat \ {0} /\ m \notin S /\ Filled(S \cup {m})
<1>1. PICK k \in Nat : S = 1..k
  BY DEF Filled
<1>2. Cardinality(S) = k
  BY <1>1, FS_Interval
<1>3. S \cup {m} = 1..(k + 1) /\ k + 1 \in Nat
  BY <1>1, <1>2
<1> QED BY <1>1, <1>2, <1>3 DEF Filled

\* A memory that is there stays, says the same while it is active, and becomes
\* active no more; a candidate stays as it was made, and so does
\* what its check reported.
MemoriesAge(mem, mem2) ==
  \A a \in Used(mem) : /\ a \in Used(mem2)
                       /\ a \in Active(mem2) => a \in Active(mem) /\ mem2[a] = mem[a]
CandidatesStay(cand, cand2, rep, rep2) ==
  \A c \in Drafted(cand) : /\ c \in Drafted(cand2) /\ cand2[c].says = cand[c].says
                           /\ rep2[c] = rep[c]

LEMMA ComparedAges ==
  ASSUME NEW mem, NEW mem2, MemoriesAge(mem, mem2), NEW ms, NEW says, NEW conflict,
         Compared(mem, ms, says, conflict)
  PROVE  Compared(mem2, ms, says, conflict)
BY DEF Compared, MemoriesAge

LEMMA DecidedAges ==
  ASSUME NEW mem, NEW mem2, MemoriesAge(mem, mem2), NEW cand, NEW cand2, NEW rep, NEW rep2,
         CandidatesStay(cand, cand2, rep, rep2), NEW c, Decided(mem, cand, rep, c),
         rep[c] \in {0} \cup Used(mem)
  PROVE  Decided(mem2, cand2, rep2, c)
<1>1. 0 \notin Active(mem2)
  BY DEF Active, Memories
<1> QED BY <1>1 DEF Decided, CandidatesStay, MemoriesAge

\* What keeps the invariant: memories age, candidates stay, and what is new was
\* decided.
LEMMA MemoryKept ==
  ASSUME MemoryInv, MemoryTypeOK', PlacesFilled', RecallsInHand', VectorsFollowDeletion',
         ConflictsStand', \A c \in Candidates : reported'[c] \in {reported[c], 0} \cup Used(memory),
         MemoriesAge(memory, memory'), CandidatesStay(candidate, candidate', reported, reported'),
         \A c \in Drafted(candidate') :
           \/ c \in Drafted(candidate) /\ noticed'[c] = noticed[c]
           \/ Compared(memory, noticed'[c], candidate'[c].says, reported'[c]),
         \A t \in Chat : chatAt'[t] = "checked" =>
           \/ chatAt[t] = "checked" /\ listed'[t] = listed[t] /\ extracted'[t] = extracted[t]
           \/ /\ extracted'[t].status = "pending"
              /\ Compared(memory, listed'[t], extracted'[t].says, extracted'[t].conflict),
         approving' \in {0, approving} \/ Decided(memory', candidate', reported', approving'),
         \A b \in Used(memory') : madeFrom'[b] # 0 =>
           \/ b \in Used(memory) /\ madeFrom'[b] = madeFrom[b]
           \/ /\ Decided(memory', candidate', reported', madeFrom'[b])
              /\ memory'[b].says = candidate'[madeFrom'[b]].says
  PROVE  MemoryInv'
<1>1. CandidatesCompared'
  <2>1. ASSUME NEW c \in Drafted(candidate')
        PROVE  Compared(memory', noticed'[c], candidate'[c].says, reported'[c])
    <3>1. Compared(memory, noticed'[c], candidate'[c].says, reported'[c])
      BY <2>1 DEF MemoryInv, CandidatesCompared, CandidatesStay
    <3> QED BY <3>1, ComparedAges
  <2>2. ASSUME NEW t \in Chat, chatAt'[t] = "checked"
        PROVE  /\ extracted'[t].status = "pending"
               /\ Compared(memory', listed'[t], extracted'[t].says, extracted'[t].conflict)
    <3>1. /\ extracted'[t].status = "pending"
          /\ Compared(memory, listed'[t], extracted'[t].says, extracted'[t].conflict)
      BY <2>2 DEF MemoryInv, CandidatesCompared
    <3> QED BY <3>1, ComparedAges
  <2>3. \A c \in Candidates : reported'[c] \in {0} \cup Used(memory')
    BY DEF MemoryInv, CandidatesCompared, MemoriesAge
  <2> QED BY <2>1, <2>2, <2>3 DEF CandidatesCompared
<1>2. ASSUME NEW c, Decided(memory, candidate, reported, c)
      PROVE  Decided(memory', candidate', reported', c)
  <2>1. reported[c] \in {0} \cup Used(memory)
    BY <1>2 DEF MemoryInv, CandidatesCompared, Compared, Decided
  <2> QED BY <1>2, <2>1, DecidedAges
<1>3. ApprovalsDecided'
  <2>1. approving' # 0 => Decided(memory', candidate', reported', approving')
    BY <1>2 DEF MemoryInv, ApprovalsDecided
  <2>2. ASSUME NEW b \in Used(memory'), madeFrom'[b] # 0
        PROVE  /\ Decided(memory', candidate', reported', madeFrom'[b])
               /\ b \in Active(memory') => memory'[b].says = candidate'[madeFrom'[b]].says
    <3>1. CASE b \in Used(memory) /\ madeFrom'[b] = madeFrom[b]
      <4>1. /\ Decided(memory, candidate, reported, madeFrom[b])
            /\ b \in Active(memory) => memory[b].says = candidate[madeFrom[b]].says
        BY <2>2, <3>1 DEF MemoryInv, ApprovalsDecided
      <4>2. candidate'[madeFrom[b]].says = candidate[madeFrom[b]].says
        BY <4>1 DEF Decided, CandidatesStay
      <4>3. b \in Active(memory') => b \in Active(memory) /\ memory'[b] = memory[b]
        BY <3>1 DEF MemoriesAge
      <4> QED BY <1>2, <3>1, <4>1, <4>2, <4>3
    <3>2. CASE ~(b \in Used(memory) /\ madeFrom'[b] = madeFrom[b])
      BY <2>2, <3>2
    <3> QED BY <3>1, <3>2
  <2> QED BY <2>1, <2>2 DEF ApprovalsDecided
<1> QED BY <1>1, <1>3 DEF MemoryInv

LEMMA NothingAges ==
  \A mem, cand, rep : MemoriesAge(mem, mem) /\ CandidatesStay(cand, cand, rep, rep)
BY DEF MemoriesAge, CandidatesStay

\* A new memory takes the next id.
LEMMA MemoryStored ==
  ASSUME MemoryInv, NEW m \in Memories, NEW says \in Said, NEW from \in 0..MaxCandidates,
         Store(m, says, from)
  PROVE  /\ memory' \in [Memories -> [status : {"none", "active", "archived", "deleted"}, says : Said]]
         /\ madeFrom' \in [Memories -> 0..MaxCandidates]
         /\ Filled(Used(memory')) /\ MemoriesAge(memory, memory')
         /\ Stored \subseteq Stored' /\ Stored' \cap Used(memory) \subseteq Stored
         /\ madeFrom'[m] = from /\ memory'[m].says = says
         /\ \A b \in Used(memory') : b = m \/ (b \in Used(memory) /\ madeFrom'[b] = madeFrom[b])
<1>1. /\ memory \in [Memories -> [status : {"none", "active", "archived", "deleted"}, says : Said]]
      /\ madeFrom \in [Memories -> 0..MaxCandidates] /\ Filled(Used(memory))
  BY DEF MemoryInv, MemoryTypeOK, PlacesFilled
<1>2. m \notin Used(memory) /\ Filled(Used(memory) \cup {m})
  BY <1>1, NextPlace DEF Store, NewMemory, Used
<1>3. /\ memory' = [memory EXCEPT ![m] = [status |-> "active", says |-> says]]
      /\ madeFrom' = [madeFrom EXCEPT ![m] = from]
  BY DEF Store
<1>4. /\ memory'[m] = [status |-> "active", says |-> says] /\ madeFrom'[m] = from
      /\ \A a \in Memories : a # m => memory'[a] = memory[a] /\ madeFrom'[a] = madeFrom[a]
  BY <1>1, <1>3
<1>5. Used(memory') = Used(memory) \cup {m}
  BY <1>4 DEF Used
<1>6. MemoriesAge(memory, memory')
  BY <1>2, <1>4, <1>5 DEF MemoriesAge, Used, Active
<1>7. Stored \subseteq Stored' /\ Stored' \cap Used(memory) \subseteq Stored
  <2>1. m \notin Stored
    BY <1>2 DEF Stored, Used
  <2> QED BY <1>2, <1>4, <2>1 DEF Stored
<1>8. memory' \in [Memories -> [status : {"none", "active", "archived", "deleted"}, says : Said]]
  BY <1>1, <1>3 DEF Said
<1>9. madeFrom' \in [Memories -> 0..MaxCandidates]
  BY <1>1, <1>3
<1>10. \A b \in Used(memory') : b = m \/ (b \in Used(memory) /\ madeFrom'[b] = madeFrom[b])
  BY <1>4, <1>5 DEF Used
<1> QED BY <1>2, <1>4, <1>5, <1>6, <1>7, <1>8, <1>9, <1>10

\* The status of a memory that is there, which was not deleted, becomes that it is
\* archived or deleted.
LEMMA MemoryLeaves ==
  ASSUME MemoryInv, NEW m \in Stored, NEW r,
         \/ r = [status |-> "deleted", says |-> "nothing"]
         \/ r = [memory[m] EXCEPT !.status = "archived"],
         memory' = [memory EXCEPT ![m] = r]
  PROVE  /\ memory' \in [Memories -> [status : {"none", "active", "archived", "deleted"}, says : Said]]
         /\ Used(memory') = Used(memory) /\ MemoriesAge(memory, memory')
         /\ Active(memory') = Active(memory) \ {m} /\ Stored \ {m} \subseteq Stored'
         /\ r.status = "archived" => Stored' = Stored
         /\ r.status = "deleted" => Stored' = Stored \ {m}
<1>1. /\ memory \in [Memories -> [status : {"none", "active", "archived", "deleted"}, says : Said]]
      /\ m \in Memories
  BY DEF MemoryInv, MemoryTypeOK, Stored
<1>2. r.status \in {"archived", "deleted"}
      /\ r \in [status : {"none", "active", "archived", "deleted"}, says : Said]
  BY <1>1 DEF Said
<1>3. memory'[m] = r /\ \A a \in Memories : a # m => memory'[a] = memory[a]
  BY <1>1
<1>4. Used(memory') = Used(memory) /\ Active(memory') = Active(memory) \ {m}
  BY <1>1, <1>2, <1>3 DEF Used, Active, Stored
<1>5. MemoriesAge(memory, memory')
  BY <1>3, <1>4 DEF MemoriesAge, Active
<1>6. /\ Stored \ {m} \subseteq Stored' /\ (r.status = "archived" => Stored' = Stored)
      /\ r.status = "deleted" => Stored' = Stored \ {m}
  BY <1>3 DEF Stored
<1> QED BY <1>1, <1>2, <1>4, <1>5, <1>6

\* The endpoints.
LEMMA EndpointsKeep ==
  ASSUME MemoryInv, MemoryEndpoint
  PROVE  MemoryInv'
<1>0. /\ MemoryTypeOK /\ PlacesFilled /\ RecallsInHand /\ VectorsFollowDeletion
      /\ CandidatesCompared /\ ApprovalsDecided /\ ConflictsStand
  BY DEF MemoryInv
\* a step of the store alone, which makes no candidate
<1>1. ASSUME MemoryTypeOK', Filled(Used(memory')), Drafted(candidate') = Drafted(candidate),
             ChecksStand, MemoriesAge(memory, memory'),
             CandidatesStay(candidate, candidate', reported, reported'), ConflictsStand', ChatsGoOn,
             RecallsInHand', VectorsFollowDeletion',
             approving' \in {0, approving} \/ Decided(memory', candidate', reported', approving'),
             \A b \in Used(memory') : madeFrom'[b] # 0 =>
               \/ b \in Used(memory) /\ madeFrom'[b] = madeFrom[b]
               \/ /\ Decided(memory', candidate', reported', madeFrom'[b])
                  /\ memory'[b].says = candidate'[madeFrom'[b]].says
      PROVE  MemoryInv'
  <2>1. PlacesFilled'
    BY <1>0, <1>1 DEF PlacesFilled
  <2>2. \A c \in Drafted(candidate') : c \in Drafted(candidate) /\ noticed'[c] = noticed[c]
    BY <1>1 DEF ChecksStand
  <2>3. \A t \in Chat : chatAt'[t] = "checked" =>
          chatAt[t] = "checked" /\ listed'[t] = listed[t] /\ extracted'[t] = extracted[t]
    BY <1>1 DEF ChatsGoOn
  <2>4. \A c \in Candidates : reported'[c] \in {reported[c], 0} \cup Used(memory)
    BY <1>1 DEF ChecksStand
  <2> QED BY <1>1, <2>1, <2>2, <2>3, <2>4, MemoryKept
\* chats go on, and nothing of what they or the vectors need goes
<1>2. ASSUME ChatsGoOn, VectorsStay, Stored \subseteq Stored'
      PROVE  RecallsInHand' /\ VectorsFollowDeletion'
  BY <1>0, <1>2 DEF ChatsGoOn, VectorsStay, RecallsInHand, VectorsFollowDeletion
\* no candidate changes what it names, and what the checks reported keeps its row
<1>2a. ASSUME ChecksStand, \A c \in Candidates : candidate'[c].conflict = candidate[c].conflict,
              Stored \subseteq Stored', Stored' \cap Used(memory) \subseteq Stored
       PROVE  ConflictsStand'
  <2>1. ASSUME NEW c \in Candidates
        PROVE  candidate'[c].conflict = IF reported'[c] \in Stored' THEN reported'[c] ELSE 0
    <3>1. reported'[c] = reported[c] /\ reported[c] \in {0} \cup Used(memory)
      BY <1>0, <1>2a DEF ChecksStand, CandidatesCompared
    <3>2. 0 \notin Stored /\ 0 \notin Stored'
      BY DEF Stored, Memories
    <3>3. reported'[c] \in Stored' <=> reported[c] \in Stored
      BY <1>2a, <3>1, <3>2
    <3>4. candidate[c].conflict = IF reported[c] \in Stored THEN reported[c] ELSE 0
      BY <1>0 DEF ConflictsStand
    <3> QED BY <1>2a, <3>1, <3>3, <3>4
  <2> QED BY <2>1 DEF ConflictsStand
<1>3. ASSUME NEW m \in Memories, NEW says \in Statement, CreateMemory(m, says)
      PROVE  MemoryInv'
  <2>1. Store(m, says, 0) /\ UNCHANGED <<candidate, approving>> /\ ChecksStand /\ ChatsGoOn /\ VectorsStay
    BY <1>3 DEF CreateMemory
  <2>2. 0 \in 0..MaxCandidates
    BY MemoryAssumption
  <2>3. /\ memory' \in [Memories -> [status : {"none", "active", "archived", "deleted"}, says : Said]]
        /\ madeFrom' \in [Memories -> 0..MaxCandidates]
        /\ Filled(Used(memory')) /\ MemoriesAge(memory, memory')
        /\ Stored \subseteq Stored' /\ Stored' \cap Used(memory) \subseteq Stored /\ madeFrom'[m] = 0
        /\ \A b \in Used(memory') : b = m \/ (b \in Used(memory) /\ madeFrom'[b] = madeFrom[b])
    BY <2>1, <2>2, MemoryStored DEF Said
  <2>4. MemoryTypeOK'
    BY <1>0, <2>1, <2>3 DEF MemoryTypeOK, ChecksStand, ChatsGoOn, VectorsStay
  <2>5. RecallsInHand' /\ VectorsFollowDeletion'
    BY <1>2, <2>1, <2>3
  <2>6. \A b \in Used(memory') : madeFrom'[b] # 0 => b \in Used(memory) /\ madeFrom'[b] = madeFrom[b]
    BY <2>3
  <2>7. /\ CandidatesStay(candidate, candidate', reported, reported')
        /\ Drafted(candidate') = Drafted(candidate)
    BY <2>1, NothingAges DEF ChecksStand
  <2>8. ConflictsStand'
    BY <1>2a, <2>1, <2>3
  <2> QED BY <1>1, <2>1, <2>3, <2>4, <2>5, <2>6, <2>7, <2>8
<1>4. ASSUME NEW c \in Candidates, ApproveCandidate(c)
      PROVE  MemoryInv'
  <2> DEFINE m == candidate[c].conflict
  <2>1. /\ candidate[c].status = "pending" /\ memory' = Archived(m)
        /\ candidate' = [candidate EXCEPT ![c].status = "approved"] /\ approving' = c
        /\ UNCHANGED madeFrom /\ ChecksStand /\ ChatsGoOn /\ VectorsStay
    BY <1>4 DEF ApproveCandidate
  <2>2. c \in Drafted(candidate)
    BY <2>1 DEF Drafted
  <2>3. /\ candidate' \in [Candidates -> [status : {"none", "pending", "approved", "rejected"},
                                          says : Said, conflict : 0..MaxMemories]]
        /\ candidate'[c].status = "approved"
        /\ \A d \in Candidates : /\ d # c => candidate'[d] = candidate[d]
                                 /\ candidate'[d].says = candidate[d].says
                                 /\ candidate'[d].conflict = candidate[d].conflict
    BY <1>0, <2>1 DEF MemoryTypeOK
  <2>4. /\ Drafted(candidate') = Drafted(candidate)
        /\ CandidatesStay(candidate, candidate', reported, reported')
    BY <2>1, <2>2, <2>3 DEF Drafted, CandidatesStay, ChecksStand
  <2>5. /\ memory' \in [Memories -> [status : {"none", "active", "archived", "deleted"}, says : Said]]
        /\ Used(memory') = Used(memory) /\ MemoriesAge(memory, memory')
        /\ m \notin Active(memory') /\ Stored' = Stored
    <3>1. CASE m \in Stored
      <4>1. memory' = [memory EXCEPT ![m] = [memory[m] EXCEPT !.status = "archived"]]
        BY <1>0, <2>1, <3>1 DEF Archived, MemoryTypeOK, Stored
      <4>2. [memory[m] EXCEPT !.status = "archived"].status = "archived"
        BY <1>0, <3>1 DEF MemoryTypeOK, Stored
      <4>3. /\ memory' \in [Memories -> [status : {"none", "active", "archived", "deleted"}, says : Said]]
            /\ Used(memory') = Used(memory) /\ MemoriesAge(memory, memory')
            /\ Active(memory') = Active(memory) \ {m} /\ Stored' = Stored
        BY <3>1, <4>1, <4>2, MemoryLeaves
      <4> QED BY <4>3
    <3>2. CASE m \notin Stored
      <4>1. memory' = memory
        BY <2>1, <3>2 DEF Archived
      <4>2. m \notin Active(memory)
        BY <3>2 DEF Stored, Active
      <4>3. Stored' = Stored
        BY <4>1 DEF Stored
      <4> QED BY <1>0, <4>1, <4>2, <4>3, NothingAges DEF MemoryTypeOK
    <3> QED BY <3>1, <3>2
  <2>6. Decided(memory', candidate', reported', c)
    <3>1. m = IF reported[c] \in Stored THEN reported[c] ELSE 0
      BY <1>0 DEF ConflictsStand
    <3>2. Active(memory') \subseteq Stored
      BY <2>5 DEF Active, Stored
    <3>3. reported'[c] \notin Active(memory')
      BY <2>1, <2>5, <3>1, <3>2 DEF ChecksStand
    <3> QED BY <2>2, <2>4, <3>3 DEF Decided
  <2>7. MemoryTypeOK'
    <3>1. approving' \in 0..MaxCandidates
      BY <2>1, MemoryAssumption DEF Candidates
    <3> QED BY <1>0, <2>1, <2>3, <2>5, <3>1 DEF MemoryTypeOK, ChecksStand, ChatsGoOn, VectorsStay
  <2>8. RecallsInHand' /\ VectorsFollowDeletion'
    BY <1>2, <2>1, <2>5
  <2>9. \A b \in Used(memory') : b \in Used(memory) /\ madeFrom'[b] = madeFrom[b]
    BY <2>1, <2>5
  <2>10. Filled(Used(memory'))
    BY <1>0, <2>5 DEF PlacesFilled
  <2>11. ConflictsStand'
    BY <1>2a, <2>1, <2>3, <2>5
  <2> QED BY <1>1, <2>1, <2>4, <2>5, <2>6, <2>7, <2>8, <2>9, <2>10, <2>11
<1>5. ASSUME NEW m \in Memories, CreateApproved(m)
      PROVE  MemoryInv'
  <2>1. /\ approving # 0 /\ approving' = 0 /\ UNCHANGED candidate
        /\ ChecksStand /\ ChatsGoOn /\ VectorsStay
    BY <1>5 DEF CreateApproved
  <2>2. approving \in 0..MaxCandidates /\ approving \in Candidates
        /\ Decided(memory, candidate, reported, approving)
    BY <1>0, <2>1, MemoryAssumption DEF MemoryTypeOK, ApprovalsDecided, Candidates
  <2>3. /\ CandidatesStay(candidate, candidate', reported, reported')
        /\ Drafted(candidate') = Drafted(candidate)
    BY <2>1, NothingAges DEF ChecksStand
  <2>4. CASE Store(m, candidate[approving].says, approving)
    <3> DEFINE says == candidate[approving].says
    <3>1. Decided(memory, candidate, reported, approving) /\ reported[approving] \in {0} \cup Used(memory)
      BY <1>0, <2>2 DEF CandidatesCompared
    <3>2. says \in Said
      BY <1>0, <2>2 DEF MemoryTypeOK
    <3>3. /\ memory' \in [Memories -> [status : {"none", "active", "archived", "deleted"}, says : Said]]
          /\ madeFrom' \in [Memories -> 0..MaxCandidates]
          /\ Filled(Used(memory')) /\ MemoriesAge(memory, memory')
          /\ Stored \subseteq Stored' /\ Stored' \cap Used(memory) \subseteq Stored
          /\ madeFrom'[m] = approving /\ memory'[m].says = says
          /\ \A b \in Used(memory') : b = m \/ (b \in Used(memory) /\ madeFrom'[b] = madeFrom[b])
      BY <2>2, <2>4, <3>2, MemoryStored
    <3>4. Decided(memory', candidate', reported', approving)
      BY <2>3, <3>1, <3>3, DecidedAges
    <3>5. MemoryTypeOK'
      BY <1>0, <2>1, <2>2, <3>3, MemoryAssumption DEF MemoryTypeOK, ChecksStand, ChatsGoOn, VectorsStay
    <3>6. RecallsInHand' /\ VectorsFollowDeletion'
      BY <1>2, <2>1, <3>3
    <3>7. ASSUME NEW b \in Used(memory'), madeFrom'[b] # 0
          PROVE  \/ b \in Used(memory) /\ madeFrom'[b] = madeFrom[b]
                 \/ /\ Decided(memory', candidate', reported', madeFrom'[b])
                    /\ memory'[b].says = candidate'[madeFrom'[b]].says
      BY <2>1, <3>3, <3>4
    <3>8. ConflictsStand'
      BY <1>2a, <2>1, <3>3
    <3> QED BY <1>1, <2>1, <2>3, <3>3, <3>5, <3>6, <3>7, <3>8
  <2>5. CASE UNCHANGED <<memory, madeFrom>>
    <3>1. MemoryTypeOK'
      BY <1>0, <2>1, <2>5, MemoryAssumption DEF MemoryTypeOK, ChecksStand, ChatsGoOn, VectorsStay
    <3>2. Stored' = Stored /\ Filled(Used(memory')) /\ MemoriesAge(memory, memory')
      BY <1>0, <2>5, NothingAges DEF Stored, PlacesFilled
    <3>3. RecallsInHand' /\ VectorsFollowDeletion'
      BY <1>2, <2>1, <3>2
    <3>4. ConflictsStand'
      BY <1>2a, <2>1, <3>2
    <3> QED BY <1>1, <2>1, <2>3, <2>5, <3>1, <3>2, <3>3, <3>4
  <2> QED BY <1>5, <2>4, <2>5 DEF CreateApproved
<1>6. ASSUME NEW c \in Candidates, RejectCandidate(c)
      PROVE  MemoryInv'
  <2>1. /\ candidate[c].status # "none"
        /\ candidate' = [candidate EXCEPT ![c].status = "rejected"]
        /\ UNCHANGED <<memory, madeFrom, approving>> /\ ChecksStand /\ ChatsGoOn /\ VectorsStay
    BY <1>6 DEF RejectCandidate
  <2>2. /\ candidate' \in [Candidates -> [status : {"none", "pending", "approved", "rejected"},
                                          says : Said, conflict : 0..MaxMemories]]
        /\ candidate'[c].status = "rejected"
        /\ \A d \in Candidates : /\ d # c => candidate'[d] = candidate[d]
                                 /\ candidate'[d].says = candidate[d].says
                                 /\ candidate'[d].conflict = candidate[d].conflict
    BY <1>0, <2>1 DEF MemoryTypeOK
  <2>3. /\ Drafted(candidate') = Drafted(candidate)
        /\ CandidatesStay(candidate, candidate', reported, reported')
    BY <2>1, <2>2 DEF Drafted, CandidatesStay, ChecksStand
  <2>4. MemoryTypeOK'
    BY <1>0, <2>1, <2>2 DEF MemoryTypeOK, ChecksStand, ChatsGoOn, VectorsStay
  <2>5. Stored' = Stored /\ Filled(Used(memory')) /\ MemoriesAge(memory, memory')
    BY <1>0, <2>1, NothingAges DEF Stored, PlacesFilled
  <2>6. RecallsInHand' /\ VectorsFollowDeletion'
    BY <1>2, <2>1, <2>5
  <2>7. ConflictsStand'
    BY <1>2a, <2>1, <2>2, <2>5
  <2> QED BY <1>1, <2>1, <2>3, <2>4, <2>5, <2>6, <2>7
<1>7. ASSUME NEW m \in Memories, DeleteMemory(m)
      PROVE  MemoryInv'
  <2>1. /\ m \in Stored /\ memory' = [memory EXCEPT ![m] = [status |-> "deleted", says |-> "nothing"]]
        /\ candidate' = Cleared(m) /\ UNCHANGED <<madeFrom, approving>> /\ ChecksStand /\ ChatsGoOn
    BY <1>7 DEF DeleteMemory
  <2>2. /\ memory' \in [Memories -> [status : {"none", "active", "archived", "deleted"}, says : Said]]
        /\ Used(memory') = Used(memory) /\ MemoriesAge(memory, memory')
        /\ Stored' = Stored \ {m}
    <3> DEFINE gone == [status |-> "deleted", says |-> "nothing"]
    <3>1. gone.status = "deleted" /\ memory' = [memory EXCEPT ![m] = gone]
      BY <2>1
    <3> QED BY <2>1, <3>1, MemoryLeaves
  <2>8. /\ candidate' \in [Candidates -> [status : {"none", "pending", "approved", "rejected"},
                                          says : Said, conflict : 0..MaxMemories]]
        /\ \A c \in Candidates :
             /\ candidate'[c].status = candidate[c].status /\ candidate'[c].says = candidate[c].says
             /\ candidate'[c].conflict = IF candidate[c].conflict = m THEN 0 ELSE candidate[c].conflict
    <3> DEFINE Row == [status : {"none", "pending", "approved", "rejected"},
                       says : Said, conflict : 0..MaxMemories]
               left(c) == [candidate[c] EXCEPT !.conflict = IF candidate[c].conflict = m THEN 0
                                                            ELSE candidate[c].conflict]
    <3>1. candidate' = [c \in Candidates |-> left(c)] /\ candidate \in [Candidates -> Row]
      BY <1>0, <2>1 DEF Cleared, MemoryTypeOK
    <3>2. 0 \in 0..MaxMemories
      BY MemoryAssumption
    <3>3. ASSUME NEW c \in Candidates
          PROVE  /\ left(c) \in Row /\ left(c).status = candidate[c].status
                 /\ left(c).says = candidate[c].says
                 /\ left(c).conflict = IF candidate[c].conflict = m THEN 0 ELSE candidate[c].conflict
      <4>1. candidate[c] \in Row
        BY <3>1
      <4> QED BY <3>2, <4>1
    <3> HIDE DEF left
    <3> QED BY <3>1, <3>3
  <2>9. ConflictsStand'
    <3>1. ASSUME NEW c \in Candidates
          PROVE  candidate'[c].conflict = IF reported'[c] \in Stored' THEN reported'[c] ELSE 0
      <4>1. reported'[c] = reported[c]
        BY <2>1 DEF ChecksStand
      <4>2. candidate[c].conflict = IF reported[c] \in Stored THEN reported[c] ELSE 0
        BY <1>0 DEF ConflictsStand
      <4> QED BY <2>1, <2>2, <2>8, <4>1, <4>2
    <3> QED BY <3>1 DEF ConflictsStand
  <2>3. vectors' \subseteq vectors /\ escaped \subseteq escaped' /\ escaped' \subseteq escaped \cup {m}
        /\ (m \in vectors' \/ Recalled(m) => m \in escaped')
    BY <1>7 DEF DeleteMemory, Forgotten
  <2>4. MemoryTypeOK'
    BY <1>0, <2>1, <2>2, <2>3, <2>8 DEF MemoryTypeOK, ChecksStand, ChatsGoOn
  <2>5. VectorsFollowDeletion'
    BY <1>0, <2>2, <2>3 DEF VectorsFollowDeletion
  <2>6. RecallsInHand'
    <3>1. ASSUME NEW t \in Chat, chatAt[t] # "checked", NEW a \in listed[t]
          PROVE  a \in Stored' \cup escaped'
      <4>1. a \in Stored \cup escaped
        BY <1>0, <3>1 DEF RecallsInHand
      <4>2. a = m => Recalled(m)
        BY <3>1 DEF Recalled
      <4> QED BY <2>2, <2>3, <4>1, <4>2
    <3> QED BY <2>1, <3>1 DEF RecallsInHand, ChatsGoOn
  <2>7. Filled(Used(memory')) /\ CandidatesStay(candidate, candidate', reported, reported')
        /\ Drafted(candidate') = Drafted(candidate)
    BY <1>0, <2>1, <2>2, <2>8 DEF PlacesFilled, Drafted, CandidatesStay, ChecksStand
  <2> QED BY <1>1, <2>1, <2>2, <2>4, <2>5, <2>6, <2>7, <2>9
<1>8. ASSUME Vacuum \/ RestartMemory
      PROVE  MemoryInv'
  <2>1. UNCHANGED <<memory, candidate, madeFrom>> /\ ChecksStand
    BY <1>8 DEF Vacuum, RestartMemory
  <2>2. Stored' = Stored /\ Filled(Used(memory')) /\ MemoriesAge(memory, memory')
        /\ CandidatesStay(candidate, candidate', reported, reported')
        /\ Drafted(candidate') = Drafted(candidate)
    BY <1>0, <2>1, NothingAges DEF Stored, PlacesFilled, ChecksStand
  <2>2a. ConflictsStand'
    BY <1>2a, <2>1, <2>2
  <2>3. CASE Vacuum
    <3>1. /\ vectors' = vectors \cap ActiveMemories /\ escaped' = {m \in escaped : Recalled(m)}
          /\ UNCHANGED approving /\ ChatsGoOn
      BY <2>3 DEF Vacuum
    <3>2. MemoryTypeOK'
      BY <1>0, <2>1, <3>1 DEF MemoryTypeOK, ChecksStand, ChatsGoOn
    <3>3. VectorsFollowDeletion'
      <4>1. ActiveMemories \subseteq Stored
        BY DEF ActiveMemories, Stored
      <4> QED BY <2>2, <3>1, <4>1 DEF VectorsFollowDeletion
    <3>4. RecallsInHand'
      <4>1. ASSUME NEW t \in Chat, chatAt[t] # "checked", NEW a \in listed[t]
            PROVE  a \in Stored' \cup escaped'
        BY <1>0, <2>2, <3>1, <4>1 DEF RecallsInHand, Recalled
      <4> QED BY <3>1, <4>1 DEF RecallsInHand, ChatsGoOn
    <3> QED BY <1>1, <2>1, <2>2, <2>2a, <3>1, <3>2, <3>3, <3>4
  <2>4. CASE RestartMemory
    <3>1. /\ approving' = 0 /\ UNCHANGED <<vectors, escaped>>
          /\ chatAt' = [t \in Chat |-> "idle"] /\ listed' = [t \in Chat |-> {}]
          /\ extracted' = [t \in Chat |-> NoCandidate]
      BY <2>4 DEF RestartMemory
    <3>2. NoCandidate \in [status : {"none", "pending"}, says : Said, conflict : 0..MaxMemories]
      BY MemoryAssumption DEF NoCandidate, Said
    <3>3. approving' \in 0..MaxCandidates
      BY <3>1, MemoryAssumption
    <3>4. MemoryTypeOK'
      BY <1>0, <2>1, <3>1, <3>2, <3>3 DEF MemoryTypeOK, ChecksStand
    <3>5. RecallsInHand' /\ VectorsFollowDeletion'
      BY <1>0, <2>2, <3>1 DEF RecallsInHand, VectorsFollowDeletion
    <3>6. PlacesFilled'
      BY <1>0, <2>1 DEF PlacesFilled
    <3>7. \A t \in Chat : chatAt'[t] # "checked"
      BY <3>1
    <3> QED BY <2>1, <2>2, <2>2a, <3>1, <3>4, <3>5, <3>6, <3>7, MemoryKept DEF ChecksStand
  <2> QED BY <1>8, <2>3, <2>4
<1> QED BY <1>3, <1>4, <1>5, <1>6, <1>7, <1>8 DEF MemoryEndpoint

\* The steps of a chat, which leave the store as it is but for a new candidate.
LEMMA ChatsKeep ==
  ASSUME MemoryInv, NEW t \in Chat, ChatStep(t)
  PROVE  MemoryInv'
<1>0. /\ MemoryTypeOK /\ PlacesFilled /\ RecallsInHand /\ VectorsFollowDeletion
      /\ CandidatesCompared /\ ApprovalsDecided /\ ConflictsStand
  BY DEF MemoryInv
<1>1. ASSUME MemoryTypeOK', StoreStays, RecallsInHand', VectorsFollowDeletion',
             \A u \in Chat : chatAt'[u] = "checked" =>
               \/ chatAt[u] = "checked" /\ listed'[u] = listed[u] /\ extracted'[u] = extracted[u]
               \/ /\ extracted'[u].status = "pending"
                  /\ Compared(memory, listed'[u], extracted'[u].says, extracted'[u].conflict)
      PROVE  MemoryInv'
  <2>1. PlacesFilled'
    BY <1>0, <1>1 DEF PlacesFilled, StoreStays
  <2>2. MemoriesAge(memory, memory') /\ CandidatesStay(candidate, candidate', reported, reported')
    BY <1>1, NothingAges DEF StoreStays, ChecksStand
  <2>3. ConflictsStand'
    BY <1>0, <1>1 DEF StoreStays, ChecksStand, ConflictsStand, Stored
  <2> QED BY <1>1, <2>1, <2>2, <2>3, MemoryKept DEF StoreStays, ChecksStand
<1>2. StoreStays => Stored' = Stored
  BY DEF StoreStays, Stored
<1>3. ASSUME NEW ms \in Listings
      PROVE  ms \subseteq Memories /\ ms \subseteq Active(memory) /\ ms \subseteq Stored /\ ms \subseteq Used(memory)
  BY <1>3 DEF Listings, ActiveMemories, Active, Stored, Used
<1>4. ASSUME NEW ms \in Listings, Recall(t, ms)
      PROVE  MemoryInv'
  <2>1. /\ StoreStays /\ UNCHANGED extracted /\ VectorsStay
        /\ chatAt' = [chatAt EXCEPT ![t] = "embedding"] /\ listed' = [listed EXCEPT ![t] = ms]
    BY <1>4 DEF Recall, ChatGoes
  <2>2. /\ chatAt'[t] = "embedding" /\ listed'[t] = ms
        /\ \A u \in Chat : u # t => chatAt'[u] = chatAt[u] /\ listed'[u] = listed[u]
    BY <1>0, <2>1 DEF MemoryTypeOK
  <2>3. MemoryTypeOK'
    BY <1>0, <1>3, <2>1 DEF MemoryTypeOK, StoreStays, ChecksStand, VectorsStay
  <2>4. RecallsInHand' /\ VectorsFollowDeletion'
    BY <1>0, <1>2, <1>3, <2>1, <2>2 DEF RecallsInHand, VectorsFollowDeletion, VectorsStay
  <2> QED BY <1>1, <2>1, <2>2, <2>3, <2>4
<1>5. ASSUME Embed(t)
      PROVE  MemoryInv'
  <2>1. /\ StoreStays /\ UNCHANGED extracted /\ VectorsStay
        /\ chatAt[t] = "embedding"
        /\ \/ chatAt' = [chatAt EXCEPT ![t] = "adding"]
           \/ chatAt' = [chatAt EXCEPT ![t] = "idle"]
        /\ listed' = [listed EXCEPT ![t] = @ \ vectors] \/ listed' = [listed EXCEPT ![t] = {}]
    BY <1>5 DEF Embed, ChatGoes
  <2>2. /\ chatAt'[t] \in {"adding", "idle"} /\ listed'[t] \subseteq listed[t]
        /\ \A u \in Chat : u # t => chatAt'[u] = chatAt[u] /\ listed'[u] = listed[u]
    BY <1>0, <2>1 DEF MemoryTypeOK
  <2>5. /\ chatAt' \in [Chat -> {"idle", "embedding", "adding", "checked"}]
        /\ listed' \in [Chat -> SUBSET Memories]
    <3>1. /\ chatAt \in [Chat -> {"idle", "embedding", "adding", "checked"}]
          /\ listed \in [Chat -> SUBSET Memories]
      BY <1>0 DEF MemoryTypeOK
    <3>2. chatAt' \in [Chat -> {"idle", "embedding", "adding", "checked"}]
      BY <2>1, <3>1
    <3>3. listed' \in [Chat -> SUBSET Memories]
      BY <2>1, <3>1
    <3> QED BY <3>2, <3>3
  <2>3. MemoryTypeOK'
    BY <1>0, <2>1, <2>5 DEF MemoryTypeOK, StoreStays, ChecksStand, VectorsStay
  <2>4. RecallsInHand' /\ VectorsFollowDeletion'
    BY <1>0, <1>2, <2>1, <2>2 DEF RecallsInHand, VectorsFollowDeletion, VectorsStay
  <2> QED BY <1>1, <2>1, <2>2, <2>3, <2>4
<1>6. ASSUME AddRows(t)
      PROVE  MemoryInv'
  <2>1. /\ StoreStays /\ UNCHANGED <<extracted, escaped>> /\ vectors' = vectors \cup listed[t]
        /\ chatAt[t] = "adding" /\ chatAt' = [chatAt EXCEPT ![t] = "idle"]
        /\ listed' = [listed EXCEPT ![t] = {}]
    BY <1>6 DEF AddRows, ChatGoes
  <2>2. /\ chatAt'[t] = "idle" /\ listed'[t] = {}
        /\ \A u \in Chat : u # t => chatAt'[u] = chatAt[u] /\ listed'[u] = listed[u]
    BY <1>0, <2>1 DEF MemoryTypeOK
  <2>3. MemoryTypeOK'
    BY <1>0, <2>1 DEF MemoryTypeOK, StoreStays, ChecksStand
  <2>4. RecallsInHand' /\ VectorsFollowDeletion'
    BY <1>0, <1>2, <2>1, <2>2 DEF RecallsInHand, VectorsFollowDeletion
  <2> QED BY <1>1, <2>1, <2>2, <2>3, <2>4
<1>7. ASSUME NEW ms \in Listings, NEW says \in Statement, NEW m \in {0} \cup ms,
             Extract(t, ms, says, m)
      PROVE  MemoryInv'
  <2> DEFINE draft == [status |-> "pending", says |-> says, conflict |-> m]
  <2>1. /\ Conflict(ms, says, m) /\ StoreStays /\ VectorsStay
        /\ chatAt' = [chatAt EXCEPT ![t] = "checked"] /\ listed' = [listed EXCEPT ![t] = ms]
        /\ extracted' = [extracted EXCEPT ![t] = draft]
    BY <1>7 DEF Extract, ChatGoes
  <2>2. /\ chatAt'[t] = "checked" /\ listed'[t] = ms /\ extracted'[t] = draft
        /\ \A u \in Chat : u # t => /\ chatAt'[u] = chatAt[u] /\ listed'[u] = listed[u]
                                    /\ extracted'[u] = extracted[u]
    BY <1>0, <2>1 DEF MemoryTypeOK
  <2>3. draft \in [status : {"none", "pending"}, says : Said, conflict : 0..MaxMemories]
    BY <1>3, <1>7, MemoryAssumption DEF Said, Memories
  <2>4. MemoryTypeOK'
    BY <1>0, <1>3, <2>1, <2>3 DEF MemoryTypeOK, StoreStays, ChecksStand, VectorsStay
  <2>5. RecallsInHand' /\ VectorsFollowDeletion'
    BY <1>0, <1>2, <2>1, <2>2 DEF RecallsInHand, VectorsFollowDeletion, VectorsStay
  <2>6. Compared(memory, ms, says, m)
    <3>1. m \in ms \/ m = 0
      BY <2>1 DEF Conflict
    <3>2. ASSUME m = 0, NEW a \in ms
          PROVE  memory[a].says # says /\ {memory[a].says, says} \notin Opposing
      <4>1. 0 \notin ms
        BY <1>3 DEF Memories
      <4> QED BY <2>1, <3>2, <4>1 DEF Conflict, Opposes
    <3> QED BY <1>3, <2>1, <3>1, <3>2 DEF Compared
  <2>7. draft.status = "pending" /\ draft.says = says /\ draft.conflict = m
    OBVIOUS
  <2> HIDE DEF draft
  <2>8. \A u \in Chat : chatAt'[u] = "checked" =>
          \/ chatAt[u] = "checked" /\ listed'[u] = listed[u] /\ extracted'[u] = extracted[u]
          \/ /\ extracted'[u].status = "pending"
             /\ Compared(memory, listed'[u], extracted'[u].says, extracted'[u].conflict)
    BY <2>2, <2>6, <2>7
  <2> QED BY <1>1, <2>1, <2>4, <2>5, <2>8
<1>8. ASSUME NEW c \in Candidates, CreateCandidate(t, c)
      PROVE  MemoryInv'
  <2>1. /\ NewCandidate(c) /\ chatAt[t] = "checked" /\ chatAt' = [chatAt EXCEPT ![t] = "idle"]
        /\ candidate' = [candidate EXCEPT ![c] = extracted[t]]
        /\ noticed' = [noticed EXCEPT ![c] = listed[t]]
        /\ reported' = [reported EXCEPT ![c] = extracted[t].conflict]
        /\ Referable(extracted[t].conflict) /\ extracted' = [extracted EXCEPT ![t] = NoCandidate]
        /\ listed' = [listed EXCEPT ![t] = {}]
        /\ UNCHANGED <<memory, madeFrom, approving>> /\ VectorsStay
    BY <1>8 DEF CreateCandidate, CheckLeft, ChatGoes
  <2>2. c \notin Drafted(candidate) /\ Filled(Drafted(candidate) \cup {c})
    BY <1>0, <2>1, NextPlace DEF NewCandidate, Drafted, PlacesFilled
  <2>3. /\ candidate'[c] = extracted[t] /\ noticed'[c] = listed[t]
        /\ reported'[c] = extracted[t].conflict
        /\ \A d \in Candidates : d # c => /\ candidate'[d] = candidate[d] /\ noticed'[d] = noticed[d]
                                         /\ reported'[d] = reported[d]
    BY <1>0, <2>1 DEF MemoryTypeOK
  <2>4. /\ extracted[t].status = "pending"
        /\ Compared(memory, listed[t], extracted[t].says, extracted[t].conflict)
    BY <1>0, <2>1 DEF CandidatesCompared
  <2>5. Drafted(candidate') = Drafted(candidate) \cup {c}
    BY <2>3, <2>4 DEF Drafted
  <2>6. CandidatesStay(candidate, candidate', reported, reported') /\ MemoriesAge(memory, memory')
    BY <2>1, <2>2, <2>3, <2>5, NothingAges DEF CandidatesStay, Drafted
  <2>7. /\ chatAt'[t] = "idle" /\ listed'[t] = {}
        /\ \A u \in Chat : u # t => /\ chatAt'[u] = chatAt[u] /\ listed'[u] = listed[u]
                                    /\ extracted'[u] = extracted[u]
    BY <1>0, <2>1 DEF MemoryTypeOK
  <2>8. MemoryTypeOK'
    <3>1. NoCandidate \in [status : {"none", "pending"}, says : Said, conflict : 0..MaxMemories]
      BY MemoryAssumption DEF NoCandidate, Said
    <3>2. extracted[t] \in [status : {"none", "pending", "approved", "rejected"},
                            says : Said, conflict : 0..MaxMemories]
          /\ extracted[t].conflict \in 0..MaxMemories
      BY <1>0 DEF MemoryTypeOK
    <3> QED BY <1>0, <2>1, <3>1, <3>2 DEF MemoryTypeOK, VectorsStay
  <2>9. Stored' = Stored
    BY <2>1 DEF Stored
  <2>10. RecallsInHand' /\ VectorsFollowDeletion'
    BY <1>0, <2>1, <2>7, <2>9 DEF RecallsInHand, VectorsFollowDeletion, VectorsStay
  <2>11. PlacesFilled'
    BY <1>0, <2>1, <2>2, <2>5 DEF PlacesFilled
  <2>12. \A d \in Drafted(candidate') :
           \/ d \in Drafted(candidate) /\ noticed'[d] = noticed[d]
           \/ Compared(memory, noticed'[d], candidate'[d].says, reported'[d])
    <3>1. ASSUME NEW d \in Drafted(candidate'), d # c
          PROVE  d \in Drafted(candidate) /\ noticed'[d] = noticed[d]
      BY <2>3, <2>5, <3>1 DEF Drafted
    <3>2. Compared(memory, noticed'[c], candidate'[c].says, reported'[c])
      BY <2>3, <2>4
    <3> QED BY <3>1, <3>2
  <2>13. ConflictsStand'
    <3>1. ASSUME NEW d \in Candidates, d # c
          PROVE  candidate'[d].conflict = IF reported'[d] \in Stored' THEN reported'[d] ELSE 0
      BY <1>0, <2>3, <2>9, <3>1 DEF ConflictsStand
    <3>2. 0 \notin Stored
      BY DEF Stored, Memories
    <3>3. candidate'[c].conflict = IF reported'[c] \in Stored' THEN reported'[c] ELSE 0
      BY <2>1, <2>3, <2>9, <3>2 DEF Referable
    <3> QED BY <3>1, <3>3 DEF ConflictsStand
  <2>14. \A d \in Candidates : reported'[d] \in {reported[d], 0} \cup Used(memory)
    BY <2>3, <2>4 DEF Compared
  <2> QED BY <2>1, <2>6, <2>7, <2>8, <2>10, <2>11, <2>12, <2>13, <2>14, MemoryKept
<1>9. ASSUME RefuseCandidate(t)
      PROVE  MemoryInv'
  <2>1. /\ StoreStays /\ VectorsStay
        /\ chatAt' = [chatAt EXCEPT ![t] = "idle"] /\ listed' = [listed EXCEPT ![t] = {}]
        /\ extracted' = [extracted EXCEPT ![t] = NoCandidate]
    BY <1>9 DEF RefuseCandidate, CheckLeft, ChatGoes, StoreStays
  <2>2. /\ chatAt'[t] = "idle" /\ listed'[t] = {}
        /\ \A u \in Chat : u # t => /\ chatAt'[u] = chatAt[u] /\ listed'[u] = listed[u]
                                    /\ extracted'[u] = extracted[u]
    BY <1>0, <2>1 DEF MemoryTypeOK
  <2>3. MemoryTypeOK'
    <3>1. NoCandidate \in [status : {"none", "pending"}, says : Said, conflict : 0..MaxMemories]
      BY MemoryAssumption DEF NoCandidate, Said
    <3> QED BY <1>0, <2>1, <3>1 DEF MemoryTypeOK, StoreStays, ChecksStand, VectorsStay
  <2>4. RecallsInHand' /\ VectorsFollowDeletion'
    BY <1>0, <1>2, <2>1, <2>2 DEF RecallsInHand, VectorsFollowDeletion, VectorsStay
  <2> QED BY <1>1, <2>1, <2>2, <2>3, <2>4
<1> QED BY <1>4, <1>5, <1>6, <1>7, <1>8, <1>9 DEF ChatStep

\* What the checks, the approvals and the recalls know of the memories holds throughout.
LEMMA MemoriesHold == MemorySpec => []MemoryInv
<1>1. MemoryInit => MemoryInv
  <2> SUFFICES ASSUME MemoryInit PROVE MemoryInv
    OBVIOUS
  <2>1. MemoryTypeOK
    <3>1. NoMemory \in [status : {"none", "active", "archived", "deleted"}, says : Said]
      BY DEF NoMemory, Said
    <3>2. NoCandidate \in [status : {"none", "pending"}, says : Said, conflict : 0..MaxMemories]
          /\ NoCandidate \in [status : {"none", "pending", "approved", "rejected"}, says : Said,
                              conflict : 0..MaxMemories]
      BY MemoryAssumption DEF NoCandidate, Said
    <3>3. 0 \in 0..MaxCandidates /\ 0 \in 0..MaxMemories
      BY MemoryAssumption
    <3> QED BY <3>1, <3>2, <3>3 DEF MemoryInit, MemoryTypeOK
  <2>2. Used(memory) = {} /\ Drafted(candidate) = {}
    BY DEF MemoryInit, NoMemory, NoCandidate, Used, Drafted
  <2>3. PlacesFilled
    <3>1. {} = 1..0 /\ 0 \in Nat
      OBVIOUS
    <3> QED BY <2>2, <3>1 DEF PlacesFilled, Filled
  <2>4. CandidatesCompared /\ ApprovalsDecided
    BY <2>2 DEF MemoryInit, CandidatesCompared, ApprovalsDecided
  <2>5. RecallsInHand /\ VectorsFollowDeletion /\ ConflictsStand
    BY DEF MemoryInit, RecallsInHand, VectorsFollowDeletion, ConflictsStand, NoCandidate
  <2> QED BY <2>1, <2>3, <2>4, <2>5 DEF MemoryInv
<1>2. MemoryInv /\ [MemoryNext]_memoryVars => MemoryInv'
  <2> SUFFICES ASSUME MemoryInv, [MemoryNext]_memoryVars PROVE MemoryInv'
    OBVIOUS
  <2>1. CASE MemoryNext
    BY <2>1, EndpointsKeep, ChatsKeep DEF MemoryNext
  <2>2. CASE UNCHANGED memoryVars
    BY <2>2 DEF memoryVars, MemoryInv, MemoryTypeOK, PlacesFilled, CandidatesCompared,
       ApprovalsDecided, RecallsInHand, VectorsFollowDeletion, ConflictsStand, Stored
  <2> QED BY <2>1, <2>2
<1> QED BY <1>1, <1>2, PTL DEF MemorySpec

\* Memories, candidates and what each chat has in hand keep their types.
THEOREM MemoryTypeCorrect == MemorySpec => []MemoryTypeOK
<1>1. MemoryInv => MemoryTypeOK
  BY DEF MemoryInv
<1> QED BY <1>1, MemoriesHold, PTL

\* MemoriesFollowDecisions: what the check of an approved memory reported is active no
\* more, two active memories clash only if that check could not see the one or stopped at
\* another, a candidate names what its check reported as long as it has a row, and a
\* deleted memory has no vector, also when memories are deleted between these steps.
THEOREM MemoriesAreDecided == MemorySpec => []MemoriesFollowDecisions
<1>1. MemoryInv => MemoriesFollowDecisions
  <2> SUFFICES ASSUME MemoryInv, NEW b \in ActiveMemories, madeFrom[b] # 0
               PROVE  /\ reported[madeFrom[b]] \notin ActiveMemories
                      /\ \A a \in noticed[madeFrom[b]] \cap ActiveMemories : a # b /\ Clashes(a, b) =>
                           reported[madeFrom[b]] \notin {0, a}
    BY DEF MemoriesFollowDecisions, ClashesUnseen, MemoryInv
  <2> DEFINE c == madeFrom[b]
  <2>1. b \in Used(memory) /\ b \in Active(memory) /\ ActiveMemories = Active(memory)
    BY DEF ActiveMemories, Active, Used
  <2>2. Decided(memory, candidate, reported, c) /\ memory[b].says = candidate[c].says
    BY <2>1 DEF MemoryInv, ApprovalsDecided
  <2>3. Compared(memory, noticed[c], candidate[c].says, reported[c])
    BY <2>2 DEF MemoryInv, CandidatesCompared, Decided
  <2>4. reported[c] \notin Active(memory)
    BY <2>2 DEF Decided
  <2>5. ASSUME NEW a \in noticed[c] \cap ActiveMemories, Clashes(a, b)
        PROVE  reported[c] \notin {0, a}
    BY <2>1, <2>2, <2>3, <2>4, <2>5 DEF Compared, Clashes, Opposes
  <2> QED BY <2>1, <2>4, <2>5
<1> QED BY <1>1, MemoriesHold, PTL

--------------------------------------------------------------------------------
(* The library.                                                                *)

CallStage == {"none", "fetch", "index", "indexed", "failed", "remove", "remove nothing", "removed"}
             \cup InIndex
Ready == [status |-> "knowledge_ready", segments |-> TRUE]
\* a call on the document is in one of these places
CallIn(d, places) == \E c \in LibraryCall : callDoc[c] = d /\ callPlace[c] \in places
\* from there a call ends only with the row set right, or distrusted
Settling == {"indexed", "removed", "remove nothing"}

\* Who holds the lock is within the index, where nobody else is.
LockHeld ==
  /\ \A c \in LibraryCall : callPlace[c] \in InIndex <=> indexLock = c
  /\ \A c \in LibraryCall : callPlace[c] = "none" <=> callDoc[c] = "none"
  /\ \A c \in LibraryCall :
       /\ callPlace[c] \in {"adding", "added"} => callDoc[c] \notin inMemory
       /\ callPlace[c] \in {"removing", "deleted"} => callDoc[c] \in inMemory
\* what the table has, also within the lock
DenseOf(d) ==
  dense[d] = IF CallIn(d, {"added"}) \/ (d \in inMemory /\ ~CallIn(d, {"deleted"})) THEN 1 ELSE 0
\* a call that nothing overlapped knows what became of its document
AloneOf(c) ==
  /\ callPlace[c] # "none" => \A e \in LibraryCall : callDoc[e] = callDoc[c] => e = c
  /\ callPlace[c] = "indexed" => callDoc[c] \in inMemory
  /\ callPlace[c] = "removed" => callDoc[c] \notin inMemory
  /\ callPlace[c] = "remove nothing" /\ callDoc[c] \notin stale \cup torn => callDoc[c] \notin inMemory
\* the row tells what the pipeline has, or a call is about to set it right
RowOf(d) ==
  /\ d \in inMemory => row[d] = Ready \/ CallIn(d, Settling) \/ CallIn(d, {"index"})
  /\ d \notin inMemory => row[d].status # "knowledge_ready" \/ CallIn(d, Settling)
  /\ CallIn(d, {"fetch", "index", "adding", "added", "failed"}) => row[d].status # "knowledge_ready"
LibraryInv ==
  /\ LibraryTypeOK /\ LockHeld
  /\ torn = {} => \A d \in Document : DenseOf(d)
  /\ \A c \in LibraryCall \ overlapped : AloneOf(c)
  /\ \A d \in Document \ (stale \cup torn) : RowOf(d)

\* A step of calls on one document leaves what is known of the others.
LEMMA LibraryKept ==
  ASSUME LibraryInv, LibraryTypeOK', LockHeld', NEW d \in Document,
         \A e \in LibraryCall : \/ callPlace'[e] = callPlace[e] /\ callDoc'[e] = callDoc[e]
                                \/ callDoc[e] \in {d, "none"} /\ callDoc'[e] \in {d, "none"},
         \A e \in LibraryCall : e \in overlapped /\ e \notin overlapped' => callDoc'[e] \in {d, "none"},
         \A e \in Document : e # d => /\ row'[e] = row[e] /\ dense'[e] = dense[e]
                                      /\ e \in inMemory' <=> e \in inMemory
                                      /\ e \in stale' <=> e \in stale,
         torn' = torn,
         torn = {} => DenseOf(d)',
         d \notin stale' \cup torn => RowOf(d)',
         \A e \in LibraryCall : e \notin overlapped' /\ callDoc'[e] = d => AloneOf(e)'
  PROVE  LibraryInv'
<1>0. /\ LibraryTypeOK /\ LockHeld /\ "none" \notin Document
      /\ torn = {} => \A e \in Document : DenseOf(e)
      /\ \A c \in LibraryCall \ overlapped : AloneOf(c)
      /\ \A e \in Document \ (stale \cup torn) : RowOf(e)
  BY LibraryAssumption DEF LibraryInv
<1>1. ASSUME NEW f \in Document, f # d, NEW places
      PROVE  CallIn(f, places)' <=> CallIn(f, places)
  BY <1>0, <1>1 DEF CallIn
<1>2. ASSUME NEW f \in Document, f # d
      PROVE  /\ DenseOf(f) => DenseOf(f)'
             /\ RowOf(f) => RowOf(f)'
  <2>1. \A places : CallIn(f, places)' <=> CallIn(f, places)
    BY <1>1, <1>2
  <2>2. /\ row'[f] = row[f] /\ dense'[f] = dense[f] /\ (f \in inMemory' <=> f \in inMemory)
    BY <1>2
  <2>3. DenseOf(f) => DenseOf(f)'
    BY <1>1, <1>2, <2>2 DEF DenseOf
  <2>4. RowOf(f) => RowOf(f)'
    BY <1>1, <1>2, <2>2 DEF RowOf
  <2> QED BY <2>3, <2>4
<1>3. torn' = {} => \A e \in Document : DenseOf(e)'
  BY <1>0, <1>2
<1>4. \A e \in Document \ (stale' \cup torn') : RowOf(e)'
  BY <1>0, <1>2
<1>5. ASSUME NEW c \in LibraryCall \ overlapped'
      PROVE  AloneOf(c)'
  <2>1. CASE callDoc'[c] = d
    BY <1>5, <2>1
  <2>2. CASE callDoc'[c] = "none"
    <3>1. callPlace'[c] = "none"
      BY <1>5, <2>2 DEF LockHeld
    <3> QED BY <3>1 DEF AloneOf
  <2>3. CASE callDoc'[c] \notin {d, "none"}
    <3>1. callPlace'[c] = callPlace[c] /\ callDoc'[c] = callDoc[c] /\ c \notin overlapped
      BY <1>5, <2>3
    <3>2. callDoc[c] \in Document /\ AloneOf(c)
      BY <1>0, <1>5, <2>3, <3>1 DEF LibraryTypeOK
    <3>3. \A e \in LibraryCall : callDoc'[e] = callDoc[c] => callDoc[e] = callDoc[c]
      BY <2>3, <3>1
    <3> QED BY <2>3, <3>1, <3>2, <3>3 DEF AloneOf
  <2> QED BY <1>0, <1>5, <2>1, <2>2, <2>3
<1> QED BY <1>3, <1>4, <1>5 DEF LibraryInv

\* A call goes on.
LEMMA CallProceeds ==
  ASSUME LibraryInv, NEW c \in LibraryCall, NEW from \in CallStage \ {"none"}, NEW to \in CallStage,
         Proceed(c, from, to)
  PROVE  /\ callPlace[c] = from /\ callPlace'[c] = to /\ callDoc[c] \in Document
         /\ callDoc'[c] = IF to = "none" THEN "none" ELSE callDoc[c]
         /\ overlapped' = IF to = "none" THEN overlapped \ {c} ELSE overlapped
         /\ \A e \in LibraryCall : e # c => callPlace'[e] = callPlace[e] /\ callDoc'[e] = callDoc[e]
         /\ callPlace' \in [LibraryCall -> CallStage]
         /\ callDoc' \in [LibraryCall -> Document \cup {"none"}] /\ overlapped' \subseteq LibraryCall
<1>1. /\ callPlace \in [LibraryCall -> CallStage] /\ callDoc \in [LibraryCall -> Document \cup {"none"}]
      /\ overlapped \subseteq LibraryCall
  BY DEF LibraryInv, LibraryTypeOK, CallStage
<1>2. callDoc[c] \in Document /\ callPlace[c] = from
  BY <1>1 DEF LibraryInv, LockHeld, Proceed
<1> QED BY <1>1, <1>2 DEF Proceed

\* A call begins.
LEMMA CallBegins ==
  ASSUME LibraryInv, NEW c \in LibraryCall, NEW d \in Document, NEW spot \in CallStage,
         Begin(c, d, spot)
  PROVE  /\ callPlace[c] = "none" /\ callDoc[c] = "none"
         /\ callPlace'[c] = spot /\ callDoc'[c] = d
         /\ \A e \in LibraryCall : e # c => callPlace'[e] = callPlace[e] /\ callDoc'[e] = callDoc[e]
         /\ callPlace' \in [LibraryCall -> CallStage]
         /\ callDoc' \in [LibraryCall -> Document \cup {"none"}]
         /\ overlapped \subseteq overlapped' /\ overlapped' \subseteq LibraryCall
         /\ \A e \in LibraryCall : callDoc[e] = d => e \in overlapped' /\ c \in overlapped'
<1>1. LibraryTypeOK /\ LockHeld
  BY DEF LibraryInv
<1>2. callPlace[c] = "none" /\ callDoc[c] = "none"
  BY <1>1 DEF Begin, LockHeld
<1>3. /\ callPlace' = [callPlace EXCEPT ![c] = spot] /\ callDoc' = [callDoc EXCEPT ![c] = d]
      /\ overlapped' = IF CallsOn(d) = {} THEN overlapped ELSE overlapped \cup CallsOn(d) \cup {c}
  BY DEF Begin
<1>4. \A e \in LibraryCall : callDoc[e] = d => e \in overlapped' /\ c \in overlapped'
  BY <1>3 DEF CallsOn
<1>5. overlapped \subseteq overlapped' /\ overlapped' \subseteq LibraryCall
  BY <1>1, <1>3 DEF CallsOn, LibraryTypeOK
<1>6. callPlace \in [LibraryCall -> CallStage] /\ callDoc \in [LibraryCall -> Document \cup {"none"}]
  BY <1>1 DEF LibraryTypeOK, CallStage
<1>7. callPlace' \in [LibraryCall -> CallStage] /\ callDoc' \in [LibraryCall -> Document \cup {"none"}]
  BY <1>3, <1>6
<1> QED BY <1>2, <1>3, <1>4, <1>5, <1>6, <1>7

\* another call on the document is in one of these places
OtherIn(c, d, places) == \E e \in LibraryCall \ {c} : callDoc[e] = d /\ callPlace[e] \in places

\* What is known of the calls on a document when one of them goes on.
LEMMA CallPlaces ==
  ASSUME LibraryInv, NEW c \in LibraryCall, NEW d, d = callDoc[c],
         NEW from \in CallStage \ {"none"}, NEW to \in CallStage, Proceed(c, from, to)
  PROVE  /\ \A P : CallIn(d, P) <=> from \in P \/ OtherIn(c, d, P)
         /\ \A P : "none" \notin P => (CallIn(d, P)' <=> to \in P \/ OtherIn(c, d, P))
         /\ \A e \in LibraryCall : e \notin overlapped' /\ callDoc'[e] = d =>
              /\ e = c /\ to # "none" /\ \A f \in LibraryCall : callDoc'[f] = d => f = c
              /\ AloneOf(c)
<1>1. /\ callPlace[c] = from /\ callPlace'[c] = to /\ d \in Document /\ "none" \notin Document
      /\ callDoc'[c] = IF to = "none" THEN "none" ELSE d
      /\ overlapped' = IF to = "none" THEN overlapped \ {c} ELSE overlapped
      /\ \A e \in LibraryCall : e # c => callPlace'[e] = callPlace[e] /\ callDoc'[e] = callDoc[e]
  BY CallProceeds, LibraryAssumption
<1>2. ASSUME NEW P PROVE CallIn(d, P) <=> from \in P \/ OtherIn(c, d, P)
  BY <1>1 DEF CallIn, OtherIn
<1>3. ASSUME NEW P, "none" \notin P PROVE CallIn(d, P)' <=> to \in P \/ OtherIn(c, d, P)
  BY <1>1, <1>3 DEF CallIn, OtherIn
<1>4. ASSUME NEW e \in LibraryCall, e \notin overlapped', callDoc'[e] = d
      PROVE  /\ e = c /\ to # "none" /\ \A f \in LibraryCall : callDoc'[f] = d => f = c
             /\ AloneOf(c)
  <2>1. callDoc[e] = d
    BY <1>1, <1>4
  <2>2. e # c => e \notin overlapped /\ callPlace[e] # "none"
    BY <1>1, <1>4, <2>1 DEF LibraryInv, LockHeld
  <2>3. e = c
    <3>1. e # c => AloneOf(e)
      BY <2>2 DEF LibraryInv
    <3> QED BY <2>1, <2>2, <3>1 DEF AloneOf
  <2>4. to # "none" /\ c \notin overlapped
    BY <1>1, <1>4, <2>3
  <2>5. AloneOf(c)
    BY <2>4 DEF LibraryInv
  <2> QED BY <1>1, <2>3, <2>4, <2>5 DEF AloneOf
<1> QED BY <1>2, <1>3, <1>4

\* A call goes on without saving a row: besides what the step does to the index, it
\* matters where the call leaves the document.
LEMMA IndexStepKeeps ==
  ASSUME LibraryInv, NEW c \in LibraryCall, NEW d, d = callDoc[c],
         NEW from \in CallStage \ {"none"}, NEW to \in CallStage, to # "remove nothing",
         Proceed(c, from, to), UNCHANGED <<row, wasReady, restarts, stale, torn>>,
         LibraryTypeOK', LockHeld', torn = {} => DenseOf(d)',
         \A e \in Document : e # d => dense'[e] = dense[e] /\ (e \in inMemory' <=> e \in inMemory),
         from \notin Settling,
         to \in {"fetch", "index", "adding", "added", "failed"} =>
           from \in {"fetch", "index", "adding", "added", "failed"},
         d \in inMemory' => to = "indexed" \/ (d \in inMemory /\ from # "index"),
         d \notin inMemory' => to = "removed" \/ d \notin inMemory,
         to = "indexed" => d \in inMemory',
         to = "removed" => d \notin inMemory'
  PROVE  LibraryInv'
<1>1. /\ callPlace[c] = from /\ callPlace'[c] = to /\ d \in Document
      /\ callDoc'[c] = IF to = "none" THEN "none" ELSE d
      /\ overlapped' = IF to = "none" THEN overlapped \ {c} ELSE overlapped
      /\ \A e \in LibraryCall : e # c => callPlace'[e] = callPlace[e] /\ callDoc'[e] = callDoc[e]
  BY CallProceeds, ZenonT(60)
<1>2. /\ \A P : CallIn(d, P) <=> from \in P \/ OtherIn(c, d, P)
      /\ \A P : "none" \notin P => (CallIn(d, P)' <=> to \in P \/ OtherIn(c, d, P))
      /\ \A e \in LibraryCall : e \notin overlapped' /\ callDoc'[e] = d =>
           /\ e = c /\ to # "none" /\ \A f \in LibraryCall : callDoc'[f] = d => f = c
           /\ AloneOf(c)
  BY CallPlaces, ZenonT(60)
<1>3. /\ CallIn(d, Settling)' <=> to \in Settling \/ CallIn(d, Settling)
      /\ CallIn(d, {"index"}) <=> from = "index" \/ OtherIn(c, d, {"index"})
      /\ CallIn(d, {"index"})' <=> to = "index" \/ OtherIn(c, d, {"index"})
      /\ CallIn(d, {"fetch", "index", "adding", "added", "failed"})'
           => CallIn(d, {"fetch", "index", "adding", "added", "failed"})
  <2>1. CallIn(d, Settling)' <=> to \in Settling \/ CallIn(d, Settling)
    BY <1>2 DEF Settling
  <2>2. CallIn(d, {"fetch", "index", "adding", "added", "failed"})'
          => CallIn(d, {"fetch", "index", "adding", "added", "failed"})
    BY <1>2
  <2> QED BY <1>2, <2>1, <2>2
<1>4. d \notin stale' \cup torn => RowOf(d)'
  <2> SUFFICES ASSUME d \notin stale' \cup torn PROVE RowOf(d)'
    OBVIOUS
  <2>1. RowOf(d) /\ row'[d] = row[d]
    BY <1>1 DEF LibraryInv
  <2>2. d \in inMemory' => row'[d] = Ready \/ CallIn(d, Settling)' \/ CallIn(d, {"index"})'
    BY <1>3, <2>1 DEF RowOf, Settling
  <2>3. d \notin inMemory' => row'[d].status # "knowledge_ready" \/ CallIn(d, Settling)'
    BY <1>3, <2>1 DEF RowOf, Settling
  <2> QED BY <1>3, <2>1, <2>2, <2>3 DEF RowOf
<1>5. \A e \in LibraryCall : e \notin overlapped' /\ callDoc'[e] = d => AloneOf(e)'
  BY <1>1, <1>2 DEF AloneOf
<1>6. \A e \in LibraryCall : \/ callPlace'[e] = callPlace[e] /\ callDoc'[e] = callDoc[e]
                             \/ callDoc[e] \in {d, "none"} /\ callDoc'[e] \in {d, "none"}
  BY <1>1
<1>7. \A e \in LibraryCall : e \in overlapped /\ e \notin overlapped' => callDoc'[e] \in {d, "none"}
  BY <1>1
<1> QED BY <1>1, <1>4, <1>5, <1>6, <1>7, LibraryKept, ZenonT(60)

\* Within the index there is the holder of the lock alone.
LEMMA OneInIndex ==
  ASSUME LibraryInv, NEW c \in LibraryCall, NEW d, d = callDoc[c], indexLock = c \/ indexLock = "free"
  PROVE  /\ ~OtherIn(c, d, {"added"}) /\ ~OtherIn(c, d, {"deleted"})
         /\ \A e \in LibraryCall \ {c} : callPlace[e] \notin InIndex
<1>1. \A e \in LibraryCall \ {c} : callPlace[e] \notin InIndex
  <2> SUFFICES ASSUME NEW e \in LibraryCall, e # c PROVE callPlace[e] \notin InIndex
    OBVIOUS
  <2>1. callPlace[e] \in InIndex <=> indexLock = e
    BY DEF LibraryInv, LockHeld
  <2> QED BY <2>1, LibraryAssumption
<1> QED BY <1>1 DEF OtherIn, InIndex

\* How often the table has a document whose call is at a place, and whether it is in
\* the pipeline.
EntriesAt(spot, there) == IF spot = "added" \/ (there /\ spot # "deleted") THEN 1 ELSE 0

\* What the table has of the document of a call that enters, or goes on in, the index.
LEMMA DenseStep ==
  ASSUME LibraryInv, NEW c \in LibraryCall, NEW d, d = callDoc[c],
         NEW from \in CallStage \ {"none"}, NEW to \in CallStage, Proceed(c, from, to),
         indexLock = c \/ indexLock = "free",
         dense[d] = EntriesAt(from, d \in inMemory) => dense'[d] = EntriesAt(to, d \in inMemory')
  PROVE  DenseOf(d) => DenseOf(d)'
<1>1. ~OtherIn(c, d, {"added"}) /\ ~OtherIn(c, d, {"deleted"})
  BY OneInIndex
<1>2. /\ \A P : CallIn(d, P) <=> from \in P \/ OtherIn(c, d, P)
      /\ \A P : "none" \notin P => (CallIn(d, P)' <=> to \in P \/ OtherIn(c, d, P))
  BY CallPlaces
<1>3. /\ CallIn(d, {"added"}) <=> from = "added"
      /\ CallIn(d, {"deleted"}) <=> from = "deleted"
      /\ CallIn(d, {"added"})' <=> to = "added"
      /\ CallIn(d, {"deleted"})' <=> to = "deleted"
  BY <1>1, <1>2
<1>4. DenseOf(d) => dense[d] = EntriesAt(from, d \in inMemory)
  BY <1>3 DEF DenseOf, EntriesAt
<1>5. dense'[d] = EntriesAt(to, d \in inMemory') => DenseOf(d)'
  BY <1>3 DEF DenseOf, EntriesAt
<1> QED BY <1>4, <1>5

\* Who goes on within the index, enters it or leaves it keeps the lock's meaning.
LEMMA LockStep ==
  ASSUME LibraryInv, NEW c \in LibraryCall, NEW d, d = callDoc[c],
         NEW from \in CallStage \ {"none"}, NEW to \in CallStage, Proceed(c, from, to),
         indexLock = c \/ indexLock = "free",
         indexLock' = IF to \in InIndex THEN c ELSE "free",
         to \in {"adding", "added"} => d \notin inMemory',
         to \in {"removing", "deleted"} => d \in inMemory'
  PROVE  LockHeld'
<1>1. /\ callPlace[c] = from /\ callPlace'[c] = to /\ d \in Document
      /\ callDoc'[c] = IF to = "none" THEN "none" ELSE d
      /\ \A e \in LibraryCall : e # c => callPlace'[e] = callPlace[e] /\ callDoc'[e] = callDoc[e]
  BY CallProceeds
<1>2. \A e \in LibraryCall \ {c} : callPlace[e] \notin InIndex
  BY OneInIndex
<1>3. "free" \notin LibraryCall /\ "none" \notin Document
  BY LibraryAssumption
<1>4. \A e \in LibraryCall : callPlace[e] = "none" <=> callDoc[e] = "none"
  BY DEF LibraryInv, LockHeld
<1>5. \A e \in LibraryCall : callPlace'[e] \in InIndex <=> indexLock' = e
  BY <1>1, <1>2, <1>3
<1>6. \A e \in LibraryCall : callPlace'[e] = "none" <=> callDoc'[e] = "none"
  BY <1>1, <1>3, <1>4
<1>7. \A e \in LibraryCall :
        /\ callPlace'[e] \in {"adding", "added"} => callDoc'[e] \notin inMemory'
        /\ callPlace'[e] \in {"removing", "deleted"} => callDoc'[e] \in inMemory'
  BY <1>1, <1>2 DEF InIndex
<1> QED BY <1>5, <1>6, <1>7 DEF LockHeld

\* The steps within the index, those that enter it and those that leave it.
LEMMA IndexMoves ==
  ASSUME LibraryInv, NEW c \in LibraryCall, NEW d, d = callDoc[c],
         NEW from \in CallStage \ {"none"}, NEW to \in CallStage, to # "remove nothing",
         Proceed(c, from, to), UNCHANGED <<row, wasReady, restarts, stale, torn>>,
         indexLock = c \/ indexLock = "free", indexLock' = IF to \in InIndex THEN c ELSE "free",
         dense' \in [Document -> Nat], inMemory' \subseteq Document,
         \A e \in Document : e # d => dense'[e] = dense[e] /\ (e \in inMemory' <=> e \in inMemory),
         dense[d] = EntriesAt(from, d \in inMemory) => dense'[d] = EntriesAt(to, d \in inMemory'),
         from \notin Settling,
         to \in {"fetch", "index", "adding", "added", "failed"} =>
           from \in {"fetch", "index", "adding", "added", "failed"},
         d \in inMemory' =>
           to \in {"indexed", "removing", "deleted", "none"} /\ (d \notin inMemory => to = "indexed"),
         d \notin inMemory' =>
           to \in {"removed", "adding", "added", "failed"} /\ (d \in inMemory => to = "removed"),
         from = "index" => to \in {"adding", "indexed"}
  PROVE  LibraryInv'
<1>1. /\ callPlace' \in [LibraryCall -> CallStage] /\ d \in Document
      /\ callDoc' \in [LibraryCall -> Document \cup {"none"}] /\ overlapped' \subseteq LibraryCall
  BY CallProceeds
<1>2. LibraryTypeOK'
  <2>1. LibraryTypeOK
    BY DEF LibraryInv
  <2> QED BY <1>1, <2>1 DEF LibraryTypeOK, CallStage
<1>3. LockHeld'
  BY LockStep
<1>4. torn = {} => DenseOf(d)'
  <2>1. torn = {} => DenseOf(d)
    BY <1>1 DEF LibraryInv
  <2> QED BY <2>1, DenseStep
<1> QED BY <1>2, <1>3, <1>4, IndexStepKeeps

LEMMA IndexKeeps ==
  ASSUME LibraryInv, NEW c \in LibraryCall,
         \/ AddDocuments(c) \/ AddFails(c) \/ AddDense(c) \/ AddToPipeline(c)
         \/ RemoveDocuments(c) \/ DeleteDense(c) \/ DeleteFails(c) \/ RemoveFromPipeline(c)
  PROVE  LibraryInv'
<1> DEFINE d == callDoc[c]
<1>1. /\ dense \in [Document -> Nat] /\ inMemory \subseteq Document
      /\ callPlace[c] \in InIndex <=> indexLock = c
      /\ callPlace[c] \in {"adding", "added"} => d \notin inMemory
      /\ callPlace[c] \in {"removing", "deleted"} => d \in inMemory
  BY DEF LibraryInv, LibraryTypeOK, LockHeld
<1>2. CallStage = {"none", "fetch", "index", "indexed", "failed", "remove", "remove nothing", "removed",
                   "adding", "added", "removing", "deleted"}
  BY DEF CallStage, InIndex
<1>3. ASSUME NEW from \in CallStage \ {"none"}, NEW to \in CallStage, Proceed(c, from, to)
      PROVE  d \in Document /\ callPlace[c] = from
  BY <1>3, CallProceeds
<1> HIDE DEF d
<1>4. CASE AddDocuments(c)
  <2>1. CASE d \notin inMemory
    <3>1. /\ Proceed(c, "index", "adding") /\ UNCHANGED <<row, wasReady, restarts, stale, torn>>
          /\ indexLock' = c /\ dense' = dense /\ inMemory' = inMemory /\ indexLock = "free"
      BY <1>4, <2>1 DEF AddDocuments, Pending, Enters, Unlocked, SaveNothing, d
    <3>2. d \in Document /\ callPlace[c] = "index"
      BY <1>2, <1>3, <3>1
    <3>3. dense' \in [Document -> Nat] /\ inMemory' \subseteq Document
      BY <1>1, <3>1, <3>2
    <3>4. /\ dense[d] = EntriesAt("index", d \in inMemory) => dense'[d] = EntriesAt("adding", d \in inMemory')
          /\ "index" \notin Settling /\ "adding" \in InIndex
          /\ indexLock = c \/ indexLock = "free"
          /\ indexLock' = c
      BY <1>1, <3>1, <3>2, <3>3, <2>1 DEF EntriesAt, InIndex, Settling
    <3> QED BY <1>1, <1>2, <3>1, <3>2, <3>3, <3>4, <2>1, IndexMoves DEF d
  <2>2. CASE d \in inMemory
    <3>1. /\ Proceed(c, "index", "indexed") /\ UNCHANGED <<row, wasReady, restarts, stale, torn>>
          /\ indexLock' = "free" /\ dense' = dense /\ inMemory' = inMemory /\ indexLock = "free"
      BY <1>4, <2>2 DEF AddDocuments, Pending, Enters, Unlocked, SaveNothing, d
    <3>2. d \in Document /\ callPlace[c] = "index"
      BY <1>2, <1>3, <3>1
    <3>3. dense' \in [Document -> Nat] /\ inMemory' \subseteq Document
      BY <1>1, <3>1, <3>2
    <3>4. /\ dense[d] = EntriesAt("index", d \in inMemory) => dense'[d] = EntriesAt("indexed", d \in inMemory')
          /\ "index" \notin Settling /\ "indexed" \notin InIndex
          /\ indexLock = c \/ indexLock = "free"
          /\ indexLock' = "free"
      BY <1>1, <3>1, <3>2, <3>3, <2>2 DEF EntriesAt, InIndex, Settling
    <3> QED BY <1>1, <1>2, <3>1, <3>2, <3>3, <3>4, <2>2, IndexMoves DEF d
  <2> QED BY <2>1, <2>2
<1>5. CASE AddFails(c)
  <2>1. /\ Proceed(c, "adding", "failed") /\ UNCHANGED <<row, wasReady, restarts, stale, torn>>
        /\ indexLock' = "free" /\ dense' = dense /\ inMemory' = inMemory
    BY <1>5 DEF AddFails, Leaves, SaveNothing, d
  <2>2. d \in Document /\ callPlace[c] = "adding"
    BY <1>2, <1>3, <2>1
  <2>3. dense' \in [Document -> Nat] /\ inMemory' \subseteq Document
    BY <1>1, <2>1, <2>2
  <2>4. /\ dense[d] = EntriesAt("adding", d \in inMemory) => dense'[d] = EntriesAt("failed", d \in inMemory')
        /\ "adding" \notin Settling /\ "failed" \notin InIndex
        /\ indexLock = c \/ indexLock = "free"
        /\ indexLock' = "free"
    BY <1>1, <2>1, <2>2, <2>3 DEF EntriesAt, InIndex, Settling
  <2> QED BY <1>1, <1>2, <2>1, <2>2, <2>3, <2>4, IndexMoves DEF d
<1>6. CASE AddDense(c)
  <2>1. /\ Proceed(c, "adding", "added") /\ UNCHANGED <<row, wasReady, restarts, stale, torn>>
        /\ indexLock' = indexLock /\ dense' = [dense EXCEPT ![d] = dense[d] + 1] /\ inMemory' = inMemory
    BY <1>6 DEF AddDense, SaveNothing, d
  <2>2. d \in Document /\ callPlace[c] = "adding"
    BY <1>2, <1>3, <2>1
  <2>3. dense' \in [Document -> Nat] /\ inMemory' \subseteq Document
    BY <1>1, <2>1, <2>2
  <2>4. /\ dense[d] = EntriesAt("adding", d \in inMemory) => dense'[d] = EntriesAt("added", d \in inMemory')
        /\ "adding" \notin Settling /\ "added" \in InIndex
        /\ indexLock = c \/ indexLock = "free"
        /\ indexLock' = c
    BY <1>1, <2>1, <2>2, <2>3 DEF EntriesAt, InIndex, Settling
  <2> QED BY <1>1, <1>2, <2>1, <2>2, <2>3, <2>4, IndexMoves, ZenonT(60) DEF d
<1>7. CASE AddToPipeline(c)
  <2>1. /\ Proceed(c, "added", "indexed") /\ UNCHANGED <<row, wasReady, restarts, stale, torn>>
        /\ indexLock' = "free" /\ dense' = dense /\ inMemory' = inMemory \cup {d}
    BY <1>7 DEF AddToPipeline, Leaves, SaveNothing, d
  <2>2. d \in Document /\ callPlace[c] = "added"
    BY <1>2, <1>3, <2>1
  <2>3. dense' \in [Document -> Nat] /\ inMemory' \subseteq Document
    BY <1>1, <2>1, <2>2
  <2>4. /\ dense[d] = EntriesAt("added", d \in inMemory) => dense'[d] = EntriesAt("indexed", d \in inMemory')
        /\ "added" \notin Settling /\ "indexed" \notin InIndex
        /\ indexLock = c \/ indexLock = "free"
        /\ indexLock' = "free"
    BY <1>1, <2>1, <2>2, <2>3 DEF EntriesAt, InIndex, Settling
  <2> QED BY <1>1, <1>2, <2>1, <2>2, <2>3, <2>4, IndexMoves DEF d
<1>8. CASE RemoveDocuments(c)
  <2>1. CASE d \in inMemory
    <3>1. /\ Proceed(c, "remove", "removing") /\ UNCHANGED <<row, wasReady, restarts, stale, torn>>
          /\ indexLock' = c /\ dense' = dense /\ inMemory' = inMemory /\ indexLock = "free"
      BY <1>8, <2>1 DEF RemoveDocuments, Enters, Unlocked, SaveNothing, d
    <3>2. d \in Document /\ callPlace[c] = "remove"
      BY <1>2, <1>3, <3>1
    <3>3. dense' \in [Document -> Nat] /\ inMemory' \subseteq Document
      BY <1>1, <3>1, <3>2
    <3>4. /\ dense[d] = EntriesAt("remove", d \in inMemory) => dense'[d] = EntriesAt("removing", d \in inMemory')
          /\ "remove" \notin Settling /\ "removing" \in InIndex
          /\ indexLock = c \/ indexLock = "free"
          /\ indexLock' = c
      BY <1>1, <3>1, <3>2, <3>3, <2>1 DEF EntriesAt, InIndex, Settling
    <3> QED BY <1>1, <1>2, <3>1, <3>2, <3>3, <3>4, <2>1, IndexMoves DEF d
  <2>2. CASE d \notin inMemory
    <3>1. /\ Proceed(c, "remove", "removed") /\ UNCHANGED <<row, wasReady, restarts, stale, torn>>
          /\ indexLock' = "free" /\ dense' = dense /\ inMemory' = inMemory /\ indexLock = "free"
      BY <1>8, <2>2 DEF RemoveDocuments, Enters, Unlocked, SaveNothing, d
    <3>2. d \in Document /\ callPlace[c] = "remove"
      BY <1>2, <1>3, <3>1
    <3>3. dense' \in [Document -> Nat] /\ inMemory' \subseteq Document
      BY <1>1, <3>1, <3>2
    <3>4. /\ dense[d] = EntriesAt("remove", d \in inMemory) => dense'[d] = EntriesAt("removed", d \in inMemory')
          /\ "remove" \notin Settling /\ "removed" \notin InIndex
          /\ indexLock = c \/ indexLock = "free"
          /\ indexLock' = "free"
      BY <1>1, <3>1, <3>2, <3>3, <2>2 DEF EntriesAt, InIndex, Settling
    <3> QED BY <1>1, <1>2, <3>1, <3>2, <3>3, <3>4, <2>2, IndexMoves DEF d
  <2> QED BY <2>1, <2>2
<1>9. CASE DeleteDense(c)
  <2>1. /\ Proceed(c, "removing", "deleted") /\ UNCHANGED <<row, wasReady, restarts, stale, torn>>
        /\ indexLock' = indexLock /\ dense' = [dense EXCEPT ![d] = 0] /\ inMemory' = inMemory
    BY <1>9 DEF DeleteDense, SaveNothing, d
  <2>2. d \in Document /\ callPlace[c] = "removing"
    BY <1>2, <1>3, <2>1
  <2>3. dense' \in [Document -> Nat] /\ inMemory' \subseteq Document
    BY <1>1, <2>1, <2>2
  <2>4. /\ dense[d] = EntriesAt("removing", d \in inMemory) => dense'[d] = EntriesAt("deleted", d \in inMemory')
        /\ "removing" \notin Settling /\ "deleted" \in InIndex
        /\ indexLock = c \/ indexLock = "free"
        /\ indexLock' = c
    BY <1>1, <2>1, <2>2, <2>3 DEF EntriesAt, InIndex, Settling
  <2> QED BY <1>1, <1>2, <2>1, <2>2, <2>3, <2>4, IndexMoves DEF d
<1>10. CASE DeleteFails(c)
  <2>1. /\ Proceed(c, "removing", "none") /\ UNCHANGED <<row, wasReady, restarts, stale, torn>>
        /\ indexLock' = "free" /\ dense' = dense /\ inMemory' = inMemory
    BY <1>10 DEF DeleteFails, Leaves, SaveNothing, d
  <2>2. d \in Document /\ callPlace[c] = "removing"
    BY <1>2, <1>3, <2>1
  <2>3. dense' \in [Document -> Nat] /\ inMemory' \subseteq Document
    BY <1>1, <2>1, <2>2
  <2>4. /\ dense[d] = EntriesAt("removing", d \in inMemory) => dense'[d] = EntriesAt("none", d \in inMemory')
        /\ "removing" \notin Settling /\ "none" \notin InIndex
        /\ indexLock = c \/ indexLock = "free"
        /\ indexLock' = "free"
    BY <1>1, <2>1, <2>2, <2>3 DEF EntriesAt, InIndex, Settling
  <2> QED BY <1>1, <1>2, <2>1, <2>2, <2>3, <2>4, IndexMoves DEF d
<1>11. CASE RemoveFromPipeline(c)
  <2>1. /\ Proceed(c, "deleted", "removed") /\ UNCHANGED <<row, wasReady, restarts, stale, torn>>
        /\ indexLock' = "free" /\ dense' = dense /\ inMemory' = inMemory \ {d}
    BY <1>11 DEF RemoveFromPipeline, Leaves, SaveNothing, d
  <2>2. d \in Document /\ callPlace[c] = "deleted"
    BY <1>2, <1>3, <2>1
  <2>3. dense' \in [Document -> Nat] /\ inMemory' \subseteq Document
    BY <1>1, <2>1, <2>2
  <2>4. /\ dense[d] = EntriesAt("deleted", d \in inMemory) => dense'[d] = EntriesAt("removed", d \in inMemory')
        /\ "deleted" \notin Settling /\ "removed" \notin InIndex
        /\ indexLock = c \/ indexLock = "free"
        /\ indexLock' = "free"
    BY <1>1, <2>1, <2>2, <2>3 DEF EntriesAt, InIndex, Settling
  <2> QED BY <1>1, <1>2, <2>1, <2>2, <2>3, <2>4, IndexMoves DEF d
<1> QED BY <1>4, <1>5, <1>6, <1>7, <1>8, <1>9, <1>10, <1>11

\* A row that is saved.
LEMMA RowSaved ==
  ASSUME LibraryTypeOK, NEW d \in Document, NEW status \in RowStatus, NEW segments \in BOOLEAN,
         SaveEither(d, status, segments) \/ SavePaper(d, status, segments)
  PROVE  /\ row'[d] = [status |-> status, segments |-> segments]
         /\ \A e \in Document : e # d => row'[e] = row[e]
         /\ row' \in [Document -> [status : RowStatus, segments : BOOLEAN]]
         /\ wasReady' \subseteq Document
<1>1. row \in [Document -> [status : RowStatus, segments : BOOLEAN]] /\ wasReady \subseteq Document
  BY DEF LibraryTypeOK
<1>2. CASE Save(d, status, segments)
  BY <1>1, <1>2 DEF Save
<1>3. CASE /\ row[d].status = status
           /\ row' = [row EXCEPT ![d].segments = segments] /\ wasReady' = wasReady \ {d}
  <2>1. row' = [row EXCEPT ![d] = [row[d] EXCEPT !.segments = segments]]
    BY <1>3
  <2>2. row[d] = [status |-> status, segments |-> row[d].segments]
    BY <1>1, <1>3
  <2>3. [row[d] EXCEPT !.segments = segments] = [status |-> status, segments |-> segments]
    BY <2>2
  <2> QED BY <1>1, <1>3, <2>1, <2>3
<1> QED BY <1>2, <1>3 DEF SaveEither, SavePaper

\* A call goes on, or ends, outside the index.
LEMMA RowStepKeeps ==
  ASSUME LibraryInv, NEW c \in LibraryCall, NEW d, d = callDoc[c],
         NEW from \in CallStage \ {"none"}, NEW to \in {"none", "index"}, Proceed(c, from, to),
         from \notin InIndex, UNCHANGED <<dense, inMemory, indexLock, restarts, torn>>,
         \A e \in Document : e # d => row'[e] = row[e] /\ (e \in stale' <=> e \in stale),
         row' \in [Document -> [status : RowStatus, segments : BOOLEAN]],
         wasReady' \subseteq Document, stale' \subseteq Document,
         d \notin stale' \cup torn => RowOf(d)'
  PROVE  LibraryInv'
<1>1. to \in CallStage /\ to \notin InIndex
  BY DEF CallStage, InIndex
<1>2. /\ callPlace[c] = from /\ callPlace'[c] = to /\ d \in Document
      /\ callDoc'[c] = IF to = "none" THEN "none" ELSE d
      /\ overlapped' = IF to = "none" THEN overlapped \ {c} ELSE overlapped
      /\ \A e \in LibraryCall : e # c => callPlace'[e] = callPlace[e] /\ callDoc'[e] = callDoc[e]
      /\ callPlace' \in [LibraryCall -> CallStage]
      /\ callDoc' \in [LibraryCall -> Document \cup {"none"}] /\ overlapped' \subseteq LibraryCall
  BY <1>1, CallProceeds
<1>3. /\ \A P : CallIn(d, P) <=> from \in P \/ OtherIn(c, d, P)
      /\ \A P : "none" \notin P => (CallIn(d, P)' <=> to \in P \/ OtherIn(c, d, P))
      /\ \A e \in LibraryCall : e \notin overlapped' /\ callDoc'[e] = d =>
           /\ e = c /\ to # "none" /\ \A f \in LibraryCall : callDoc'[f] = d => f = c
           /\ AloneOf(c)
  BY <1>1, CallPlaces
<1>4. LibraryTypeOK /\ LockHeld /\ "none" \notin Document
  BY LibraryAssumption DEF LibraryInv
<1>5. LibraryTypeOK'
  BY <1>2, <1>4 DEF LibraryTypeOK, CallStage
<1>6. LockHeld'
  BY <1>1, <1>2, <1>4 DEF LockHeld, InIndex
<1>7. torn = {} => DenseOf(d)'
  <2>1. torn = {} => DenseOf(d)
    BY <1>2 DEF LibraryInv
  <2>2. /\ CallIn(d, {"added"})' <=> CallIn(d, {"added"})
        /\ CallIn(d, {"deleted"})' <=> CallIn(d, {"deleted"})
    BY <1>1, <1>3 DEF InIndex
  <2> QED BY <2>1, <2>2 DEF DenseOf
<1>8. \A e \in LibraryCall : e \notin overlapped' /\ callDoc'[e] = d => AloneOf(e)'
  BY <1>2, <1>3 DEF AloneOf
<1>9. /\ \A e \in LibraryCall : \/ callPlace'[e] = callPlace[e] /\ callDoc'[e] = callDoc[e]
                                \/ callDoc[e] \in {d, "none"} /\ callDoc'[e] \in {d, "none"}
      /\ \A e \in LibraryCall : e \in overlapped /\ e \notin overlapped' => callDoc'[e] \in {d, "none"}
  BY <1>2
<1> QED BY <1>2, <1>5, <1>6, <1>7, <1>8, <1>9, LibraryKept

\* The steps of a call that save its row.
LEMMA RowKeeps ==
  ASSUME LibraryInv, NEW c \in LibraryCall, NEW d, d = callDoc[c],
         Fetched(c) \/ FetchFails(c) \/ FinishIndex(c) \/ FailIndex(c) \/ FinishRemove(c)
  PROVE  LibraryInv'
<1>1. LibraryTypeOK /\ LockHeld /\ (c \notin overlapped => AloneOf(c))
  BY DEF LibraryInv
<1>2. stale \subseteq Document /\ (d \in Document \ (stale \cup torn) => RowOf(d))
  BY <1>1 DEF LibraryInv, LibraryTypeOK
<1>3. /\ {"none", "fetch", "index", "indexed", "failed", "remove nothing", "removed"} \subseteq CallStage
      /\ InIndex = {"adding", "added", "removing", "deleted"}
      /\ {"fetch_failed", "indexing", "knowledge_ready", "index_failed", "parsed"} \subseteq RowStatus
  BY DEF CallStage, InIndex, RowStatus
<1>4. ASSUME NEW from \in CallStage \ {"none"}, NEW to \in CallStage, Proceed(c, from, to)
      PROVE  /\ d \in Document /\ callPlace[c] = from
             /\ \A P : CallIn(d, P) <=> from \in P \/ OtherIn(c, d, P)
             /\ \A P : "none" \notin P => (CallIn(d, P)' <=> to \in P \/ OtherIn(c, d, P))
  BY <1>4, CallProceeds, CallPlaces
<1>5. ASSUME d \in Document,
             NEW status \in RowStatus, NEW segments \in BOOLEAN,
             SaveEither(d, status, segments) \/ SavePaper(d, status, segments)
      PROVE  /\ row'[d] = [status |-> status, segments |-> segments]
             /\ \A e \in Document : e # d => row'[e] = row[e]
             /\ row' \in [Document -> [status : RowStatus, segments : BOOLEAN]]
             /\ wasReady' \subseteq Document
  BY <1>1, <1>5, RowSaved
<1>6. CASE Fetched(c)
  <2>1. /\ Proceed(c, "fetch", "index") /\ SavePaper(d, "indexing", TRUE)
        /\ UNCHANGED <<dense, inMemory, indexLock, restarts, stale, torn>>
    BY <1>6 DEF Fetched
  <2>2. d \in Document /\ CallIn(d, {"index"})'
    BY <1>3, <1>4, <2>1
  <2>3. /\ row'[d] = [status |-> "indexing", segments |-> TRUE]
        /\ \A e \in Document : e # d => row'[e] = row[e]
        /\ row' \in [Document -> [status : RowStatus, segments : BOOLEAN]]
        /\ wasReady' \subseteq Document
    BY <1>3, <1>5, <2>1, <2>2
  <2>4. RowOf(d)'
    BY <2>2, <2>3 DEF RowOf
  <2>5. "fetch" \in CallStage \ {"none"} /\ "fetch" \notin InIndex
    BY <1>3
  <2> QED BY <1>2, <2>1, <2>2, <2>3, <2>4, <2>5, RowStepKeeps
<1>7. ASSUME NEW from \in {"fetch", "failed"}, NEW status \in {"fetch_failed", "index_failed"},
             NEW segments \in BOOLEAN, Proceed(c, from, "none"),
             SaveEither(d, status, segments) \/ SavePaper(d, status, segments),
             UNCHANGED <<dense, inMemory, indexLock, restarts, stale, torn>>
      PROVE  LibraryInv'
  <2>1. from \in CallStage \ {"none"} /\ "none" \in CallStage /\ from \notin InIndex /\ status \in RowStatus
    BY <1>3
  <2>2. /\ d \in Document /\ callPlace[c] = from
        /\ \A P : CallIn(d, P) <=> from \in P \/ OtherIn(c, d, P)
        /\ \A P : "none" \notin P => (CallIn(d, P)' <=> OtherIn(c, d, P))
    BY <1>4, <1>7, <2>1
  <2>3. /\ row'[d] = [status |-> status, segments |-> segments]
        /\ \A e \in Document : e # d => row'[e] = row[e]
        /\ row' \in [Document -> [status : RowStatus, segments : BOOLEAN]]
        /\ wasReady' \subseteq Document
    BY <1>5, <1>7, <2>1, <2>2
  <2>4. d \notin stale' \cup torn => RowOf(d)'
    <3> SUFFICES ASSUME d \notin stale' \cup torn PROVE RowOf(d)'
      OBVIOUS
    <3>1. RowOf(d)
      BY <1>2, <1>7, <2>2
    <3>2. row[d].status # "knowledge_ready"
      <4>1. CallIn(d, {"fetch", "index", "adding", "added", "failed"})
        BY <2>2
      <4> QED BY <3>1, <4>1 DEF RowOf
    <3>3. d \in inMemory' => CallIn(d, Settling)' \/ CallIn(d, {"index"})'
      <4>1. d \in inMemory => CallIn(d, Settling) \/ CallIn(d, {"index"})
        BY <3>1, <3>2 DEF RowOf, Ready
      <4>2. /\ CallIn(d, Settling) <=> CallIn(d, Settling)'
            /\ CallIn(d, {"index"}) <=> CallIn(d, {"index"})'
        BY <2>2 DEF Settling
      <4> QED BY <1>7, <4>1, <4>2
    <3> QED BY <2>3, <3>3 DEF RowOf
  <2> QED BY <1>2, <1>7, <2>1, <2>2, <2>3, <2>4, RowStepKeeps
<1>8. CASE FetchFails(c)
  BY <1>7, <1>8 DEF FetchFails
<1>9. CASE FailIndex(c)
  BY <1>7, <1>9 DEF FailIndex, FailedStatus
<1>10. ASSUME NEW from \in Settling, NEW status \in {"knowledge_ready", "parsed"},
              NEW segments \in BOOLEAN, Proceed(c, from, "none"),
              SaveEither(d, status, segments),
              UNCHANGED <<dense, inMemory, indexLock, restarts, torn>>,
              c \in overlapped => stale' = stale \cup {d},
              c \notin overlapped => stale' = IF from = "remove nothing" THEN stale ELSE stale \ {d},
              status = "knowledge_ready" <=> from = "indexed",
              segments = TRUE \/ status = "parsed"
       PROVE  LibraryInv'
  <2>1. from \in CallStage \ {"none"} /\ "none" \in CallStage /\ from \notin InIndex /\ status \in RowStatus
    BY <1>3, <1>10 DEF Settling
  <2>2. /\ d \in Document /\ callPlace[c] = from
        /\ \A P : "none" \notin P => (CallIn(d, P)' <=> OtherIn(c, d, P))
    BY <1>4, <1>10, <2>1
  <2>3. /\ row'[d] = [status |-> status, segments |-> segments]
        /\ \A e \in Document : e # d => row'[e] = row[e]
        /\ row' \in [Document -> [status : RowStatus, segments : BOOLEAN]]
        /\ wasReady' \subseteq Document
    BY <1>5, <1>10, <2>1, <2>2
  <2>4. d \notin stale' \cup torn => RowOf(d)'
    <3> SUFFICES ASSUME d \notin stale' \cup torn PROVE RowOf(d)'
      OBVIOUS
    <3>1. c \notin overlapped /\ AloneOf(c)
      BY <1>1, <1>10
    <3>2. ~OtherIn(c, d, {"fetch", "index", "adding", "added", "failed"})
      BY <2>1, <2>2, <3>1 DEF AloneOf, OtherIn
    <3>3. d \in inMemory <=> from = "indexed"
      BY <1>10, <2>1, <2>2, <3>1 DEF AloneOf, Settling
    <3>4. from = "indexed" => row'[d] = Ready
      BY <1>10, <2>3 DEF Ready
    <3>5. from # "indexed" => row'[d].status # "knowledge_ready"
      <4>1. row'[d].status = status
        BY <2>3
      <4>2. from # "indexed" => status # "knowledge_ready"
        BY <1>10
      <4> QED BY <4>1, <4>2
    <3>6. ~CallIn(d, {"fetch", "index", "adding", "added", "failed"})' /\ inMemory' = inMemory
      BY <1>10, <2>2, <3>2
    <3> QED BY <3>3, <3>4, <3>5, <3>6 DEF RowOf
  <2>5. stale' \subseteq Document /\ \A e \in Document : e # d => (e \in stale' <=> e \in stale)
    BY <1>2, <1>10, <2>2
  <2> QED BY <1>10, <2>1, <2>2, <2>3, <2>4, <2>5, RowStepKeeps
<1>11. CASE FinishIndex(c)
  BY <1>10, <1>11 DEF FinishIndex, Settles, Settling
<1>12. CASE FinishRemove(c)
  <2>1. CASE Proceed(c, "removed", "none") /\ Save(d, "parsed", TRUE) /\ Settles(c)
    BY <1>10, <1>12, <2>1 DEF FinishRemove, Settles, Settling, SaveEither
  <2>2. CASE /\ Proceed(c, "remove nothing", "none") /\ Save(d, "parsed", FALSE)
             /\ IF c \in overlapped THEN Distrust(d) ELSE UNCHANGED stale
    BY <1>10, <1>12, <2>2 DEF FinishRemove, Distrust, Settling, SaveEither
  <2> QED BY <1>12, <2>1, <2>2 DEF FinishRemove
<1> QED BY <1>6, <1>8, <1>9, <1>11, <1>12

\* A call begins.
LEMMA BeginKeeps ==
  ASSUME LibraryInv, NEW c \in LibraryCall, NEW d \in Document,
         NEW spot \in {"index", "fetch", "remove", "remove nothing"}, Begin(c, d, spot),
         UNCHANGED <<dense, inMemory, indexLock, restarts, torn>>,
         \A e \in Document : e # d => row'[e] = row[e] /\ (e \in stale' <=> e \in stale),
         row' \in [Document -> [status : RowStatus, segments : BOOLEAN]],
         wasReady' \subseteq Document, stale' \subseteq Document,
         d \notin stale' \cup torn =>
           \/ spot \in {"remove", "remove nothing"} /\ d \notin stale /\ row'[d] = row[d]
                /\ (spot = "remove nothing" => ~row[d].segments)
           \/ row'[d].status # "knowledge_ready" /\ (spot = "index" \/ d \notin inMemory)
  PROVE  LibraryInv'
<1>1. spot \in CallStage \ InIndex
  BY DEF CallStage, InIndex
<1>2. /\ callPlace[c] = "none" /\ callDoc[c] = "none"
      /\ callPlace'[c] = spot /\ callDoc'[c] = d
      /\ \A e \in LibraryCall : e # c => callPlace'[e] = callPlace[e] /\ callDoc'[e] = callDoc[e]
      /\ callPlace' \in [LibraryCall -> CallStage]
      /\ callDoc' \in [LibraryCall -> Document \cup {"none"}]
      /\ overlapped \subseteq overlapped' /\ overlapped' \subseteq LibraryCall
      /\ \A e \in LibraryCall : callDoc[e] = d => e \in overlapped' /\ c \in overlapped'
  BY <1>1, CallBegins
<1>3. LibraryTypeOK /\ LockHeld /\ "none" \notin Document
  BY LibraryAssumption DEF LibraryInv
<1>4. LibraryTypeOK'
  BY <1>2, <1>3 DEF LibraryTypeOK, CallStage
<1>5. LockHeld'
  <2> SUFFICES ASSUME NEW e \in LibraryCall
               PROVE  /\ callPlace'[e] \in InIndex <=> indexLock' = e
                      /\ callPlace'[e] = "none" <=> callDoc'[e] = "none"
                      /\ callPlace'[e] \in {"adding", "added"} => callDoc'[e] \notin inMemory'
                      /\ callPlace'[e] \in {"removing", "deleted"} => callDoc'[e] \in inMemory'
    BY DEF LockHeld
  <2>1. spot # "none" /\ spot \notin InIndex /\ "none" \notin InIndex
    BY <1>1 DEF InIndex
  <2>2. /\ callPlace[e] \in InIndex <=> indexLock = e
        /\ callPlace[e] = "none" <=> callDoc[e] = "none"
        /\ callPlace[e] \in {"adding", "added"} => callDoc[e] \notin inMemory
        /\ callPlace[e] \in {"removing", "deleted"} => callDoc[e] \in inMemory
    BY <1>3 DEF LockHeld
  <2>3. CASE e = c
    BY <1>2, <1>3, <2>1, <2>2, <2>3 DEF InIndex
  <2>4. CASE e # c
    BY <1>2, <2>2, <2>4
  <2> QED BY <2>3, <2>4
<1>6. ASSUME NEW P PROVE CallIn(d, P)' <=> spot \in P \/ CallIn(d, P)
  BY <1>2, <1>3, ZenonT(60) DEF CallIn
<1>7. torn = {} => DenseOf(d)'
  <2>1. torn = {} => DenseOf(d)
    BY DEF LibraryInv
  <2>2. /\ CallIn(d, {"added"})' <=> CallIn(d, {"added"})
        /\ CallIn(d, {"deleted"})' <=> CallIn(d, {"deleted"})
    BY <1>1, <1>6 DEF InIndex
  <2> QED BY <2>1, <2>2 DEF DenseOf
<1>8. d \notin stale' \cup torn => RowOf(d)'
  <2> SUFFICES ASSUME d \notin stale' \cup torn PROVE RowOf(d)'
    OBVIOUS
  <2>1. CASE row'[d].status # "knowledge_ready" /\ (spot = "index" \/ d \notin inMemory)
    <3>1. d \in inMemory' => CallIn(d, {"index"})'
      BY <1>6, <2>1
    <3> QED BY <2>1, <3>1 DEF RowOf
  <2>2. CASE spot \in {"remove", "remove nothing"} /\ d \notin stale /\ row'[d] = row[d]
    <3>1. RowOf(d)
      BY <2>2 DEF LibraryInv
    <3>2. /\ CallIn(d, Settling) => CallIn(d, Settling)'
          /\ CallIn(d, {"index"}) => CallIn(d, {"index"})'
          /\ CallIn(d, {"fetch", "index", "adding", "added", "failed"})'
               => CallIn(d, {"fetch", "index", "adding", "added", "failed"})
      BY <1>6, <2>2
    <3> QED BY <2>2, <3>1, <3>2 DEF RowOf
  <2> QED BY <2>1, <2>2
<1>9. \A e \in LibraryCall : e \notin overlapped' /\ callDoc'[e] = d => AloneOf(e)'
  <2> SUFFICES ASSUME NEW e \in LibraryCall, e \notin overlapped', callDoc'[e] = d PROVE AloneOf(e)'
    OBVIOUS
  <2>1. e = c /\ \A f \in LibraryCall : callDoc[f] # d
    BY <1>2
  <2>2. \A f \in LibraryCall : callDoc'[f] = d => f = c
    BY <1>2, <2>1
  <2>3. spot = "remove nothing" /\ d \notin stale' \cup torn => d \notin inMemory
    <3> SUFFICES ASSUME spot = "remove nothing", d \notin stale' \cup torn PROVE d \notin inMemory
      OBVIOUS
    <3>1. CASE d \notin stale /\ ~row[d].segments
      <4>1. RowOf(d)
        BY <3>1 DEF LibraryInv
      <4>2. ~CallIn(d, Settling) /\ ~CallIn(d, {"index"})
        BY <2>1 DEF CallIn
      <4>3. row[d] # Ready
        <5>1. Ready.segments
          BY DEF Ready
        <5> QED BY <3>1, <5>1
      <4> QED BY <4>1, <4>2, <4>3 DEF RowOf
    <3> QED BY <3>1
  <2> QED BY <1>2, <2>1, <2>2, <2>3 DEF AloneOf
<1>10. \A e \in LibraryCall : \/ callPlace'[e] = callPlace[e] /\ callDoc'[e] = callDoc[e]
                              \/ callDoc[e] \in {d, "none"} /\ callDoc'[e] \in {d, "none"}
  BY <1>2
<1>11. /\ \A e \in LibraryCall : e \in overlapped => e \in overlapped'
       /\ \A e \in Document : e # d =>
            /\ row'[e] = row[e] /\ dense'[e] = dense[e]
            /\ e \in inMemory' <=> e \in inMemory
            /\ e \in stale' <=> e \in stale
       /\ torn' = torn
  BY <1>2
<1> QED BY <1>4, <1>5, <1>7, <1>8, <1>9, <1>10, <1>11, LibraryKept

\* The row is saved, and no call goes on: those on the document have been overlapped.
LEMMA BetweenKeeps ==
  ASSUME LibraryInv, NEW d \in Document, Between(d),
         UNCHANGED <<dense, inMemory, indexLock, restarts, torn>>,
         \A e \in Document : e # d => row'[e] = row[e] /\ (e \in stale' <=> e \in stale),
         row' \in [Document -> [status : RowStatus, segments : BOOLEAN]],
         wasReady' \subseteq Document, stale' \subseteq Document,
         d \notin stale' => row'[d].status # "knowledge_ready" /\ d \notin inMemory
  PROVE  LibraryInv'
<1>1. callPlace' = callPlace /\ callDoc' = callDoc /\ overlapped' = overlapped \cup CallsOn(d)
  BY DEF Between
<1>2. LibraryTypeOK /\ LockHeld
  BY DEF LibraryInv
<1>3. LibraryTypeOK'
  BY <1>1, <1>2 DEF LibraryTypeOK, CallsOn
<1>4. LockHeld'
  BY <1>1, <1>2 DEF LockHeld
<1>5. ASSUME NEW P PROVE CallIn(d, P)' <=> CallIn(d, P)
  BY <1>1 DEF CallIn
<1>6. torn = {} => DenseOf(d)'
  <2>1. torn = {} => DenseOf(d)
    BY DEF LibraryInv
  <2> QED BY <1>5, <2>1 DEF DenseOf
<1>7. d \notin stale' \cup torn => RowOf(d)'
  BY DEF RowOf
<1>8. \A e \in LibraryCall : e \notin overlapped' => callDoc'[e] # d
  BY <1>1 DEF CallsOn
<1>9. \A e \in LibraryCall : e \in overlapped => e \in overlapped'
  BY <1>1
<1> QED BY <1>1, <1>3, <1>4, <1>6, <1>7, <1>8, <1>9, LibraryKept

\* What the endpoints do first.
LEMMA UserKeeps ==
  ASSUME LibraryInv, NEW d \in Document,
         \/ \E c \in LibraryCall : ImportDocument(c, d) \/ ImportPaper(c, d) \/ RemoveDocument(c, d)
         \/ SaveMetadata(d) \/ RestoreVersion(d)
  PROVE  LibraryInv'
<1>1. /\ LibraryTypeOK /\ stale \subseteq Document
      /\ row \in [Document -> [status : RowStatus, segments : BOOLEAN]] /\ wasReady \subseteq Document
      /\ {"indexing", "fetching", "metadata_saved", "knowledge_ready"} \subseteq RowStatus
  BY DEF LibraryInv, LibraryTypeOK, RowStatus
<1>2. ASSUME NEW status \in RowStatus, NEW segments \in BOOLEAN,
             Save(d, status, segments) \/ SavePaper(d, status, segments)
      PROVE  /\ row'[d] = [status |-> status, segments |-> segments]
             /\ \A e \in Document : e # d => row'[e] = row[e]
             /\ row' \in [Document -> [status : RowStatus, segments : BOOLEAN]]
             /\ wasReady' \subseteq Document
  BY <1>1, <1>2, RowSaved DEF SaveEither
<1>3. ASSUME Orphans(d)
      PROVE  /\ stale' \subseteq Document /\ \A e \in Document : e # d => (e \in stale' <=> e \in stale)
             /\ d \notin stale' => d \notin inMemory
  BY <1>1, <1>3 DEF Orphans, Distrust
<1>4. ASSUME NEW c \in LibraryCall, ImportDocument(c, d) PROVE LibraryInv'
  <2>1. /\ row'[d] = [status |-> "indexing", segments |-> TRUE]
        /\ \A e \in Document : e # d => row'[e] = row[e]
        /\ row' \in [Document -> [status : RowStatus, segments : BOOLEAN]]
        /\ wasReady' \subseteq Document
    BY <1>1, <1>2, <1>4 DEF ImportDocument
  <2>2. row'[d].status # "knowledge_ready"
    BY <2>1
  <2>3. Begin(c, d, "index") /\ UNCHANGED <<dense, inMemory, indexLock, restarts, torn>> /\ stale' = stale
    BY <1>4 DEF ImportDocument
  <2> QED BY <1>1, <2>1, <2>2, <2>3, BeginKeeps
<1>5. ASSUME NEW c \in LibraryCall, ImportPaper(c, d) PROVE LibraryInv'
  <2>1. /\ row'[d] = [status |-> "fetching", segments |-> FALSE]
        /\ \A e \in Document : e # d => row'[e] = row[e]
        /\ row' \in [Document -> [status : RowStatus, segments : BOOLEAN]]
        /\ wasReady' \subseteq Document
    BY <1>1, <1>2, <1>5 DEF ImportPaper
  <2>2. row'[d].status # "knowledge_ready"
    BY <2>1
  <2>3. Begin(c, d, "fetch") /\ UNCHANGED <<dense, inMemory, indexLock, restarts, torn>> /\ Orphans(d)
    BY <1>5 DEF ImportPaper
  <2> QED BY <1>3, <2>1, <2>2, <2>3, BeginKeeps
<1>6. ASSUME NEW c \in LibraryCall, RemoveDocument(c, d) PROVE LibraryInv'
  <2>1. UNCHANGED <<row, wasReady, stale>> /\ UNCHANGED <<dense, inMemory, indexLock, restarts, torn>>
    BY <1>6 DEF RemoveDocument, SaveNothing
  <2>2. CASE row[d].segments
    <3>1. Begin(c, d, "remove")
      BY <1>6, <2>2 DEF RemoveDocument
    <3> QED BY <1>1, <2>1, <3>1, BeginKeeps
  <2>3. CASE ~row[d].segments
    <3>1. Begin(c, d, "remove nothing")
      BY <1>6, <2>3 DEF RemoveDocument
    <3> QED BY <1>1, <2>1, <2>3, <3>1, BeginKeeps
  <2> QED BY <2>2, <2>3
<1>7. CASE SaveMetadata(d)
  <2>1. /\ row'[d] = [status |-> "metadata_saved", segments |-> FALSE]
        /\ \A e \in Document : e # d => row'[e] = row[e]
        /\ row' \in [Document -> [status : RowStatus, segments : BOOLEAN]]
        /\ wasReady' \subseteq Document
    BY <1>1, <1>2, <1>7 DEF SaveMetadata
  <2>2. row'[d].status # "knowledge_ready"
    BY <2>1
  <2>3. Between(d) /\ UNCHANGED <<dense, inMemory, indexLock, restarts, torn>> /\ Orphans(d)
    BY <1>7 DEF SaveMetadata
  <2> QED BY <1>3, <2>1, <2>2, <2>3, BetweenKeeps
<1>8. CASE RestoreVersion(d)
  <2>1. /\ \A e \in Document : e # d => row'[e] = row[e]
        /\ row' \in [Document -> [status : RowStatus, segments : BOOLEAN]]
        /\ wasReady' \subseteq Document
    BY <1>1, <1>2, <1>8 DEF RestoreVersion
  <2>2. Between(d) /\ UNCHANGED <<dense, inMemory, indexLock, restarts, torn>> /\ stale' = stale \cup {d}
    BY <1>8 DEF RestoreVersion, Distrust
  <2> QED BY <1>1, <2>1, <2>2, BetweenKeeps
<1> QED BY <1>4, <1>5, <1>6, <1>7, <1>8

\* A restart, which no call survives.
LEMMA RestartKeeps ==
  ASSUME LibraryInv, RestartLibrary
  PROVE  LibraryInv'
<1>1. /\ LibraryTypeOK /\ "none" \notin Document /\ "free" \notin LibraryCall /\ MaxRestarts \in Nat
      /\ LockHeld
  BY LibraryAssumption DEF LibraryInv
<1>2. /\ callPlace' = [c \in LibraryCall |-> "none"] /\ callDoc' = callPlace'
      /\ overlapped' = {} /\ indexLock' = "free" /\ UNCHANGED <<dense, stale>>
      /\ inMemory' = {d \in Document : row'[d].status = "knowledge_ready" /\ row'[d].segments}
      /\ restarts < MaxRestarts /\ restarts' = restarts + 1
  BY DEF RestartLibrary
<1>3. \/ SaveNothing /\ torn' = torn \cup stale \cup {d \in Document : CallsOn(d) # {}}
      \/ row' = [d \in Document |-> NoRow] /\ wasReady' = {} /\ torn' = Document
  BY DEF RestartLibrary
<1>4. /\ row' \in [Document -> [status : RowStatus, segments : BOOLEAN]]
      /\ wasReady' \subseteq Document /\ torn' \subseteq Document
  <2>1. CASE SaveNothing /\ torn' = torn \cup stale \cup {d \in Document : CallsOn(d) # {}}
    BY <1>1, <2>1 DEF LibraryTypeOK, SaveNothing
  <2>2. CASE row' = [d \in Document |-> NoRow] /\ wasReady' = {} /\ torn' = Document
    BY <2>2 DEF NoRow, RowStatus
  <2> QED BY <1>3, <2>1, <2>2
<1>5. restarts' \in 0..MaxRestarts
  <2>1. restarts \in 0..MaxRestarts /\ restarts < MaxRestarts /\ MaxRestarts \in Nat
    BY <1>1, <1>2 DEF LibraryTypeOK
  <2>2. restarts + 1 \in 0..MaxRestarts
    BY <2>1
  <2> QED BY <1>2, <2>2
<1>6. LibraryTypeOK'
  BY <1>1, <1>2, <1>4, <1>5 DEF LibraryTypeOK
<1>7. LockHeld'
  BY <1>1, <1>2 DEF LockHeld, InIndex
<1>8. \A c \in LibraryCall \ overlapped' : AloneOf(c)'
  BY <1>2 DEF AloneOf
<1>9. ASSUME NEW d \in Document, NEW P, "none" \notin P PROVE ~CallIn(d, P)'
  BY <1>2, <1>9 DEF CallIn
<1>10. ASSUME NEW d \in Document, d \notin torn'
       PROVE  /\ RowOf(d) /\ row' = row /\ ~CallIn(d, Settling) /\ ~CallIn(d, {"index"})
              /\ ~CallIn(d, {"added"}) /\ ~CallIn(d, {"deleted"})
  <2>1. /\ SaveNothing /\ d \notin torn /\ d \notin stale /\ CallsOn(d) = {}
    BY <1>3, <1>10
  <2>2. ASSUME NEW P PROVE ~CallIn(d, P)
    BY <2>1 DEF CallIn, CallsOn
  <2>3. RowOf(d)
    BY <2>1 DEF LibraryInv
  <2> QED BY <2>1, <2>2, <2>3 DEF SaveNothing
<1>11. ASSUME NEW d \in Document, d \notin torn'
       PROVE  /\ d \in inMemory' <=> d \in inMemory
              /\ d \in inMemory => row[d] = Ready
              /\ d \notin inMemory => row[d].status # "knowledge_ready"
  <2>1. /\ d \in inMemory => row[d] = Ready
        /\ d \notin inMemory => row[d].status # "knowledge_ready"
    BY <1>10, <1>11 DEF RowOf
  <2>2. d \in inMemory => row'[d].status = "knowledge_ready" /\ row'[d].segments
    BY <1>10, <1>11, <2>1 DEF Ready
  <2> QED BY <1>2, <1>10, <1>11, <2>1, <2>2
<1>12. torn' = {} => \A d \in Document : DenseOf(d)'
  <2> SUFFICES ASSUME torn' = {}, NEW d \in Document PROVE DenseOf(d)'
    OBVIOUS
  <2>1. torn = {}
    BY <1>1, <1>3 DEF LibraryTypeOK
  <2>2. dense[d] = IF d \in inMemory THEN 1 ELSE 0
    BY <1>10, <2>1 DEF LibraryInv, DenseOf
  <2>3. ~CallIn(d, {"added"})' /\ ~CallIn(d, {"deleted"})'
    BY <1>9
  <2> QED BY <1>2, <1>11, <2>2, <2>3 DEF DenseOf
<1>13. \A d \in Document \ (stale' \cup torn') : RowOf(d)'
  <2> SUFFICES ASSUME NEW d \in Document, d \notin torn' PROVE RowOf(d)'
    OBVIOUS
  <2>1. ~CallIn(d, {"fetch", "index", "adding", "added", "failed"})'
    BY <1>9
  <2>2. row'[d] = row[d]
    BY <1>10
  <2> QED BY <1>11, <2>1, <2>2 DEF RowOf
<1> QED BY <1>6, <1>7, <1>8, <1>12, <1>13 DEF LibraryInv

\* What the lock protects and what the calls in progress know holds throughout.
LEMMA LibraryHolds == LibrarySpec => []LibraryInv
<1>1. LibraryInit => LibraryInv
  <2> SUFFICES ASSUME LibraryInit PROVE LibraryInv
    OBVIOUS
  <2>1. "none" \notin Document /\ "free" \notin LibraryCall /\ MaxRestarts \in Nat
    BY LibraryAssumption
  <2>2. /\ row = [d \in Document |-> [status |-> "absent", segments |-> FALSE]]
        /\ wasReady = {} /\ inMemory = {} /\ stale = {} /\ torn = {}
        /\ dense = [d \in Document |-> 0] /\ indexLock = "free"
        /\ callPlace = [c \in LibraryCall |-> "none"] /\ callDoc = callPlace
        /\ overlapped = {} /\ restarts = 0
    BY DEF LibraryInit, NoRow
  <2>3. LibraryTypeOK
    BY <2>1, <2>2 DEF LibraryTypeOK, RowStatus
  <2>4. LockHeld
    BY <2>1, <2>2 DEF LockHeld, InIndex
  <2>5. ASSUME NEW d \in Document, NEW P PROVE ~CallIn(d, P)
    BY <2>1, <2>2 DEF CallIn
  <2>6. \A d \in Document : DenseOf(d)
    BY <2>2, <2>5 DEF DenseOf
  <2>7. \A c \in LibraryCall : AloneOf(c)
    BY <2>2 DEF AloneOf
  <2>8. \A d \in Document : RowOf(d)
    BY <2>2, <2>5 DEF RowOf
  <2> QED BY <2>3, <2>4, <2>6, <2>7, <2>8 DEF LibraryInv
<1>2. LibraryInv /\ [LibraryNext]_libraryVars => LibraryInv'
  <2> SUFFICES ASSUME LibraryInv, [LibraryNext]_libraryVars PROVE LibraryInv'
    OBVIOUS
  <2>1. CASE LibraryUser
    <3>1. CASE RestartLibrary
      BY <3>1, RestartKeeps
    <3>2. ASSUME NEW d \in Document,
                 \/ \E c \in LibraryCall : ImportDocument(c, d) \/ ImportPaper(c, d) \/ RemoveDocument(c, d)
                 \/ SaveMetadata(d) \/ RestoreVersion(d)
          PROVE  LibraryInv'
      BY <3>2, UserKeeps
    <3> QED BY <2>1, <3>1, <3>2 DEF LibraryUser
  <2>2. ASSUME NEW c \in LibraryCall, CallStep(c) PROVE LibraryInv'
    BY <2>2, IndexKeeps, RowKeeps DEF CallStep
  <2>3. CASE UNCHANGED libraryVars
    <3>1. LibraryTypeOK' /\ LockHeld'
      BY <2>3 DEF libraryVars, LibraryInv, LibraryTypeOK, LockHeld
    <3>2. ASSUME NEW d \in Document
          PROVE  (DenseOf(d)' <=> DenseOf(d)) /\ (RowOf(d)' <=> RowOf(d))
      BY <2>3 DEF libraryVars, DenseOf, RowOf, CallIn
    <3>3. ASSUME NEW c \in LibraryCall PROVE AloneOf(c)' <=> AloneOf(c)
      BY <2>3 DEF libraryVars, AloneOf
    <3>4. torn' = torn /\ stale' = stale /\ overlapped' = overlapped
      BY <2>3 DEF libraryVars
    <3> QED BY <3>1, <3>2, <3>3, <3>4 DEF LibraryInv
  <2> QED BY <2>1, <2>2, <2>3 DEF LibraryNext
<1> QED BY <1>1, <1>2, PTL DEF LibrarySpec

\* Rows, tables and calls of the library keep their types.
THEOREM LibraryTypeCorrect == LibrarySpec => []LibraryTypeOK
<1>1. LibraryInv => LibraryTypeOK
  BY DEF LibraryInv
<1> QED BY <1>1, LibraryHolds, PTL

\* A document's row, the dense table and the pipeline agree: what the library
\* promises outside its crashes and the rows known to be stale.
THEOREM RowsTellTheIndex == LibrarySpec => []RowsMatchIndex
<1>1. LibraryInv => RowsMatchIndex
  <2> SUFFICES ASSUME LibraryInv PROVE RowsMatchIndex
    OBVIOUS
  <2>1. TablesAgree
    <3> SUFFICES ASSUME indexLock = "free", torn = {}, NEW d \in Document
                 PROVE  dense[d] = IF d \in inMemory THEN 1 ELSE 0
      BY DEF TablesAgree
    <3>1. \A c \in LibraryCall : callPlace[c] \notin InIndex
      BY LibraryAssumption DEF LibraryInv, LockHeld
    <3>2. ~CallIn(d, {"added"}) /\ ~CallIn(d, {"deleted"})
      BY <3>1 DEF CallIn, InIndex
    <3>3. DenseOf(d)
      BY DEF LibraryInv
    <3> QED BY <3>2, <3>3 DEF DenseOf
  <2>2. StatusIsTrue
    <3> SUFFICES ASSUME NEW d \in Document, d \notin stale \cup torn, CallsOn(d) = {}
                 PROVE  /\ row[d].status = "knowledge_ready" => d \in inMemory
                        /\ row[d].status = "parsed" => d \notin inMemory
      BY DEF StatusIsTrue
    <3>1. RowOf(d)
      BY DEF LibraryInv
    <3>2. ~CallIn(d, Settling) /\ ~CallIn(d, {"index"})
      BY DEF CallIn, CallsOn
    <3> QED BY <3>1, <3>2 DEF RowOf, Ready
  <2> QED BY <2>1, <2>2 DEF RowsMatchIndex
<1> QED BY <1>1, LibraryHolds, PTL

--------------------------------------------------------------------------------
(* Notes.                                                                      *)

Numbered(s) == s = [k \in 1..Len(s) |-> k]
NoteShape == [id : NoteId, version : Nat, parent : Nat, sections : Seq(Nat), moved : BOOLEAN]

\* The note at its place in the one line of versions.
InPlace(note, u) ==
  /\ note \in NoteShape /\ note.id \in {<<0, u>>, <<1, u>>}
  /\ note.version = u /\ note.parent = u - 1
  /\ note.moved = FALSE => Numbered(note.sections)
NotesHold ==
  /\ notes \in Seq(NoteShape) /\ Len(notes) <= MaxNotes
  /\ \A u \in 1..Len(notes) : InPlace(notes[u], u)
  /\ noteCache \in [NoteId -> 0..Len(notes)]
  /\ \A id \in NoteId : noteCache[id] # 0 => notes[noteCache[id]].id = id
CallShape == [at : {"idle", "analyze", "revise", "register"}, base : Nat, made : Nat]
\* The registry lists r notes: all, or all but the one that a call is about to register.
LinedUp(r) ==
  /\ registry = [i \in 1..r |-> i]
  /\ \/ Len(notes) = r /\ \A c \in NoteCall : noteCall[c].at # "register"
     \/ /\ Len(notes) = r + 1
        /\ \E c \in NoteCall : /\ noteCall[c].at = "register" /\ noteCall[c].made = r + 1
                               /\ \A d \in NoteCall \ {c} : noteCall[d].at # "register"
  /\ \A c \in NoteCall : noteCall[c].at = "revise" =>
       noteCall[c].base \in 1..Len(notes) /\ noteCall[c].base >= r
\* A state whose notes are in one line.
InLine(r) == NotesHold /\ noteCall \in [NoteCall -> CallShape] /\ LinedUp(r)
NoteInv == ~muddled => \E r \in Nat : InLine(r)

\* An operation on the last section, or after it, leaves the sections in order.
LEMMA PatchedInOrder ==
  ASSUME NEW s \in Seq(Nat), NEW edit \in Patched(s)
  PROVE  \E sections \in Seq(Nat), moved \in BOOLEAN :
           /\ edit = [sections |-> sections, moved |-> moved]
           /\ Numbered(s) /\ moved = FALSE => Numbered(sections)
<1>1. CASE edit \in Untouched(s)
  BY <1>1 DEF Untouched
<1>2. CASE edit \in Appended(s)
  <2>1. edit = [sections |-> Append(s, Len(s) + 1), moved |-> FALSE] /\ Append(s, Len(s) + 1) \in Seq(Nat)
    BY <1>2 DEF Appended
  <2>2. Numbered(s) => Numbered(Append(s, Len(s) + 1))
    BY DEF Numbered
  <2> QED BY <2>1, <2>2
<1>3. CASE edit \in Inserted(s)
  <2>1. PICK i \in 0..Len(s) : edit = [sections |-> InsertAt(s, i + 1, i + 1), moved |-> i < Len(s)]
    BY <1>3 DEF Inserted
  <2>2. InsertAt(s, i + 1, i + 1) \in Seq(Nat)
    BY DEF InsertAt
  <2>3. i = Len(s) /\ Numbered(s) => Numbered(InsertAt(s, i + 1, i + 1))
    <3> SUFFICES ASSUME i = Len(s), Numbered(s) PROVE Numbered(InsertAt(s, i + 1, i + 1))
      OBVIOUS
    <3>1. SubSeq(s, 1, (i + 1) - 1) = s /\ SubSeq(s, i + 1, Len(s)) = <<>>
      BY SubSeqFull, SubSeqEmpty
    <3>2. InsertAt(s, i + 1, i + 1) = s \o <<i + 1>>
      <4>1. InsertAt(s, i + 1, i + 1) = (s \o <<i + 1>>) \o <<>>
        BY <3>1, Zenon DEF InsertAt
      <4> QED BY <4>1, ConcatEmptySeq
    <3> QED BY <3>2, SMTT(30) DEF Numbered
  <2>4. CASE i < Len(s)
    <3>1. (i < Len(s)) = TRUE
      BY <2>4
    <3>2. edit = [sections |-> InsertAt(s, i + 1, i + 1), moved |-> TRUE]
      BY <2>1, <3>1, Zenon
    <3> QED BY <2>2, <3>2
  <2>5. CASE ~(i < Len(s))
    <3>1. (i < Len(s)) = FALSE /\ i = Len(s)
      BY <2>5
    <3>2. edit = [sections |-> InsertAt(s, i + 1, i + 1), moved |-> FALSE]
      BY <2>1, <3>1, Zenon
    <3> QED BY <2>2, <2>3, <3>1, <3>2
  <2> QED BY <2>4, <2>5
<1>4. CASE edit \in Deleted(s)
  <2>1. PICK i \in 1..Len(s) : edit = [sections |-> RemoveAt(s, i), moved |-> i < Len(s)]
    BY <1>4 DEF Deleted
  <2>2. RemoveAt(s, i) \in Seq(Nat)
    BY DEF RemoveAt
  <2>3. i = Len(s) /\ Numbered(s) => Numbered(RemoveAt(s, i))
    <3> SUFFICES ASSUME i = Len(s), Numbered(s) PROVE Numbered(RemoveAt(s, i))
      OBVIOUS
    <3>1. SubSeq(s, i + 1, Len(s)) = <<>>
      BY SubSeqEmpty
    <3>2. RemoveAt(s, i) = SubSeq(s, 1, i - 1)
      BY <3>1 DEF RemoveAt
    <3> QED BY <3>2 DEF Numbered
  <2>4. CASE i < Len(s)
    <3>1. (i < Len(s)) = TRUE
      BY <2>4
    <3>2. edit = [sections |-> RemoveAt(s, i), moved |-> TRUE]
      BY <2>1, <3>1, Zenon
    <3> QED BY <2>2, <3>2
  <2>5. CASE ~(i < Len(s))
    <3>1. (i < Len(s)) = FALSE /\ i = Len(s)
      BY <2>5
    <3>2. edit = [sections |-> RemoveAt(s, i), moved |-> FALSE]
      BY <2>1, <3>1, Zenon
    <3> QED BY <2>2, <2>3, <3>1, <3>2
  <2> QED BY <2>4, <2>5
<1> QED BY <1>1, <1>2, <1>3, <1>4 DEF Patched

LEMMA TipIsLast ==
  ASSUME NotesHold, NEW r \in Nat, LinedUp(r)
  PROVE  TipVersion = r /\ Tip = r
<1>1. /\ registry = [i \in 1..r |-> i] /\ r <= Len(notes) /\ Len(notes) \in Nat
      /\ \A i \in 1..r : registry[i] = i /\ notes[registry[i]].version = i
  BY DEF NotesHold, LinedUp, InPlace
<1>2. {notes[u].version : u \in ToSet(registry)} = 1..r
  BY <1>1 DEF ToSet
<1>3. TipVersion = r
  <2>1. CASE r = 0
    <3>1. {notes[u].version : u \in ToSet(registry)} = {}
      BY <1>2, <2>1
    <3> QED BY <2>1, <3>1, Zenon DEF TipVersion
  <2>2. CASE r # 0
    <3>1. r \in 1..r /\ \A w \in 1..r : w <= r
      BY <2>2
    <3>2. \A v \in 1..r : (\A w \in 1..r : w <= v) => v = r
      BY <3>1
    <3>3. (CHOOSE v \in 1..r : \A w \in 1..r : w <= v) = r
      BY <3>1, <3>2
    <3> QED BY <1>2, <2>2, <3>3 DEF TipVersion
  <2> QED BY <2>1, <2>2
<1>4. Tip = r
  <2>1. CASE r = 0
    BY <1>1, <2>1 DEF Tip
  <2>2. CASE r # 0
    <3> DEFINE First(i) == /\ notes[registry[i]].version = TipVersion
                           /\ \A j \in 1..(i - 1) : notes[registry[j]].version # TipVersion
    <3>1. r \in DOMAIN registry /\ First(r)
      BY <1>1, <1>3, <2>2
    <3>2. \A i \in DOMAIN registry : First(i) => i = r
      BY <1>1, <1>3
    <3>3. (CHOOSE i \in DOMAIN registry : First(i)) = r
      BY <3>1, <3>2
    <3>4. registry # <<>>
      BY <1>1, <2>2
    <3> QED BY <1>1, <2>2, <3>1, <3>3, <3>4 DEF Tip
  <2> QED BY <2>1, <2>2
<1> QED BY <1>3, <1>4

\* What is listed last has an id of its own.
LEMMA ListedLast ==
  ASSUME NotesHold, NEW r \in Nat, r <= Len(notes), registry = [i \in 1..r |-> i],
         NEW stored, stored[r + 1].id \in {<<0, r + 1>>, <<1, r + 1>>}
  PROVE  Listed(r + 1, stored) = [i \in 1..(r + 1) |-> i]
<1>1. DOMAIN registry = 1..r /\ \A i \in 1..r : registry[i] = i
  OBVIOUS
<1>2. \A i \in 1..r : notes[i].id \in {<<0, i>>, <<1, i>>}
  BY DEF NotesHold, InPlace
<1>3. \A i \in 1..r : notes[registry[i]].id # stored[r + 1].id
  <2> SUFFICES ASSUME NEW i \in 1..r PROVE notes[registry[i]].id # stored[r + 1].id
    OBVIOUS
  <2>1. registry[i] = i /\ i # r + 1
    BY <1>1
  <2> QED BY <1>2, <2>1
<1>4. Append(registry, r + 1) = [i \in 1..(r + 1) |-> i]
  <2>1. registry \in Seq(Nat) /\ Len(registry) = r
    OBVIOUS
  <2> QED BY <2>1
<1>5. ~\E i \in DOMAIN registry : notes[registry[i]].id = stored[r + 1].id
  BY <1>1, <1>3
<1> QED BY <1>4, <1>5, Zenon DEF Listed

\* A note that is stored at its place.
LEMMA NoteStored ==
  ASSUME NotesHold, NEW note, InPlace(note, Len(notes) + 1), Saves(note)
  PROVE  NotesHold' /\ Len(notes') = Len(notes) + 1
<1>1. /\ Len(notes) < MaxNotes /\ notes' = Append(notes, note) /\ Len(notes) \in Nat
      /\ noteCache' = [noteCache EXCEPT ![note.id] = Len(notes')]
  BY DEF Saves, NotesHold
<1>2. notes \in Seq(NoteShape) /\ note \in NoteShape /\ note.id \in NoteId
  BY DEF NotesHold, InPlace, NoteShape
<1>3. /\ notes' \in Seq(NoteShape) /\ Len(notes') = Len(notes) + 1
      /\ notes'[Len(notes) + 1] = note /\ \A u \in 1..Len(notes) : notes'[u] = notes[u]
  BY <1>1, <1>2
<1>4. Len(notes') <= MaxNotes
  BY <1>1, <1>3, NoteAssumption
<1>5. \A u \in 1..Len(notes') : InPlace(notes'[u], u)
  <2> SUFFICES ASSUME NEW u \in 1..Len(notes') PROVE InPlace(notes'[u], u)
    OBVIOUS
  <2>1. CASE u \in 1..Len(notes)
    BY <1>3, <2>1 DEF NotesHold
  <2>2. CASE u = Len(notes) + 1
    BY <1>3, <2>2
  <2> QED BY <1>1, <1>3, <2>1, <2>2
<1>6. noteCache' \in [NoteId -> 0..Len(notes')]
  <2>1. noteCache \in [NoteId -> 0..Len(notes)]
    BY DEF NotesHold
  <2>2. 0..Len(notes) \subseteq 0..Len(notes') /\ Len(notes') \in 0..Len(notes')
    BY <1>1, <1>3
  <2> QED BY <1>1, <2>1, <2>2
<1>7. ASSUME NEW id \in NoteId, noteCache'[id] # 0 PROVE notes'[noteCache'[id]].id = id
  <2>1. noteCache \in [NoteId -> 0..Len(notes)]
    BY DEF NotesHold
  <2>2. CASE id = note.id
    BY <1>1, <1>2, <1>3, <2>1, <2>2
  <2>3. CASE id # note.id
    <3>1. noteCache'[id] = noteCache[id] /\ noteCache[id] \in 1..Len(notes)
      BY <1>1, <1>7, <2>1, <2>3
    <3>2. notes[noteCache[id]].id = id
      BY <1>7, <3>1 DEF NotesHold
    <3> QED BY <1>3, <3>1, <3>2
  <2> QED BY <2>2, <2>3
<1> QED BY <1>3, <1>4, <1>5, <1>6, <1>7 DEF NotesHold

\* A request moves.
LEMMA CallMoves ==
  ASSUME noteCall \in [NoteCall -> CallShape], NEW c \in NoteCall,
         NEW at \in {"idle", "analyze", "revise", "register"}, NEW base \in Nat, NEW made \in Nat,
         Moves(c, at, base, made)
  PROVE  /\ noteCall' \in [NoteCall -> CallShape]
         /\ noteCall'[c].at = at /\ noteCall'[c].base = base /\ noteCall'[c].made = made
         /\ \A d \in NoteCall : d # c => noteCall'[d] = noteCall[d]
<1>1. [at |-> at, base |-> base, made |-> made] \in CallShape
  BY DEF CallShape
<1> QED BY <1>1 DEF Moves

\* A request that does not register leaves the line as it is.
LEMMA LineKept ==
  ASSUME NEW r \in Nat, LinedUp(r), NEW c \in NoteCall, noteCall[c].at # "register",
         noteCall'[c].at # "register", UNCHANGED <<notes, registry>>,
         noteCall'[c].at = "revise" => noteCall'[c].base \in 1..Len(notes) /\ noteCall'[c].base >= r,
         \A d \in NoteCall : d # c => noteCall'[d] = noteCall[d]
  PROVE  LinedUp(r)'
<1>1. registry' = [i \in 1..r |-> i]
  BY DEF LinedUp
<1>2. \A d \in NoteCall : noteCall'[d].at = "revise" =>
        noteCall'[d].base \in 1..Len(notes') /\ noteCall'[d].base >= r
  BY DEF LinedUp
<1>3. CASE Len(notes) = r /\ \A d \in NoteCall : noteCall[d].at # "register"
  <2>1. Len(notes') = r /\ \A d \in NoteCall : noteCall'[d].at # "register"
    BY <1>3
  <2> QED BY <1>1, <1>2, <2>1 DEF LinedUp
<1>4. ASSUME Len(notes) = r + 1, NEW e \in NoteCall,
             noteCall[e].at = "register" /\ noteCall[e].made = r + 1,
             \A d \in NoteCall \ {e} : noteCall[d].at # "register"
      PROVE  LinedUp(r)'
  <2>1. /\ noteCall'[e].at = "register" /\ noteCall'[e].made = r + 1
        /\ \A d \in NoteCall \ {e} : noteCall'[d].at # "register"
    BY <1>4
  <2>2. Len(notes') = r + 1
    BY <1>4
  <2> QED BY <1>1, <1>2, <2>1, <2>2 DEF LinedUp
<1> QED BY <1>3, <1>4 DEF LinedUp

\* A note is read.
LEMMA NoteRead ==
  ASSUME NotesHold, NEW id \in NoteId, NEW u \in Loads(id),
         noteCache' = [noteCache EXCEPT ![id] = u], UNCHANGED notes
  PROVE  NotesHold' /\ u \in 1..Len(notes) /\ notes[u].id = id
<1>1. noteCache \in [NoteId -> 0..Len(notes)] /\ Len(notes) \in Nat /\ DOMAIN notes = 1..Len(notes)
  BY DEF NotesHold
<1>2. u \in 1..Len(notes) /\ notes[u].id = id
  <2>1. CASE noteCache[id] # 0
    <3>1. u = noteCache[id]
      BY <2>1 DEF Loads
    <3> QED BY <1>1, <2>1, <3>1 DEF NotesHold
  <2>2. CASE noteCache[id] = 0
    BY <1>1, <2>2 DEF Loads
  <2> QED BY <2>1, <2>2
<1>3. noteCache' \in [NoteId -> 0..Len(notes')]
  BY <1>1, <1>2
<1>4. \A i \in NoteId : noteCache'[i] # 0 => notes'[noteCache'[i]].id = i
  BY <1>1, <1>2 DEF NotesHold
<1>5. notes' \in Seq(NoteShape) /\ Len(notes') <= MaxNotes
  BY DEF NotesHold
<1>6. \A v \in 1..Len(notes') : InPlace(notes'[v], v)
  BY DEF NotesHold
<1> QED BY <1>2, <1>3, <1>4, <1>5, <1>6, Zenon DEF NotesHold

\* When no call registers, the registry lists all the notes.
LEMMA AllListed ==
  ASSUME NEW r \in Nat, LinedUp(r), \A d \in NoteCall : noteCall[d].at # "register"
  PROVE  Len(notes) = r
BY DEF LinedUp

\* The notes hold while they and their cache stay.
LEMMA NotesHoldKept ==
  ASSUME NotesHold, UNCHANGED <<notes, noteCache>>
  PROVE  NotesHold'
BY DEF NotesHold, InPlace

\* The line begins empty.
LEMMA NoteInvInit == NoteInit => NoteInv
<1> SUFFICES ASSUME NoteInit PROVE NoteInv
  OBVIOUS
<1> USE DEF NoteInit
<1>1. NotesHold
  <2>1. notes = <<>> /\ Len(notes) = 0 /\ notes \in Seq(NoteShape)
    OBVIOUS
  <2>2. noteCache \in [NoteId -> 0..Len(notes)] /\ \A id \in NoteId : noteCache[id] = 0
    BY <2>1
  <2>3. Len(notes) <= MaxNotes /\ \A u \in 1..Len(notes) : InPlace(notes[u], u)
    BY <2>1, NoteAssumption
  <2> QED BY <2>1, <2>2, <2>3 DEF NotesHold
<1>2. noteCall \in [NoteCall -> CallShape] /\ \A c \in NoteCall : noteCall[c].at = "idle"
  BY DEF NoCall, CallShape
<1>3. LinedUp(0)
  <2>1. registry = [i \in 1..0 |-> i]
    OBVIOUS
  <2>2. Len(notes) = 0
    OBVIOUS
  <2> QED BY <1>2, <2>1, <2>2 DEF LinedUp
<1> QED BY <1>1, <1>2, <1>3 DEF NoteInv, InLine

\* What a thread drafts when no other request is busy is the next version.
LEMMA NextDraft ==
  ASSUME NotesHold, NEW r \in Nat, LinedUp(r), NEW c \in NoteCall,
         noteCall[c].at \in {"analyze", "revise"}, Len(notes) = r, r < MaxNotes,
         noteCall[c].at = "analyze" => notes = <<>>,
         NEW note \in Drafts(c)
  PROVE  InPlace(note, r + 1)
<1>1. CASE noteCall[c].at = "analyze"
  <2>1. r = 0
    BY <1>1
  <2>2. note = [id |-> <<0, 1>>, version |-> 1, parent |-> 0,
                sections |-> [i \in 1..FirstSections |-> i], moved |-> FALSE]
    BY <1>1 DEF Drafts
  <2>3. [i \in 1..FirstSections |-> i] \in Seq(Nat) /\ Len([i \in 1..FirstSections |-> i]) = FirstSections
    BY NoteAssumption
  <2>4. Numbered([i \in 1..FirstSections |-> i])
    BY <2>3 DEF Numbered
  <2>5. <<0, 1>> \in NoteId
    <3>1. MaxNotes >= 1
      BY <2>1, NoteAssumption
    <3> QED BY <3>1, NoteAssumption DEF NoteId, Uid
  <2> QED BY <2>1, <2>2, <2>3, <2>4, <2>5 DEF InPlace, NoteShape
<1>2. CASE noteCall[c].at = "revise"
  <2>1. noteCall[c].base = r /\ r \in 1..Len(notes)
    BY <1>2 DEF LinedUp, NotesHold
  <2>2. InPlace(notes[r], r) /\ notes[r].version = r /\ notes[r].sections \in Seq(Nat)
        /\ notes[r].moved \in BOOLEAN
    BY <2>1 DEF NotesHold, InPlace, NoteShape
  <2>3. PICK edit \in Patched(notes[r].sections) :
          note = [id |-> <<0, r + 1>>, version |-> r + 1, parent |-> r,
                  sections |-> edit.sections, moved |-> notes[r].moved \/ edit.moved]
    <3>1. Drafts(c) = {[id |-> <<0, r + 1>>, version |-> r + 1, parent |-> r,
                        sections |-> edit.sections, moved |-> notes[r].moved \/ edit.moved] :
                         edit \in Patched(notes[r].sections)}
      BY <1>2, <2>1, <2>2 DEF Drafts
    <3> QED BY <3>1
  <2>4. PICK sections \in Seq(Nat), moved \in BOOLEAN :
          /\ edit = [sections |-> sections, moved |-> moved]
          /\ Numbered(notes[r].sections) /\ moved = FALSE => Numbered(sections)
    BY <2>2, PatchedInOrder
  <2>5. <<0, r + 1>> \in NoteId
    BY <2>1, NoteAssumption DEF NoteId, Uid
  <2>6. note = [id |-> <<0, r + 1>>, version |-> r + 1, parent |-> r,
                sections |-> sections, moved |-> notes[r].moved \/ moved]
    BY <2>3, <2>4
  <2>7. (notes[r].moved \/ moved) \in BOOLEAN
    OBVIOUS
  <2>8. note \in NoteShape
    BY <2>5, <2>6, <2>7 DEF NoteShape
  <2>9. note.moved = FALSE => Numbered(note.sections)
    <3> SUFFICES ASSUME note.moved = FALSE PROVE Numbered(note.sections)
      OBVIOUS
    <3>1. (notes[r].moved \/ moved) = FALSE
      BY <2>6
    <3>2. notes[r].moved = FALSE /\ moved = FALSE
      BY <2>2, <3>1, Zenon
    <3>3. Numbered(notes[r].sections)
      BY <2>2, <3>2 DEF InPlace
    <3> QED BY <2>4, <2>6, <3>2, <3>3
  <2>10. note.id = <<0, r + 1>> /\ note.version = r + 1 /\ note.parent = r
    BY <2>6
  <2> QED BY <2>8, <2>9, <2>10 DEF InPlace
<1> QED BY <1>1, <1>2

\* One lemma per action: it leaves the notes in one line, of one more for an action
\* that registers.
LEMMA GetNoteKeepsLine ==
  ASSUME NEW r \in Nat, InLine(r), NEW id \in NoteId, GetNote(id)
  PROVE  InLine(r)'
<1>1. NotesHold'
  BY NoteRead DEF InLine, GetNote
<1>2. UNCHANGED <<notes, registry, noteCall>>
  BY DEF GetNote
<1> QED BY <1>1, <1>2 DEF InLine, LinedUp

LEMMA AnalyzeKeepsLine ==
  ASSUME NEW r \in Nat, InLine(r), NEW c \in NoteCall, Analyze(c)
  PROVE  InLine(r)'
<1>1. /\ noteCall[c].at = "idle" /\ Moves(c, "analyze", 0, 0) /\ UNCHANGED <<notes, noteCache, registry>>
      /\ NotesHold /\ LinedUp(r) /\ noteCall \in [NoteCall -> CallShape]
  BY DEF InLine, Analyze
<1>2. NotesHold'
  BY <1>1, NotesHoldKept
<1>3. /\ noteCall' \in [NoteCall -> CallShape] /\ noteCall'[c].at = "analyze"
      /\ \A d \in NoteCall : d # c => noteCall'[d] = noteCall[d]
  BY <1>1, CallMoves
<1>4. LinedUp(r)'
  BY <1>1, <1>3, LineKept
<1> QED BY <1>2, <1>3, <1>4 DEF InLine

LEMMA PatchNoteKeepsLine ==
  ASSUME NEW r \in Nat, InLine(r), NEW c \in NoteCall, NEW id \in NoteId, PatchNote(c, id)
  PROVE  InLine(r)'
<1>1. /\ noteCall[c].at = "idle" /\ UNCHANGED <<notes, registry>>
      /\ NotesHold /\ LinedUp(r) /\ noteCall \in [NoteCall -> CallShape]
  BY DEF InLine, PatchNote
<1>2. PICK u \in Loads(id) : /\ AtTip(u) /\ noteCache' = [noteCache EXCEPT ![id] = u]
                             /\ Moves(c, "revise", u, 0)
  BY DEF PatchNote
<1>3. NotesHold' /\ u \in 1..Len(notes)
  BY <1>1, <1>2, NoteRead
<1>4. u \in Nat /\ u >= r
  <2>1. TipVersion = r /\ notes[u].version = u
    BY <1>1, <1>3, TipIsLast DEF NotesHold, InPlace
  <2> QED BY <1>2, <1>3, <2>1 DEF AtTip
<1>5. /\ noteCall' \in [NoteCall -> CallShape] /\ noteCall'[c].at = "revise" /\ noteCall'[c].base = u
      /\ \A d \in NoteCall : d # c => noteCall'[d] = noteCall[d]
  BY <1>1, <1>2, <1>4, CallMoves
<1>6. LinedUp(r)'
  BY <1>1, <1>3, <1>4, <1>5, LineKept
<1> QED BY <1>3, <1>5, <1>6 DEF InLine

LEMMA ThreadSavesKeepsLine ==
  ASSUME NEW r \in Nat, InLine(r), NEW c \in NoteCall, ThreadSaves(c), ~muddled'
  PROVE  InLine(r)'
<1>1. /\ noteCall[c].at \in {"analyze", "revise"} /\ UNCHANGED registry
      /\ Moves(c, "register", noteCall[c].base, Len(notes'))
      /\ NotesHold /\ LinedUp(r) /\ noteCall \in [NoteCall -> CallShape]
  BY DEF InLine, ThreadSaves
<1>2. PICK note \in Drafts(c) : Saves(note)
  BY DEF ThreadSaves
<1>3. /\ \A d \in NoteCall \ {c} : noteCall[d].at = "idle"
      /\ noteCall[c].at = "analyze" => notes = <<>>
  BY DEF ThreadSaves, OthersBusy
<1>4. Len(notes) = r /\ r < MaxNotes
  <2>1. \A d \in NoteCall : noteCall[d].at # "register"
    BY <1>1, <1>3
  <2> QED BY <1>1, <1>2, <2>1, AllListed DEF Saves
<1>5. InPlace(note, Len(notes) + 1)
  BY <1>1, <1>2, <1>3, <1>4, NextDraft
<1>6. NotesHold' /\ Len(notes') = r + 1
  BY <1>1, <1>2, <1>4, <1>5, NoteStored
<1>7. noteCall[c].base \in Nat
  BY <1>1 DEF CallShape
<1>8. /\ noteCall' \in [NoteCall -> CallShape]
      /\ noteCall'[c].at = "register" /\ noteCall'[c].made = r + 1
      /\ \A d \in NoteCall : d # c => noteCall'[d] = noteCall[d]
  BY <1>1, <1>6, <1>7, CallMoves
<1>9. \A d \in NoteCall \ {c} : noteCall'[d].at = "idle"
  BY <1>3, <1>8
<1>10. registry' = [i \in 1..r |-> i]
  BY <1>1 DEF LinedUp
<1>11. LinedUp(r)'
  <2>1. \A d \in NoteCall : noteCall'[d].at # "revise"
    BY <1>8, <1>9
  <2>2. \E e \in NoteCall : /\ noteCall'[e].at = "register" /\ noteCall'[e].made = r + 1
                            /\ \A d \in NoteCall \ {e} : noteCall'[d].at # "register"
    BY <1>8, <1>9
  <2> QED BY <1>6, <1>10, <2>1, <2>2 DEF LinedUp
<1> QED BY <1>6, <1>8, <1>11 DEF InLine

LEMMA ThreadFailsKeepsLine ==
  ASSUME NEW r \in Nat, InLine(r), NEW c \in NoteCall, ThreadFails(c), ~muddled'
  PROVE  InLine(r)'
<1>1. /\ noteCall[c].at \in {"analyze", "revise"} /\ UNCHANGED <<registry, notes, noteCache>>
      /\ noteCall' = [noteCall EXCEPT ![c] = NoCall]
      /\ NotesHold /\ LinedUp(r) /\ noteCall \in [NoteCall -> CallShape]
  BY DEF InLine, ThreadFails
<1>2. NotesHold'
  BY <1>1, NotesHoldKept
<1>3. /\ noteCall' \in [NoteCall -> CallShape] /\ noteCall'[c].at = "idle"
      /\ \A d \in NoteCall : d # c => noteCall'[d] = noteCall[d]
  <2>1. NoCall \in CallShape /\ NoCall.at = "idle"
    BY DEF NoCall, CallShape
  <2> QED BY <1>1, <2>1
<1>4. LinedUp(r)'
  BY <1>1, <1>3, LineKept
<1> QED BY <1>2, <1>3, <1>4 DEF InLine

LEMMA RegisterKeepsLine ==
  ASSUME NEW r \in Nat, InLine(r), NEW c \in NoteCall, Register(c), ~muddled'
  PROVE  InLine(r + 1)'
<1>1. /\ noteCall[c].at = "register" /\ registry' = Listed(noteCall[c].made, notes)
      /\ noteCall' = [noteCall EXCEPT ![c] = NoCall] /\ UNCHANGED <<notes, noteCache>>
      /\ NotesHold /\ LinedUp(r) /\ noteCall \in [NoteCall -> CallShape]
  BY DEF InLine, Register
<1>2. \A d \in NoteCall \ {c} : noteCall[d].at = "idle"
  BY DEF Register, OthersBusy
<1>3. Len(notes) = r + 1 /\ noteCall[c].made = r + 1
  BY <1>1 DEF LinedUp
<1>4. NotesHold'
  BY <1>1, NotesHoldKept
<1>5. registry' = [i \in 1..(r + 1) |-> i]
  <2>1. notes[r + 1].id \in {<<0, r + 1>>, <<1, r + 1>>} /\ r <= Len(notes)
    BY <1>1, <1>3 DEF NotesHold, InPlace
  <2>2. registry = [i \in 1..r |-> i]
    BY <1>1 DEF LinedUp
  <2>3. Listed(r + 1, notes) = [i \in 1..(r + 1) |-> i]
    BY <1>1, <2>1, <2>2, ListedLast
  <2> QED BY <1>1, <1>3, <2>3
<1>6. noteCall' \in [NoteCall -> CallShape] /\ \A d \in NoteCall : noteCall'[d].at = "idle"
  <2>1. NoCall \in CallShape /\ NoCall.at = "idle"
    BY DEF NoCall, CallShape
  <2> QED BY <1>1, <1>2, <2>1
<1>7. LinedUp(r + 1)'
  <2>1. Len(notes') = r + 1
    BY <1>1, <1>3
  <2> QED BY <1>5, <1>6, <2>1 DEF LinedUp
<1> QED BY <1>4, <1>6, <1>7 DEF InLine

LEMMA NoteFromChatKeepsLine ==
  ASSUME NEW r \in Nat, InLine(r), NoteFromChat, ~muddled'
  PROVE  InLine(r + 1)'
<1> DEFINE note == [id |-> <<1, Len(notes) + 1>>, version |-> TipVersion + 1, parent |-> Tip,
                    sections |-> <<1>>, moved |-> FALSE]
<1>1. /\ Saves(note) /\ registry' = Listed(Len(notes'), notes') /\ UNCHANGED noteCall
      /\ NotesHold /\ LinedUp(r) /\ noteCall \in [NoteCall -> CallShape]
  BY DEF InLine, NoteFromChat
<1>2. \A d \in NoteCall : noteCall[d].at = "idle"
  BY DEF NoteFromChat
<1>3. Len(notes) = r
  BY <1>1, <1>2, AllListed
<1>4. InPlace(note, r + 1)
  <2>1. TipVersion = r /\ Tip = r
    BY <1>1, TipIsLast
  <2>2. <<1, r + 1>> \in NoteId
    <3>1. r + 1 \in Uid
      BY <1>1, <1>3, NoteAssumption DEF Saves, Uid
    <3> QED BY <3>1 DEF NoteId
  <2>3. <<1>> \in Seq(Nat) /\ Numbered(<<1>>)
    BY DEF Numbered
  <2> QED BY <1>3, <2>1, <2>2, <2>3 DEF InPlace, NoteShape
<1> HIDE DEF note
<1>5. NotesHold' /\ Len(notes') = r + 1
  BY <1>1, <1>3, <1>4, NoteStored
<1>6. registry' = [i \in 1..(r + 1) |-> i]
  <2>1. notes'[r + 1].id \in {<<0, r + 1>>, <<1, r + 1>>}
    BY <1>5 DEF NotesHold, InPlace
  <2>2. registry = [i \in 1..r |-> i] /\ r <= Len(notes)
    BY <1>1, <1>3 DEF LinedUp
  <2>3. Listed(r + 1, notes') = [i \in 1..(r + 1) |-> i]
    BY <1>1, <2>1, <2>2, ListedLast
  <2> QED BY <1>1, <1>5, <2>3
<1>7. LinedUp(r + 1)'
  BY <1>1, <1>2, <1>5, <1>6 DEF LinedUp
<1> QED BY <1>1, <1>5, <1>7 DEF InLine

LEMMA RestartNotesKeepsLine ==
  ASSUME NEW r \in Nat, InLine(r), RestartNotes, ~muddled'
  PROVE  InLine(r)'
<1>1. /\ noteCache' = [i \in NoteId |-> 0] /\ noteCall' = [c \in NoteCall |-> NoCall]
      /\ UNCHANGED notes /\ NotesHold /\ LinedUp(r)
  BY DEF InLine, RestartNotes
<1>2. UNCHANGED registry /\ \A d \in NoteCall : noteCall[d].at = "idle"
  BY DEF RestartNotes
<1>3. Len(notes) = r
  BY <1>1, <1>2, AllListed
<1>4. NotesHold'
  <2>1. Len(notes) \in Nat
    BY <1>3
  <2>2. noteCache' \in [NoteId -> 0..Len(notes')] /\ \A id \in NoteId : noteCache'[id] = 0
    BY <1>1, <2>1
  <2>3. /\ notes' \in Seq(NoteShape) /\ Len(notes') <= MaxNotes
        /\ \A u \in 1..Len(notes') : InPlace(notes'[u], u)
    BY <1>1 DEF NotesHold
  <2> QED BY <2>2, <2>3 DEF NotesHold
<1>5. noteCall' \in [NoteCall -> CallShape] /\ \A d \in NoteCall : noteCall'[d].at = "idle"
  BY <1>1 DEF NoCall, CallShape
<1>6. LinedUp(r)'
  <2>1. registry' = [i \in 1..r |-> i] /\ Len(notes') = r
    BY <1>1, <1>2, <1>3 DEF LinedUp
  <2> QED BY <1>5, <2>1 DEF LinedUp
<1> QED BY <1>4, <1>5, <1>6 DEF InLine

\* Each step leaves the notes in one line or marks the document as muddled.
LEMMA NoteInvStep == NoteInv /\ [NoteNext]_noteVars => NoteInv'
<1> SUFFICES ASSUME NoteInv, [NoteNext]_noteVars, ~muddled'
             PROVE  \E r \in Nat : InLine(r)'
  BY DEF NoteInv, InLine
<1>1. ~muddled
  BY DEF NoteNext, noteVars, GetNote, Analyze, PatchNote, ThreadSaves, ThreadFails, Register,
         NoteFromChat, RestartNotes
<1>2. PICK r \in Nat : InLine(r)
  BY <1>1 DEF NoteInv, InLine
<1>3. CASE UNCHANGED noteVars
  BY <1>2, <1>3 DEF InLine, NotesHold, InPlace, LinedUp, noteVars
<1>4. ASSUME NEW id \in NoteId, GetNote(id) PROVE InLine(r)'
  BY <1>2, <1>4, GetNoteKeepsLine
<1>5. ASSUME NEW c \in NoteCall, Analyze(c) PROVE InLine(r)'
  BY <1>2, <1>5, AnalyzeKeepsLine
<1>6. ASSUME NEW c \in NoteCall, NEW id \in NoteId, PatchNote(c, id) PROVE InLine(r)'
  BY <1>2, <1>6, PatchNoteKeepsLine
<1>7. ASSUME NEW c \in NoteCall, ThreadSaves(c) PROVE InLine(r)'
  BY <1>2, <1>7, ThreadSavesKeepsLine
<1>8. ASSUME NEW c \in NoteCall, ThreadFails(c) PROVE InLine(r)'
  BY <1>2, <1>8, ThreadFailsKeepsLine
<1>9. ASSUME NEW c \in NoteCall, Register(c) PROVE InLine(r + 1)'
  BY <1>2, <1>9, RegisterKeepsLine
<1>10. CASE NoteFromChat
  <2>1. InLine(r + 1)'
    BY <1>2, <1>10, NoteFromChatKeepsLine
  <2> QED BY <2>1
<1>11. CASE RestartNotes
  BY <1>2, <1>11, RestartNotesKeepsLine
<1>12. r + 1 \in Nat
  OBVIOUS
<1> QED BY <1>3, <1>4, <1>5, <1>6, <1>7, <1>8, <1>9, <1>10, <1>11, <1>12, Zenon DEF NoteNext

\* Notes in one line are the history the registry lists.
LEMMA NoteInvLine == NoteInv => RevisionsFormOneLine
<1> SUFFICES ASSUME NoteInv, ~muddled, NEW i \in DOMAIN registry
             PROVE  /\ notes[registry[i]].version = i
                    /\ notes[registry[i]].parent = IF i = 1 THEN 0 ELSE registry[i - 1]
                    /\ Loads(notes[registry[i]].id) = {registry[i]}
                    /\ \/ notes[registry[i]].moved
                       \/ notes[registry[i]].sections =
                            [k \in DOMAIN notes[registry[i]].sections |-> k]
  BY DEF RevisionsFormOneLine
<1>1. PICK r \in Nat : NotesHold /\ LinedUp(r)
  BY DEF NoteInv, InLine
<1>2. registry = [j \in 1..r |-> j] /\ r <= Len(notes) /\ Len(notes) \in Nat
  BY <1>1 DEF LinedUp, NotesHold
<1>3. i \in 1..r /\ registry[i] = i /\ i \in 1..Len(notes) /\ InPlace(notes[i], i)
  BY <1>1, <1>2 DEF NotesHold
<1>4. notes[i].version = i /\ notes[i].parent = IF i = 1 THEN 0 ELSE registry[i - 1]
  <2>1. i # 1 => registry[i - 1] = i - 1
    BY <1>2, <1>3
  <2> QED BY <1>3, <2>1 DEF InPlace
<1>5. Loads(notes[i].id) = {i}
  <2>1. \A u \in 1..Len(notes) : notes[u].id = notes[i].id => u = i
    BY <1>1, <1>3 DEF NotesHold, InPlace
  <2>2. notes[i].id \in NoteId /\ DOMAIN notes = 1..Len(notes)
    BY <1>1, <1>3, SMTT(30) DEF InPlace, NoteShape, NotesHold
  <2>3. CASE noteCache[notes[i].id] # 0
    <3>1. /\ noteCache[notes[i].id] \in 1..Len(notes)
          /\ notes[noteCache[notes[i].id]].id = notes[i].id
      BY <1>1, <1>2, <2>2, <2>3 DEF NotesHold
    <3>2. noteCache[notes[i].id] = i
      BY <2>1, <3>1
    <3> QED BY <2>3, <3>2, Zenon DEF Loads
  <2>4. CASE noteCache[notes[i].id] = 0
    <3>1. {u \in DOMAIN notes : notes[u].id = notes[i].id} = {i}
      BY <1>3, <2>1, <2>2
    <3> QED BY <2>4, <3>1, Zenon DEF Loads
  <2> QED BY <2>3, <2>4
<1>6. notes[i].moved \/ notes[i].sections = [k \in DOMAIN notes[i].sections |-> k]
  <2>1. notes[i].moved \in BOOLEAN /\ notes[i].sections \in Seq(Nat)
    BY <1>3 DEF InPlace, NoteShape
  <2>2. CASE notes[i].moved = TRUE
    BY <2>2
  <2>3. CASE notes[i].moved = FALSE
    <3>1. notes[i].sections = [k \in 1..Len(notes[i].sections) |-> k]
      BY <1>3, <2>3 DEF InPlace, Numbered
    <3>2. DOMAIN notes[i].sections = 1..Len(notes[i].sections)
      BY <2>1
    <3> QED BY <3>1, <3>2, Zenon
  <2> QED BY <2>1, <2>2, <2>3
<1> QED BY <1>3, <1>4, <1>5, <1>6, Zenon

\* While no document with notes is analyzed, no requests overlap and none breaks
\* off, the registry is the history of the document: the nth entry is version n,
\* made from the entry before it, its id loads it and no other note, across
\* restarts too, and its sections are numbered in order unless one was put or
\* taken out before the last.
THEOREM RevisionsAreOneLine == NoteSpec => []RevisionsFormOneLine
<1>1. NoteInit => NoteInv
  BY NoteInvInit
<1>2. NoteInv /\ [NoteNext]_noteVars => NoteInv'
  BY NoteInvStep
<1>3. NoteInv => RevisionsFormOneLine
  BY NoteInvLine
<1> QED BY <1>1, <1>2, <1>3, PTL DEF NoteSpec

\* A set of numbers that is not empty has a least one,
LEMMA LeastNumber ==
  ASSUME NEW S, S \subseteq Nat, S # {}
  PROVE  \E n \in S : \A m \in S : n <= m
<1> DEFINE R == OpToRel(<, Nat)
<1>1. \A x, y \in Nat : y < x => <<y, x>> \in R
  BY DEF OpToRel
<1>2. IsWellFoundedOn(R, Nat)
  BY NatLessThanWellFounded
<1> HIDE DEF R
<1>3. PICK n \in S : \A m \in S : <<m, n>> \notin R
  BY <1>2, WFMin
<1>4. \A m \in S : ~(m < n)
  BY <1>1, <1>3
<1> QED BY <1>4

\* and a greatest, when it has a bound.
LEMMA GreatestNumber ==
  ASSUME NEW n \in Nat, NEW S, S \subseteq 0..n, S # {}
  PROVE  \E m \in S : \A k \in S : k <= m
<1> DEFINE Bounds == {b \in Nat : \A k \in S : k <= b}
<1>1. Bounds \subseteq Nat /\ n \in Bounds
  OBVIOUS
<1>2. PICK b \in Bounds : \A c \in Bounds : b <= c
  <2> HIDE DEF Bounds
  <2> QED BY <1>1, LeastNumber
<1>3. CASE b \in S
  BY <1>2, <1>3
<1>4. CASE b \notin S
  <2>1. \A k \in S : k \in Nat /\ k < b
    BY <1>4
  <2>2. b \in Nat /\ b # 0
    <3>1. b \in Nat
      OBVIOUS
    <3>2. PICK k \in S : k \in Nat /\ k < b
      BY <2>1
    <3> QED BY <3>1, <3>2
  <2>4. b - 1 \in Nat /\ \A k \in S : k <= b - 1
    BY <2>1, <2>2
  <2>3. b - 1 \in Bounds /\ b \in Nat /\ ~(b <= b - 1)
    BY <2>2, <2>4
  <2> HIDE DEF Bounds
  <2> QED BY <1>2, <2>3
<1> QED BY <1>3, <1>4

\* A note at its place among the notes, whatever the requests do: its version is at
\* most its place, and each note has at most one section more than what it is made of.
NoteAt(u) == [id : NoteId, version : 1..u, parent : 0..u,
              sections : Seq(1..(FirstSections + u)), moved : BOOLEAN]
FitsAt(note, u) == note \in NoteAt(u) /\ Len(note.sections) <= FirstSections + u
NotesFit(s) == s \in Seq(NoteRecord) /\ Len(s) <= MaxNotes /\ \A u \in 1..Len(s) : FitsAt(s[u], u)
CallAmong(n) ==
  [at : {"idle", "analyze"}, base : 0..n, made : 0..n]
    \cup [at : {"revise"}, base : 1..n, made : 0..n]
    \cup [at : {"register"}, base : 0..n, made : 1..n]
NoteTypeInv ==
  /\ NotesFit(notes)
  /\ noteCache \in [NoteId -> 0..Len(notes)]
  /\ registry \in Seq(1..Len(notes))
  /\ noteCall \in [NoteCall -> CallAmong(Len(notes))]
  /\ noteRestarts \in 0..MaxNoteRestarts /\ muddled \in BOOLEAN

\* The members of a sequence belong to a larger set too.
LEMMA LargerSeq ==
  ASSUME NEW A, NEW B, A \subseteq B, NEW s \in Seq(A)
  PROVE  s \in Seq(B)
OBVIOUS

\* A patch makes one section more at most.
LEMMA PatchFits ==
  ASSUME NEW n \in Nat, NEW s \in Seq(1..n), Len(s) <= n, NEW edit \in Patched(s)
  PROVE  /\ edit.sections \in Seq(1..(n + 1)) /\ Len(edit.sections) <= n + 1
         /\ edit.moved \in BOOLEAN
<1>1. s \in Seq(1..(n + 1)) /\ Len(s) \in Nat /\ Len(s) <= n + 1
  <2>1. 1..n \subseteq 1..(n + 1)
    OBVIOUS
  <2> QED BY <2>1
<1>2. CASE edit \in Untouched(s)
  <2>1. edit = [sections |-> s, moved |-> FALSE]
    BY <1>2 DEF Untouched
  <2> QED BY <1>1, <2>1
<1>3. CASE edit \in Appended(s)
  <2>1. edit = [sections |-> Append(s, Len(s) + 1), moved |-> FALSE] /\ Len(s) + 1 \in 1..(n + 1)
    BY <1>1, <1>3 DEF Appended
  <2>2. Append(s, Len(s) + 1) \in Seq(1..(n + 1)) /\ Len(Append(s, Len(s) + 1)) = Len(s) + 1
    BY <1>1, <2>1
  <2> QED BY <1>1, <2>1, <2>2
<1>4. CASE edit \in Inserted(s)
  <2>1. PICK i \in 0..Len(s) : edit = [sections |-> InsertAt(s, i + 1, i + 1), moved |-> i < Len(s)]
    BY <1>4 DEF Inserted
  <2>2. i + 1 \in 1..(n + 1)
    BY <1>1, <2>1
  <2> DEFINE a == SubSeq(s, 1, (i + 1) - 1)
             b == SubSeq(s, i + 1, Len(s))
  <2>3. a \in Seq(1..(n + 1)) /\ Len(a) = i
    <3>1. (i + 1) - 1 \in 0..Len(s)
      BY <1>1, <2>1
    <3> QED BY <1>1, <2>1, <3>1, SubSeqProperties
  <2>6. b \in Seq(1..(n + 1)) /\ Len(b) = Len(s) - i
    <3>1. CASE i = Len(s)
      <4>1. b = <<>>
        BY <1>1, <2>1, <3>1, SubSeqEmpty
      <4> HIDE DEF b
      <4> QED BY <1>1, <3>1, <4>1
    <3>2. CASE i # Len(s)
      <4>1. i + 1 \in 1..Len(s) /\ Len(s) - (i + 1) + 1 = Len(s) - i
        BY <1>1, <2>1, <3>2
      <4>2. b \in Seq(1..(n + 1)) /\ Len(b) = Len(s) - (i + 1) + 1
        BY <1>1, <4>1
      <4> HIDE DEF b
      <4> QED BY <4>1, <4>2
    <3> QED BY <3>1, <3>2
  <2>7. <<i + 1>> \in Seq(1..(n + 1)) /\ Len(<<i + 1>>) = 1
    BY <2>2
  <2>4. InsertAt(s, i + 1, i + 1) \in Seq(1..(n + 1)) /\ Len(InsertAt(s, i + 1, i + 1)) <= n + 1
    <3>1. InsertAt(s, i + 1, i + 1) = (a \o <<i + 1>>) \o b
      BY Zenon DEF InsertAt
    <3> HIDE DEF a, b
    <3>2. a \o <<i + 1>> \in Seq(1..(n + 1)) /\ Len(a \o <<i + 1>>) = Len(a) + Len(<<i + 1>>)
      BY <2>3, <2>7, ConcatProperties, Zenon
    <3>3. /\ InsertAt(s, i + 1, i + 1) \in Seq(1..(n + 1))
          /\ Len(InsertAt(s, i + 1, i + 1)) = Len(a \o <<i + 1>>) + Len(b)
      BY <2>6, <3>1, <3>2, ConcatProperties, ZenonT(30)
    <3>4. i \in Nat /\ i + 1 + (Len(s) - i) <= n + 1
      BY <1>1, <2>1
    <3> QED BY <1>1, <2>3, <2>6, <2>7, <3>2, <3>3, <3>4
  <2>5. (i < Len(s)) \in BOOLEAN
    OBVIOUS
  <2> QED BY <2>1, <2>4, <2>5
<1>5. CASE edit \in Deleted(s)
  <2>1. PICK i \in 1..Len(s) : edit = [sections |-> RemoveAt(s, i), moved |-> i < Len(s)]
    BY <1>5 DEF Deleted
  <2> DEFINE a == SubSeq(s, 1, i - 1)
             b == SubSeq(s, i + 1, Len(s))
  <2>2. /\ a \in Seq(1..(n + 1)) /\ Len(a) = i - 1
        /\ b \in Seq(1..(n + 1)) /\ Len(b) = Len(s) - i
    BY <1>1, <2>1
  <2>3. RemoveAt(s, i) \in Seq(1..(n + 1)) /\ Len(RemoveAt(s, i)) <= n + 1
    <3>1. RemoveAt(s, i) = a \o b
      BY Zenon DEF RemoveAt
    <3> HIDE DEF a, b
    <3>2. RemoveAt(s, i) \in Seq(1..(n + 1)) /\ Len(RemoveAt(s, i)) = Len(a) + Len(b)
      BY <2>2, <3>1, ConcatProperties, Zenon
    <3> QED BY <1>1, <2>1, <2>2, <3>2
  <2>4. (i < Len(s)) \in BOOLEAN
    OBVIOUS
  <2> QED BY <2>1, <2>3, <2>4
<1> QED BY <1>2, <1>3, <1>4, <1>5 DEF Patched

\* A note is stored after the others.
LEMMA NoteFits ==
  ASSUME NotesFit(notes), Len(notes) < MaxNotes, NEW note, FitsAt(note, Len(notes) + 1)
  PROVE  /\ NotesFit(Append(notes, note)) /\ Len(Append(notes, note)) = Len(notes) + 1
         /\ note.id \in NoteId
<1>1. notes \in Seq(NoteRecord) /\ Len(notes) \in Nat /\ Len(notes) + 1 \in 1..MaxNotes
  BY NoteAssumption DEF NotesFit
<1>2. note \in NoteRecord
  <2>1. note \in NoteAt(Len(notes) + 1)
    BY DEF FitsAt
  <2>2. /\ 1..(Len(notes) + 1) \subseteq Uid /\ 0..(Len(notes) + 1) \subseteq {0} \cup Uid
        /\ 1..(FirstSections + (Len(notes) + 1)) \subseteq 1..(FirstSections + MaxNotes)
    BY <1>1, NoteAssumption DEF Uid
  <2>3. note.sections \in Seq(1..(FirstSections + MaxNotes))
    <3> DEFINE A == 1..(FirstSections + (Len(notes) + 1))
               B == 1..(FirstSections + MaxNotes)
    <3>1. note.sections \in Seq(A) /\ A \subseteq B
      BY <2>1, <2>2 DEF NoteAt
    <3> HIDE DEF A, B
    <3>2. note.sections \in Seq(B)
      BY <3>1, LargerSeq
    <3> QED BY <3>2 DEF B
  <2>4. /\ note.id \in NoteId /\ note.version \in Uid /\ note.parent \in {0} \cup Uid
        /\ note.moved \in BOOLEAN
    BY <2>1, <2>2 DEF NoteAt
  <2>5. note = [id |-> note.id, version |-> note.version, parent |-> note.parent,
                sections |-> note.sections, moved |-> note.moved]
    BY <2>1 DEF NoteAt
  <2> QED BY <2>3, <2>4, <2>5, Zenon DEF NoteRecord
<1>3. /\ Append(notes, note) \in Seq(NoteRecord) /\ Len(Append(notes, note)) = Len(notes) + 1
      /\ Append(notes, note)[Len(notes) + 1] = note
      /\ \A u \in 1..Len(notes) : Append(notes, note)[u] = notes[u]
  BY <1>1, <1>2
<1>4. ASSUME NEW u \in 1..(Len(notes) + 1) PROVE FitsAt(Append(notes, note)[u], u)
  BY <1>1, <1>3 DEF NotesFit
<1>5. note.id \in NoteId
  BY <1>2 DEF NoteRecord
<1> QED BY <1>1, <1>3, <1>4, <1>5 DEF NotesFit

\* The tip is one of the notes, and of no later version than there are notes.
LEMMA TipFits ==
  ASSUME NotesFit(notes), registry \in Seq(1..Len(notes))
  PROVE  TipVersion \in 0..Len(notes) /\ Tip \in 0..Len(notes)
<1> DEFINE vs == {notes[u].version : u \in ToSet(registry)}
<1>1. Len(notes) \in Nat /\ \A u \in 1..Len(notes) : notes[u].version \in 1..Len(notes)
  <2>1. Len(notes) \in Nat /\ \A u \in 1..Len(notes) : 1..u \subseteq 1..Len(notes)
    BY DEF NotesFit
  <2>2. \A u \in 1..Len(notes) : notes[u].version \in 1..u
    BY DEF NotesFit, FitsAt, NoteAt
  <2> QED BY <2>1, <2>2
<1>2. \A i \in DOMAIN registry : registry[i] \in 1..Len(notes)
  OBVIOUS
<1>3. vs \subseteq 0..Len(notes) /\ (vs = {} <=> registry = <<>>)
  <2>1. ToSet(registry) \subseteq 1..Len(notes)
    BY <1>2 DEF ToSet
  <2>2. vs \subseteq 0..Len(notes)
    BY <1>1, <2>1
  <2>3. registry = <<>> => ToSet(registry) = {}
    BY DEF ToSet
  <2>4. registry # <<>> => registry[1] \in ToSet(registry)
    BY DEF ToSet
  <2> QED BY <2>2, <2>3, <2>4
<1>4. CASE vs = {}
  <2>1. TipVersion = 0 /\ Tip = 0
    BY <1>3, <1>4, Zenon DEF TipVersion, Tip
  <2> QED BY <1>1, <2>1
<1>5. CASE vs # {}
  <2>1. TipVersion = CHOOSE v \in vs : \A w \in vs : w <= v
    BY <1>5 DEF TipVersion
  <2>2. \E v \in vs : \A w \in vs : w <= v
    BY <1>1, <1>3, <1>5, GreatestNumber
  <2>3. TipVersion \in vs
    BY <2>1, <2>2
  <2> DEFINE Tips == {i \in DOMAIN registry : notes[registry[i]].version = TipVersion}
  <2>4. Tips \subseteq Nat /\ Tips # {}
    BY <2>3 DEF ToSet
  <2>5. PICK i \in Tips : \A j \in Tips : i <= j
    <3> HIDE DEF Tips
    <3> QED BY <2>4, LeastNumber
  <2>6. /\ i \in DOMAIN registry /\ notes[registry[i]].version = TipVersion
        /\ \A j \in 1..(i - 1) : notes[registry[j]].version # TipVersion
    <3>1. i \in 1..Len(registry) /\ Len(registry) \in Nat
      OBVIOUS
    <3>2. \A j \in 1..(i - 1) : j \in DOMAIN registry /\ ~(i <= j)
      BY <3>1
    <3> QED BY <2>5, <3>2
  <2> DEFINE First(k) == /\ notes[registry[k]].version = TipVersion
                         /\ \A j \in 1..(k - 1) : notes[registry[j]].version # TipVersion
  <2>7. (CHOOSE k \in DOMAIN registry : First(k)) \in DOMAIN registry
    BY <2>6
  <2>8. Tip = registry[CHOOSE k \in DOMAIN registry : First(k)]
    BY <1>3, <1>5 DEF Tip
  <2> QED BY <1>1, <1>2, <1>3, <2>3, <2>7, <2>8
<1> QED BY <1>4, <1>5

\* What is listed are notes that are stored.
LEMMA ListedFits ==
  ASSUME NEW n \in Nat, NEW m \in n..(n + 1), registry \in Seq(1..n), NEW u \in 1..m, NEW stored
  PROVE  Listed(u, stored) \in Seq(1..m)
<1>1. registry \in Seq(1..m) /\ DOMAIN registry = 1..Len(registry) /\ Len(registry) \in Nat
  <2>1. 1..n \subseteq 1..m
    OBVIOUS
  <2> QED BY <2>1, LargerSeq
<1>2. Append(registry, u) \in Seq(1..m)
  BY <1>1
<1>3. [i \in DOMAIN registry |-> IF notes[registry[i]].id = stored[u].id THEN u ELSE registry[i]]
        \in Seq(1..m)
  <2>1. [i \in DOMAIN registry |-> IF notes[registry[i]].id = stored[u].id THEN u ELSE registry[i]]
          \in [1..Len(registry) -> 1..m]
    BY <1>1
  <2> QED BY <1>1, <2>1
<1> QED BY <1>2, <1>3, Zenon DEF Listed

\* More notes are more a request may name.
LEMMA MoreAmong ==
  ASSUME NEW n \in Nat, NEW c \in CallAmong(n)
  PROVE  c \in CallAmong(n + 1)
<1>1. 0..n \subseteq 0..(n + 1) /\ 1..n \subseteq 1..(n + 1)
  OBVIOUS
<1> QED BY <1>1 DEF CallAmong

\* The note that a thread drafts fits after the others.
LEMMA DraftFits ==
  ASSUME NoteTypeInv, Len(notes) < MaxNotes, NEW c \in NoteCall,
         noteCall[c].at \in {"analyze", "revise"}, NEW note \in Drafts(c)
  PROVE  FitsAt(note, Len(notes) + 1)
<1> DEFINE n == Len(notes)
<1>1. n \in Nat /\ n + 1 \in Uid /\ FirstSections \in Nat
  BY NoteAssumption DEF NoteTypeInv, NotesFit, Uid
<1>2. NotesFit(notes) /\ noteCall[c] \in CallAmong(n)
  BY DEF NoteTypeInv
<1> HIDE DEF n
<1>3. CASE noteCall[c].at = "analyze"
  <2>1. note = [id |-> <<0, 1>>, version |-> 1, parent |-> 0,
                sections |-> [i \in 1..FirstSections |-> i], moved |-> FALSE]
    BY <1>3 DEF Drafts
  <2>2. /\ [i \in 1..FirstSections |-> i] \in Seq(1..(FirstSections + (n + 1)))
        /\ Len([i \in 1..FirstSections |-> i]) <= FirstSections + (n + 1)
    BY <1>1
  <2>3. <<0, 1>> \in NoteId /\ 1 \in 1..(n + 1) /\ 0 \in 0..(n + 1)
    <3>1. 1 \in Uid
      BY <1>1, NoteAssumption DEF Uid
    <3> QED BY <1>1, <3>1 DEF NoteId
  <2>4. note \in NoteAt(n + 1)
    BY <2>1, <2>2, <2>3 DEF NoteAt
  <2> QED BY <2>1, <2>2, <2>4 DEF FitsAt, n
<1>4. CASE noteCall[c].at = "revise"
  <2> DEFINE u == noteCall[c].base
             s == notes[u].sections
  <2>1. u \in 1..n /\ u \in Nat
    BY <1>1, <1>2, <1>4 DEF CallAmong
  <2>2. notes[u] \in NoteAt(u) /\ Len(s) <= FirstSections + u
    BY <1>2, <2>1 DEF NotesFit, FitsAt, n
  <2> HIDE DEF u
  <2>3. s \in Seq(1..(FirstSections + u)) /\ notes[u].version \in 1..u /\ notes[u].moved \in BOOLEAN
    BY <2>2 DEF NoteAt
  <2>4. PICK edit \in Patched(s) :
          note = [id |-> <<0, notes[u].version + 1>>, version |-> notes[u].version + 1,
                  parent |-> u, sections |-> edit.sections,
                  moved |-> notes[u].moved \/ edit.moved]
    BY <1>4 DEF Drafts, u
  <2>5. /\ edit.sections \in Seq(1..(FirstSections + u + 1))
        /\ Len(edit.sections) <= FirstSections + u + 1 /\ edit.moved \in BOOLEAN
    <3> HIDE DEF s
    <3> DEFINE m == FirstSections + u
    <3>1. m \in Nat
      BY <1>1, <2>1
    <3>2. s \in Seq(1..m) /\ Len(s) <= m
      BY <2>2, <2>3
    <3> HIDE DEF m
    <3>3. edit.sections \in Seq(1..(m + 1)) /\ Len(edit.sections) <= m + 1 /\ edit.moved \in BOOLEAN
      BY <3>1, <3>2, PatchFits
    <3> QED BY <3>3 DEF m
  <2>6. edit.sections \in Seq(1..(FirstSections + (n + 1))) /\ Len(edit.sections) <= FirstSections + (n + 1)
    <3> DEFINE A == 1..(FirstSections + u + 1)
               B == 1..(FirstSections + (n + 1))
    <3>1. A \subseteq B
      BY <1>1, <2>1
    <3>2. edit.sections \in Seq(A)
      BY <2>5
    <3> HIDE DEF A, B
    <3>3. edit.sections \in Seq(B)
      BY <3>1, <3>2, LargerSeq
    <3>4. Len(edit.sections) \in Nat
      BY <3>3
    <3> QED BY <1>1, <2>1, <2>5, <3>3, <3>4 DEF B
  <2> DEFINE v == notes[u].version + 1
             moved == notes[u].moved \/ edit.moved
  <2>7. v \in 1..(n + 1) /\ v \in Uid /\ u \in 0..(n + 1)
    <3>1. PICK k \in 1..u : k = notes[u].version
      BY <2>3
    <3>2. /\ k + 1 \in 1..(n + 1) /\ u \in 0..(n + 1)
          /\ n + 1 \in 1..MaxNotes => k + 1 \in 1..MaxNotes
      BY <1>1, <2>1, <3>1, NoteAssumption
    <3>3. v = k + 1
      BY <3>1
    <3> HIDE DEF v
    <3> QED BY <1>1, <3>2, <3>3 DEF Uid
  <2>8. moved \in BOOLEAN
    BY <2>3, <2>5
  <2>9. note = [id |-> <<0, v>>, version |-> v, parent |-> u, sections |-> edit.sections,
                moved |-> moved]
    BY <2>4
  <2> HIDE DEF v, moved
  <2>10. <<0, v>> \in NoteId
    BY <2>7 DEF NoteId
  <2>11. note \in NoteAt(n + 1)
    BY <2>6, <2>7, <2>8, <2>9, <2>10 DEF NoteAt
  <2> QED BY <2>6, <2>9, <2>11 DEF FitsAt, n
<1> QED BY <1>3, <1>4

\* A request moves among the notes there are.
LEMMA MovesAmong ==
  ASSUME NEW n \in Nat, noteCall \in [NoteCall -> CallAmong(n)], NEW m \in n..(n + 1),
         NEW c \in NoteCall, NEW at, NEW base, NEW made,
         [at |-> at, base |-> base, made |-> made] \in CallAmong(m), Moves(c, at, base, made)
  PROVE  noteCall' \in [NoteCall -> CallAmong(m)]
<1>1. noteCall \in [NoteCall -> CallAmong(m)]
  <2>1. m = n \/ m = n + 1
    OBVIOUS
  <2> QED BY <2>1, MoreAmong
<1> QED BY <1>1 DEF Moves

\* A note is saved.
LEMMA SavesFit ==
  ASSUME NoteTypeInv, NEW note, FitsAt(note, Len(notes) + 1), Saves(note)
  PROVE  /\ NotesFit(notes') /\ Len(notes') = Len(notes) + 1
         /\ noteCache' \in [NoteId -> 0..Len(notes')]
<1>1. /\ NotesFit(notes) /\ Len(notes) < MaxNotes /\ notes' = Append(notes, note)
      /\ noteCache' = [noteCache EXCEPT ![note.id] = Len(notes')] /\ Len(notes) \in Nat
      /\ noteCache \in [NoteId -> 0..Len(notes)]
  BY DEF NoteTypeInv, Saves, NotesFit
<1>2. NotesFit(notes') /\ Len(notes') = Len(notes) + 1
  BY <1>1, NoteFits
<1>3. 0..Len(notes) \subseteq 0..Len(notes') /\ Len(notes') \in 0..Len(notes')
  BY <1>1, <1>2
<1>4. noteCache' \in [NoteId -> 0..Len(notes')]
  BY <1>1, <1>3
<1> QED BY <1>2, <1>4

\* Each action keeps the notes in their types.
LEMMA NoteStepFits == NoteTypeInv /\ [NoteNext]_noteVars => NoteTypeInv'
<1> SUFFICES ASSUME NoteTypeInv, [NoteNext]_noteVars PROVE NoteTypeInv'
  OBVIOUS
<1> DEFINE n == Len(notes)
<1>0. /\ NotesFit(notes) /\ n \in Nat /\ DOMAIN notes = 1..n
      /\ noteCache \in [NoteId -> 0..n] /\ registry \in Seq(1..n)
      /\ noteCall \in [NoteCall -> CallAmong(n)]
      /\ noteRestarts \in 0..MaxNoteRestarts /\ muddled \in BOOLEAN
  BY DEF NoteTypeInv, NotesFit
<1>a. NoCall \in CallAmong(n)
  BY <1>0 DEF NoCall, CallAmong
<1> HIDE DEF n
<1>b. ASSUME NEW id \in NoteId, NEW u \in Loads(id) PROVE u \in 1..n
  BY <1>0 DEF Loads
<1>1. ASSUME NEW id \in NoteId, GetNote(id) PROVE NoteTypeInv'
  <2>1. PICK u \in Loads(id) : noteCache' = [noteCache EXCEPT ![id] = u]
    BY <1>1 DEF GetNote
  <2>2. UNCHANGED <<notes, registry, noteCall, noteRestarts, muddled>>
    BY <1>1 DEF GetNote
  <2>3. noteCache' \in [NoteId -> 0..n]
    BY <1>0, <1>b, <2>1
  <2>4. n = Len(notes')
    BY <2>2 DEF n
  <2> QED BY <1>0, <2>2, <2>3, <2>4 DEF NoteTypeInv
<1>2. ASSUME NEW c \in NoteCall, Analyze(c) PROVE NoteTypeInv'
  <2>1. [at |-> "analyze", base |-> 0, made |-> 0] \in CallAmong(n)
    BY <1>0 DEF CallAmong
  <2>2. Moves(c, "analyze", 0, 0) /\ UNCHANGED <<notes, noteCache, registry, noteRestarts, muddled>>
    BY <1>2 DEF Analyze
  <2>3. noteCall' \in [NoteCall -> CallAmong(n)]
    BY <1>0, <2>1, <2>2, MovesAmong
  <2>4. n = Len(notes')
    BY <2>2 DEF n
  <2> QED BY <1>0, <2>2, <2>3, <2>4 DEF NoteTypeInv
<1>3. ASSUME NEW c \in NoteCall, NEW id \in NoteId, PatchNote(c, id) PROVE NoteTypeInv'
  <2>1. PICK u \in Loads(id) : noteCache' = [noteCache EXCEPT ![id] = u] /\ Moves(c, "revise", u, 0)
    BY <1>3 DEF PatchNote
  <2>2. UNCHANGED <<notes, registry, noteRestarts, muddled>>
    BY <1>3 DEF PatchNote
  <2>3. [at |-> "revise", base |-> u, made |-> 0] \in CallAmong(n)
    BY <1>0, <1>b DEF CallAmong
  <2>4. noteCall' \in [NoteCall -> CallAmong(n)]
    BY <1>0, <2>1, <2>3, MovesAmong
  <2>5. noteCache' \in [NoteId -> 0..n]
    BY <1>0, <1>b, <2>1
  <2>6. n = Len(notes')
    BY <2>2 DEF n
  <2> QED BY <1>0, <2>2, <2>4, <2>5, <2>6 DEF NoteTypeInv
<1>4. ASSUME NEW c \in NoteCall, ThreadSaves(c) PROVE NoteTypeInv'
  <2>1. PICK note \in Drafts(c) : Saves(note)
    BY <1>4 DEF ThreadSaves
  <2>2. /\ noteCall[c].at \in {"analyze", "revise"}
        /\ Moves(c, "register", noteCall[c].base, Len(notes'))
        /\ muddled' \in BOOLEAN /\ UNCHANGED <<registry, noteRestarts>>
    BY <1>4 DEF ThreadSaves
  <2>3. Len(notes) < MaxNotes
    BY <2>1 DEF Saves
  <2>4. FitsAt(note, Len(notes) + 1)
    BY <2>1, <2>2, <2>3, DraftFits
  <2>5. /\ NotesFit(notes') /\ Len(notes') = n + 1
        /\ noteCache' \in [NoteId -> 0..Len(notes')]
    BY <2>1, <2>4, SavesFit DEF n
  <2>6. noteCall[c].base \in 0..n
    <3>1. noteCall[c] \in CallAmong(n)
      BY <1>0
    <3> QED BY <1>0, <2>2, <3>1 DEF CallAmong
  <2>7. [at |-> "register", base |-> noteCall[c].base, made |-> Len(notes')] \in CallAmong(n + 1)
    BY <1>0, <2>5, <2>6 DEF CallAmong
  <2>8. noteCall' \in [NoteCall -> CallAmong(n + 1)]
    BY <1>0, <2>2, <2>7, MovesAmong
  <2>9. registry' \in Seq(1..(n + 1))
    <3>1. 1..n \subseteq 1..(n + 1)
      BY <1>0
    <3> QED BY <1>0, <2>2, <3>1, LargerSeq
  <2> QED BY <1>0, <2>2, <2>5, <2>8, <2>9 DEF NoteTypeInv
<1>5. ASSUME NEW c \in NoteCall, ThreadFails(c) PROVE NoteTypeInv'
  <2>1. /\ noteCall[c].at \in {"analyze", "revise"}
        /\ noteCall' = [noteCall EXCEPT ![c] = NoCall]
        /\ UNCHANGED <<noteCache, registry, noteRestarts>>
    BY <1>5 DEF ThreadFails
  <2>2. CASE UNCHANGED <<notes, muddled>>
    <3>1. noteCall' \in [NoteCall -> CallAmong(n)] /\ n = Len(notes')
      BY <1>0, <1>a, <2>1, <2>2 DEF n
    <3> QED BY <1>0, <2>1, <2>2, <3>1 DEF NoteTypeInv
  <2>3. ASSUME Len(notes) < MaxNotes, NEW note \in Drafts(c), notes' = Append(notes, note),
               muddled' = TRUE
        PROVE  NoteTypeInv'
    <3>1. FitsAt(note, Len(notes) + 1)
      BY <2>1, <2>3, DraftFits
    <3>2. NotesFit(notes') /\ Len(notes') = n + 1
      BY <1>0, <2>3, <3>1, NoteFits DEF n
    <3>3. noteCall' \in [NoteCall -> CallAmong(n + 1)]
      BY <1>0, <1>a, <2>1, MoreAmong
    <3>4. registry' \in Seq(1..(n + 1)) /\ noteCache' \in [NoteId -> 0..(n + 1)]
      <4>1. 1..n \subseteq 1..(n + 1) /\ 0..n \subseteq 0..(n + 1)
        BY <1>0
      <4>2. registry' \in Seq(1..(n + 1))
        BY <1>0, <2>1, <4>1, LargerSeq
      <4> QED BY <1>0, <2>1, <4>1, <4>2
    <3> QED BY <1>0, <2>1, <2>3, <3>2, <3>3, <3>4 DEF NoteTypeInv
  <2> QED BY <1>5, <2>2, <2>3 DEF ThreadFails
<1>6. ASSUME NEW c \in NoteCall, Register(c) PROVE NoteTypeInv'
  <2>1. /\ noteCall[c].at = "register" /\ registry' = Listed(noteCall[c].made, notes)
        /\ noteCall' = [noteCall EXCEPT ![c] = NoCall]
        /\ muddled' \in BOOLEAN /\ UNCHANGED <<notes, noteCache, noteRestarts>>
    BY <1>6 DEF Register
  <2>2. noteCall[c].made \in 1..n
    <3>1. noteCall[c] \in CallAmong(n)
      BY <1>0
    <3> QED BY <1>0, <2>1, <3>1 DEF CallAmong
  <2>3. registry' \in Seq(1..n)
    BY <1>0, <2>1, <2>2, ListedFits
  <2>4. noteCall' \in [NoteCall -> CallAmong(n)] /\ n = Len(notes')
    BY <1>0, <1>a, <2>1 DEF n
  <2> QED BY <1>0, <2>1, <2>3, <2>4 DEF NoteTypeInv
<1>7. ASSUME NoteFromChat PROVE NoteTypeInv'
  <2> DEFINE note == [id |-> <<1, n + 1>>, version |-> TipVersion + 1, parent |-> Tip,
                      sections |-> <<1>>, moved |-> FALSE]
  <2>1. /\ Saves(note) /\ registry' = Listed(Len(notes'), notes')
        /\ muddled' \in BOOLEAN /\ UNCHANGED <<noteCall, noteRestarts>>
    BY <1>7 DEF NoteFromChat, n
  <2>2. Len(notes) < MaxNotes
    BY <2>1 DEF Saves
  <2>3. TipVersion \in 0..n /\ Tip \in 0..n
    BY <1>0, TipFits DEF n
  <2>4. <<1, n + 1>> \in NoteId
    <3>1. n + 1 \in Uid
      BY <1>0, <2>2, NoteAssumption DEF Uid, n
    <3> QED BY <3>1 DEF NoteId
  <2>5. TipVersion + 1 \in 1..(n + 1) /\ Tip \in 0..(n + 1)
    BY <1>0, <2>3
  <2>6. <<1>> \in Seq(1..(FirstSections + (n + 1))) /\ Len(<<1>>) <= FirstSections + (n + 1)
    BY <1>0, NoteAssumption
  <2>7. FitsAt(note, Len(notes) + 1)
    BY <2>4, <2>5, <2>6 DEF FitsAt, NoteAt, n
  <2> HIDE DEF note
  <2>8. /\ NotesFit(notes') /\ Len(notes') = n + 1
        /\ noteCache' \in [NoteId -> 0..Len(notes')]
    BY <2>1, <2>7, SavesFit DEF n
  <2>9. registry' \in Seq(1..(n + 1))
    BY <1>0, <2>1, <2>8, ListedFits
  <2>10. noteCall' \in [NoteCall -> CallAmong(n + 1)]
    BY <1>0, <2>1, MoreAmong
  <2> QED BY <1>0, <2>1, <2>8, <2>9, <2>10 DEF NoteTypeInv
<1>8. ASSUME RestartNotes PROVE NoteTypeInv'
  <2>1. /\ noteRestarts < MaxNoteRestarts /\ noteRestarts' = noteRestarts + 1
        /\ registry' = registry \/ registry' = <<>>
        /\ noteCache' = [i \in NoteId |-> 0] /\ noteCall' = [c \in NoteCall |-> NoCall]
        /\ muddled' \in BOOLEAN /\ notes' = notes
    BY <1>8 DEF RestartNotes
  <2>2. registry' \in Seq(1..n) /\ noteCache' \in [NoteId -> 0..n]
    <3>1. <<>> \in Seq(1..n) /\ 0 \in 0..n
      BY <1>0
    <3>2. registry' \in Seq(1..n)
      BY <1>0, <2>1, <3>1
    <3>3. noteCache' \in [NoteId -> 0..n]
      BY <2>1, <3>1
    <3> QED BY <3>2, <3>3
  <2>3. noteCall' \in [NoteCall -> CallAmong(n)] /\ n = Len(notes')
    BY <1>a, <2>1 DEF n
  <2>4. noteRestarts' \in 0..MaxNoteRestarts
    BY <1>0, <2>1, NoteAssumption
  <2> QED BY <1>0, <2>1, <2>2, <2>3, <2>4 DEF NoteTypeInv
<1>9. CASE UNCHANGED noteVars
  BY <1>9 DEF noteVars, NoteTypeInv
<1> QED BY <1>1, <1>2, <1>3, <1>4, <1>5, <1>6, <1>7, <1>8, <1>9, Zenon DEF NoteNext

\* Whatever the requests of a document do, a note is listed, cached and revised only
\* once it is stored; its version is at most its place among the notes.
THEOREM NoteTypeCorrect == NoteSpec => []NoteTypeOK
<1>1. NoteInit => NoteTypeInv
  <2> SUFFICES ASSUME NoteInit PROVE NoteTypeInv
    OBVIOUS
  <2>1. notes = <<>> /\ Len(notes) = 0 /\ NotesFit(notes) /\ registry \in Seq(1..Len(notes))
    BY NoteAssumption DEF NoteInit, NotesFit
  <2>2. noteCache \in [NoteId -> 0..Len(notes)]
    BY <2>1 DEF NoteInit
  <2>3. noteCall \in [NoteCall -> CallAmong(Len(notes))]
    BY <2>1 DEF NoteInit, NoCall, CallAmong
  <2>4. noteRestarts \in 0..MaxNoteRestarts /\ muddled \in BOOLEAN
    <3>1. noteRestarts = 0 /\ muddled = FALSE
      BY DEF NoteInit
    <3>2. 0 \in 0..MaxNoteRestarts
      BY NoteAssumption
    <3> QED BY <3>1, <3>2
  <2> QED BY <2>1, <2>2, <2>3, <2>4 DEF NoteTypeInv
<1>2. NoteTypeInv /\ [NoteNext]_noteVars => NoteTypeInv'
  BY NoteStepFits
<1>3. NoteTypeInv => NoteTypeOK
  <2> SUFFICES ASSUME NoteTypeInv PROVE NoteTypeOK
    OBVIOUS
  <2>1. /\ notes \in Seq(NoteRecord) /\ Len(notes) <= MaxNotes /\ DOMAIN notes = 1..Len(notes)
        /\ Len(notes) \in Nat
    BY DEF NoteTypeInv, NotesFit
  <2>2. 1..Len(notes) \subseteq Uid /\ 0..Len(notes) \subseteq {0} \cup Uid
    BY <2>1, NoteAssumption DEF Uid
  <2>3. noteCache \in [NoteId -> {0} \cup Uid]
    BY <2>2 DEF NoteTypeInv
  <2>4. noteCall \in [NoteCall -> [at : {"idle", "analyze", "revise", "register"},
                                   base : {0} \cup Uid, made : {0} \cup Uid]]
    BY <2>2 DEF NoteTypeInv, CallAmong
  <2> QED BY <2>1, <2>3, <2>4 DEF NoteTypeInv, NoteTypeOK
<1> QED BY <1>1, <1>2, <1>3, PTL DEF NoteSpec
====================================================================================
