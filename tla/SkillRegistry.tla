------------------------------- MODULE SkillRegistry -------------------------------
(* The skills table, which has the current state of each skill, and              *)
(* skill_versions, which has what each version was last registered with.  The    *)
(* endpoints run in the event loop, so each operation is one step.  Version      *)
(* numbers are in the order of SemVer; what a version consists of (schema,       *)
(* prompt, rules, budget) is one value, and names and summaries are left out.    *)
EXTENDS Naturals

CONSTANTS
  Skill,         \* skill ids
  Builtin,       \* those of BUILTIN_SKILLS
  Definition,    \* what a skill may consist of
  Shipped,       \* what the built-in ones do
  MaxVersion     \* bound: version numbers

ASSUME SkillAssumption == Builtin \subseteq Skill /\ Shipped \in Definition
                          /\ MaxVersion \in Nat \ {0}

VARIABLES
  skill,      \* skills: version, definition, status, is_builtin
  snapshot    \* skill_versions: the definition of each version, Unrecorded if it has no row

skillVars == <<skill, snapshot>>

Version == 1..MaxVersion
Unrecorded == "unrecorded"
NoSkill == [version |-> 0, is |-> Unrecorded, status |-> "none", builtin |-> FALSE]

SkillTypeOK ==
  /\ skill \in [Skill -> [version : 0..MaxVersion, is : Definition \cup {Unrecorded},
                          status : {"none", "active", "disabled"}, builtin : BOOLEAN]]
  /\ snapshot \in [Skill -> [Version -> Definition \cup {Unrecorded}]]

Known(s) == skill[s].status # "none"

\* Mutant of Reinstalled: the version of a skill that was edited stays.
ReinstalledAsIs(s) == [skill[s] EXCEPT !.is = Shipped]
\* the upsert of a built-in skill that has a row: its status and is_builtin stay
Reinstalled(s) ==
  IF Known(s) THEN [skill[s] EXCEPT !.version = 1, !.is = Shipped]
  ELSE [version |-> 1, is |-> Shipped, status |-> "active", builtin |-> TRUE]

\* _init_builtins, of every server or command that starts; a version on record stays
InitBuiltins ==
  /\ skill' = [s \in Skill |-> IF s \in Builtin THEN Reinstalled(s) ELSE skill[s]]
  /\ snapshot' = [s \in Skill |-> IF s \in Builtin /\ snapshot[s][1] = Unrecorded
                                  THEN [snapshot[s] EXCEPT ![1] = Shipped] ELSE snapshot[s]]

SkillInit ==
  /\ skill = [s \in Skill |-> IF s \in Builtin
                THEN [version |-> 1, is |-> Shipped, status |-> "active", builtin |-> TRUE]
                ELSE NoSkill]
  /\ snapshot = [s \in Skill |-> [v \in Version |-> IF s \in Builtin /\ v = 1 THEN Shipped
                                                    ELSE Unrecorded]]

\* Mutant of Recorded: a version that has a row keeps it.
RecordedOnce(s, v, def) ==
  IF snapshot[s][v] = Unrecorded THEN [snapshot EXCEPT ![s][v] = def] ELSE snapshot
\* the upsert of skill_versions
Recorded(s, v, def) == [snapshot EXCEPT ![s][v] = def]

RegisterSkill(s, v, def, status, builtin) ==
  /\ v \in Version
  /\ skill' = [skill EXCEPT ![s] =
                 [version |-> v, is |-> def, status |-> status, builtin |-> builtin]]
  /\ snapshot' = Recorded(s, v, def)


\* the version is the next patch or minor, or any that the request names
UpdateSkillSchema(s, v, def) ==
  /\ Known(s)
  /\ RegisterSkill(s, v, def, skill[s].status, skill[s].builtin)

\* the version stays
UpdateSkillBudget(s, def) ==
  /\ Known(s)
  /\ RegisterSkill(s, skill[s].version, def, skill[s].status, skill[s].builtin)

RollbackSkill(s, v) ==
  /\ v \in Version /\ snapshot[s][v] # Unrecorded
  /\ RegisterSkill(s, v, snapshot[s][v], "active", FALSE)

DisableSkill(s) ==
  /\ Known(s)
  /\ skill' = [skill EXCEPT ![s].status = "disabled"]
  /\ UNCHANGED snapshot

SkillNext ==
  \/ InitBuiltins
  \/ \E s \in Skill, def \in Definition :
       \/ UpdateSkillBudget(s, def)
       \/ \E v \in Version :
            \/ UpdateSkillSchema(s, v, def)
            \/ \E status \in {"active", "disabled"}, builtin \in BOOLEAN :
                 RegisterSkill(s, v, def, status, builtin)
  \/ \E s \in Skill : DisableSkill(s) \/ \E v \in Version : RollbackSkill(s, v)

SkillSpec == SkillInit /\ [][SkillNext]_skillVars

--------------------------------------------------------------------------------
\* What a skill is, is what its version has on record, whatever was edited, rolled
\* back and edited again; only a start, which installs what was shipped, may meet a
\* record of the first version that an edit has changed.
SkillFollowsHistory ==
  \A s \in Skill : Known(s) =>
    \/ skill[s].is = snapshot[s][skill[s].version]
    \/ s \in Builtin /\ skill[s].version = 1 /\ skill[s].is = Shipped
================================================================================
