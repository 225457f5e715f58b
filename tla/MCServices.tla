-------------------------------- MODULE MCServices --------------------------------
(* What works around the ledger: the services of the server, and what the program *)
(* keeps in files and tables of its own.  They share no state: in each behaviour  *)
(* one of them runs and the others stay as they began.                            *)
EXTENDS ToolBudget, EventBus, CodingPatch, Library, ProviderPool, MemoryStore, SourceAccess,
        SkillRegistry, NoteRevisions, ImageIndex, BackupRestore, CaseRunner,
        Conversations, DeepReport

VARIABLE part   \* what runs

Parts == {"tools", "bus", "patch", "library", "pool", "memory", "source", "skills",
          "notes", "images", "backup", "cases", "talks", "report"}
vars == <<part, toolVars, busVars, patchVars, libraryVars, poolVars, memoryVars, sourceVars,
          skillVars, noteVars, imageVars, backupVars, caseVars, talkVars, deepVars>>

\* two seconds, the second of them with and without a fraction
ClockTimes ==
  {[sec |-> 0, micro |-> 0], [sec |-> 0, micro |-> 5], [sec |-> 1, micro |-> 0],
   [sec |-> 1, micro |-> 7]}

Init ==
  /\ part \in Parts
  /\ ToolBudgetInit /\ EventBusInit /\ CodingPatchInit /\ LibraryInit /\ ProviderPoolInit
  /\ MemoryInit /\ SourceInit /\ SkillInit
  /\ NoteInit /\ ImageInit /\ BackupInit /\ RunnerInit
  /\ TalkInit /\ DeepInit
  \* what does not run has one of its initial states
  /\ part # "patch" => file = NoFile
  /\ part # "images" => image = CHOOSE d \in Figures : TRUE
  /\ part # "backup" => output = None
  \* of the endpoints, the primary may have the toggle of thinking
  /\ toggle \subseteq IF part = "pool" THEN {1} ELSE {}

Next ==
  /\ UNCHANGED part
  /\ IF part = "report" THEN DeepNext ELSE UNCHANGED deepVars
  /\ IF part = "bus" THEN EventBusNext ELSE UNCHANGED busVars
  /\ IF part = "library" THEN LibraryNext ELSE UNCHANGED libraryVars
  /\ IF part = "source" THEN SourceNext ELSE UNCHANGED sourceVars
  /\ IF part = "skills" THEN SkillNext ELSE UNCHANGED skillVars
  /\ IF part = "cases" THEN RunnerNext ELSE UNCHANGED caseVars
  /\ IF part = "tools" THEN ToolBudgetNext ELSE UNCHANGED toolVars
  /\ IF part = "backup" THEN BackupNext ELSE UNCHANGED backupVars
  /\ IF part = "pool" THEN ProviderPoolNext ELSE UNCHANGED poolVars
  /\ IF part = "patch" THEN CodingPatchNext ELSE UNCHANGED patchVars
  /\ IF part = "images" THEN ImageNext ELSE UNCHANGED imageVars
  /\ IF part = "talks" THEN TalkNext ELSE UNCHANGED talkVars
  /\ IF part = "notes" THEN NoteNext ELSE UNCHANGED noteVars
  /\ IF part = "memory" THEN MemoryNext ELSE UNCHANGED memoryVars

Spec == Init /\ [][Next]_vars

\* What runs keeps its variables within their domains.
ServicesTypeOK ==
  /\ part = "tools" => ToolBudgetTypeOK
  /\ part = "bus" => EventBusTypeOK
  /\ part = "patch" => CodingPatchTypeOK
  /\ part = "library" => LibraryTypeOK
  /\ part = "pool" => ProviderPoolTypeOK
  /\ part = "memory" => MemoryTypeOK
  /\ part = "source" => SourceTypeOK
  /\ part = "skills" => SkillTypeOK
  /\ part = "notes" => NoteTypeOK
  /\ part = "images" => ImageTypeOK
  /\ part = "backup" => BackupTypeOK
  /\ part = "cases" => RunnerTypeOK
  /\ part = "talks" => TalkTypeOK
  /\ part = "report" => DeepTypeOK
================================================================================
