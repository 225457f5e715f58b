---------------------------- MODULE MCServicesProofs ----------------------------
(* The services together: what a theorem says of one of them alone it says of    *)
(* that one among the others, where the runs check it.                           *)
EXTENDS MCServices, ServiceProofs, KnowledgeProofs, RecordProofs

\* Whatever part runs, each service begins as it does alone and then takes a step of its
\* own or none.
LEMMA PartsRun ==
  Spec => /\ ToolBudgetSpec /\ EventBusSpec /\ CodingPatchSpec /\ LibrarySpec
          /\ ProviderPoolSpec /\ MemorySpec /\ SourceSpec /\ SkillSpec
          /\ NoteSpec /\ ImageSpec /\ BackupSpec /\ RunnerSpec
          /\ TalkSpec /\ DeepSpec
<1>1. Init => /\ ToolBudgetInit /\ EventBusInit /\ CodingPatchInit /\ LibraryInit
              /\ ProviderPoolInit /\ MemoryInit /\ SourceInit /\ SkillInit
              /\ NoteInit /\ ImageInit /\ BackupInit /\ RunnerInit
              /\ TalkInit /\ DeepInit
  BY DEF Init
<1>2. [Next]_vars => [ToolBudgetNext]_toolVars
  BY DEF Next, vars
<1>3. [Next]_vars => [EventBusNext]_busVars
  BY DEF Next, vars
<1>4. [Next]_vars => [CodingPatchNext]_patchVars
  BY DEF Next, vars
<1>5. [Next]_vars => [LibraryNext]_libraryVars
  BY DEF Next, vars
<1>6. [Next]_vars => [ProviderPoolNext]_poolVars
  BY DEF Next, vars
<1>7. [Next]_vars => [MemoryNext]_memoryVars
  BY DEF Next, vars
<1>8. [Next]_vars => [SourceNext]_sourceVars
  BY DEF Next, vars
<1>9. [Next]_vars => [SkillNext]_skillVars
  BY DEF Next, vars
<1>10. [Next]_vars => [NoteNext]_noteVars
  BY DEF Next, vars
<1>11. [Next]_vars => [ImageNext]_imageVars
  BY DEF Next, vars
<1>12. [Next]_vars => [BackupNext]_backupVars
  BY DEF Next, vars
<1>13. [Next]_vars => [RunnerNext]_caseVars
  BY DEF Next, vars
<1>14. [Next]_vars => [TalkNext]_talkVars
  BY DEF Next, vars
<1>15. [Next]_vars => [DeepNext]_deepVars
  BY DEF Next, vars
<1> QED BY <1>1, <1>2, <1>3, <1>4, <1>5, <1>6, <1>7, <1>8, <1>9, <1>10, <1>11, <1>12, <1>13,
     <1>14, <1>15, PTL
     DEF Spec, ToolBudgetSpec, EventBusSpec, CodingPatchSpec, LibrarySpec, ProviderPoolSpec,
       MemorySpec, SourceSpec, SkillSpec, NoteSpec, ImageSpec, BackupSpec, RunnerSpec,
       TalkSpec, DeepSpec

\* ServicesTypeOK: what runs keeps its variables within their domains; so do the others.
THEOREM ServicesTypeCorrect == Spec => []ServicesTypeOK
<1>1. /\ ToolBudgetTypeOK /\ EventBusTypeOK /\ CodingPatchTypeOK /\ LibraryTypeOK
      /\ ProviderPoolTypeOK /\ MemoryTypeOK /\ SourceTypeOK /\ SkillTypeOK
      /\ NoteTypeOK /\ ImageTypeOK /\ BackupTypeOK /\ RunnerTypeOK
      /\ TalkTypeOK /\ DeepTypeOK
      => ServicesTypeOK
  BY DEF ServicesTypeOK
<1> QED BY <1>1, PartsRun, ToolBudgetTypeCorrect, EventBusTypeCorrect, CodingPatchTypeCorrect,
     LibraryTypeCorrect, ProviderPoolTypeCorrect, MemoryTypeCorrect, SourceTypeCorrect,
     SkillTypeCorrect, NoteTypeCorrect, ImageTypeCorrect, BackupTypeCorrect, RunnerTypeCorrect,
     TalkTypeCorrect, DeepTypeCorrect, PTL

\* What the services promise, each of what it keeps itself, they promise together.
THEOREM ServicesKeepTheirPromises ==
  Spec => /\ []ToolCallsBounded /\ []InvertedOnlyOnTheSecond /\ []SubscribersAgreeWithListing
          /\ []RowsMatchIndex /\ []MemoriesFollowDecisions /\ []SkillFollowsHistory
          /\ []RevisionsFormOneLine /\ []TreesHaveTheirArtifacts /\ []CasesPaidOnce
          /\ []TranscriptsHold /\ []ReportAccountsForClaims
          /\ PatchesAreReversible /\ FailedPublishRollsBack
          /\ CoolsDown /\ RequestsSpaced
BY PartsRun, ToolCallsAreBounded, ListingsNearlyInOrder, SubscribersAgree, RowsTellTheIndex,
   MemoriesAreDecided, SkillsFollowHistory, RevisionsAreOneLine, BackupsAreConsistent,
   CasesArePaidOnce, TranscriptsAlwaysHold, ReportsAccountForClaims, PatchesCanBeUndone,
   FailedPublishesRollBack, EndpointsCoolDown, RequestsAreSpaced, PTL
=================================================================================
