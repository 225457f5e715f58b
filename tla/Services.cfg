CONSTANTS
  Caller = {caller1, caller2, caller3}
  ToolLimit = 2
  Subscriber = {sub1, sub2}
  QueueSize = 1
  Times <- ClockTimes
  MaxEvents = 2
  Content = {empty, text}
  Empty = empty
  NoFile = NoFile
  Proposal = {proposal1}
  Thread = {thread1, thread2}
  MaxPatchCalls = 3
  Document = {doc1}
  Paper = {doc1}
  LibraryCall = {call1, call2}
  MaxRestarts = 1
  Endpoints = 2
  ChatCall = {chat1, chat2}
  Threshold = 2
  Recovery = 2
  Rpm = 1
  Window = 1
  MaxTime = 2
  Statement = {zh, en}
  Opposing = {{zh, en}}
  MaxMemories = 3
  MaxCandidates = 1
  Chat = {talk1}
  ListLimit = 2
  Search = {search1, search2}
  Interval = 2
  MaxAttempts = 2
  MaxRetryWait = 1
  CacheTtl = 1
  MaxClock = 4
  Skill = {skill1, skill2}
  Builtin = {skill1}
  Definition = {def1, def2}
  Shipped = def1
  MaxVersion = 2
  NoteCall = {note1, note2}
  FirstSections = 1
  MaxNotes = 3
  MaxNoteRestarts = 1
  Figures = {fig1, fig2}
  NoTable = NoTable
  Publisher = {pub1, pub2}
  MaxPublishes = 3
  MaxImageRestarts = 1
  Artifact = {art1, art2}
  MaxBackupTroubles = 1
  Case = {case1, case2}
  MaxConcurrency = 2
  MaxTries = 1
  MaxBatches = 2
  Conversation = {conv1, conv2}
  Asker = {ask1, ask2}
  Objective = {obj1}
  NoRun = NoRun
  MaxRequests = 3
  Claim = {k1, k2, k3}
  Sections = 2
  PerCall = 1
  FusedAttempts = 3
SPECIFICATION Spec
INVARIANTS
  ServicesTypeOK
  ToolCallsBounded
  InvertedOnlyOnTheSecond
  SubscribersAgreeWithListing
  RowsMatchIndex
  MemoriesFollowDecisions
  SkillFollowsHistory
  RevisionsFormOneLine
  TreesHaveTheirArtifacts
  CasesPaidOnce
  TranscriptsHold
  ReportAccountsForClaims
PROPERTIES
  PatchesAreReversible
  FailedPublishRollsBack
  CoolsDown
  RequestsSpaced
CHECK_DEADLOCK FALSE
