CONSTANTS
  Content = {empty, text1, text2}
  Empty = empty
  NoFile = NoFile
  Proposal = {proposal1}
  Thread = {thread1, thread2}
  MaxPatchCalls = 3
SPECIFICATION CodingPatchSpec
PROPERTIES
  ChangeInReviewBlocks
