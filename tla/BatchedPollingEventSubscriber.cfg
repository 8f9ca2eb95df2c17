SPECIFICATION PollSpec
CONSTANTS
  MaxBatchBlocks = 2
  PollingInterval = 3
  BackoffLimit = 10
  MaxBlock = 6
  MaxErrors = 3
  MaxPauses = 2
INVARIANTS
  NeverDeaf
  InOrder
  NoGap
PROPERTIES
  CatchesUp
