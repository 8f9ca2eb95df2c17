SPECIFICATION FairSpec
CONSTANTS
  Caller = {c1, c2}
  MaxBlock = 4
  Count = 3
  CommitmentBlock <- ThreeCommitments
  Shields <- Shielded
  Nullifiers <- Spent
  ScanChunks = 1
  QuickSyncLag = 1
  None = None
  Outdated = FALSE
  Listening = TRUE
  MaxErrors = 1
  MaxRejects = 1
  MaxClearErrors = 0
  MaxCrashes = 0
  MaxRescans = 1
INVARIANTS
  OneScan
  ScanInProgress
  ScanReadsItsBlocks
  NullifiersWithinReach
PROPERTIES
  SyncedForward
  TreeCatchesUp
