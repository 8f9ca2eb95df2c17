SPECIFICATION Spec
CONSTANTS
  Caller = {c1}
  MaxBlock = 4
  Count = 3
  CommitmentBlock <- ThreeCommitments
  Shields <- Shielded
  Nullifiers <- Spent
  ScanChunks = 1
  QuickSyncLag = 1
  None = None
  Outdated = TRUE
  Listening = TRUE
  MaxErrors = 0
  MaxRejects = 2
  MaxClearErrors = 1
  MaxCrashes = 2
  MaxRescans = 0
INVARIANTS
  CommitmentsWithinReach
