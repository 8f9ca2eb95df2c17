SPECIFICATION Spec
CONSTANTS
  Caller = {c1}
  MaxBlock = 4
  Count = 3
  CommitmentBlock <- ThreeCommitments
  Shields <- Shielded
  Nullifiers <- Spent
  ScanChunks = 1
  QuickSyncLag = 5
  None = None
  Outdated = FALSE
  Listening = TRUE
  MaxErrors = 1
  MaxRejects = 0
  MaxClearErrors = 0
  MaxCrashes = 1
  MaxRescans = 0
INVARIANTS
  CommitmentsWithinReach
