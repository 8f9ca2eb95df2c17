SPECIFICATION Spec
CONSTANTS
  Caller = {c1}
  MaxBlock = 3
  Count = 2
  CommitmentBlock <- TwoCommitments
  Shields <- NoShields
  Nullifiers <- SpentBetween
  ScanChunks = 5
  QuickSyncLag = 2
  None = None
  Outdated = FALSE
  Listening = FALSE
  MaxErrors = 0
  MaxRejects = 1
  MaxClearErrors = 0
  MaxCrashes = 0
  MaxRescans = 1
INVARIANTS
  RescansReadNullifiers
