SPECIFICATION FairSpec
CONSTANTS
  Caller = {c1}
  MaxTx = 4
  Fork = 2
  LaunchTx = 1
  BatchSize = 2
  LeavesToClear = 1
  None = None
  MaxFaults = 1
  MaxReorgs = 1
  MaxResets = 1
INVARIANTS
  WithinValidated
  LeavesInOrder
  OneHistory
  LeavesAreFound
  SnapshotIsKept
PROPERTIES
  CatchesUp
