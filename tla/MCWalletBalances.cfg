SPECIFICATION FairSpec
CONSTANTS
  v2 = v2
  v3 = v3
  Version = {v2, v3}
  LastTree = 1
  TreeSize = 2
  Own <- TwoNotes
  Nft <- OneNft
  Creation <- CreatedAt
  BatchSize = 1
  Run = {r1, r2}
  Regular = {r1}
  Then <- InTurn
  Reader = {q1}
  None = None
  Loaded <- LeavesAtStart
  LeafCount <- Leaves
  MaxEvents = 2
INVARIANTS
  NothingPassedOver
  CacheIsCurrent
PROPERTIES
  NotesAreFound
