SPECIFICATION FairSpec
CONSTANTS
  Trees <- OneTree
  TreeMaxItems = 4
  GroupSizes <- Ladder421
  RootHistory <- PairedHistory
  SkipAllowed = FALSE
  MaxCrashes = 1
  MaxErrors = 1
  MaxForgeries = 1
  MaxClears = 0
  MaxUpdates = 0
  Genuine = Genuine
  Forged = Forged
  Undefined = Undefined
INVARIANTS
  StoredPrefix
  ServedRoot
  InvalidAhead
PROPERTIES
  KeepsALog
  EveryTreeCompletes
