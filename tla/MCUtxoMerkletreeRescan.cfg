SPECIFICATION SpecWithRescans
CONSTANTS
  Trees <- OneTree
  TreeMaxItems = 2
  GroupSizes <- Ladder21
  RootHistory <- SingleHistory
  SkipAllowed = FALSE
  MaxCrashes = 0
  MaxErrors = 0
  MaxForgeries = 1
  MaxClears = 2
  MaxUpdates = 1
  Genuine = Genuine
  Forged = Forged
  Undefined = Undefined
INVARIANTS
  NothingForged
  LockCounted
PROPERTIES
  WriteResumes
