SPECIFICATION FairSpec
CONSTANTS
  CallCount = 2
  Version = {"V2"}
  List = {"L"}
  ItemCount = 4
  TxCount = 2
  VersionOf <- OneVersion
  TxVersion <- OneTxVersion
  Note = {1, 2, 3}
  Unshield = {4}
  Inputs <- SpentNotes
  Outputs <- MadeItems
  LegacyTx = {1}
  Blocked = {1}
  ReceivedInRequest = 2
  SpentInRequest = 3
  None = None
  FoundAtStart = 2
  SyncedAtStart = 1
  MaxEvents = 1
INVARIANTS
  FlagsAreHeld
  NoProofTwice
PROPERTIES
  EveryTransactionIsProved
