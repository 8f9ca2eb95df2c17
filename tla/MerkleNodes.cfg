SPECIFICATION Spec
CONSTANTS
  Depth = 3
  RootHistory = {1, 3, 8}
  None = None
  MaxErrors = 1
  MaxRestarts = 1
INVARIANTS
  GroupRootIsGenuine
  UndisturbedProofsVerify
