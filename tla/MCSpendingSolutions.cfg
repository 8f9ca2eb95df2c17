SPECIFICATION Spec
CONSTANTS
  Utxo <- FourNotes
  Tree <- TwoTrees
  MaxInputs = 2
  MaxOutputs = 3
  NullUtxo = NullUtxo
  Balances <- Sorted
  Requests <- SmallRequests
INVARIANTS
  NoUtxoSpentTwice
  GroupsFitTheCircuit
  OutputsArePaid
  FailsOnlyWhenExhausted
  TwoOutputsSucceed
