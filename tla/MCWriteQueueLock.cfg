SPECIFICATION Spec
CONSTANTS
  Proc = {p1, p2, p3}
  Tree = {0, 1}
  NoPromise = NoPromise
INVARIANTS
  MutualExclusion
PROPERTIES
  ServesInOrder
