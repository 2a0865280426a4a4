SPECIFICATION Spec
CONSTANTS
  Nodes = {n1, n2, n3, n4, n5}
  Cells = {p1, p2, p3, p4}
  NULL = NULL
SYMMETRY Symmetry
INVARIANT NothingFreedIsReached
PROPERTY ComputesSequence
