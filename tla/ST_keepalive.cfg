SPECIFICATION Spec
CONSTANTS
  c1 = c1  c2 = c2  t1 = t1  t2 = t2  t3 = t3  t4 = t4
  NoConn = NoConn
  Conns <- TwoConns
  Threads <- ThreeThreads
  Fds = {3, 4}
  Inputs = {"plain", "expect"}
  MaxInFlight = 3
  Scarce = FALSE
SYMMETRY Symmetry
INVARIANTS
  TypeOK
  ListsInv
  DrainedMeansQuiet
  DescriptorIsOwn
  ResponsesDoNotInterleave
PROPERTY ImplementsProtocol
