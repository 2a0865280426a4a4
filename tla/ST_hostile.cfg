SPECIFICATION Spec
CONSTANTS
  c1 = c1  c2 = c2  t1 = t1  t2 = t2  t3 = t3  t4 = t4
  NoConn = NoConn
  Conns <- TwoConns
  Threads <- ThreeThreads
  Fds = {3, 4}
  Inputs = {"plain", "close", "other", "expect", "bad"}
  MaxInFlight = 2
  Scarce = TRUE
SYMMETRY Symmetry
INVARIANTS
  DrainedMeansQuiet
  LeaksOnlyAtStart
