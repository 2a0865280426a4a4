SPECIFICATION Spec
CONSTANTS
  c1 = c1  c2 = c2  t1 = t1  t2 = t2  t3 = t3  t4 = t4
  NoConn = NoConn
  Conns <- OneConn
  Threads <- FourThreads
  Fds = {3}
  Inputs = {"plain", "close", "bad"}
  MaxInFlight = 4
  Scarce = TRUE
INVARIANT ListedAreLive
PROPERTY ConnectionIsReleased
