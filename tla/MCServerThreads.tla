--------------------------- MODULE MCServerThreads ---------------------------
(* Model values for the runs on ServerThreads.                             *)
EXTENDS ServerThreads, TLC

CONSTANTS c1, c2, t1, t2, t3, t4

OneConn      == {c1}
TwoConns     == {c1, c2}
TwoThreads   == {t1, t2}
ThreeThreads == {t1, t2, t3}
FourThreads  == {t1, t2, t3, t4}

(* Connections and handlers are interchangeable; descriptors are ordered.  *)
Symmetry == Permutations(Conns) \cup Permutations(Threads)

=============================================================================
