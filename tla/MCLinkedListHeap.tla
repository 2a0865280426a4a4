-------------------------- MODULE MCLinkedListHeap --------------------------
(* Model values for the runs on LinkedListHeap.                            *)
EXTENDS LinkedListHeap, TLC

Symmetry == Permutations(Nodes) \cup Permutations(Cells)

=============================================================================
