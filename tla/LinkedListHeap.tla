--------------------------- MODULE LinkedListHeap ---------------------------
(***************************************************************************)
(* server/src/linkedlist.c pointer by pointer: nodes in a heap, the two    *)
(* removal functions with their assignments in order, and the two callers  *)
(* of threadroutines.c that keep the list of active threads, each under    *)
(* activeThreadsMutex.  A value is the malloc'ed pthread_t of a thread;    *)
(* the removal frees it together with its node.                            *)
(***************************************************************************)
EXTENDS LinkedList, FiniteSets

CONSTANTS Nodes,   \* addresses malloc may return for a node
          Cells,   \* addresses malloc may return for a pthread_t
          NULL

ASSUME HeapAssumption == NULL \notin Nodes \cup Cells /\ IsFiniteSet(Nodes)

VARIABLES heap,    \* [next, value, nodes, cells]: fields and what is allocated
          root,    \* stv->activeThreads
          alive    \* the cells of threads that will still remove themselves

vars == <<heap, root, alive>>

Init ==
  /\ heap = [next  |-> [n \in Nodes |-> NULL],
             value |-> [n \in Nodes |-> NULL],
             nodes |-> {},
             cells |-> {}]
  /\ root = NULL
  /\ alive = {}

(* free(node->value); free(node).  The memory keeps its contents.          *)
FreeNode(h, node) ==
  [h EXCEPT !.nodes = @ \ {node}, !.cells = @ \ {h.value[node]}]

(* linkedlist.c:40-52: the heap it leaves and the pointer it returns.  On  *)
(* its way down the recursion changes nothing.                             *)
RemoveLinkedListNodeR(h, start, value) ==
  LET remove[node \in Nodes] ==
        LET next == h.next[node] IN
        CASE next = NULL -> [heap |-> h, node |-> NULL]
          [] next # NULL /\ h.value[next] = value ->
               [heap |-> FreeNode(h, next), node |-> h.next[next]]
          [] OTHER ->
               LET deeper == remove[next] IN
               [heap |-> [deeper.heap EXCEPT !.next[node] = deeper.node],
                node |-> deeper.node]
  IN remove[start]

(* Mutant: the second node is freed but stays linked.                      *)
RemoveSecond_KeepsLink(h, node) == FreeNode(h, h.next[node])

(* linkedlist.c:28-33 *)
RemoveSecond(h, node) ==
  FreeNode([h EXCEPT !.next[node] = h.next[h.next[node]]], h.next[node])

(* Mutant: the tail is hung on the node itself, not on the next one.       *)
RemoveNode_HangsTail(h, node, value) ==
  CASE node = NULL -> [heap |-> h, node |-> NULL]
    [] node # NULL /\ h.value[node] = value ->
         [heap |-> FreeNode(h, node), node |-> h.next[node]]
    [] OTHER ->
         LET next == h.next[node] IN
         CASE next = NULL -> [heap |-> h, node |-> node]
           [] next # NULL /\ h.value[next] = value ->
                [heap |-> RemoveSecond(h, node), node |-> node]
           [] OTHER ->
                LET deeper == RemoveLinkedListNodeR(h, next, value) IN
                [heap |-> [deeper.heap EXCEPT !.next[node] = deeper.node],
                 node |-> node]

(* linkedlist.c:19-38 *)
RemoveNode(h, node, value) ==
  CASE node = NULL -> [heap |-> h, node |-> NULL]
    [] node # NULL /\ h.value[node] = value ->
         [heap |-> FreeNode(h, node), node |-> h.next[node]]
    [] OTHER ->
         LET next == h.next[node] IN
         CASE next = NULL -> [heap |-> h, node |-> node]
           [] next # NULL /\ h.value[next] = value ->
                [heap |-> RemoveSecond(h, node), node |-> node]
           [] OTHER ->
                LET deeper == RemoveLinkedListNodeR(h, next, value) IN
                [heap |-> [deeper.heap EXCEPT !.next[next] = deeper.node],
                 node |-> node]

(* add_activethread with a cell just malloc'ed by the parent.              *)
AddActiveThread(node, cell) ==
  /\ node \notin heap.nodes
  /\ cell \notin heap.cells
  /\ heap' = [heap EXCEPT !.next[node] = root, !.value[node] = cell,
                          !.nodes = @ \cup {node}, !.cells = @ \cup {cell}]
  /\ root' = node
  /\ alive' = alive \cup {cell}

(* remove_activethread, called once by each thread, for its own cell.      *)
RemoveActiveThread(cell) ==
  /\ cell \in alive
  /\ LET removed == RemoveNode(heap, root, cell) IN
       /\ heap' = removed.heap
       /\ root' = removed.node
  /\ alive' = alive \ {cell}

(* Every node and cell is leaked or listed for good: nothing more happens. *)
Exhausted == alive = {} /\ UNCHANGED vars

Next ==
  \/ \E node \in Nodes, cell \in Cells : AddActiveThread(node, cell)
  \/ \E cell \in Cells : RemoveActiveThread(cell)
  \/ Exhausted

Spec == Init /\ [][Next]_vars

-----------------------------------------------------------------------------
(* The pointer met after a number of links, or NULL behind the last node.  *)
Walk(h, node) ==
  LET walk[k \in Nat] ==
        IF k = 0 THEN node
        ELSE LET before == walk[k - 1] IN IF before = NULL THEN NULL ELSE h.next[before]
  IN walk

(* The number of nodes reached; a walk that does not end is cut.           *)
Size(h, node) ==
  CHOOSE n \in 0..Cardinality(Nodes) + 1 :
    /\ n = Cardinality(Nodes) + 1 \/ Walk(h, node)[n] = NULL
    /\ \A i \in 0..n - 1 : Walk(h, node)[i] # NULL

Reached == [i \in 1..Size(heap, root) |-> Walk(heap, root)[i - 1]]
Chain   == [i \in 1..Size(heap, root) |-> heap.value[Reached[i]]]

(* No removal leaves a freed node, or a freed pthread_t, in the list, nor  *)
(* closes the list into a cycle that the parent's drain would never leave. *)
NothingFreedIsReached ==
  /\ \A i \in DOMAIN Reached : Reached[i] \in heap.nodes /\ Chain[i] \in heap.cells
  /\ Len(Reached) <= Cardinality(Nodes)

(* The pointer operations compute what LinkedList says of sequences.       *)
ComputesSequence ==
  [][/\ \A node \in Nodes, cell \in Cells :
          AddActiveThread(node, cell) => Chain' = AddFirst(Chain, cell)
     /\ \A cell \in Cells :
          RemoveActiveThread(cell) => Chain' = RemoveLinkedListNode(Chain, cell)]_vars

=============================================================================
