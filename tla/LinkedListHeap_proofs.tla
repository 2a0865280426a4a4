----------------------- MODULE LinkedListHeap_proofs -----------------------
(***************************************************************************)
(* The pointers of linkedlist.c always form a list, and its functions      *)
(* compute the operators of LinkedList, for any number of nodes and cells. *)
(***************************************************************************)
EXTENDS LinkedListHeap, LinkedList_proofs, FiniteSetTheorems

HeapType == [next : [Nodes -> Nodes \cup {NULL}], value : [Nodes -> Cells \cup {NULL}],
             nodes : SUBSET Nodes, cells : SUBSET Cells]

(* The element at an index, or NULL behind the last one.                   *)
At(s, i) == IF i <= Len(s) THEN s[i] ELSE NULL

(* The nodes s are the list that starts at a pointer.                      *)
IsList(h, pointer, s) ==
  /\ s \in Seq(Nodes) /\ NoRepeats(s)
  /\ pointer = At(s, 1)
  /\ \A i \in 1..Len(s) : h.next[s[i]] = At(s, i + 1)

(* They are allocated, and hold allocated cells, each its own.             *)
IsAllocated(h, s) ==
  /\ \A i \in 1..Len(s) : s[i] \in h.nodes /\ h.value[s[i]] \in h.cells
  /\ \A i, j \in 1..Len(s) : h.value[s[i]] = h.value[s[j]] => i = j

HeapInv ==
  /\ heap \in HeapType
  /\ \E s : IsList(heap, root, s) /\ IsAllocated(heap, s)

-----------------------------------------------------------------------------
(* Walks                                                                   *)

(* A walk is what its equation says, once anything satisfies the equation. *)
WalkEquation(h, node, f) ==
  f = [k \in Nat |-> IF k = 0 THEN node
                     ELSE LET before == f[k - 1] IN IF before = NULL THEN NULL ELSE h.next[before]]

(* If anything satisfies the equation of a walk, Walk does.                *)
LEMMA WalkSolves ==
  ASSUME NEW h, NEW node, NEW f, WalkEquation(h, node, f)
  PROVE  WalkEquation(h, node, Walk(h, node))
<1>. DEFINE w == CHOOSE g : WalkEquation(h, node, g)
<1>1. WalkEquation(h, node, w)
  BY Zenon
<1>2. Walk(h, node) = w
  BY DEF Walk, WalkEquation
<1>. QED  BY <1>1, <1>2

(* The walk through a list meets its nodes in order.                       *)
LEMMA WalkOfList ==
  ASSUME NEW h, NEW node, NEW s, IsList(h, node, s)
  PROVE  \A k \in Nat : Walk(h, node)[k] = At(s, k + 1)
<1>. DEFINE f == [k \in Nat |-> At(s, k + 1)]
            w == Walk(h, node)
            T == {k \in Nat : w[k] # At(s, k + 1)}
<1>1. /\ Len(s) \in Nat /\ \A i \in 1..Len(s) : s[i] \in Nodes /\ s[i] # NULL
      /\ node = At(s, 1) /\ \A i \in 1..Len(s) : h.next[s[i]] = At(s, i + 1)
  BY LenProperties, ElementOfSeq, HeapAssumption DEF IsList
<1>2. \A k \in Nat \ {0} : /\ At(s, k) = NULL => At(s, k + 1) = NULL
                           /\ At(s, k) # NULL => At(s, k + 1) = h.next[At(s, k)]
  BY <1>1 DEF At
<1>3. WalkEquation(h, node, f)
  <2>1. ASSUME NEW k \in Nat
        PROVE  f[k] = IF k = 0 THEN node
                      ELSE LET before == f[k - 1] IN IF before = NULL THEN NULL ELSE h.next[before]
    <3>1. CASE k = 0
      BY <3>1, <1>1
    <3>2. CASE k # 0
      <4>1. k - 1 \in Nat /\ (k - 1) + 1 = k /\ k \in Nat \ {0}
        BY <3>2
      <4>2. f[k - 1] = At(s, k) /\ f[k] = At(s, k + 1)
        BY <4>1
      <4>. QED  BY <3>2, <4>1, <4>2, <1>2
    <3>. QED  BY <3>1, <3>2
  <2>. QED  BY <2>1 DEF WalkEquation
<1>4. WalkEquation(h, node, w)
  BY <1>3, WalkSolves
<1>. HIDE DEF w, f
<1>5. /\ w[0] = node
      /\ \A k \in Nat \ {0} : w[k] = IF w[k - 1] = NULL THEN NULL ELSE h.next[w[k - 1]]
  BY <1>4 DEF WalkEquation
<1>6. SUFFICES ASSUME T # {}  PROVE FALSE
  BY DEF w
<1>7. PICK m \in T : \A n \in T : m <= n
  <2>. HIDE DEF T
  <2>1. T \in SUBSET Nat
    BY DEF T
  <2>. QED  BY <1>6, <2>1, LeastNaturalOfSet
<1>8. m # 0
  BY <1>1, <1>5, <1>7
<1>9. m - 1 \in Nat /\ ~(m <= m - 1) /\ (m - 1) + 1 = m /\ m \in Nat \ {0}
  BY <1>7, <1>8
<1>10. w[m - 1] = At(s, m)
  BY <1>7, <1>9
<1>. QED  BY <1>2, <1>5, <1>7, <1>9, <1>10

(* A list has no more nodes than there are.                                *)
LEMMA ListsAreFinite ==
  ASSUME NEW s \in Seq(Nodes), NoRepeats(s)
  PROVE  Len(s) <= Cardinality(Nodes) /\ Cardinality(Nodes) \in Nat
<1>1. IsFiniteSet(Nodes) /\ Cardinality(Nodes) \in Nat /\ Len(s) \in Nat
  BY HeapAssumption, FS_CardinalityType, LenProperties
<1>2. IsFiniteSet(1..Len(s)) /\ Cardinality(1..Len(s)) = Len(s)
  <2>. DEFINE n == Len(s)
  <2>1. 1 \in Int /\ n \in Int /\ n \in Nat
    BY <1>1
  <2>. HIDE DEF n
  <2>2. IsFiniteSet(1..n) /\ Cardinality(1..n) = IF 1 > n THEN 0 ELSE n - 1 + 1
    BY <2>1, FS_Interval, Zenon
  <2>3. Cardinality(1..n) = n
    BY <2>1, <2>2
  <2>. QED  BY <2>2, <2>3 DEF n
<1>3. s \in [1..Len(s) -> Nodes]
  BY LenProperties
<1>4. s \in Injection(1..Len(s), Nodes)
  BY <1>3 DEF Injection, IsInjective, NoRepeats
<1>5. Cardinality(1..Len(s)) <= Cardinality(Nodes)
  <2>. DEFINE D == 1..Len(s)
  <2>1. s \in Injection(D, Nodes)
    BY <1>4
  <2>. HIDE DEF D
  <2>2. Cardinality(D) <= Cardinality(Nodes)
    BY <1>1, <2>1, FS_Injection, Zenon
  <2>. QED  BY <2>2 DEF D
<1>. QED  BY <1>1, <1>2, <1>5

(* What Reached and Chain read off the heap is the list.                   *)
LEMMA ReadsList ==
  ASSUME NEW h, NEW node, NEW s, IsList(h, node, s)
  PROVE  /\ Size(h, node) = Len(s)
         /\ \A i \in 1..Len(s) : Walk(h, node)[i - 1] = s[i]
<1>1. Len(s) \in Nat /\ Len(s) <= Cardinality(Nodes) /\ Cardinality(Nodes) \in Nat
  BY ListsAreFinite, LenProperties DEF IsList
<1>2. \A k \in Nat : Walk(h, node)[k] = At(s, k + 1)
  BY WalkOfList
<1>3. \A i \in 1..Len(s) : s[i] # NULL
  BY ElementOfSeq, HeapAssumption DEF IsList
<1>. DEFINE w == Walk(h, node)
            N == Cardinality(Nodes)
            Stops(n) == (n = N + 1 \/ w[n] = NULL) /\ \A i \in 0..n - 1 : w[i] # NULL
<1>. HIDE DEF w
<1>4. w[Len(s)] = NULL /\ \A i \in 0..Len(s) - 1 : w[i] = s[i + 1] /\ w[i] # NULL
  <2>1. w[Len(s)] = NULL
    BY <1>1, <1>2 DEF At, w
  <2>2. ASSUME NEW i \in 0..Len(s) - 1
        PROVE  w[i] = s[i + 1] /\ w[i] # NULL
    <3>1. i \in Nat /\ i + 1 <= Len(s) /\ i + 1 \in 1..Len(s)
      BY <1>1
    <3>2. w[i] = At(s, i + 1)
      BY <1>2, <3>1 DEF w
    <3>. QED  BY <1>3, <3>1, <3>2 DEF At
  <2>. QED  BY <2>1, <2>2
<1>5. Len(s) \in 0..N + 1 /\ Stops(Len(s))
  BY <1>1, <1>4
<1>6. \A n \in 0..N + 1 : Stops(n) => n = Len(s)
  <2>. SUFFICES ASSUME NEW n \in 0..N + 1, Stops(n), n # Len(s)
                PROVE  FALSE
    OBVIOUS
  <2>1. ~(n < Len(s))
    BY <1>1, <1>4
  <2>2. ~(n > Len(s))
    BY <1>1, <1>4
  <2>. QED  BY <1>1, <2>1, <2>2
<1>7. Size(h, node) = CHOOSE n \in 0..N + 1 : Stops(n)
  BY DEF Size, w
<1>. HIDE DEF N, Stops
<1>8. Size(h, node) = Len(s)
  <2>1. Size(h, node) \in 0..N + 1 /\ Stops(Size(h, node))
    BY <1>5, <1>7
  <2>. QED  BY <1>6, <2>1
<1>9. \A i \in 1..Len(s) : i - 1 \in 0..Len(s) - 1 /\ (i - 1) + 1 = i
  BY <1>1
<1>10. \A i \in 1..Len(s) : w[i - 1] = s[i]
  BY <1>4, <1>9
<1>. QED  BY <1>8, <1>10 DEF w

-----------------------------------------------------------------------------
(* The recursion                                                           *)

(* One call at a node, when f says what the calls below it return.         *)
Call(h, value, f, node) ==
  LET next == h.next[node] IN
  CASE next = NULL -> [heap |-> h, node |-> NULL]
    [] next # NULL /\ h.value[next] = value ->
         [heap |-> FreeNode(h, next), node |-> h.next[next]]
    [] OTHER ->
         LET deeper == f[next] IN
         [heap |-> [deeper.heap EXCEPT !.next[node] = deeper.node], node |-> deeper.node]

RemovalEquation(h, value, f) == f = [node \in Nodes |-> Call(h, value, f, node)]

(* Does the recursion go deeper at a node, and where may it come from there? *)
Goes(h, value, n) == h.next[n] # NULL /\ h.value[h.next[n]] # value

(* Nothing that the recursion goes to from S lies outside S.               *)
Closed(h, value, S) == \A x \in S : Goes(h, value, x) => h.next[x] \in S

(* The nodes that the calls from n on may be made at ...                   *)
Reach(h, value, n) ==
  {m \in Nodes : \A S \in SUBSET Nodes : n \in S /\ Closed(h, value, S) => m \in S}

(* ... and those at which they go no deeper.                               *)
Ends(h, value, n) == {m \in Reach(h, value, n) : ~Goes(h, value, m)}

(* What the calls from a node on may reach: that node, and what the next   *)
(* one reaches if they go deeper.                                          *)
LEMMA ReachIs ==
  ASSUME NEW h \in HeapType, NEW value, NEW n \in Nodes
  PROVE  /\ n \in Reach(h, value, n)
         /\ Goes(h, value, n) =>
              /\ h.next[n] \in Nodes
              /\ \A m : m \in Reach(h, value, n) <=> m = n \/ m \in Reach(h, value, h.next[n])
         /\ ~Goes(h, value, n) => \A m : m \in Reach(h, value, n) <=> m = n
<1>1. n \in Reach(h, value, n)
  BY DEF Reach
<1>2. \A x \in Nodes : Goes(h, value, x) => h.next[x] \in Nodes
  BY DEF Goes, HeapType
<1>3. ASSUME Goes(h, value, n), NEW m
      PROVE  m \in Reach(h, value, n) <=> m = n \/ m \in Reach(h, value, h.next[n])
  <2>. DEFINE o == h.next[n]
              S == {n} \cup Reach(h, value, o)
  <2>0. o \in Nodes
    BY <1>2, <1>3
  <2>1. S \in SUBSET Nodes /\ n \in S
    BY DEF Reach
  <2>2. Closed(h, value, S)
    <3>. SUFFICES ASSUME NEW x \in S, Goes(h, value, x)
                  PROVE  h.next[x] \in S
      BY DEF Closed
    <3>1. CASE x = n
      BY <2>0, <3>1 DEF Reach
    <3>2. CASE x # n
      <4>1. x \in Nodes /\ \A T \in SUBSET Nodes : o \in T /\ Closed(h, value, T) => x \in T
        BY <3>2 DEF Reach
      <4>2. \A T \in SUBSET Nodes : o \in T /\ Closed(h, value, T) => h.next[x] \in T
        BY <4>1 DEF Closed
      <4>. QED  BY <1>2, <4>1, <4>2 DEF Reach
    <3>. QED  BY <3>1, <3>2
  <2>3. m \in Reach(h, value, n) => m \in S
    <3>. HIDE DEF S
    <3>. QED  BY <2>1, <2>2 DEF Reach
  <2>4. m \in Reach(h, value, o) => m \in Reach(h, value, n)
    BY <1>3 DEF Reach, Closed
  <2>. QED  BY <1>1, <2>3, <2>4
<1>4. ASSUME ~Goes(h, value, n), NEW m
      PROVE  m \in Reach(h, value, n) <=> m = n
  <2>1. {n} \in SUBSET Nodes /\ Closed(h, value, {n})
    BY <1>4 DEF Closed
  <2>2. m \in Reach(h, value, n) => m \in {n}
    BY <2>1 DEF Reach
  <2>. QED  BY <1>1, <2>2
<1>. QED  BY <1>1, <1>2, <1>3, <1>4

(* free keeps the memory and takes it from what is allocated.              *)
LEMMA FreeNodeIs ==
  ASSUME NEW h \in HeapType, NEW o
  PROVE  FreeNode(h, o) = [next |-> h.next, value |-> h.value, nodes |-> h.nodes \ {o},
                           cells |-> h.cells \ {h.value[o]}]
<1>1. PICK a, b, c, d : h = [next |-> a, value |-> b, nodes |-> c, cells |-> d]
  BY DEF HeapType
<1>2. FreeNode(h, o) = [h EXCEPT !.nodes = h.nodes \ {o}, !.cells = h.cells \ {h.value[o]}]
  BY DEF FreeNode
<1>. QED  BY <1>1, <1>2

(* What the recursion returns that ends at one of the nodes of a set.      *)
Last(h, value, T) ==
  IF T = {} THEN [heap |-> h, node |-> NULL]
  ELSE LET next == h.next[CHOOSE e \in T : TRUE] IN
       IF next = NULL THEN [heap |-> h, node |-> NULL]
       ELSE [heap |-> FreeNode(h, next), node |-> h.next[next]]

Relinked(h, value, n) ==
  LET last == Last(h, value, Ends(h, value, n)) IN
  [heap |-> [next  |-> [m \in Nodes |-> IF m \in Reach(h, value, n) /\ Goes(h, value, m)
                                        THEN last.node ELSE h.next[m]],
             value |-> last.heap.value, nodes |-> last.heap.nodes, cells |-> last.heap.cells],
   node |-> last.node]

(* Wherever it starts, even in a cycle, the recursion has a solution ...   *)
LEMMA RemovalIsSolvable ==
  ASSUME NEW h \in HeapType, NEW value
  PROVE  RemovalEquation(h, value, [n \in Nodes |-> Relinked(h, value, n)])
<1>. DEFINE f == [n \in Nodes |-> Relinked(h, value, n)]
<1>1. ASSUME NEW n \in Nodes
      PROVE  Relinked(h, value, n) = Call(h, value, f, n)
  <2>. DEFINE last == Last(h, value, Ends(h, value, n))
              o == h.next[n]
  <2>1. /\ h = [next |-> h.next, value |-> h.value, nodes |-> h.nodes, cells |-> h.cells]
        /\ h.next \in [Nodes -> Nodes \cup {NULL}]
    BY DEF HeapType
  <2>2. CASE ~Goes(h, value, n)
    <3>1. Ends(h, value, n) = {n}
      BY <2>2, ReachIs DEF Ends
    <3>2. last = IF o = NULL THEN [heap |-> h, node |-> NULL]
                 ELSE [heap |-> FreeNode(h, o), node |-> h.next[o]]
      BY <3>1 DEF Last
    <3>3. [m \in Nodes |-> IF m \in Reach(h, value, n) /\ Goes(h, value, m)
                           THEN last.node ELSE h.next[m]] = h.next
      <4>1. \A m \in Nodes : ~(m \in Reach(h, value, n) /\ Goes(h, value, m))
        BY <2>2, ReachIs
      <4>. HIDE DEF last
      <4>. QED  BY <2>1, <4>1
    <3>4. FreeNode(h, o) = [next |-> h.next, value |-> h.value, nodes |-> h.nodes \ {o},
                            cells |-> h.cells \ {h.value[o]}]
      BY FreeNodeIs
    <3>5. Relinked(h, value, n) = last
      <4>1. CASE o = NULL
        BY <2>1, <3>2, <3>3, <4>1 DEF Relinked
      <4>2. CASE o # NULL
        BY SMTT(30), <2>1, <3>2, <3>3, <3>4, <4>2 DEF Relinked
      <4>. QED  BY <4>1, <4>2
    <3>. HIDE DEF f
    <3>6. Call(h, value, f, n) = IF o = NULL THEN [heap |-> h, node |-> NULL]
                 ELSE [heap |-> FreeNode(h, o), node |-> h.next[o]]
      BY <2>2 DEF Goes, Call
    <3>. QED  BY <3>2, <3>5, <3>6
  <2>3. CASE Goes(h, value, n)
    <3>1. o \in Nodes /\ o # NULL /\ h.value[o] # value
      BY <2>3, ReachIs DEF Goes
    <3>2. Ends(h, value, n) = Ends(h, value, o)
      BY <2>3, ReachIs DEF Ends
    <3>3. f[o] = Relinked(h, value, o)
      BY <3>1
    <3>. HIDE DEF f
    <3>4. Call(h, value, f, n) = [heap |-> [f[o].heap EXCEPT !.next[n] = f[o].node], node |-> f[o].node]
      BY <3>1 DEF Call
    <3>. DEFINE old == [m \in Nodes |-> IF m \in Reach(h, value, o) /\ Goes(h, value, m)
                                        THEN last.node ELSE h.next[m]]
                new == [m \in Nodes |-> IF m \in Reach(h, value, n) /\ Goes(h, value, m)
                                        THEN last.node ELSE h.next[m]]
    <3>5. /\ f[o] = [heap |-> [next |-> old, value |-> last.heap.value,
                               nodes |-> last.heap.nodes, cells |-> last.heap.cells],
                     node |-> last.node]
          /\ Relinked(h, value, n) = [heap |-> [next |-> new, value |-> last.heap.value,
                               nodes |-> last.heap.nodes, cells |-> last.heap.cells],
                     node |-> last.node]
      BY <3>2, <3>3 DEF Relinked
    <3>. HIDE DEF last
    <3>6. [old EXCEPT ![n] = last.node] = new
      <4>1. ASSUME NEW m \in Nodes
            PROVE  new[m] = IF m = n THEN last.node ELSE old[m]
        BY <2>3, ReachIs
      <4>2. DOMAIN old = Nodes /\ new = [m \in Nodes |-> new[m]]
        OBVIOUS
      <4>. HIDE DEF old, new
      <4>3. [old EXCEPT ![n] = last.node] = [m \in Nodes |-> IF m = n THEN last.node ELSE old[m]]
        BY <4>2
      <4>. QED  BY <4>1, <4>2, <4>3
    <3>. HIDE DEF old, new
    <3>. QED  BY <3>4, <3>5, <3>6
  <2>. QED  BY <2>2, <2>3
<1>. QED  BY <1>1 DEF RemovalEquation

(* ... so that its result satisfies its equation.                          *)
LEMMA RemovalSolves ==
  ASSUME NEW h \in HeapType, NEW value
  PROVE  \E f : /\ RemovalEquation(h, value, f)
                /\ \A n : RemoveLinkedListNodeR(h, n, value) = f[n]
<1>. DEFINE r == CHOOSE f : RemovalEquation(h, value, f)
<1>1. RemovalEquation(h, value, r)
  BY RemovalIsSolvable, Zenon
<1>2. \A n : RemoveLinkedListNodeR(h, n, value) = r[n]
  BY DEF RemoveLinkedListNodeR, RemovalEquation, Call
<1>. QED  BY <1>1, <1>2

(* The k-th node of a list is the first that holds the value; when none    *)
(* does, k is one past the end.                                            *)
FirstIs(h, s, value, k) ==
  /\ k \in 1..Len(s) + 1
  /\ k <= Len(s) => h.value[s[k]] = value
  /\ \A j \in 1..k - 1 : h.value[s[j]] # value

(* What is freed when it is removed.                                       *)
Frees(h, result, s, value, k) ==
  /\ result \in HeapType /\ result.value = h.value
  /\ result.nodes = h.nodes \ {At(s, k)}
  /\ result.cells = IF k <= Len(s) THEN h.cells \ {value} ELSE h.cells

(* The recursion started at the a-th node unlinks those between it and the *)
(* one before the k-th: all of them point behind the node removed.         *)
Unlinks(h, r, s, value, k, a) ==
  /\ Frees(h, r.heap, s, value, k)
  /\ r.node = At(s, k + 1)
  /\ \A m \in Nodes : r.heap.next[m] = IF \E j \in a..k - 2 : m = s[j] THEN At(s, k + 1) ELSE h.next[m]

(* What a list is made of.                                                 *)
LEMMA ListIs ==
  ASSUME NEW h, NEW node, NEW s, IsList(h, node, s)
  PROVE  /\ Len(s) \in Nat /\ s \in Seq(Nodes)
         /\ \A i \in 1..Len(s) : s[i] \in Nodes /\ s[i] # NULL /\ At(s, i) = s[i]
         /\ \A i \in Nat : i > Len(s) => At(s, i) = NULL
         /\ \A i \in Nat : At(s, i) = NULL => i > Len(s) \/ i = 0
         /\ \A i \in 1..Len(s) : h.next[s[i]] = At(s, i + 1)
         /\ \A i, j \in 1..Len(s) : s[i] = s[j] => i = j
         /\ node = At(s, 1)
BY LenProperties, ElementOfSeq, HeapAssumption DEF IsList, At, NoRepeats

(* A node that is freed.                                                   *)
LEMMA FreeingFrees ==
  ASSUME NEW h \in HeapType, NEW node, NEW s, IsList(h, node, s), NEW value, NEW k \in 1..Len(s),
         h.value[s[k]] = value
  PROVE  Frees(h, FreeNode(h, s[k]), s, value, k) /\ FreeNode(h, s[k]).next = h.next
<1>1. FreeNode(h, s[k]) = [next |-> h.next, value |-> h.value, nodes |-> h.nodes \ {s[k]},
                           cells |-> h.cells \ {value}]
  BY FreeNodeIs
<1>2. At(s, k) = s[k] /\ k <= Len(s)
  BY ListIs
<1>. QED  BY <1>1, <1>2 DEF Frees, HeapType

(* Nothing is freed when the value is not there.                           *)
LEMMA AbsentFreesNothing ==
  ASSUME NEW h \in HeapType, NEW node, NEW s, IsList(h, node, s), NEW value
  PROVE  Frees(h, h, s, value, Len(s) + 1)
<1>1. Len(s) \in Nat /\ ~(Len(s) + 1 <= Len(s)) /\ At(s, Len(s) + 1) = NULL
  BY ListIs
<1>2. NULL \notin h.nodes
  BY HeapAssumption DEF HeapType
<1>. QED  BY <1>1, <1>2 DEF Frees

(* Called at the node a of a list, above the place k of the value, the     *)
(* recursion unlinks and frees what linkedlist.c:19-52 does there.         *)
LEMMA RecursionOnList ==
  ASSUME NEW h \in HeapType, NEW node, NEW s, IsList(h, node, s), NEW value, NEW k,
         FirstIs(h, s, value, k), NEW a \in 1..k - 1
  PROVE  Unlinks(h, RemoveLinkedListNodeR(h, s[a], value), s, value, k, a)
<1>1. PICK f : /\ RemovalEquation(h, value, f)
               /\ \A n : RemoveLinkedListNodeR(h, n, value) = f[n]
  BY RemovalSolves
<1>2. \A n \in Nodes : f[n] = Call(h, value, f, n)
  BY <1>1 DEF RemovalEquation
<1>. DEFINE Claim(b) == Unlinks(h, f[s[b]], s, value, k, b)
            T == {d \in 0..k - 2 : ~Claim(k - 1 - d)}
            c == At(s, k + 1)
<1>3. /\ Len(s) \in Nat /\ k \in Nat /\ k \in 1..Len(s) + 1 /\ 1 <= k - 1
      /\ \A i \in 1..k - 1 : i \in 1..Len(s) /\ s[i] \in Nodes
  BY ListIs DEF FirstIs
<1>4. Claim(k - 1)
  <2>1. k - 1 \in 1..Len(s) /\ s[k - 1] \in Nodes /\ (k - 1) + 1 = k
    BY <1>3
  <2>2. h.next[s[k - 1]] = At(s, k)
    BY <2>1, ListIs
  <2>3. \A m \in Nodes : ~\E j \in k - 1..k - 2 : m = s[j]
    BY <1>3
  <2>4. CASE k <= Len(s)
    <3>1. k \in 1..Len(s) /\ At(s, k) = s[k] /\ s[k] # NULL /\ h.value[s[k]] = value /\ h.next[s[k]] = c
      BY <1>3, <2>4, ListIs DEF FirstIs
    <3>2. f[s[k - 1]] = [heap |-> FreeNode(h, s[k]), node |-> c]
      BY ZenonT(40), <1>2, <2>1, <2>2, <3>1 DEF Call
    <3>3. Frees(h, FreeNode(h, s[k]), s, value, k) /\ FreeNode(h, s[k]).next = h.next
      BY <3>1, FreeingFrees
    <3>. HIDE DEF c
    <3>. QED  BY <2>3, <3>2, <3>3 DEF Unlinks, c
  <2>5. CASE k > Len(s)
    <3>1. k = Len(s) + 1 /\ At(s, k) = NULL /\ c = NULL
      BY <1>3, <2>5, ListIs
    <3>2. f[s[k - 1]] = [heap |-> h, node |-> NULL]
      BY <1>2, <2>1, <2>2, <3>1 DEF Call
    <3>3. Frees(h, h, s, value, k)
      BY <3>1, AbsentFreesNothing
    <3>. QED  BY <2>3, <3>1, <3>2, <3>3 DEF Unlinks
  <2>. QED  BY <1>3, <2>4, <2>5
<1>5. ASSUME NEW b \in 1..k - 2, Claim(b + 1)
      PROVE  Claim(b)
  <2>. DEFINE x == s[b]
              y == s[b + 1]
              deeper == f[y]
  <2>1. /\ b \in 1..Len(s) /\ b + 1 \in 1..Len(s) /\ b \in 1..k - 1 /\ b + 1 \in 1..k - 1
        /\ x \in Nodes /\ y \in Nodes /\ y # NULL
    BY <1>3, ListIs
  <2>2. h.next[x] = y
    BY <2>1, ListIs
  <2>3. h.value[y] # value
    BY <2>1 DEF FirstIs
  <2>4. f[x] = [heap |-> [deeper.heap EXCEPT !.next[x] = deeper.node], node |-> deeper.node]
    BY <1>2, <2>1, <2>2, <2>3 DEF Call
  <2>5. /\ Frees(h, deeper.heap, s, value, k) /\ deeper.node = c
        /\ \A m \in Nodes : deeper.heap.next[m] = IF \E j \in b + 1..k - 2 : m = s[j] THEN c ELSE h.next[m]
    BY <1>5 DEF Unlinks
  <2>. HIDE DEF deeper, x, c
  <2>6. c \in Nodes \cup {NULL}
    BY <1>3, ListIs DEF c, At
  <2>7. PICK n, v, ns, cs : deeper.heap = [next |-> n, value |-> v, nodes |-> ns, cells |-> cs]
    BY <2>5 DEF Frees, HeapType
  <2>8. n \in [Nodes -> Nodes \cup {NULL}]
    BY <2>5, <2>7 DEF Frees, HeapType
  <2>9. f[x].heap = [next |-> [n EXCEPT ![x] = c], value |-> v, nodes |-> ns, cells |-> cs]
    BY <2>4, <2>5, <2>7
  <2>10. Frees(h, f[x].heap, s, value, k)
    <3>1. [n EXCEPT ![x] = c] \in [Nodes -> Nodes \cup {NULL}]
      BY <2>6, <2>8
    <3>. QED  BY <2>5, <2>7, <2>9, <3>1 DEF Frees, HeapType
  <2>11. ASSUME NEW m \in Nodes
         PROVE  f[x].heap.next[m] = IF \E j \in b..k - 2 : m = s[j] THEN c ELSE h.next[m]
    <3>1. f[x].heap.next[m] = IF m = x THEN c ELSE n[m]
      BY <2>8, <2>9
    <3>2. n[m] = IF \E j \in b + 1..k - 2 : m = s[j] THEN c ELSE h.next[m]
      BY <2>5, <2>7
    <3>3. (\E j \in b..k - 2 : m = s[j]) <=> m = x \/ \E j \in b + 1..k - 2 : m = s[j]
      BY <1>3, <2>1 DEF x
    <3>. QED  BY <3>1, <3>2, <3>3
  <2>12. f[x].node = c
    BY <2>4, <2>5
  <2>. QED  BY <2>10, <2>11, <2>12 DEF Unlinks, x, c
<1>. HIDE DEF Claim
<1>6. T = {}
  <2>. SUFFICES ASSUME T # {}  PROVE FALSE
    OBVIOUS
  <2>1. T \in SUBSET Nat
    BY <1>3
  <2>2. PICK d \in T : \A e \in T : d <= e
    <3>. HIDE DEF T
    <3>. QED  BY <2>1, LeastNaturalOfSet
  <2>3. d # 0
    <3>1. k - 1 - 0 = k - 1
      BY <1>3
    <3>. QED  BY <1>4, <2>2, <3>1
  <2>4. d - 1 \in 0..k - 2 /\ ~(d <= d - 1)
    BY <1>3, <2>2, <2>3
  <2>5. Claim(k - 1 - (d - 1))
    BY <2>2, <2>4
  <2>6. k - 1 - (d - 1) = (k - 1 - d) + 1 /\ k - 1 - d \in 1..k - 2
    BY <1>3, <2>2, <2>3
  <2>. QED  BY <1>5, <2>2, <2>5, <2>6
<1>7. k - 1 - a \in 0..k - 2 /\ k - 1 - (k - 1 - a) = a
  BY <1>3
<1>8. Claim(a)
  BY <1>6, <1>7
<1>. QED  BY <1>1, <1>8 DEF Claim

(* The whole removal: how many nodes in front stay, what the last of them  *)
(* points to, and that all that matters of the others is left alone.       *)
Kept(k) == IF k > 3 THEN 2 ELSE k - 1

Removes(h, r, s, value, k) ==
  /\ Frees(h, r.heap, s, value, k)
  /\ r.node = IF k = 1 THEN At(s, 2) ELSE At(s, 1)
  /\ \A i \in 1..Len(s) : i < Kept(k) \/ i > k => r.heap.next[s[i]] = At(s, i + 1)
  /\ \A i \in 1..Len(s) : i = Kept(k) => r.heap.next[s[i]] = At(s, k + 1)

(* The head.                                                               *)
LEMMA RemovesHead ==
  ASSUME NEW h \in HeapType, NEW node, NEW s, IsList(h, node, s), NEW value,
         FirstIs(h, s, value, 1)
  PROVE  Removes(h, RemoveNode(h, node, value), s, value, 1)
<1>1. Len(s) \in Nat /\ \A i \in 1..Len(s) : ~(i < Kept(1)) /\ i # Kept(1)
  BY ListIs DEF Kept
<1>2. \A i \in 1..Len(s) : h.next[s[i]] = At(s, i + 1)
  BY ListIs
<1>3. CASE Len(s) = 0
  <2>1. node = NULL /\ At(s, 2) = NULL
    BY <1>3, ListIs
  <2>2. RemoveNode(h, node, value) = [heap |-> h, node |-> NULL]
    BY <2>1 DEF RemoveNode
  <2>3. Frees(h, h, s, value, 1)
    BY <1>3, AbsentFreesNothing
  <2>. QED  BY <1>1, <1>3, <2>1, <2>2, <2>3 DEF Removes
<1>4. CASE Len(s) # 0
  <2>1. 1 \in 1..Len(s) /\ node = s[1] /\ node # NULL /\ h.value[node] = value /\ h.next[node] = At(s, 2)
    BY <1>1, <1>4, ListIs DEF FirstIs
  <2>2. RemoveNode(h, node, value) = [heap |-> FreeNode(h, node), node |-> At(s, 2)]
    BY <2>1 DEF RemoveNode
  <2>3. Frees(h, FreeNode(h, node), s, value, 1) /\ FreeNode(h, node).next = h.next
    BY <2>1, FreeingFrees
  <2>. QED  BY <1>1, <1>2, <2>2, <2>3 DEF Removes
<1>. QED  BY <1>3, <1>4

(* The second node, or none in a list of one.                              *)
LEMMA RemovesSecond ==
  ASSUME NEW h \in HeapType, NEW node, NEW s, IsList(h, node, s), NEW value,
         FirstIs(h, s, value, 2)
  PROVE  Removes(h, RemoveNode(h, node, value), s, value, 2)
<1>1. /\ Len(s) \in Nat /\ 1 \in 1..Len(s) /\ node = s[1] /\ node = At(s, 1) /\ node \in Nodes /\ node # NULL
      /\ h.value[node] # value /\ h.next[node] = At(s, 2)
  <2>1. 1 \in 1..Len(s) /\ 1 \in 1..2 - 1 /\ Len(s) \in Nat
    BY ListIs DEF FirstIs
  <2>. QED  BY <2>1, ListIs DEF FirstIs
<1>2. \A i \in 1..Len(s) : ~(i < Kept(2)) /\ (i = Kept(2) <=> i = 1)
  BY <1>1 DEF Kept
<1>3. \A i \in 1..Len(s) : h.next[s[i]] = At(s, i + 1)
  BY ListIs
<1>4. CASE Len(s) = 1
  <2>1. At(s, 2) = NULL /\ At(s, 3) = NULL
    BY <1>4, ListIs
  <2>2. RemoveNode(h, node, value) = [heap |-> h, node |-> node]
    BY <1>1, <2>1 DEF RemoveNode
  <2>3. Frees(h, h, s, value, 2)
    <3>1. Len(s) + 1 = 2
      BY <1>4
    <3>. QED  BY <3>1, AbsentFreesNothing
  <2>. QED  BY <1>1, <1>2, <1>3, <2>1, <2>2, <2>3 DEF Removes
<1>5. CASE Len(s) # 1
  <2>. DEFINE y == s[2]
              c == At(s, 3)
              relinked == [h EXCEPT !.next[node] = c]
  <2>1. /\ 2 \in 1..Len(s) /\ y \in Nodes /\ y # NULL /\ y # node /\ At(s, 2) = y
        /\ h.value[y] = value /\ h.next[y] = c
    <3>1. 2 \in 1..Len(s) /\ 2 <= Len(s)
      <4>. DEFINE z == Len(s)
      <4>1. z \in Nat /\ 1 <= z /\ z # 1
        BY <1>1, <1>5
      <4>. HIDE DEF z
      <4>2. 2 \in 1..z /\ 2 <= z
        BY <4>1
      <4>. QED  BY <4>2 DEF z
    <3>2. y \in Nodes /\ y # NULL /\ At(s, 2) = y /\ h.next[y] = At(s, 2 + 1)
      BY <3>1, ListIs
    <3>3. y # node
      BY <1>1, <3>1, ListIs
    <3>4. h.value[y] = value
      BY <3>1 DEF FirstIs
    <3>. QED  BY <3>1, <3>2, <3>3, <3>4
  <2>2. c \in Nodes \cup {NULL}
    BY <1>1, ListIs DEF At
  <2>. HIDE DEF y, c
  <2>3. RemoveNode(h, node, value) = [heap |-> FreeNode(relinked, y), node |-> node]
    BY <1>1, <2>1 DEF RemoveNode, RemoveSecond
  <2>4. PICK n, v, ns, cs : h = [next |-> n, value |-> v, nodes |-> ns, cells |-> cs]
    BY DEF HeapType
  <2>5. n \in [Nodes -> Nodes \cup {NULL}] /\ v \in [Nodes -> Cells \cup {NULL}]
        /\ ns \in SUBSET Nodes /\ cs \in SUBSET Cells
    BY <2>4 DEF HeapType
  <2>6. relinked = [next |-> [n EXCEPT ![node] = c], value |-> v, nodes |-> ns, cells |-> cs]
    BY <2>4
  <2>. HIDE DEF relinked
  <2>7. relinked \in HeapType
    BY <1>1, <2>2, <2>5, <2>6 DEF HeapType
  <2>8. FreeNode(relinked, y) = [next |-> [n EXCEPT ![node] = c], value |-> v, nodes |-> ns \ {y},
                                 cells |-> cs \ {value}]
    BY <2>1, <2>4, <2>6, <2>7, FreeNodeIs
  <2>9. Frees(h, FreeNode(relinked, y), s, value, 2)
    <3>1. [n EXCEPT ![node] = c] \in [Nodes -> Nodes \cup {NULL}]
      BY <2>2, <2>5
    <3>. QED  BY <2>1, <2>4, <2>5, <2>8, <3>1 DEF Frees, HeapType
  <2>10. \A m \in Nodes : FreeNode(relinked, y).next[m] = IF m = node THEN c ELSE h.next[m]
    BY <2>4, <2>5, <2>8
  <2>11. \A i \in 1..Len(s) : s[i] \in Nodes /\ (i > 2 => s[i] # node)
    BY <1>1, ListIs
  <2>12. \A i \in 1..Len(s) : i < Kept(2) \/ i > 2 => FreeNode(relinked, y).next[s[i]] = At(s, i + 1)
    BY <1>2, <1>3, <2>10, <2>11
  <2>13. \A i \in 1..Len(s) : i = Kept(2) => FreeNode(relinked, y).next[s[i]] = At(s, 2 + 1)
    <3>1. FreeNode(relinked, y).next[node] = c /\ 2 + 1 = 3
      BY <1>1, <2>10
    <3>. QED  BY <1>1, <1>2, <3>1 DEF c
  <2>. QED  BY <1>1, <2>3, <2>9, <2>12, <2>13 DEF Removes
<1>. QED  BY <1>4, <1>5

(* Deeper nodes, or none in a longer list.                                 *)
LEMMA RemovesDeeper ==
  ASSUME NEW h \in HeapType, NEW node, NEW s, IsList(h, node, s), NEW value, NEW k \in Nat,
         FirstIs(h, s, value, k), k > 2
  PROVE  Removes(h, RemoveNode(h, node, value), s, value, k)
<1>1. /\ Len(s) \in Nat /\ 1 \in 1..Len(s) /\ 2 \in 1..Len(s) /\ 1 \in 1..k - 1 /\ 2 \in 1..k - 1
      /\ k \in 1..Len(s) + 1
  BY ListIs DEF FirstIs
<1>. DEFINE y == s[2]
            c == At(s, k + 1)
            deeper == RemoveLinkedListNodeR(h, y, value)
<1>2. /\ node = s[1] /\ node = At(s, 1) /\ node \in Nodes /\ node # NULL /\ h.value[node] # value
      /\ h.next[node] = y /\ y \in Nodes /\ y # NULL /\ h.value[y] # value
  BY <1>1, ListIs DEF FirstIs
<1>3. Unlinks(h, deeper, s, value, k, 2)
  BY <1>1, RecursionOnList
<1>4. c \in Nodes \cup {NULL}
  BY <1>1, ListIs DEF At
<1>. HIDE DEF y, deeper, c
<1>5. RemoveNode(h, node, value)
        = [heap |-> [deeper.heap EXCEPT !.next[y] = deeper.node], node |-> node]
  BY <1>2 DEF RemoveNode, deeper
<1>6. /\ Frees(h, deeper.heap, s, value, k) /\ deeper.node = c
      /\ \A m \in Nodes : deeper.heap.next[m] = IF \E j \in 2..k - 2 : m = s[j] THEN c ELSE h.next[m]
  BY <1>3 DEF Unlinks, c
<1>7. PICK n, v, ns, cs : deeper.heap = [next |-> n, value |-> v, nodes |-> ns, cells |-> cs]
  BY <1>6 DEF Frees, HeapType
<1>8. n \in [Nodes -> Nodes \cup {NULL}]
  BY <1>6, <1>7 DEF Frees, HeapType
<1>. DEFINE result == [next |-> [n EXCEPT ![y] = c], value |-> v, nodes |-> ns, cells |-> cs]
<1>9. RemoveNode(h, node, value) = [heap |-> result, node |-> node]
  BY <1>5, <1>6, <1>7
<1>10. Frees(h, result, s, value, k)
  <2>1. [n EXCEPT ![y] = c] \in [Nodes -> Nodes \cup {NULL}]
    BY <1>4, <1>8
  <2>. QED  BY <1>6, <1>7, <2>1 DEF Frees, HeapType
<1>11. \A m \in Nodes : result.next[m] = IF m = y THEN c
                                         ELSE IF \E j \in 2..k - 2 : m = s[j] THEN c ELSE h.next[m]
  BY <1>6, <1>7, <1>8
<1>. HIDE DEF result
<1>12. Kept(k) = 2
  BY DEF Kept
<1>13. ASSUME NEW i \in 1..Len(s), i < Kept(k) \/ i > k
       PROVE  result.next[s[i]] = At(s, i + 1)
  <2>1. i # 2 /\ ~\E j \in 2..k - 2 : i = j
    BY <1>12, <1>13
  <2>2. \A j \in 2..k - 2 : j \in 1..Len(s)
    BY <1>1
  <2>3. s[i] \in Nodes /\ s[i] # y /\ ~\E j \in 2..k - 2 : s[i] = s[j]
    BY <1>1, <2>1, <2>2, ListIs DEF y
  <2>. QED  BY <1>11, <2>3, ListIs
<1>14. \A i \in 1..Len(s) : i = Kept(k) => result.next[s[i]] = At(s, k + 1)
  BY <1>2, <1>11, <1>12 DEF y, c
<1>. QED  BY <1>2, <1>9, <1>10, <1>13, <1>14 DEF Removes

(* Every removal, by the place of its value.                               *)
LEMMA RemoveNodeRemoves ==
  ASSUME NEW h \in HeapType, NEW node, NEW s, IsList(h, node, s), NEW value, NEW k,
         FirstIs(h, s, value, k)
  PROVE  Removes(h, RemoveNode(h, node, value), s, value, k)
<1>1. k \in Nat /\ (k = 1 \/ k = 2 \/ k > 2)
  BY ListIs DEF FirstIs
<1>. QED  BY <1>1, RemovesHead, RemovesSecond, RemovesDeeper

-----------------------------------------------------------------------------
(* The steps                                                               *)

(* Where a node that stays was before, and what was behind it.             *)
LEMMA OldIndexes ==
  ASSUME NEW l \in Nat, NEW k \in 1..l + 1,
         NEW n, n = Kept(k) + (IF k > l THEN 0 ELSE l - k)
  PROVE  /\ n \in Nat
         /\ \A i \in 1..n :
              LET old(j) == IF j <= Kept(k) THEN j ELSE j - Kept(k) + k
                  next   == IF i = Kept(k) THEN k + 1 ELSE old(i) + 1
              IN /\ old(i) \in 1..l /\ old(i) # k
                 /\ i < n => next \in 1..l /\ next = old(i + 1)
                 /\ i = n => next > l /\ next \in Nat
                 /\ i = Kept(k) => old(i) = Kept(k)
                 /\ i # Kept(k) => old(i) < Kept(k) \/ old(i) > k
BY DEF Kept

LeavesList(h, r, s, value) ==
  /\ r.heap \in HeapType
  /\ \E t : /\ IsList(r.heap, r.node, t) /\ IsAllocated(r.heap, t)
            /\ [i \in 1..Len(t) |-> r.heap.value[t[i]]]
                 = RemoveLinkedListNode([i \in 1..Len(s) |-> h.value[s[i]]], value)

(* A removal leaves a list, of allocated nodes: the one that LinkedList's  *)
(* operator makes of the nodes, and of their values too.                   *)
LEMMA RemovalLeavesList ==
  ASSUME NEW h \in HeapType, NEW node, NEW s, IsList(h, node, s), IsAllocated(h, s),
         NEW value, value # NULL
  PROVE  LeavesList(h, RemoveNode(h, node, value), s, value)
<1>. DEFINE vs == [i \in 1..Len(s) |-> h.value[s[i]]]
            k  == Position(vs, value)
            r  == RemoveNode(h, node, value)
            target == At(s, k)
            t  == RemoveLinkedListNode(s, target)
            kept == Kept(k)
            old(i) == IF i <= kept THEN i ELSE i - kept + k
<1>1. /\ Len(s) \in Nat /\ s \in Seq(Nodes) /\ NoRepeats(s)
      /\ \A i \in 1..Len(s) : s[i] \in Nodes /\ s[i] # NULL /\ At(s, i) = s[i]
  <2>1. NoRepeats(s)
    BY DEF IsList
  <2>. QED  BY <2>1, ListIs
<1>2. vs \in Seq(Cells \cup {NULL}) /\ Len(vs) = Len(s) /\ \A i \in 1..Len(s) : vs[i] = h.value[s[i]]
  <2>1. \A i \in 1..Len(s) : h.value[s[i]] \in Cells \cup {NULL}
    BY <1>1 DEF HeapType
  <2>. QED  BY <1>1, <2>1, SeqDef, LenProperties
<1>3. /\ k \in 1..Len(s) + 1
      /\ k <= Len(s) => vs[k] = value
      /\ \A j \in 1..k - 1 : vs[j] # value
  <2>. HIDE DEF vs
  <2>1. /\ Position(vs, value) \in 1..Len(vs) + 1
        /\ Position(vs, value) <= Len(vs) => vs[Position(vs, value)] = value
        /\ \A j \in 1..Position(vs, value) - 1 : vs[j] # value
    BY <1>2, PositionIsFirst
  <2>. QED  BY <1>2, <2>1
<1>4. FirstIs(h, s, value, k)
  <2>. HIDE DEF vs, k
  <2>1. \A j \in 1..k - 1 : j \in 1..Len(s)
    BY <1>1, <1>3
  <2>2. k <= Len(s) => k \in 1..Len(s)
    BY <1>1, <1>3
  <2>. QED  BY <1>2, <1>3, <2>1, <2>2 DEF FirstIs
<1>5. Removes(h, r, s, value, k)
  BY <1>4, RemoveNodeRemoves
<1>. HIDE DEF r
<1>6. Position(s, target) = k
  <2>. DEFINE p == Position(s, target)
  <2>1. /\ p \in 1..Len(s) + 1
        /\ p <= Len(s) => s[p] = target
        /\ \A j \in 1..p - 1 : s[j] # target
    BY <1>1, PositionIsFirst
  <2>. HIDE DEF p, k
  <2>2. CASE k <= Len(s)
    <3>1. k \in 1..Len(s) /\ target = s[k]
      BY <1>1, <1>3, <2>2 DEF At
    <3>2. ~(p - 1 >= k)
      BY <1>1, <1>3, <2>1, <3>1
    <3>3. p \in 1..Len(s) /\ s[p] = s[k]
      BY <1>1, <1>3, <2>1, <2>2, <3>1, <3>2
    <3>. QED  BY <1>1, <3>1, <3>3 DEF NoRepeats, p
  <2>3. CASE k > Len(s)
    <3>1. target = NULL /\ k = Len(s) + 1
      BY <1>1, <1>3, <2>3 DEF At
    <3>2. ~(p <= Len(s))
      BY <1>1, <2>1, <3>1
    <3>. QED  BY <1>1, <2>1, <3>1, <3>2 DEF p
  <2>. QED  BY <1>1, <1>3, <2>2, <2>3
<1>7. /\ t \in Seq(Nodes)
      /\ kept \in 0..Len(s) /\ kept < k
      /\ Len(t) = kept + (IF k > Len(s) THEN 0 ELSE Len(s) - k)
      /\ \A i \in 1..Len(t) : t[i] = s[old(i)]
  <2>1. LET kk == Position(s, target)
            kp == IF kk > 3 THEN 2 ELSE kk - 1
        IN /\ t \in Seq(Nodes)
           /\ kp \in 0..Len(s) /\ kp < kk
           /\ Len(t) = kp + (IF kk > Len(s) THEN 0 ELSE Len(s) - kk)
           /\ \A i \in 1..Len(t) : t[i] = IF i <= kp THEN s[i] ELSE s[i - kp + kk]
    <3>. HIDE DEF target
    <3>. QED  BY <1>1, RemoveElements
  <2>. HIDE DEF k, t, target
  <2>. QED  BY <1>6, <2>1 DEF Kept
<1>8. NoRepeats(t)
  <2>. HIDE DEF target
  <2>. QED  BY <1>1, RemoveShrinks
<1>. DEFINE ws == RemoveLinkedListNode(vs, value)
<1>9. /\ ws \in Seq(Cells \cup {NULL})
      /\ Len(ws) = kept + (IF k > Len(s) THEN 0 ELSE Len(s) - k)
      /\ \A i \in 1..Len(ws) : ws[i] = vs[old(i)]
  <2>1. LET kp == IF k > 3 THEN 2 ELSE k - 1
        IN /\ ws \in Seq(Cells \cup {NULL})
           /\ Len(ws) = kp + (IF k > Len(vs) THEN 0 ELSE Len(vs) - k)
           /\ \A i \in 1..Len(ws) : ws[i] = IF i <= kp THEN vs[i] ELSE vs[i - kp + k]
    <3>. HIDE DEF vs
    <3>. QED  BY <1>2, RemoveElements
  <2>. HIDE DEF vs, k, ws
  <2>. QED  BY <1>2, <2>1 DEF Kept
<1>. HIDE DEF vs, k, t, target, ws
<1>10. \A i \in 1..Len(t) :
         LET next == IF i = kept THEN k + 1 ELSE old(i) + 1
         IN /\ old(i) \in 1..Len(s) /\ old(i) # k
            /\ i < Len(t) => next \in 1..Len(s) /\ next = old(i + 1)
            /\ i = Len(t) => next > Len(s) /\ next \in Nat
            /\ i = Kept(k) => old(i) = Kept(k)
            /\ i # Kept(k) => old(i) < Kept(k) \/ old(i) > k
  BY <1>1, <1>3, <1>7, OldIndexes
<1>11. \A i \in 1..Len(t) : t[i] = s[old(i)]
  BY <1>7
<1>12. Len(t) \in Nat /\ Len(t) = Len(ws)
  BY <1>1, <1>3, <1>7, <1>9, OldIndexes
<1>. HIDE DEF old
<1>13. ASSUME NEW i \in 1..Len(t)
       PROVE  r.heap.next[t[i]] = At(t, i + 1)
  <2>. DEFINE o == old(i)
              next == IF i = kept THEN k + 1 ELSE o + 1
  <2>1. o \in 1..Len(s) /\ t[i] = s[o]
    BY <1>10, <1>11
  <2>2. r.heap.next[s[o]] = At(s, next)
    <3>1. CASE i = kept
      <4>1. o = Kept(k)
        BY <1>10, <3>1
      <4>. QED  BY <1>5, <2>1, <3>1, <4>1 DEF Removes
    <3>2. CASE i # kept
      <4>1. o < Kept(k) \/ o > k
        BY <1>10, <3>2
      <4>. QED  BY <1>5, <2>1, <3>2, <4>1 DEF Removes
    <3>. QED  BY <3>1, <3>2
  <2>3. At(t, i + 1) = At(s, next)
    <3>1. CASE i < Len(t)
      <4>1. i + 1 \in 1..Len(t) /\ i + 1 <= Len(t)
        BY <1>12, <3>1
      <4>2. next \in 1..Len(s) /\ next = old(i + 1)
        BY <1>10, <3>1
      <4>3. t[i + 1] = s[next]
        BY <1>11, <4>1, <4>2
      <4>. HIDE DEF next
      <4>. QED  BY <1>1, <4>1, <4>2, <4>3 DEF At
    <3>2. CASE i = Len(t)
      <4>1. ~(i + 1 <= Len(t)) /\ ~(next <= Len(s))
        <5>1. next > Len(s) /\ next \in Nat
          BY <1>10, <3>2
        <5>. HIDE DEF next
        <5>. QED  BY <1>1, <1>12, <3>2, <5>1
      <4>. QED  BY <4>1 DEF At
    <3>. QED  BY <1>12, <3>1, <3>2
  <2>. QED  BY <2>1, <2>2, <2>3
<1>14. r.node = At(t, 1)
  <2>1. CASE k = 1
    <3>1. r.node = At(s, 2) /\ kept = 0
      BY <1>5, <2>1 DEF Removes, Kept
    <3>2. Len(t) = IF 1 > Len(s) THEN 0 ELSE Len(s) - 1
      BY <1>1, <1>7, <2>1, <3>1
    <3>3. 1 <= Len(t) => t[1] = s[2]
      <4>1. ASSUME 1 <= Len(t)  PROVE t[1] = s[old(1)] /\ old(1) = 2
        BY <1>11, <1>12, <2>1, <3>1, <4>1 DEF old
      <4>. QED  BY <4>1
    <3>4. 1 <= Len(t) <=> 2 <= Len(s)
      BY <1>1, <3>2
    <3>. QED  BY <3>1, <3>3, <3>4 DEF At
  <2>2. CASE k # 1
    <3>1. r.node = At(s, 1) /\ kept >= 1 /\ 1 <= Len(t) /\ 1 <= Len(s)
      <4>1. r.node = At(s, 1)
        BY <1>5, <2>2 DEF Removes
      <4>2. 1 <= Kept(k) /\ 1 <= Len(s)
        BY <1>1, <1>3, <2>2 DEF Kept
      <4>3. Kept(k) \in Nat /\ Kept(k) <= Len(t)
        BY <1>1, <1>3, <1>7
      <4>. QED  BY <1>12, <4>1, <4>2, <4>3
    <3>2. t[1] = s[old(1)] /\ old(1) = 1
      BY <1>11, <1>12, <3>1 DEF old
    <3>. QED  BY <3>1, <3>2 DEF At
  <2>. QED  BY <2>1, <2>2
<1>15. IsList(r.heap, r.node, t)
  BY <1>7, <1>8, <1>13, <1>14 DEF IsList
<1>16. Frees(h, r.heap, s, value, k)
  BY <1>5 DEF Removes
<1>17. \A i \in 1..Len(t) : r.heap.value[t[i]] = h.value[s[old(i)]]
  BY <1>11, <1>16 DEF Frees
<1>18. \A i, j \in 1..Len(t) : old(i) = old(j) => i = j
  BY <1>11, <1>8 DEF NoRepeats
<1>19. IsAllocated(r.heap, t)
  <2>1. ASSUME NEW i \in 1..Len(t)
        PROVE  t[i] \in r.heap.nodes /\ r.heap.value[t[i]] \in r.heap.cells
    <3>. DEFINE o == old(i)
    <3>1. o \in 1..Len(s) /\ o # k /\ t[i] = s[o] /\ r.heap.value[t[i]] = h.value[s[o]]
      BY <1>10, <1>11, <1>17
    <3>. HIDE DEF o
    <3>2. s[o] \in h.nodes /\ h.value[s[o]] \in h.cells /\ s[o] # NULL
      BY <1>1, <3>1 DEF IsAllocated
    <3>3. CASE k <= Len(s)
      <4>1. k \in 1..Len(s) /\ h.value[s[k]] = value /\ At(s, k) = s[k]
        BY <1>1, <1>3, <1>4, <3>3 DEF FirstIs
      <4>2. s[o] # s[k] /\ h.value[s[o]] # value
        BY <1>1, <3>1, <4>1 DEF NoRepeats, IsAllocated
      <4>. QED  BY <1>16, <3>1, <3>2, <3>3, <4>1, <4>2 DEF Frees
    <3>4. CASE ~(k <= Len(s))
      <4>1. At(s, k) = NULL
        BY <3>4 DEF At
      <4>. QED  BY <1>16, <3>1, <3>2, <3>4, <4>1 DEF Frees
    <3>. QED  BY <3>3, <3>4
  <2>2. ASSUME NEW i \in 1..Len(t), NEW j \in 1..Len(t), r.heap.value[t[i]] = r.heap.value[t[j]]
        PROVE  i = j
    <3>1. old(i) = old(j)
      <4>. DEFINE a == old(i)
                  b == old(j)
      <4>1. a \in 1..Len(s) /\ b \in 1..Len(s)
        BY <1>10
      <4>2. h.value[s[a]] = h.value[s[b]]
        BY <1>17, <2>2
      <4>. HIDE DEF a, b
      <4>3. a = b
        BY <4>1, <4>2 DEF IsAllocated
      <4>. QED  BY <4>3 DEF a, b
    <3>. QED  BY <1>18, <3>1
  <2>. QED  BY <2>1, <2>2 DEF IsAllocated
<1>20. [i \in 1..Len(t) |-> r.heap.value[t[i]]] = ws
  <2>1. ws = [i \in 1..Len(ws) |-> ws[i]]
    BY <1>9, LenProperties
  <2>2. \A i \in 1..Len(t) : ws[i] = r.heap.value[t[i]]
    BY <1>2, <1>9, <1>10, <1>12, <1>17
  <2>. QED  BY <1>12, <2>1, <2>2
<1>21. r.heap \in HeapType
  BY <1>16 DEF Frees
<1>. QED  BY <1>15, <1>19, <1>20, <1>21 DEF LeavesList, r, ws, vs

(* A new node in front makes a longer list.                                *)
LEMMA AdditionMakesList ==
  ASSUME HeapInv, NEW node \in Nodes, NEW cell \in Cells, AddActiveThread(node, cell),
         NEW s, IsList(heap, root, s), IsAllocated(heap, s)
  PROVE  LET t == <<node>> \o s IN
         /\ heap' \in HeapType /\ IsList(heap', root', t) /\ IsAllocated(heap', t)
         /\ [i \in 1..Len(t) |-> heap'.value[t[i]]]
              = AddFirst([i \in 1..Len(s) |-> heap.value[s[i]]], cell)
<1>. DEFINE t  == <<node>> \o s
            vs == [i \in 1..Len(s) |-> heap.value[s[i]]]
            ws == AddFirst(vs, cell)
<1>1. /\ node \notin heap.nodes /\ cell \notin heap.cells /\ root' = node
      /\ heap' = [heap EXCEPT !.next[node] = root, !.value[node] = cell,
                              !.nodes = @ \cup {node}, !.cells = @ \cup {cell}]
  BY DEF AddActiveThread
<1>2. PICK n, v, ns, cs : heap = [next |-> n, value |-> v, nodes |-> ns, cells |-> cs]
  BY DEF HeapInv, HeapType
<1>3. n \in [Nodes -> Nodes \cup {NULL}] /\ v \in [Nodes -> Cells \cup {NULL}]
      /\ ns \in SUBSET Nodes /\ cs \in SUBSET Cells
  BY <1>2 DEF HeapInv, HeapType
<1>4. heap' = [next |-> [n EXCEPT ![node] = root], value |-> [v EXCEPT ![node] = cell],
               nodes |-> ns \cup {node}, cells |-> cs \cup {cell}]
  BY <1>1, <1>2
<1>5. /\ Len(s) \in Nat /\ s \in Seq(Nodes) /\ root = At(s, 1)
      /\ \A i \in 1..Len(s) : s[i] \in Nodes /\ s[i] # NULL /\ heap.next[s[i]] = At(s, i + 1)
      /\ \A i \in 1..Len(s) : s[i] \in heap.nodes /\ heap.value[s[i]] \in heap.cells
  BY ListIs DEF IsAllocated
<1>6. root \in Nodes \cup {NULL}
  BY <1>5 DEF At
<1>7. heap' \in HeapType
  <2>1. [n EXCEPT ![node] = root] \in [Nodes -> Nodes \cup {NULL}]
    BY <1>3, <1>6
  <2>2. [v EXCEPT ![node] = cell] \in [Nodes -> Cells \cup {NULL}]
    BY <1>3
  <2>. QED  BY <1>3, <1>4, <2>1, <2>2 DEF HeapType
<1>8. \A m \in Nodes : /\ heap'.next[m] = IF m = node THEN root ELSE heap.next[m]
                       /\ heap'.value[m] = IF m = node THEN cell ELSE heap.value[m]
  BY <1>2, <1>3, <1>4
<1>9. heap'.nodes = heap.nodes \cup {node} /\ heap'.cells = heap.cells \cup {cell}
  BY <1>2, <1>4
<1>10. /\ t \in Seq(Nodes) /\ Len(t) = Len(s) + 1 /\ t[1] = node
       /\ \A i \in 1..Len(s) : t[i + 1] = s[i]
  <2>1. <<node>> \in Seq(Nodes) /\ Len(<<node>>) = 1 /\ <<node>>[1] = node
    OBVIOUS
  <2>2. /\ t \in Seq(Nodes) /\ Len(t) = 1 + Len(s)
        /\ \A i \in 1..1 + Len(s) : t[i] = IF i <= 1 THEN <<node>>[i] ELSE s[i - 1]
    BY <1>5, <2>1, ConcatProperties
  <2>. HIDE DEF t
  <2>. QED  BY <1>5, <2>1, <2>2
<1>11. vs \in Seq(Cells \cup {NULL}) /\ Len(vs) = Len(s) /\ \A i \in 1..Len(s) : vs[i] = heap.value[s[i]]
  <2>1. \A i \in 1..Len(s) : heap.value[s[i]] \in Cells \cup {NULL}
    BY <1>5 DEF HeapInv, HeapType
  <2>. QED  BY <1>5, <2>1, SeqDef, LenProperties
<1>12. /\ ws \in Seq(Cells \cup {NULL}) /\ Len(ws) = Len(s) + 1 /\ ws[1] = cell
       /\ \A i \in 1..Len(s) : ws[i + 1] = heap.value[s[i]]
  <2>1. <<cell>> \in Seq(Cells \cup {NULL}) /\ Len(<<cell>>) = 1 /\ <<cell>>[1] = cell
    OBVIOUS
  <2>. HIDE DEF vs
  <2>2. /\ ws \in Seq(Cells \cup {NULL}) /\ Len(ws) = 1 + Len(vs)
        /\ \A i \in 1..1 + Len(vs) : ws[i] = IF i <= 1 THEN <<cell>>[i] ELSE vs[i - 1]
    BY <1>11, <2>1, ConcatProperties DEF AddFirst
  <2>. HIDE DEF ws
  <2>. QED  BY <1>5, <1>11, <2>1, <2>2
<1>. HIDE DEF t, ws, vs
<1>13. \A i \in 1..Len(t) : i = 1 \/ (i - 1 \in 1..Len(s) /\ i = (i - 1) + 1 /\ t[i] = s[i - 1])
  BY <1>5, <1>10
<1>14. \A i \in 1..Len(s) : s[i] # node
  BY <1>1, <1>5
<1>15. NoRepeats(t)
  <2>. SUFFICES ASSUME NEW i \in 1..Len(t), NEW j \in 1..Len(t), t[i] = t[j]
                PROVE  i = j
    BY DEF NoRepeats
  <2>1. CASE i = 1 \/ j = 1
    BY <1>10, <1>13, <1>14, <2>1
  <2>2. CASE i # 1 /\ j # 1
    <3>1. i - 1 = j - 1
      <4>1. i - 1 \in 1..Len(s) /\ j - 1 \in 1..Len(s) /\ s[i - 1] = s[j - 1]
        BY <1>13, <2>2
      <4>. QED  BY <4>1, ListIs
    <3>. QED  BY <1>13, <2>2, <3>1
  <2>. QED  BY <2>1, <2>2
<1>16. \A i \in 1..Len(s) + 1 : At(t, i + 1) = At(s, i)
  BY <1>5, <1>10 DEF At
<1>17. IsList(heap', root', t)
  <2>1. root' = At(t, 1)
    BY <1>1, <1>5, <1>10 DEF At
  <2>2. ASSUME NEW i \in 1..Len(t)
        PROVE  heap'.next[t[i]] = At(t, i + 1)
    <3>1. CASE i = 1
      <4>1. At(t, i + 1) = At(s, 1)
        BY <1>5, <1>16, <3>1
      <4>. QED  BY <1>5, <1>8, <1>10, <3>1, <4>1
    <3>2. CASE i # 1
      <4>1. i - 1 \in 1..Len(s) /\ t[i] = s[i - 1] /\ (i - 1) + 1 = i
        BY <1>13, <3>2
      <4>2. heap'.next[t[i]] = At(s, (i - 1) + 1)
        BY <1>5, <1>8, <1>14, <4>1
      <4>3. At(t, i + 1) = At(s, i)
        BY <1>10, <1>16
      <4>. QED  BY <4>1, <4>2, <4>3
    <3>. QED  BY <3>1, <3>2
  <2>. QED  BY <1>10, <1>15, <2>1, <2>2 DEF IsList
<1>18. \A i \in 1..Len(s) : heap'.value[t[i + 1]] = heap.value[s[i]]
  BY <1>5, <1>8, <1>10, <1>14
<1>19. heap'.value[t[1]] = cell
  BY <1>8, <1>10
<1>20. IsAllocated(heap', t)
  <2>1. ASSUME NEW i \in 1..Len(t)
        PROVE  t[i] \in heap'.nodes /\ heap'.value[t[i]] \in heap'.cells
    <3>1. CASE i = 1
      BY <1>9, <1>10, <1>19, <3>1
    <3>2. CASE i # 1
      BY <1>5, <1>9, <1>13, <1>18, <3>2
    <3>. QED  BY <3>1, <3>2
  <2>2. ASSUME NEW i \in 1..Len(t), NEW j \in 1..Len(t), heap'.value[t[i]] = heap'.value[t[j]]
        PROVE  i = j
    <3>0. \A m \in 1..Len(s) : heap.value[s[m]] # cell
      BY <1>1, <1>5
    <3>3. \A m \in 1..Len(t) : m # 1 => /\ m - 1 \in 1..Len(s)
                                       /\ heap'.value[t[m]] = heap.value[s[m - 1]]
      <4>. SUFFICES ASSUME NEW m \in 1..Len(t), m # 1
                    PROVE  m - 1 \in 1..Len(s) /\ heap'.value[t[m]] = heap.value[s[m - 1]]
        OBVIOUS
      <4>1. m - 1 \in 1..Len(s) /\ m = (m - 1) + 1
        BY <1>13
      <4>2. heap'.value[t[(m - 1) + 1]] = heap.value[s[m - 1]]
        BY <1>18, <4>1
      <4>. QED  BY <4>1, <4>2
    <3>1. CASE i = 1 \/ j = 1
      BY <1>19, <2>2, <3>0, <3>1, <3>3
    <3>2. CASE i # 1 /\ j # 1
      <4>1. heap.value[s[i - 1]] = heap.value[s[j - 1]] /\ i - 1 \in 1..Len(s) /\ j - 1 \in 1..Len(s)
        BY <2>2, <3>2, <3>3
      <4>2. i - 1 = j - 1
        BY <4>1 DEF IsAllocated
      <4>. QED  BY <1>13, <3>2, <4>2
    <3>. QED  BY <3>1, <3>2
  <2>. QED  BY <2>1, <2>2 DEF IsAllocated
<1>21. [i \in 1..Len(t) |-> heap'.value[t[i]]] = ws
  <2>1. ws = [i \in 1..Len(ws) |-> ws[i]]
    BY <1>12, LenProperties
  <2>2. ASSUME NEW i \in 1..Len(t)
        PROVE  ws[i] = heap'.value[t[i]]
    <3>1. CASE i = 1
      BY <1>12, <1>19, <3>1
    <3>2. CASE i # 1
      <4>1. i - 1 \in 1..Len(s) /\ i = (i - 1) + 1
        BY <1>13, <3>2
      <4>2. ws[(i - 1) + 1] = heap.value[s[i - 1]] /\ heap'.value[t[(i - 1) + 1]] = heap.value[s[i - 1]]
        BY <1>12, <1>18, <4>1
      <4>. QED  BY <4>1, <4>2
    <3>. QED  BY <3>1, <3>2
  <2>. QED  BY <1>10, <1>12, <2>1, <2>2
<1>. QED  BY <1>7, <1>17, <1>20, <1>21 DEF t, ws, vs

(* What Reached and Chain are.                                             *)
LEMMA ChainIs ==
  ASSUME NEW s, IsList(heap, root, s)
  PROVE  Reached = [i \in 1..Len(s) |-> s[i]] /\ Chain = [i \in 1..Len(s) |-> heap.value[s[i]]]
<1>1. /\ Size(heap, root) = Len(s)
      /\ \A i \in 1..Len(s) : Walk(heap, root)[i - 1] = s[i]
  BY ReadsList
<1>2. Reached = [i \in 1..Len(s) |-> s[i]]
  BY <1>1 DEF Reached
<1>. QED  BY <1>1, <1>2 DEF Chain

(* ... and what they are after a step.                                     *)
LEMMA NextChainIs ==
  ASSUME NEW s, IsList(heap', root', s)
  PROVE  Chain' = [i \in 1..Len(s) |-> heap'.value[s[i]]]
<1>1. /\ Size(heap', root') = Len(s)
      /\ \A i \in 1..Len(s) : Walk(heap', root')[i - 1] = s[i]
  BY ReadsList
<1>2. Reached' = [i \in 1..Len(s) |-> s[i]]
  BY <1>1 DEF Reached
<1>. QED  BY <1>1, <1>2 DEF Chain

(* Initially the list is empty.                                            *)
LEMMA InitHeap == Init => HeapInv
<1>. SUFFICES ASSUME Init  PROVE HeapInv
  OBVIOUS
<1>1. heap \in HeapType
  BY DEF Init, HeapType
<1>2. IsList(heap, root, << >>) /\ IsAllocated(heap, << >>)
  BY DEF Init, IsList, IsAllocated, NoRepeats, At
<1>. QED  BY <1>1, <1>2 DEF HeapInv

(* One addition, on the list there is ...                                  *)
LEMMA AddComputes ==
  ASSUME HeapInv, NEW node \in Nodes, NEW cell \in Cells, AddActiveThread(node, cell)
  PROVE  HeapInv' /\ Chain' = AddFirst(Chain, cell)
<1>1. PICK s : IsList(heap, root, s) /\ IsAllocated(heap, s)
  BY DEF HeapInv
<1>2. PICK t : /\ heap' \in HeapType /\ IsList(heap', root', t) /\ IsAllocated(heap', t)
               /\ [i \in 1..Len(t) |-> heap'.value[t[i]]]
                    = AddFirst([i \in 1..Len(s) |-> heap.value[s[i]]], cell)
  <2>1. LET u == <<node>> \o s IN
        /\ heap' \in HeapType /\ IsList(heap', root', u) /\ IsAllocated(heap', u)
        /\ [i \in 1..Len(u) |-> heap'.value[u[i]]]
             = AddFirst([i \in 1..Len(s) |-> heap.value[s[i]]], cell)
    BY <1>1, AdditionMakesList
  <2>. QED  BY <2>1, Zenon
<1>3. Chain = [i \in 1..Len(s) |-> heap.value[s[i]]]
  BY <1>1, ChainIs
<1>4. Chain' = [i \in 1..Len(t) |-> heap'.value[t[i]]]
  BY <1>2, NextChainIs
<1>. QED  BY <1>2, <1>3, <1>4 DEF HeapInv

(* ... and one removal.                                                    *)
LEMMA RemoveComputes ==
  ASSUME HeapInv, NEW cell \in Cells, RemoveActiveThread(cell)
  PROVE  HeapInv' /\ Chain' = RemoveLinkedListNode(Chain, cell)
<1>1. PICK s : IsList(heap, root, s) /\ IsAllocated(heap, s)
  BY DEF HeapInv
<1>. DEFINE r == RemoveNode(heap, root, cell)
<1>2. heap' = r.heap /\ root' = r.node
  BY DEF RemoveActiveThread
<1>3. cell # NULL /\ heap \in HeapType
  BY HeapAssumption DEF HeapInv
<1>4. LeavesList(heap, r, s, cell)
  BY <1>1, <1>3, RemovalLeavesList
<1>5. PICK t : /\ IsList(r.heap, r.node, t) /\ IsAllocated(r.heap, t)
               /\ [i \in 1..Len(t) |-> r.heap.value[t[i]]]
                    = RemoveLinkedListNode([i \in 1..Len(s) |-> heap.value[s[i]]], cell)
  BY <1>4, Zenon DEF LeavesList
<1>. HIDE DEF r
<1>6. Chain = [i \in 1..Len(s) |-> heap.value[s[i]]]
  BY <1>1, ChainIs
<1>7. Chain' = [i \in 1..Len(t) |-> heap'.value[t[i]]]
  BY <1>2, <1>5, NextChainIs
<1>8. HeapInv'
  BY <1>2, <1>4, <1>5 DEF HeapInv, LeavesList
<1>. QED  BY <1>2, <1>5, <1>6, <1>7, <1>8

-----------------------------------------------------------------------------
(* Theorems                                                                *)

(* The inductive invariant: from the root the pointers lead through nodes  *)
(* that are allocated, each once, to NULL, and each holds an allocated     *)
(* cell of its own.                                                        *)
THEOREM HeapHoldsList == Spec => []HeapInv
<1>1. HeapInv /\ [Next]_vars => HeapInv'
  <2>. SUFFICES ASSUME HeapInv, [Next]_vars  PROVE HeapInv'
    OBVIOUS
  <2>1. CASE UNCHANGED vars
    BY <2>1 DEF vars, HeapInv
  <2>. QED  BY <2>1, AddComputes, RemoveComputes DEF Next, Exhausted
<1>. QED  BY <1>1, InitHeap, PTL DEF Spec

(* No removal, from the head, the second node or deeper, of a value that   *)
(* is there or not, leaves freed memory or a cycle behind.                 *)
THEOREM ListIsSafe == Spec => []NothingFreedIsReached
<1>1. HeapInv => NothingFreedIsReached
  <2>. SUFFICES ASSUME HeapInv  PROVE NothingFreedIsReached
    OBVIOUS
  <2>1. PICK s : IsList(heap, root, s) /\ IsAllocated(heap, s)
    BY DEF HeapInv
  <2>2. /\ Reached = [i \in 1..Len(s) |-> s[i]]
        /\ Chain = [i \in 1..Len(s) |-> heap.value[s[i]]]
    BY <2>1, ChainIs
  <2>3. Len(s) \in Nat /\ Len(s) <= Cardinality(Nodes)
    BY <2>1, ListsAreFinite, ListIs DEF IsList
  <2>4. DOMAIN Reached = 1..Len(s)
    BY <2>2
  <2>5. Reached \in Seq(Nodes)
    BY <2>1, <2>2, <2>3, ListIs, SeqDef
  <2>6. Len(Reached) = Len(s)
    BY <2>3, <2>4, <2>5, LenProperties
  <2>7. \A i \in DOMAIN Reached : Reached[i] \in heap.nodes /\ Chain[i] \in heap.cells
    BY <2>1, <2>2, <2>4 DEF IsAllocated
  <2>. QED  BY <2>3, <2>6, <2>7 DEF NothingFreedIsReached
<1>. QED  BY <1>1, HeapHoldsList, PTL

(* The pointer operations compute the operators of LinkedList: what the    *)
(* model of the threads assumes of the list is what linkedlist.c does.     *)
THEOREM PointersComputeSequence == Spec => ComputesSequence
<1>1. HeapInv => /\ \A node \in Nodes, cell \in Cells :
                      AddActiveThread(node, cell) => Chain' = AddFirst(Chain, cell)
                 /\ \A cell \in Cells :
                      RemoveActiveThread(cell) => Chain' = RemoveLinkedListNode(Chain, cell)
  BY AddComputes, RemoveComputes
<1>. QED  BY <1>1, HeapHoldsList, PTL DEF ComputesSequence

=============================================================================
