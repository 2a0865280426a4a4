------------------------ MODULE ImageRequests_proofs ------------------------
(***************************************************************************)
(* What strtok and the argument trees return for every string and every    *)
(* tree, and from it, for any number of connections: strtok's pointer      *)
(* never leaves a string, a handler gets the arguments of its own client   *)
(* unless another strtok came in between, and the answers to requests for  *)
(* images are true.                                                        *)
(***************************************************************************)
EXTENDS ImageRequests, SequenceTheorems, WellFoundedInduction, FiniteSetTheorems, TLAPS

-----------------------------------------------------------------------------
(* Strings                                                                 *)

(* Every non-empty set of naturals has a smallest element.                 *)
LEMMA LeastNatural ==
  ASSUME NEW T, T \subseteq Nat, T # {}
  PROVE  \E m \in T : \A n \in T : m <= n
<1>1. \E m \in T : \A n \in T : ~(<<n, m>> \in OpToRel(<, Nat))
  BY NatLessThanWellFounded, WFMin
<1>2. \E m \in T : \A n \in T : ~(n < m)
  BY <1>1, Zenon DEF OpToRel
<1>3. QED
  BY <1>2

CString(s) == s \in Seq(Int) /\ Len(s) > 0 /\ s[Len(s)] = Nul

(* NextAt finds the first unit from i on that is in a set, if there is one.*)
LEMMA NextAtIsFirst ==
  ASSUME NEW s \in Seq(Int), NEW i \in Nat \ {0}, NEW stop,
         NEW e \in i..Len(s), s[e] \in stop
  PROVE  /\ NextAt(s, i, stop) \in i..e
         /\ s[NextAt(s, i, stop)] \in stop
         /\ \A k \in i..NextAt(s, i, stop) - 1 : s[k] \notin stop
<1>. DEFINE T == {j \in i..Len(s) : s[j] \in stop}
<1>1. Len(s) \in Nat
  BY LenProperties
<1>2. T \subseteq Nat /\ e \in T
  BY <1>1
<1>3. PICK m \in T : \A n \in T : m <= n
  <2>. HIDE DEF T
  <2>. QED  BY <1>2, LeastNatural
<1>4. m \in i..Len(s) /\ s[m] \in stop /\ \A k \in i..m - 1 : s[k] \notin stop
  BY <1>1, <1>3
<1>5. /\ NextAt(s, i, stop) \in i..Len(s)
      /\ s[NextAt(s, i, stop)] \in stop
      /\ \A k \in i..NextAt(s, i, stop) - 1 : s[k] \notin stop
  <2>. DEFINE First(j) == s[j] \in stop /\ \A k \in i..j - 1 : s[k] \notin stop
  <2>1. First(m) /\ m \in i..Len(s)
    BY <1>4
  <2>2. NextAt(s, i, stop) = CHOOSE j \in i..Len(s) : First(j)
    BY DEF NextAt
  <2>. HIDE DEF First
  <2>3. NextAt(s, i, stop) \in i..Len(s) /\ First(NextAt(s, i, stop))
    BY <2>1, <2>2, ZenonT(40)
  <2>4. QED
    BY <2>3 DEF First
<1>6. \A n \in i..Len(s) : e \notin i..n - 1 => n \in i..e
  BY <1>1
<1>7. e \notin i..NextAt(s, i, stop) - 1
  BY <1>5
<1>8. QED
  BY <1>5, <1>6, <1>7

(* ... and nothing else is that.                                           *)
LEMMA NextAtIs ==
  ASSUME NEW s \in Seq(Int), NEW i \in Nat \ {0}, NEW stop,
         NEW e \in i..Len(s), s[e] \in stop, \A k \in i..e - 1 : s[k] \notin stop
  PROVE  NextAt(s, i, stop) = e
<1>1. Len(s) \in Nat
  BY LenProperties
<1>2. NextAt(s, i, stop) \in i..e /\ s[NextAt(s, i, stop)] \in stop
  BY NextAtIsFirst
<1>3. QED
  BY <1>1, <1>2

(* strtok stays inside the string, leaves a string of the same length, and *)
(* from where it goes on nothing has changed.                              *)
LEMMA TokenStaysInside ==
  ASSUME NEW s, CString(s), NEW i \in 1..Len(s), NEW delims, Nul \notin delims
  PROVE  LET token == Token(s, i, delims) IN
         /\ token.start = None \/ token.start \in i..Len(s)
         /\ CString(token.left) /\ Len(token.left) = Len(s)
         /\ token.next \in i..Len(s)
         /\ \A k \in token.next..Len(s) : token.left[k] = s[k]
<1>. DEFINE Starts(j) == s[j] \notin delims /\ \A k \in i..j - 1 : s[k] \in delims
            start == CHOOSE j \in i..Len(s) : Starts(j)
            stop  == NextAt(s, start, delims \cup {Nul})
            T == {j \in i..Len(s) : s[j] \notin delims}
<1>1. Len(s) \in Nat /\ s \in Seq(Int) /\ Len(s) > 0 /\ s[Len(s)] = Nul
  BY LenProperties DEF CString
<1>2. T \subseteq Nat /\ Len(s) \in T
  BY <1>1
<1>3. PICK m \in T : \A n \in T : m <= n
  <2>. HIDE DEF T
  <2>. QED  BY <1>2, LeastNatural
<1>4. m \in i..Len(s) /\ Starts(m)
  BY <1>1, <1>3
<1>5. start \in i..Len(s) /\ Starts(start)
  <2>1. \E j \in i..Len(s) : Starts(j)
    BY <1>4
  <2>2. QED
    BY <2>1, Zenon
<1>. HIDE DEF T, Starts, start
<1>6. start \in Nat \ {0} /\ Len(s) \in start..Len(s) /\ s[Len(s)] \in delims \cup {Nul}
  BY <1>1, <1>5
<1>7. stop \in start..Len(s) /\ s[stop] \in delims \cup {Nul}
  BY <1>1, <1>6, NextAtIsFirst
<1>. HIDE DEF stop
<1>. DEFINE left == [s EXCEPT ![stop] = Nul]
<1>8. left \in Seq(Int) /\ Len(left) = Len(s) /\ \A k \in 1..Len(s) : left[k] = IF k = stop THEN Nul ELSE s[k]
  <2>1. stop \in 1..Len(s) /\ Nul \in Int
    BY <1>1, <1>5, <1>7 DEF Nul
  <2>2. QED
    BY <1>1, <2>1, ExceptSeq
<1>9. CString(left)
  BY <1>1, <1>8 DEF CString
<1>10. CASE s[start] = Nul
  <2>1. Token(s, i, delims) = [start |-> None, left |-> s, next |-> start]
    BY <1>10 DEF Token, start, Starts
  <2>2. QED
    BY <1>1, <1>5, <2>1
<1>11. CASE s[start] # Nul
  <2>1. Token(s, i, delims) = [start |-> start, left |-> left,
                               next |-> IF s[stop] = Nul THEN stop ELSE stop + 1]
    BY <1>11 DEF Token, start, Starts, stop
  <2>2. s[stop] # Nul => stop # Len(s)
    BY <1>1
  <2>. DEFINE next == IF s[stop] = Nul THEN stop ELSE stop + 1
  <2>3. next \in i..Len(s) /\ \A k \in next..Len(s) : left[k] = s[k]
    <3>. HIDE DEF left
    <3>1. start \in 1..Len(s) /\ stop \in 1..Len(s) /\ i <= stop
      BY <1>1, <1>5, <1>7
    <3>2. CASE s[stop] = Nul
      <4>1. next = stop
        BY <3>2
      <4>. HIDE DEF next
      <4>2. next \in i..Len(s)
        BY <1>1, <3>1, <4>1
      <4>3. ASSUME NEW k \in next..Len(s)
            PROVE  left[k] = s[k]
        <5>1. k \in 1..Len(s)
          BY <1>1, <3>1, <4>1
        <5>2. left[k] = IF k = stop THEN Nul ELSE s[k]
          BY <1>8, <5>1
        <5>3. QED
          BY <3>2, <5>2
      <4>4. QED
        BY <4>2, <4>3
    <3>3. CASE s[stop] # Nul
      <4>1. next = stop + 1 /\ stop # Len(s)
        BY <2>2, <3>3
      <4>. HIDE DEF next
      <4>2. next \in i..Len(s)
        BY <1>1, <3>1, <4>1
      <4>3. ASSUME NEW k \in next..Len(s)
            PROVE  left[k] = s[k]
        <5>1. k \in 1..Len(s) /\ k # stop
          BY <1>1, <3>1, <4>1
        <5>2. left[k] = IF k = stop THEN Nul ELSE s[k]
          BY <1>8, <5>1
        <5>3. QED
          BY <5>1, <5>2
      <4>4. QED
        BY <4>2, <4>3
    <3>4. QED
      BY <3>2, <3>3
  <2>. HIDE DEF left, next
  <2>4. Token(s, i, delims) = [start |-> start, left |-> left, next |-> next]
    BY <2>1 DEF next
  <2>5. QED
    BY <1>5, <1>8, <1>9, <2>3, <2>4
<1>12. QED
  BY <1>10, <1>11

(* A token that starts right here and ends at e.                           *)
LEMMA TokenIs ==
  ASSUME NEW s \in Seq(Int), NEW i \in 1..Len(s), NEW delims, Nul \notin delims,
         NEW e \in i + 1..Len(s), s[e] \in delims \cup {Nul},
         \A k \in i..e - 1 : s[k] \notin delims \cup {Nul}
  PROVE  Token(s, i, delims) = [start |-> i, left |-> [s EXCEPT ![e] = Nul],
                                next  |-> IF s[e] = Nul THEN e ELSE e + 1]
<1>. DEFINE Starts(j) == s[j] \notin delims /\ \A k \in i..j - 1 : s[k] \in delims
<1>1. Len(s) \in Nat
  BY LenProperties
<1>2. Starts(i) /\ s[i] # Nul /\ i \in i..Len(s)
  BY <1>1
<1>3. \A j \in i..Len(s) : Starts(j) => j = i
  BY <1>1, <1>2
<1>4. (CHOOSE j \in i..Len(s) : Starts(j)) = i
  <2>. HIDE DEF Starts
  <2>. QED  BY <1>2, <1>3, Zenon
<1>5. NextAt(s, i, delims \cup {Nul}) = e
  <2>. DEFINE stop == delims \cup {Nul}
  <2>1. i \in Nat \ {0} /\ e \in i..Len(s) /\ s[e] \in stop /\ \A k \in i..e - 1 : s[k] \notin stop
    BY <1>1
  <2>. HIDE DEF stop
  <2>2. NextAt(s, i, stop) = e
    BY <2>1, NextAtIs
  <2>3. QED
    BY <2>2 DEF stop
<1>6. QED
  BY <1>2, <1>4, <1>5 DEF Token

(* At the end of the string there is no token.                             *)
LEMMA NoTokenAtEnd ==
  ASSUME NEW s \in Seq(Int), NEW i \in 1..Len(s), NEW delims, Nul \notin delims, s[i] = Nul
  PROVE  Token(s, i, delims) = [start |-> None, left |-> s, next |-> i]
<1>. DEFINE Starts(j) == s[j] \notin delims /\ \A k \in i..j - 1 : s[k] \in delims
<1>1. Len(s) \in Nat
  BY LenProperties
<1>2. Starts(i) /\ i \in i..Len(s)
  BY <1>1
<1>3. \A j \in i..Len(s) : Starts(j) => j = i
  BY <1>1, <1>2
<1>4. (CHOOSE j \in i..Len(s) : Starts(j)) = i
  <2>. HIDE DEF Starts
  <2>. QED  BY <1>2, <1>3, Zenon
<1>5. QED
  BY <1>4 DEF Token

-----------------------------------------------------------------------------
(* Search trees                                                            *)

Turns == {"left", "right"}

(* Every strict prefix of p is a node that has another key than k and      *)
(* sends k the way p takes.                                                *)
LeadsFor(tree, k, p) ==
  \A n \in 0..Len(p) - 1 :
    LET q == SubSeq(p, 1, n) IN
    q \in DOMAIN tree /\ tree[q].key # k /\ p[n + 1] = Side(tree[q].key, k)

IsPlace(tree, k, p) == (p \in DOMAIN tree => tree[p].key = k) /\ LeadsFor(tree, k, p)

(* The trees that AddNode builds: every node but the root hangs on another *)
(* one, and every key has a place.                                         *)
Tree(tree) ==
  /\ IsFiniteSet(DOMAIN tree) /\ DOMAIN tree \subseteq Seq(Turns)
  /\ \A p \in Seq(Turns), d \in Turns : Append(p, d) \in DOMAIN tree => p \in DOMAIN tree
  /\ \A k \in Int : \E p \in Paths(tree) : IsPlace(tree, k, p)
  /\ \A p \in DOMAIN tree : tree[p].key \in Int /\ tree[p].value # None

(* The paths that SearchTree and its callers range over are those no       *)
(* longer than the tree is large.                                          *)
LEMMA PathsAreShort ==
  ASSUME NEW tree, IsFiniteSet(DOMAIN tree)
  PROVE  \A p : p \in Paths(tree) <=> p \in Seq(Turns) /\ Len(p) <= Cardinality(DOMAIN tree)
<1>. DEFINE c == Cardinality(DOMAIN tree)
<1>1. c \in Nat
  BY FS_CardinalityType
<1>. HIDE DEF c
<1>2. Paths(tree) = UNION {[1..n -> Turns] : n \in 0..c}
  BY DEF Paths, Turns, c
<1>3. ASSUME NEW p \in Paths(tree)
      PROVE  p \in Seq(Turns) /\ Len(p) <= c
  <2>1. PICK n \in 0..c : p \in [1..n -> Turns]
    BY <1>2
  <2>2. n \in Nat /\ p \in Seq(Turns)
    BY <1>1, <2>1, SeqDef
  <2>3. DOMAIN p = 1..n /\ DOMAIN p = 1..Len(p) /\ Len(p) \in Nat
    BY <2>1, <2>2, LenProperties
  <2>4. Len(p) = n
    BY <2>2, <2>3
  <2>5. QED
    BY <1>1, <2>2, <2>4
<1>4. ASSUME NEW p \in Seq(Turns), Len(p) <= c
      PROVE  p \in Paths(tree)
  <2>1. Len(p) \in 0..c /\ p \in [1..Len(p) -> Turns]
    BY <1>1, <1>4, LenProperties
  <2>2. QED
    BY <1>2, <2>1
<1>5. QED
  BY <1>3, <1>4 DEF c

(* The first turns of a path are a path.                                   *)
LEMMA PrefixOf ==
  ASSUME NEW p \in Seq(Turns), NEW n \in 0..Len(p)
  PROVE  /\ SubSeq(p, 1, n) \in Seq(Turns) /\ Len(SubSeq(p, 1, n)) = n
         /\ \A i \in 1..n : SubSeq(p, 1, n)[i] = p[i]
<1>1. Len(p) \in Nat /\ \A i \in 1..Len(p) : p[i] \in Turns
  BY LenProperties, ElementOfSeq
<1>2. n \in Int /\ 1 \in Int /\ \A i \in 1..n : p[i] \in Turns
  BY <1>1
<1>3. /\ SubSeq(p, 1, n) \in Seq(Turns)
      /\ Len(SubSeq(p, 1, n)) = IF 1 <= n THEN n - 1 + 1 ELSE 0
      /\ \A i \in 1..n - 1 + 1 : SubSeq(p, 1, n)[i] = p[1 + i - 1]
  BY <1>2, SubSeqProperties
<1>4. n - 1 + 1 = n /\ \A i \in 1..n : 1 + i - 1 = i
  BY <1>1
<1>5. QED
  BY <1>1, <1>3, <1>4

(* Two places of a key cannot part, and neither can be longer.             *)
LEMMA PlacesShareTurns ==
  ASSUME NEW tree, NEW k, NEW p \in Seq(Turns), NEW o \in Seq(Turns),
         LeadsFor(tree, k, p), LeadsFor(tree, k, o), Len(p) <= Len(o)
  PROVE  \A i \in 1..Len(p) : p[i] = o[i]
<1>. DEFINE T == {i \in 1..Len(p) : p[i] # o[i]}
<1>1. Len(p) \in Nat /\ Len(o) \in Nat
  BY LenProperties
<1>2. SUFFICES ASSUME T # {} PROVE FALSE
  OBVIOUS
<1>3. T \subseteq Nat
  BY <1>1
<1>4. PICK m \in T : \A n \in T : m <= n
  <2>. HIDE DEF T
  <2>. QED  BY <1>2, <1>3, LeastNatural
<1>5. m \in 1..Len(p) /\ m \in 1..Len(o) /\ p[m] # o[m]
      /\ m - 1 \in 0..Len(p) /\ m - 1 \in 0..Len(o)
      /\ m - 1 \in 0..Len(p) - 1 /\ m - 1 \in 0..Len(o) - 1 /\ (m - 1) + 1 = m
  BY <1>1, <1>4
<1>6. \A i \in 1..m - 1 : p[i] = o[i]
  BY <1>1, <1>4, <1>5
<1>. HIDE DEF T
<1>7. SubSeq(p, 1, m - 1) = SubSeq(o, 1, m - 1)
  <2>. DEFINE n == m - 1
  <2>1. n \in 0..Len(p) /\ n \in 0..Len(o) /\ \A i \in 1..n : p[i] = o[i]
    BY <1>5, <1>6
  <2>. HIDE DEF n
  <2>2. /\ SubSeq(p, 1, n) \in Seq(Turns) /\ Len(SubSeq(p, 1, n)) = n
        /\ SubSeq(o, 1, n) \in Seq(Turns) /\ Len(SubSeq(o, 1, n)) = n
        /\ \A i \in 1..n : SubSeq(p, 1, n)[i] = SubSeq(o, 1, n)[i]
    BY <2>1, PrefixOf
  <2>3. SubSeq(p, 1, n) = SubSeq(o, 1, n)
    BY <2>2, SeqEqual
  <2>4. QED
    BY <2>3 DEF n
<1>8. /\ p[m] = Side(tree[SubSeq(p, 1, m - 1)].key, k)
      /\ o[m] = Side(tree[SubSeq(o, 1, m - 1)].key, k)
  BY <1>5 DEF LeadsFor
<1>9. QED
  BY <1>5, <1>7, <1>8

(* A path that leads towards k never runs past the place of k.             *)
LEMMA PlaceIsNotLonger ==
  ASSUME NEW tree, NEW k, NEW p \in Seq(Turns), NEW o \in Seq(Turns),
         IsPlace(tree, k, p), LeadsFor(tree, k, o)
  PROVE  ~(Len(p) < Len(o))
<1>1. SUFFICES ASSUME Len(p) < Len(o) PROVE FALSE
  OBVIOUS
<1>2. Len(p) \in Nat /\ Len(o) \in Nat /\ Len(p) \in 0..Len(o) /\ Len(p) \in 0..Len(o) - 1
      /\ Len(p) <= Len(o)
  BY <1>1, LenProperties
<1>3. \A i \in 1..Len(p) : p[i] = o[i]
  BY <1>2, PlacesShareTurns DEF IsPlace
<1>4. SubSeq(o, 1, Len(p)) = p
  <2>1. /\ SubSeq(o, 1, Len(p)) \in Seq(Turns) /\ Len(SubSeq(o, 1, Len(p))) = Len(p)
        /\ \A i \in 1..Len(p) : SubSeq(o, 1, Len(p))[i] = o[i]
    BY <1>2, PrefixOf
  <2>2. QED
    BY <1>3, <2>1, SeqEqual
<1>5. SubSeq(o, 1, Len(p)) \in DOMAIN tree /\ tree[SubSeq(o, 1, Len(p))].key # k
  BY <1>2 DEF LeadsFor
<1>6. QED
  BY <1>4, <1>5 DEF IsPlace

(* A key has one place.                                                    *)
LEMMA OnePlace ==
  ASSUME NEW tree, NEW k, NEW p \in Seq(Turns), NEW o \in Seq(Turns),
         IsPlace(tree, k, p), IsPlace(tree, k, o)
  PROVE  p = o
<1>1. Len(p) \in Nat /\ Len(o) \in Nat
  BY LenProperties
<1>2. ~(Len(p) < Len(o)) /\ ~(Len(o) < Len(p))
  BY PlaceIsNotLonger DEF IsPlace
<1>3. Len(p) = Len(o)
  BY <1>1, <1>2
<1>4. \A i \in 1..Len(p) : p[i] = o[i]
  BY <1>1, <1>3, PlacesShareTurns DEF IsPlace
<1>5. QED
  BY <1>3, <1>4, SeqEqual

(* ... and that is where the code goes.                                    *)
LEMMA PlaceIsPlace ==
  ASSUME NEW tree, Tree(tree), NEW k \in Int
  PROVE  /\ Place(tree, k) \in Paths(tree) /\ Place(tree, k) \in Seq(Turns)
         /\ IsPlace(tree, k, Place(tree, k))
         /\ \A p \in Seq(Turns) : IsPlace(tree, k, p) => p = Place(tree, k)
<1>1. Place(tree, k) = CHOOSE p \in Paths(tree) : IsPlace(tree, k, p)
  BY DEF Place, IsPlace, LeadsFor
<1>2. \E p \in Paths(tree) : IsPlace(tree, k, p)
  BY DEF Tree
<1>3. Place(tree, k) \in Paths(tree) /\ IsPlace(tree, k, Place(tree, k))
  BY <1>1, <1>2, Zenon
<1>4. Place(tree, k) \in Seq(Turns)
  BY <1>3, PathsAreShort DEF Tree
<1>5. QED
  BY <1>3, <1>4, OnePlace

(* The tree before the first argument, in which nothing is found.          *)
LEMMA EmptyTree ==
  Tree(Empty) /\ \A k \in Int : SearchTree(Empty, k) = None
<1>1. DOMAIN Empty = {}
  BY DEF Empty
<1>2. IsFiniteSet(DOMAIN Empty) /\ Cardinality(DOMAIN Empty) = 0
  BY <1>1, FS_EmptySet
<1>3. << >> \in Paths(Empty)
  <2>1. << >> \in Seq(Turns) /\ Len(<< >>) <= Cardinality(DOMAIN Empty)
    BY <1>2, EmptySeq
  <2>2. QED
    BY <1>2, <2>1, PathsAreShort
<1>4. \A k : IsPlace(Empty, k, << >>)
  BY <1>1, EmptySeq DEF IsPlace, LeadsFor
<1>5. Tree(Empty)
  BY <1>1, <1>2, <1>3, <1>4 DEF Tree
<1>6. QED
  BY <1>1, <1>5 DEF SearchTree

(* One turn after a place that holds no node yet.                          *)
LEMMA LeadsOn ==
  ASSUME NEW tree, NEW k, NEW p \in Seq(Turns), NEW o,
         LeadsFor(tree, o, p), p \in DOMAIN tree, tree[p].key = k, k # o
  PROVE  LET e == Append(p, Side(k, o)) IN
         e \in Seq(Turns) /\ Len(e) = Len(p) + 1 /\ LeadsFor(tree, o, e)
<1>. DEFINE d == Side(k, o)
            e == Append(p, d)
<1>1. d \in Turns
  BY DEF Side, Turns
<1>. HIDE DEF d
<1>2. /\ Len(p) \in Nat /\ e \in Seq(Turns) /\ Len(e) = Len(p) + 1
      /\ e[Len(p) + 1] = d /\ \A i \in 1..Len(p) : e[i] = p[i]
  BY <1>1, AppendProperties, LenProperties
<1>. HIDE DEF e
<1>3. ASSUME NEW n \in 0..Len(p)
      PROVE  SubSeq(e, 1, n) = SubSeq(p, 1, n)
  <2>1. n \in 0..Len(e) /\ \A i \in 1..n : e[i] = p[i]
    BY <1>2
  <2>2. /\ SubSeq(p, 1, n) \in Seq(Turns) /\ Len(SubSeq(p, 1, n)) = n
        /\ SubSeq(e, 1, n) \in Seq(Turns) /\ Len(SubSeq(e, 1, n)) = n
        /\ \A i \in 1..n : SubSeq(e, 1, n)[i] = SubSeq(p, 1, n)[i]
    BY <1>2, <2>1, PrefixOf
  <2>3. QED
    BY <2>2, SeqEqual
<1>4. SubSeq(p, 1, Len(p)) = p
  BY SubSeqFull
<1>5. ASSUME NEW n \in 0..Len(e) - 1
      PROVE  /\ SubSeq(e, 1, n) \in DOMAIN tree /\ tree[SubSeq(e, 1, n)].key # o
             /\ e[n + 1] = Side(tree[SubSeq(e, 1, n)].key, o)
  <2>1. n \in 0..Len(p)
    BY <1>2
  <2>2. CASE n = Len(p)
    BY <1>2, <1>3, <1>4, <2>1, <2>2 DEF d
  <2>3. CASE n # Len(p)
    <3>1. n \in 0..Len(p) - 1 /\ n + 1 \in 1..Len(p)
      BY <1>2, <2>1, <2>3
    <3>2. /\ SubSeq(p, 1, n) \in DOMAIN tree /\ tree[SubSeq(p, 1, n)].key # o
          /\ p[n + 1] = Side(tree[SubSeq(p, 1, n)].key, o)
      BY <3>1 DEF LeadsFor
    <3>3. QED
      BY <1>2, <1>3, <2>1, <3>1, <3>2
  <2>4. QED
    BY <2>2, <2>3
<1>6. LeadsFor(tree, o, e)
  BY <1>5 DEF LeadsFor
<1>7. QED
  BY <1>2, <1>6 DEF e, d

(* Where a key o is in the tree that has got the key k.                    *)
LEMMA PlaceAfterAdding ==
  ASSUME NEW tree, Tree(tree), NEW k \in Int, NEW v, NEW o \in Int
  PROVE  LET more == AddNode(tree, k, v)
             here == Place(tree, o)
         IN  \/ (here = Place(tree, k) => here \in DOMAIN tree \/ o = k) /\ IsPlace(more, o, here)
             \/ /\ here = Place(tree, k) /\ here \notin DOMAIN tree /\ o # k
                /\ \E e \in Seq(Turns) : /\ e \notin DOMAIN more /\ Len(e) = Len(here) + 1
                                         /\ IsPlace(more, o, e)
<1>. DEFINE spot == Place(tree, k)
            here == Place(tree, o)
            more == AddNode(tree, k, v)
<1>1. /\ spot \in Seq(Turns) /\ IsPlace(tree, k, spot)
      /\ here \in Seq(Turns) /\ IsPlace(tree, o, here)
  BY PlaceIsPlace
<1>2. /\ DOMAIN more = DOMAIN tree \cup {spot}
      /\ \A p \in DOMAIN tree : more[p] = tree[p]
      /\ spot \notin DOMAIN tree => more[spot].key = k
  BY DEF AddNode
<1>. HIDE DEF spot, here, more
<1>3. LeadsFor(more, o, here)
  BY <1>1, <1>2 DEF IsPlace, LeadsFor
<1>4. CASE here = spot => here \in DOMAIN tree \/ o = k
  <2>1. IsPlace(more, o, here)
    BY <1>1, <1>2, <1>3, <1>4 DEF IsPlace
  <2>2. QED
    BY <1>4, <2>1 DEF spot, here, more
<1>5. CASE here = spot /\ here \notin DOMAIN tree /\ o # k
  <2>. DEFINE e == Append(here, Side(k, o))
  <2>1. e \in Seq(Turns) /\ Len(e) = Len(here) + 1 /\ LeadsFor(more, o, e)
    BY <1>1, <1>2, <1>3, <1>5, LeadsOn
  <2>2. e \notin DOMAIN tree
    <3>1. Side(k, o) \in Turns
      BY DEF Side, Turns
    <3>2. QED
      BY <1>1, <1>5, <3>1 DEF Tree
  <2>3. e # spot
    <3>1. Len(here) \in Nat
      BY <1>1, LenProperties
    <3>. HIDE DEF e
    <3>2. QED
      BY <1>5, <2>1, <3>1
  <2>. HIDE DEF e
  <2>4. e \notin DOMAIN more /\ IsPlace(more, o, e)
    BY <1>2, <2>1, <2>2, <2>3 DEF IsPlace
  <2>5. QED
    BY <1>5, <2>1, <2>4 DEF spot, here, more
<1>6. QED
  BY <1>4, <1>5

(* A tree that has got a key is a tree; it finds the key, with its first   *)
(* value, and every other key as before.                                   *)
LEMMA AddNodeAdds ==
  ASSUME NEW tree, Tree(tree), NEW k \in Int, NEW v, v # None
  PROVE  LET more == AddNode(tree, k, v) IN
         /\ Tree(more) /\ more # Empty
         /\ \A o \in Int : SearchTree(more, o) = IF o = k /\ SearchTree(tree, k) = None
                                                 THEN v ELSE SearchTree(tree, o)
<1>. DEFINE spot == Place(tree, k)
            more == AddNode(tree, k, v)
            c == Cardinality(DOMAIN tree)
            d == Cardinality(DOMAIN more)
<1>1. spot \in Seq(Turns) /\ Len(spot) \in Nat /\ IsPlace(tree, k, spot)
  BY PlaceIsPlace, LenProperties
<1>2. /\ DOMAIN more = DOMAIN tree \cup {spot}
      /\ \A p \in DOMAIN tree : more[p] = tree[p]
      /\ spot \notin DOMAIN tree => more[spot].key = k /\ more[spot].value = v
  BY DEF AddNode
<1>3. IsFiniteSet(DOMAIN tree) /\ c \in Nat
  BY FS_CardinalityType DEF Tree
<1>4. IsFiniteSet(DOMAIN more) /\ d = IF spot \in DOMAIN tree THEN c ELSE c + 1
  BY <1>2, <1>3, FS_AddElement
<1>. HIDE DEF c, d
<1>5. ASSUME NEW p \in Seq(Turns), NEW turn \in Turns, Append(p, turn) \in DOMAIN more
      PROVE  p \in DOMAIN more
  <2>1. CASE Append(p, turn) \in DOMAIN tree
    BY <1>2, <2>1 DEF Tree
  <2>2. CASE Append(p, turn) = spot
    <3>. DEFINE e == Append(p, turn)
    <3>1. /\ Len(p) \in Nat /\ Len(e) = Len(p) + 1 /\ e \in Seq(Turns)
          /\ \A i \in 1..Len(p) : e[i] = p[i]
      BY AppendProperties, LenProperties
    <3>2. e = spot
      BY <2>2
    <3>. HIDE DEF e
    <3>3. Len(p) \in 0..Len(e) - 1 /\ Len(p) \in 0..Len(e)
      BY <3>1
    <3>4. SubSeq(e, 1, Len(p)) = p
      <4>1. /\ SubSeq(e, 1, Len(p)) \in Seq(Turns) /\ Len(SubSeq(e, 1, Len(p))) = Len(p)
            /\ \A i \in 1..Len(p) : SubSeq(e, 1, Len(p))[i] = e[i]
        BY <3>1, <3>3, PrefixOf
      <4>2. QED
        BY <3>1, <4>1, SeqEqual
    <3>5. SubSeq(e, 1, Len(p)) \in DOMAIN tree
      BY <1>1, <3>2, <3>3 DEF IsPlace, LeadsFor
    <3>6. QED
      BY <1>2, <3>4, <3>5
  <2>3. QED
    BY <1>2, <1>5, <2>1, <2>2
<1>6. \A p \in DOMAIN more : more[p].key \in Int /\ more[p].value # None
  BY <1>2 DEF Tree
<1>. HIDE DEF more
<1>7. ASSUME NEW o \in Int
      PROVE  \E p \in Paths(more) : IsPlace(more, o, p)
  <2>. DEFINE here == Place(tree, o)
  <2>1. here \in Seq(Turns) /\ Len(here) \in Nat /\ Len(here) <= c
    BY <1>3, PlaceIsPlace, PathsAreShort, LenProperties DEF c
  <2>2. CASE IsPlace(more, o, here)
    <3>1. Len(here) <= d
      BY <1>3, <1>4, <2>1
    <3>2. QED
      BY <1>4, <2>1, <2>2, <3>1, PathsAreShort DEF d
  <2>3. CASE /\ here = spot /\ here \notin DOMAIN tree
             /\ \E e \in Seq(Turns) : e \notin DOMAIN more /\ Len(e) = Len(here) + 1 /\ IsPlace(more, o, e)
    <3>1. PICK e \in Seq(Turns) : Len(e) = Len(here) + 1 /\ IsPlace(more, o, e)
      BY <2>3
    <3>2. Len(e) <= d
      BY <1>3, <1>4, <2>1, <2>3, <3>1
    <3>3. QED
      BY <1>4, <3>1, <3>2, PathsAreShort DEF d
  <2>4. QED
    BY <2>2, <2>3, PlaceAfterAdding DEF more
<1>8. Tree(more)
  <2>1. DOMAIN more \subseteq Seq(Turns)
    BY <1>1, <1>2 DEF Tree
  <2>2. QED
    BY <1>4, <1>5, <1>6, <1>7, <2>1 DEF Tree
<1>9. ASSUME NEW o \in Int
      PROVE  SearchTree(more, o) = IF o = k /\ SearchTree(tree, k) = None
                                   THEN v ELSE SearchTree(tree, o)
  <2>. DEFINE here == Place(tree, o)
  <2>1. /\ here \in Seq(Turns)
        /\ \A p \in Seq(Turns) : IsPlace(more, o, p) => p = Place(more, o)
    BY <1>8, PlaceIsPlace
  <2>2. \A p \in DOMAIN tree : tree[p].value # None
    BY DEF Tree
  <2>3. (o = k => here = spot) /\ (here \in DOMAIN tree => SearchTree(tree, o) = tree[here].value)
        /\ (here \notin DOMAIN tree => SearchTree(tree, o) = None)
    BY DEF SearchTree
  <2>4. CASE (here = spot => here \in DOMAIN tree \/ o = k) /\ IsPlace(more, o, here)
    <3>1. Place(more, o) = here
      BY <2>1, <2>4
    <3>2. CASE here \in DOMAIN tree
      BY <1>2, <2>2, <2>3, <3>1, <3>2 DEF SearchTree
    <3>3. CASE here \notin DOMAIN tree
      BY <1>2, <2>3, <2>4, <3>1, <3>3 DEF SearchTree
    <3>4. QED
      BY <3>2, <3>3
  <2>5. CASE /\ here = spot /\ here \notin DOMAIN tree /\ o # k
             /\ \E e \in Seq(Turns) : e \notin DOMAIN more /\ Len(e) = Len(here) + 1 /\ IsPlace(more, o, e)
    <3>1. Place(more, o) \notin DOMAIN more
      BY <2>1, <2>5
    <3>2. QED
      BY <2>3, <2>5, <3>1 DEF SearchTree
  <2>6. QED
    BY <2>4, <2>5, PlaceAfterAdding DEF more
<1>10. more # Empty
  BY <1>2 DEF Empty
<1>11. QED
  BY <1>8, <1>9, <1>10 DEF more

-----------------------------------------------------------------------------
(* The inductive invariant                                                 *)

Fields == {"pc", "target", "text", "path", "args", "name", "tree", "file", "after", "seen",
           "image", "read", "size", "code", "length", "sent"}

Pcs == {"idle", "rest", "check", "first", "name", "value", "handler", "stat", "load",
        "compose", "answered", "done"}

(* p points into the string of a thread that has begun.                    *)
InText(p) ==
  /\ p.in \in Threads /\ thread[p.in].pc # "idle"
  /\ p.at \in 1..Len(thread[p.in].text)

HasStrings(t) ==
  LET r == thread[t] IN
  /\ DOMAIN r = Fields /\ r.pc \in Pcs
  /\ r.target \in Targets[t] \/ (r.target = NoTarget /\ r.pc = "idle")
  /\ CString(r.text) /\ Len(r.text) = Len(r.target.text)
  /\ r.args.in = None \/ r.args.at = None \/ InText(r.args)
  /\ r.pc = "first" => InText(r.args)

(* Every string ends where it should, and the pointers stay inside.        *)
StringsInv ==
  /\ DOMAIN thread = Threads
  /\ \A t \in Threads : HasStrings(t)
  /\ InText(saved) \/ (saved.in = None /\ \A t \in Threads : thread[t].pc = "idle")

(* The file was there when stat looked, and need not be loaded.            *)
Current(r) ==
  /\ r.seen \in 1..now /\ r.file \in DOMAIN Disk[r.seen]
  /\ NeedNotLoad(r, Disk[r.seen][r.file].mtime)

(* What was read is no more than either look at the file had.              *)
WholeOf(r) ==
  /\ r.seen \in 1..now /\ r.read \in 1..now
  /\ r.file \in DOMAIN Disk[r.seen] /\ r.file \in DOMAIN Disk[r.read]
  /\ r.size = LET was == Disk[r.seen][r.file].length
                  is  == Disk[r.read][r.file].length
              IN IF was < is THEN was ELSE is

(* What one handler knows of its image at each point.                      *)
ImageInv(r) ==
  /\ r.seen \in 0..now /\ r.size \in Int /\ r.sent \in Nat
  /\ r.after = None \/ \E s \in Shifts : r.after = r.target.date - s
  /\ r.pc \notin {"compose", "answered"} => r.image = "unset"
  /\ r.pc \notin {"stat", "load", "answered"} /\ r.image = "unset" => r.file = << >>
  /\ r.pc \in {"stat", "load"} \/ r.image # "unset" => r.file # << >>
  /\ r.pc = "load" => r.seen \in 1..now /\ r.file \in DOMAIN Disk[r.seen]
  /\ r.pc \in {"compose", "answered"} => r.image \in {"unset", "null", "read"}
  /\ r.pc = "compose" => /\ r.code \notin {"NOT_MODIFIED", "PRECONDITION_FAILED"}
                         /\ r.image = "null" /\ r.size = NO_NEED_TO_LOAD => Current(r)
                         /\ r.image = "read" => WholeOf(r)
  /\ r.pc = "answered" =>
       /\ r.image = "null" /\ r.code = "NOT_MODIFIED" => Current(r) /\ r.target.since
       /\ r.image = "null" /\ r.code = "PRECONDITION_FAILED" => Current(r) /\ ~r.target.since
       /\ r.image = "read" /\ r.code = "OK" => WholeOf(r) /\ r.length = r.size /\ r.sent = r.size

(* What the client wrote is still there from position i on.                *)
Keeps(r, i) == \A j \in i..Len(r.target.text) : r.text[j] = r.target.text[j]

(* The tree has the first m of the arguments of w.                         *)
Has(tree, w, m) ==
  /\ Tree(tree)
  /\ \A k \in Int :
       \/ SearchTree(tree, k) = None /\ \A j \in 0..m - 1 : w[4 * j + 1] # k
       \/ \E j \in 0..m - 1 : /\ w[4 * j + 1] = k /\ SearchTree(tree, k) = w[4 * j + 3]
                              /\ SearchTree(tree, k) # None /\ \A i \in 0..j - 1 : w[4 * i + 1] # k

QuestOf(t) == FirstFrom(thread[t].target.text, 1, Quest)

(* Nothing but the arguments is left of the string, and they are all.      *)
AtArguments(t, p) ==
  /\ QuestOf(t) <= Len(thread[t].target.text)
  /\ p.in = t /\ p.at = QuestOf(t) + 1 /\ Keeps(thread[t], QuestOf(t) + 1)

(* m arguments are in the tree; strtok goes on at the name of the next     *)
(* one, or at the end of the string.                                       *)
AtName(t, m) ==
  LET r == thread[t]
      w == Written(t)
  IN /\ 0 < m /\ 4 * m <= Len(w) + 1 /\ r.tree # Empty /\ Has(r.tree, w, m)
     /\ saved.in = t
     /\ saved.at = QuestOf(t) + 4 * m + (IF 4 * m = Len(w) + 1 THEN 0 ELSE 1)
     /\ Keeps(r, saved.at)

AtValue(t, m) ==
  LET r == thread[t]
      w == Written(t)
  IN /\ 4 * m + 3 <= Len(w) /\ Has(r.tree, w, m) /\ r.name = w[4 * m + 1]
     /\ saved.in = t /\ saved.at = QuestOf(t) + 4 * m + 3
     /\ Keeps(r, saved.at)

KnowsArguments(t) == \A k \in Int : SearchTree(thread[t].tree, k) = ValueIn(Written(t), k)

(* How far the parsing of a thread is that nobody has interrupted.         *)
ParsingInv(t) ==
  LET r == thread[t]
      w == Written(t)
  IN /\ r.pc = "rest" => r.tree = Empty /\ AtArguments(t, saved)
     /\ r.pc = "check" => /\ r.tree = Empty
                          /\ \/ w = << >> /\ (r.args.in = None \/ r.args.at = None)
                             \/ w # << >> /\ AtArguments(t, r.args)
     /\ r.pc = "first" => r.tree = Empty /\ w # << >> /\ AtArguments(t, r.args)
     /\ r.pc = "name"  => \E m \in Nat : AtName(t, m)
     /\ r.pc = "value" => QuestOf(t) <= Len(r.target.text) /\ \E m \in Nat : AtValue(t, m)
     /\ r.pc \in {"handler", "stat", "load", "compose"} => KnowsArguments(t)
     /\ r.pc \in {"stat", "load", "compose", "answered"} /\ r.file # << >> =>
          r.file[1] = ValueIn(w, ImageName)

IInv ==
  /\ killer \in Threads \cup {None} /\ mixed \subseteq Threads /\ now \in DOMAIN Disk
  /\ StringsInv
  /\ \A t \in Threads : ImageInv(thread[t])
  /\ \A t \in Threads : Unmixed(t) => ParsingInv(t)
  /\ GoodRequestsAreHarmless

-----------------------------------------------------------------------------
(* Strings and pointers                                                    *)

(* No thread is called like the missing node.                              *)
LEMMA NothingIsNobody == None \notin Threads
BY ImagesAssumption

(* What a step may do to one thread.                                       *)
StringStep(x) ==
  LET r == thread[x]
      z == thread'[x]
  IN /\ DOMAIN z = Fields /\ z.pc \in Pcs
     /\ z.target \in Targets[x] \/ (z.target = NoTarget /\ z.pc = "idle")
     /\ CString(z.text) /\ Len(z.text) = Len(z.target.text)
     /\ r.pc # "idle" => z.pc # "idle" /\ Len(z.text) = Len(r.text)
     /\ z.args.in = None \/ z.args.at = None \/ InText(z.args)
     /\ z.pc = "first" => InText(z.args)

(* The strings stay in order when every thread's are, and strtok's pointer *)
(* with them.                                                              *)
LEMMA StringsCarryOver ==
  ASSUME StringsInv, DOMAIN thread' = Threads, \A x \in Threads : StringStep(x),
         InText(saved)' \/ (saved' = saved /\ InText(saved))
  PROVE  StringsInv'
<1>1. ASSUME NEW p, InText(p)
      PROVE  /\ p.in \in Threads /\ thread'[p.in].pc # "idle"
             /\ p.at \in 1..Len(thread'[p.in].text)
  BY <1>1 DEF InText, StringStep
<1>2. ASSUME NEW x \in Threads
      PROVE  HasStrings(x)'
  <2>. DEFINE z == thread'[x]
  <2>1. /\ DOMAIN z = Fields /\ z.pc \in Pcs
        /\ z.target \in Targets[x] \/ (z.target = NoTarget /\ z.pc = "idle")
        /\ CString(z.text) /\ Len(z.text) = Len(z.target.text)
        /\ z.args.in = None \/ z.args.at = None \/ InText(z.args)
        /\ z.pc = "first" => InText(z.args)
    BY DEF StringStep
  <2>2. InText(z.args) => InText(thread[x].args)'
    BY <1>1 DEF InText
  <2>. HIDE DEF z
  <2>3. QED
    BY <2>1, <2>2 DEF HasStrings, z
<1>3. InText(saved)'
  BY <1>1 DEF InText
<1>4. QED
  BY <1>2, <1>3 DEF StringsInv

(* A thread that did nothing keeps its strings.                            *)
LEMMA UntouchedStrings ==
  ASSUME StringsInv, NEW x \in Threads, thread'[x] = thread[x]
  PROVE  StringStep(x)
BY DEF StringsInv, HasStrings, StringStep

(* A thread that has begun goes on, and leaves all strings alone.          *)
LEMMA QuietKeepsStrings ==
  ASSUME StringsInv, NEW t \in Threads, thread[t].pc # "idle", NEW r,
         thread' = [thread EXCEPT ![t] = r], saved' = saved,
         DOMAIN r = Fields, r.pc \in Pcs, r.pc # "idle",
         r.target = thread[t].target, r.text = thread[t].text,
         r.args = thread[t].args \/ r.args.in = None, r.pc = "first" => InText(r.args)
  PROVE  StringsInv'
<1>1. DOMAIN thread' = Threads /\ thread'[t] = r /\ \A x \in Threads \ {t} : thread'[x] = thread[x]
  BY DEF StringsInv
<1>2. StringStep(t)
  BY <1>1 DEF StringsInv, HasStrings, StringStep
<1>3. \A x \in Threads : StringStep(x)
  BY <1>1, <1>2, UntouchedStrings
<1>4. InText(saved)
  BY DEF StringsInv
<1>5. QED
  BY <1>1, <1>3, <1>4, StringsCarryOver

(* What a call of strtok does to the threads.                              *)
LEMMA CallsEffect ==
  ASSUME StringsInv, NEW t \in Threads, NEW u \in Threads, NEW i, NEW delims, NEW r,
         Calls(t, u, i, delims, r), DOMAIN r = Fields, r.text = thread[t].text
  PROVE  LET token == Token(thread[u].text, i, delims) IN
         /\ DOMAIN thread' = Threads
         /\ \A x \in Threads :
              /\ DOMAIN thread'[x] = Fields
              /\ thread'[x].text = IF x = u THEN token.left ELSE thread[x].text
              /\ \A f \in Fields \ {"text"} : thread'[x][f] = IF x = t THEN r[f] ELSE thread[x][f]
         /\ saved'.in = u /\ saved'.at = token.next
<1>. DEFINE token == Token(thread[u].text, i, delims)
<1>1. saved' = [in |-> u, at |-> token.next]
  BY DEF Calls
<1>2. thread' = [x \in Threads |->
                   IF x = u
                   THEN [(IF x = t THEN r ELSE thread[x]) EXCEPT !.text = token.left]
                   ELSE IF x = t THEN r ELSE thread[x]]
  BY DEF Calls
<1>. HIDE DEF token
<1>3. \A x \in Threads : DOMAIN thread[x] = Fields
  BY DEF StringsInv, HasStrings
<1>4. "text" \in Fields
  BY DEF Fields
<1>5. ASSUME NEW x \in Threads
      PROVE  /\ DOMAIN thread'[x] = Fields
             /\ thread'[x].text = IF x = u THEN token.left ELSE thread[x].text
             /\ \A f \in Fields \ {"text"} : thread'[x][f] = IF x = t THEN r[f] ELSE thread[x][f]
  <2>. DEFINE z == IF x = t THEN r ELSE thread[x]
  <2>1. DOMAIN z = Fields /\ z.text = thread[x].text
    BY <1>3
  <2>2. thread'[x] = IF x = u THEN [z EXCEPT !.text = token.left] ELSE z
    BY <1>2
  <2>3. \A f \in Fields : z[f] = IF x = t THEN r[f] ELSE thread[x][f]
    OBVIOUS
  <2>. HIDE DEF z
  <2>4. QED
    BY <1>4, <2>1, <2>2, <2>3
<1>6. QED
  BY <1>1, <1>2, <1>5 DEF token

(* A call of strtok, for whichever thread's string its pointer is in, cuts *)
(* that string only and leaves the pointer inside it.                      *)
LEMMA CallsKeepStrings ==
  ASSUME StringsInv, NEW t \in Threads, thread[t].pc # "idle",
         NEW u, NEW i, InText([in |-> u, at |-> i]), NEW delims, Nul \notin delims, NEW r,
         Calls(t, u, i, delims, r),
         DOMAIN r = Fields, r.pc \in Pcs \ {"idle", "first"},
         r.target = thread[t].target, r.text = thread[t].text,
         \/ r.args = thread[t].args
         \/ r.args.in = u /\ r.args.at = Token(thread[u].text, i, delims).start
  PROVE  StringsInv'
<1>. DEFINE s == thread[u].text
            token == Token(s, i, delims)
<1>1. u \in Threads /\ thread[u].pc # "idle" /\ i \in 1..Len(s) /\ CString(s)
  BY DEF InText, StringsInv, HasStrings
<1>2. /\ token.start = None \/ token.start \in 1..Len(s)
      /\ CString(token.left) /\ Len(token.left) = Len(s) /\ token.next \in 1..Len(s)
  <2>1. /\ token.start = None \/ token.start \in i..Len(s)
        /\ CString(token.left) /\ Len(token.left) = Len(s) /\ token.next \in i..Len(s)
    BY <1>1, TokenStaysInside
  <2>2. Len(s) \in Nat
    BY <1>1, LenProperties DEF CString
  <2>. HIDE DEF token, s
  <2>3. QED
    BY <1>1, <2>1, <2>2
<1>3. /\ DOMAIN thread' = Threads
      /\ \A x \in Threads :
              /\ DOMAIN thread'[x] = Fields
              /\ thread'[x].text = IF x = u THEN token.left ELSE thread[x].text
              /\ \A f \in Fields \ {"text"} : thread'[x][f] = IF x = t THEN r[f] ELSE thread[x][f]
      /\ saved'.in = u /\ saved'.at = token.next
  BY <1>1, CallsEffect
<1>. HIDE DEF token
<1>4. ASSUME NEW x \in Threads
      PROVE  StringStep(x)
  <2>1. /\ DOMAIN thread'[x] = Fields
        /\ thread'[x].text = IF x = u THEN token.left ELSE thread[x].text
        /\ thread'[x].pc = IF x = t THEN r.pc ELSE thread[x].pc
        /\ thread'[x].target = thread[x].target
        /\ thread'[x].args = IF x = t THEN r.args ELSE thread[x].args
    BY <1>3 DEF Fields
  <2>2. /\ thread[x].pc \in Pcs /\ thread[t].pc \in Pcs
        /\ thread[x].target \in Targets[x] \/ (thread[x].target = NoTarget /\ thread[x].pc = "idle")
        /\ CString(thread[x].text) /\ Len(thread[x].text) = Len(thread[x].target.text)
        /\ thread[x].args.in = None \/ thread[x].args.at = None \/ InText(thread[x].args)
        /\ thread[x].pc = "first" => InText(thread[x].args)
    BY DEF StringsInv, HasStrings
  <2>3. \/ r.args = thread[t].args
        \/ r.args.at = None \/ InText(r.args)
    BY <1>1, <1>2 DEF InText, token
  <2>4. CString(thread'[x].text) /\ Len(thread'[x].text) = Len(thread[x].text)
    BY <1>2, <2>1, <2>2
  <2>5. thread'[x].args.in = None \/ thread'[x].args.at = None \/ InText(thread'[x].args)
    BY <2>1, <2>2, <2>3
  <2>6. thread'[x].pc = "first" => InText(thread'[x].args)
    BY <2>1, <2>2
  <2>7. thread'[x].pc \in Pcs /\ (thread[x].pc # "idle" => thread'[x].pc # "idle")
    BY <2>1, <2>2
  <2>8. x = t => thread[x].pc # "idle"
    OBVIOUS
  <2>9. QED
    BY <2>1, <2>2, <2>4, <2>5, <2>6, <2>7, <2>8 DEF StringStep
<1>5. InText(saved)'
  <2>1. thread'[u].pc # "idle" /\ thread'[u].text = token.left
    BY <1>1, <1>3, <1>4 DEF StringStep
  <2>2. QED
    BY <1>1, <1>2, <1>3, <2>1 DEF InText
<1>6. QED
  BY <1>3, <1>4, <1>5, StringsCarryOver

(* No call of strtok takes the terminator for a delimiter.                 *)
LEMMA NulIsNoDelimiter == Nul \notin {Quest} /\ Nul \notin {Eq, Amp}
BY DEF Nul, Quest, Eq, Amp

(* What arrives as a target is a C string, and not an empty one.           *)
LEMMA TargetsAreStrings ==
  ASSUME NEW t \in Threads, NEW g \in Targets[t]
  PROVE  /\ CString(g.text) /\ Len(g.text) > 1
         /\ \A i \in 1..Len(g.text) : g.text[i] = Nul <=> i = Len(g.text)
<1>1. /\ g.text \in Seq(Int) /\ Len(g.text) > 1
      /\ \A i \in DOMAIN g.text : g.text[i] = Nul <=> i = Len(g.text)
  BY ImagesAssumption
<1>2. Len(g.text) \in Nat /\ DOMAIN g.text = 1..Len(g.text)
  BY <1>1, LenProperties
<1>3. QED
  BY <1>1, <1>2 DEF CString

(* What a thread starts from.                                              *)
LEMMA NewThreadIs ==
  ASSUME NEW g
  PROVE  LET r == NewThread(g) IN
         /\ DOMAIN r = Fields /\ r.pc = "path" /\ r.target = g /\ r.text = g.text /\ r.tree = Empty
         /\ r.args.in = None /\ r.file = << >> /\ r.after = None /\ r.seen = 0
         /\ r.image = "unset" /\ r.size = None /\ r.sent = 0
BY DEF NewThread, Fields

(* The first strtok, for the path (threadroutines.c:816), is started on    *)
(* the thread's own string.                                                *)
LEMMA SplitPathKeepsStrings ==
  ASSUME StringsInv, NEW t \in Threads, SplitPath(t)
  PROVE  StringsInv'
<1>1. PICK g \in Targets[t] :
        LET r     == NewThread(g)
            token == Token(g.text, 1, {Quest})
            path  == IF token.start = None THEN << >> ELSE StringAt(token.left, token.start)
        IN /\ thread' = [thread EXCEPT ![t] =
                           [r EXCEPT !.text = token.left, !.path = path,
                              !.pc = IF Len(path) # Len(g.text) - 1 THEN "rest" ELSE "check"]]
           /\ saved' = [in |-> t, at |-> token.next]
  BY DEF SplitPath
<1>. DEFINE token == Token(g.text, 1, {Quest})
            path  == IF token.start = None THEN << >> ELSE StringAt(token.left, token.start)
            pc    == IF Len(path) # Len(g.text) - 1 THEN "rest" ELSE "check"
            n     == NewThread(g)
            r     == [n EXCEPT !.text = token.left, !.path = path, !.pc = pc]
<1>2. CString(g.text) /\ 1 \in 1..Len(g.text)
  <2>1. CString(g.text)
    BY TargetsAreStrings
  <2>2. Len(g.text) \in Nat /\ Len(g.text) > 0
    BY <2>1, LenProperties DEF CString
  <2>3. QED
    BY <2>1, <2>2
<1>3. CString(token.left) /\ Len(token.left) = Len(g.text) /\ token.next \in 1..Len(g.text)
  BY <1>2, TokenStaysInside, NulIsNoDelimiter
<1>. HIDE DEF token, path
<1>4. DOMAIN n = Fields /\ n.target = g /\ n.args.in = None
  BY NewThreadIs
<1>5. pc \in Pcs \ {"idle", "first"}
  BY DEF Pcs
<1>. HIDE DEF n, pc
<1>6. /\ DOMAIN r = Fields /\ r.pc = pc /\ r.target = g /\ r.text = token.left
      /\ r.args.in = None
  BY <1>4 DEF Fields
<1>7. thread' = [thread EXCEPT ![t] = r] /\ saved' = [in |-> t, at |-> token.next]
  BY <1>1 DEF token, path, pc, n
<1>. HIDE DEF r
<1>8. DOMAIN thread' = Threads /\ thread'[t] = r /\ \A x \in Threads \ {t} : thread'[x] = thread[x]
  BY <1>7 DEF StringsInv
<1>9. StringStep(t)
  BY <1>3, <1>5, <1>6, <1>8 DEF StringStep, SplitPath, At
<1>10. \A x \in Threads : StringStep(x)
  BY <1>8, <1>9, UntouchedStrings
<1>11. InText(saved)'
  <2>1. saved'.in = t /\ saved'.at = token.next
    BY <1>7
  <2>2. thread'[t].pc # "idle" /\ Len(thread'[t].text) = Len(g.text)
    BY <1>3, <1>5, <1>6, <1>8
  <2>3. QED
    BY <1>3, <2>1, <2>2 DEF InText
<1>12. QED
  BY <1>8, <1>10, <1>11, StringsCarryOver

(* Once a thread has split its path, strtok's pointer is in some thread's  *)
(* string.                                                                 *)
LEMMA SavedIsInText ==
  ASSUME StringsInv, NEW t \in Threads, thread[t].pc # "idle"
  PROVE  InText([in |-> saved.in, at |-> saved.at]) /\ InText(saved)
BY DEF StringsInv, InText

(* The later calls go on wherever the pointer is.                          *)
LEMMA StrtokKeepsStrings ==
  ASSUME StringsInv, NEW t \in Threads,
         SplitArguments(t) \/ TakesName(t) \/ TakesValue(t)
  PROVE  StringsInv'
<1>. DEFINE o == thread[t]
<1>1. DOMAIN o = Fields
  BY DEF StringsInv, HasStrings
<1>2. CASE SplitArguments(t)
  <2>. DEFINE u == saved.in
              token == Token(thread[u].text, saved.at, {Quest})
              r == [o EXCEPT !.args = [in |-> u, at |-> token.start], !.pc = "check"]
  <2>1. o.pc = "rest" /\ Calls(t, u, saved.at, {Quest}, r)
    BY <1>2 DEF SplitArguments, At
  <2>2. InText([in |-> u, at |-> saved.at])
    BY <2>1, SavedIsInText
  <2>. HIDE DEF o
  <2>3. /\ DOMAIN r = Fields /\ r.pc \in Pcs \ {"idle", "first"}
        /\ r.target = o.target /\ r.text = o.text
        /\ r.args.in = u /\ r.args.at = token.start
    BY <1>1 DEF Fields, Pcs
  <2>. HIDE DEF r, u
  <2>4. QED
    BY <2>1, <2>2, <2>3, CallsKeepStrings, NulIsNoDelimiter DEF o
<1>3. CASE TakesName(t)
  <2>. DEFINE u == IF o.pc = "first" THEN Arguments(t).in ELSE saved.in
              i == IF o.pc = "first" THEN Arguments(t).at ELSE saved.at
              name == Word(u, i)
              r == IF name # None THEN [o EXCEPT !.name = name, !.pc = "value"]
                   ELSE IF o.tree # Empty THEN [o EXCEPT !.pc = "handler"]
                   ELSE [o EXCEPT !.pc = "answered", !.code = "SERVICE_UNAVAILABLE"]
  <2>1. o.pc \in {"first", "name"} /\ Calls(t, u, i, {Eq, Amp}, r)
    BY <1>3 DEF TakesName, At
  <2>2. InText([in |-> u, at |-> i])
    <3>1. o.pc = "first" => InText(o.args)
      BY DEF StringsInv, HasStrings
    <3>2. QED
      BY <2>1, <3>1, SavedIsInText DEF Arguments, InText
  <2>. HIDE DEF o, name, u, i
  <2>3. /\ DOMAIN r = Fields /\ r.pc \in Pcs \ {"idle", "first"}
        /\ r.target = o.target /\ r.text = o.text /\ r.args = o.args
    BY <1>1 DEF Fields, Pcs
  <2>. HIDE DEF r
  <2>4. QED
    BY <2>1, <2>2, <2>3, CallsKeepStrings, NulIsNoDelimiter DEF o
<1>4. CASE TakesValue(t)
  <2>. DEFINE value == Word(saved.in, saved.at)
              r == [o EXCEPT !.tree = AddNode(@, o.name, value), !.pc = "name"]
  <2>1. CASE value = None
    <3>1. UNCHANGED <<saved, thread>>
      BY <1>4, <2>1 DEF TakesValue, Dies
    <3>2. QED
      BY <3>1 DEF StringsInv, HasStrings, InText
  <2>2. CASE value # None
    <3>1. o.pc = "value" /\ Calls(t, saved.in, saved.at, {Eq, Amp}, r)
      BY <1>4, <2>2 DEF TakesValue, At
    <3>2. InText([in |-> saved.in, at |-> saved.at])
      BY <3>1, SavedIsInText
    <3>. HIDE DEF o, value
    <3>3. /\ DOMAIN r = Fields /\ r.pc \in Pcs \ {"idle", "first"}
          /\ r.target = o.target /\ r.text = o.text /\ r.args = o.args
      BY <1>1 DEF Fields, Pcs
    <3>. HIDE DEF r
    <3>4. QED
      BY <3>1, <3>2, <3>3, CallsKeepStrings, NulIsNoDelimiter DEF o
  <2>3. QED
    BY <2>1, <2>2
<1>5. QED
  BY <1>2, <1>3, <1>4

-----------------------------------------------------------------------------
(* The steps without strtok                                                *)

(* What they do to the tree and to the name of the file.                   *)
ParsingGoes(o, r) ==
  /\ r.pc \notin {"rest", "check", "name", "value"}
  /\ r.pc = "first" => /\ o.pc = "check" /\ r.args = o.args /\ r.tree = o.tree
                       /\ o.args.in # None /\ o.args.at # None
  /\ r.pc = "handler" => o.pc = "check" /\ o.args.in = None /\ r.tree = o.tree
  /\ r.pc \in {"stat", "load", "compose"} => o.pc \in {"handler", "stat", "load"} /\ r.tree = o.tree
  /\ r.pc \in {"stat", "load", "compose", "answered"} /\ r.file # << >> =>
       \/ r.file = o.file /\ o.pc \in {"stat", "load", "compose"}
       \/ o.pc = "handler" /\ r.file[1] = SearchTree(o.tree, ImageName)

QuietStep(t, r) ==
  /\ thread' = [thread EXCEPT ![t] = r] /\ UNCHANGED <<killer, saved, now, mixed>>
  /\ thread[t].pc # "idle" /\ killer = None
  /\ DOMAIN r = Fields /\ r.pc \in Pcs \ {"idle"}
  /\ r.target = thread[t].target /\ r.text = thread[t].text
  /\ r.args = thread[t].args \/ r.args.in = None
  /\ r.pc = "first" => InText(r.args)

Quiets(t, r) == QuietStep(t, r) /\ ImageInv(r) /\ ParsingGoes(thread[t], r)

(* The steps that only change their own thread's record, and neither       *)
(* strings nor strtok's pointer: the check of the arguments ...            *)
LEMMA ChecksTargetQuietly ==
  ASSUME StringsInv, NEW t \in Threads, ImageInv(thread[t]), ChecksTarget(t)
  PROVE  \E r : Quiets(t, r)
<1>. DEFINE o == thread[t]
<1>1. DOMAIN o = Fields /\ (o.args.in = None \/ o.args.at = None \/ InText(o.args))
  BY DEF StringsInv, HasStrings
<1>2. PICK r : /\ Becomes(t, r) /\ Quietly /\ o.pc = "check" /\ killer = None
               /\ \/ r = [o EXCEPT !.pc = "answered", !.code = "BAD_REQUEST"]
                  \/ r = [o EXCEPT !.pc = "answered", !.code = "NOT_FOUND"]
                  \/ o.args.in # None /\ o.args.at # None /\ r = [o EXCEPT !.pc = "first"]
                  \/ o.args.in = None /\ r = [o EXCEPT !.pc = "handler"]
  <2>. DEFINE a == Arguments(t)
              asked  == a.in # None
              valid  == asked => a.at # None /\ IsValidArgStr(StringAt(thread[a.in].text, a.at))
              routes == InitTree([i \in DOMAIN Routes |-> <<Routes[i], i>>])
              found  == Len(o.path) = 1 /\ SearchTree(routes, o.path[1]) # None
              bad == [o EXCEPT !.pc = "answered", !.code = "BAD_REQUEST"]
              no  == [o EXCEPT !.pc = "answered", !.code = "NOT_FOUND"]
              go(x) == [o EXCEPT !.pc = x]
              r == IF ~valid THEN bad ELSE IF ~found THEN no ELSE go(IF asked THEN "first" ELSE "handler")
  <2>1. Becomes(t, r) /\ Quietly /\ o.pc = "check" /\ killer = None
    BY DEF ChecksTarget, At
  <2>2. a = o.args /\ (valid /\ asked => a.at # None)
    BY DEF Arguments
  <2>. HIDE DEF found, valid, a, o
  <2>3. \/ r = bad \/ r = no \/ (asked /\ valid /\ r = go("first")) \/ (~asked /\ r = go("handler"))
    BY Zenon
  <2>. HIDE DEF r
  <2>4. QED
    BY <2>1, <2>2, <2>3 DEF o
<1>. HIDE DEF o
<1>3. /\ DOMAIN r = Fields /\ r.pc \in Pcs \ {"idle"} /\ r.target = o.target /\ r.text = o.text
      /\ r.args = o.args /\ r.tree = o.tree /\ r.file = o.file /\ r.seen = o.seen /\ r.size = o.size
      /\ r.sent = o.sent /\ r.after = o.after /\ r.image = o.image
      /\ r.pc \in {"answered", "first", "handler"}
      /\ r.pc = "first" => o.args.in # None /\ o.args.at # None
      /\ r.pc = "handler" => o.args.in = None
  BY ZenonT(40), <1>1, <1>2 DEF Fields, Pcs
<1>4. o.file = << >> /\ o.image = "unset"
  BY <1>2 DEF ImageInv, o
<1>5. ImageInv(r)
  BY <1>3, <1>4 DEF ImageInv, o
<1>6. ParsingGoes(o, r)
  BY <1>2, <1>3, <1>4 DEF ParsingGoes
<1>7. QuietStep(t, r)
  BY <1>1, <1>2, <1>3 DEF QuietStep, Becomes, Quietly, o
<1>8. QED
  BY <1>5, <1>6, <1>7 DEF Quiets, o

(* ... a route that is not the images' ...                                 *)
LEMMA OtherRouteQuietly ==
  ASSUME StringsInv, NEW t \in Threads, ImageInv(thread[t]), OtherRoute(t)
  PROVE  \E r : Quiets(t, r)
<1>. DEFINE o == thread[t]
            r == [o EXCEPT !.pc = "answered"]
<1>1. DOMAIN o = Fields
  BY DEF StringsInv, HasStrings
<1>2. Becomes(t, r) /\ Quietly /\ o.pc = "handler" /\ killer = None
  BY DEF OtherRoute, At
<1>3. o.file = << >> /\ o.image = "unset"
  BY <1>2 DEF ImageInv
<1>. HIDE DEF o
<1>4. /\ DOMAIN r = Fields /\ r.pc = "answered" /\ r.pc \in Pcs \ {"idle"} /\ r.target = o.target
      /\ r.text = o.text /\ r.args = o.args /\ r.file = o.file /\ r.seen = o.seen /\ r.size = o.size
      /\ r.sent = o.sent /\ r.after = o.after /\ r.image = o.image
  BY <1>1 DEF Fields, Pcs
<1>. HIDE DEF r
<1>5. ImageInv(r)
  BY <1>3, <1>4 DEF ImageInv, o
<1>6. ParsingGoes(o, r)
  BY <1>3, <1>4 DEF ParsingGoes
<1>7. QuietStep(t, r)
  BY <1>2, <1>4 DEF QuietStep, Becomes, Quietly, o
<1>8. QED
  BY <1>5, <1>6, <1>7 DEF Quiets, o

(* ... the search of the arguments for the path (threadroutines.c:62-76)   *)
(* ...                                                                     *)
LEMMA FindsPathQuietly ==
  ASSUME StringsInv, NEW t \in Threads, ImageInv(thread[t]), FindsPath(t), ~Dies(t)
  PROVE  \E r : Quiets(t, r)
<1>. DEFINE o == thread[t]
            name == SearchTree(o.tree, ImageName)
<1>1. DOMAIN o = Fields
  BY DEF StringsInv, HasStrings
<1>2. \E r : /\ Becomes(t, r) /\ Quietly /\ o.pc = "handler" /\ killer = None
             /\ \/ \E code \in {"BAD_REQUEST", "UNDEFINED"} :
                     r = [o EXCEPT !.code = code, !.pc = "compose"]
                \/ \E d \in Date(o.target) : \E size :
                     r = [o EXCEPT !.after = d, !.file = <<name, size>>, !.pc = "stat"]
  BY DEF FindsPath, At
<1>3. PICK r : /\ Becomes(t, r) /\ Quietly /\ o.pc = "handler" /\ killer = None
             /\ \/ \E code \in {"BAD_REQUEST", "UNDEFINED"} :
                     r = [o EXCEPT !.code = code, !.pc = "compose"]
                \/ \E d \in Date(o.target) : \E size :
                     r = [o EXCEPT !.after = d, !.file = <<name, size>>, !.pc = "stat"]
  BY <1>2
<1>4. o.file = << >> /\ o.image = "unset"
  BY <1>3 DEF ImageInv
<1>. HIDE DEF o, name
<1>5. CASE \E code \in {"BAD_REQUEST", "UNDEFINED"} : r = [o EXCEPT !.code = code, !.pc = "compose"]
  <2>1. /\ DOMAIN r = Fields /\ r.pc = "compose" /\ r.pc \in Pcs \ {"idle"} /\ r.target = o.target
        /\ r.text = o.text /\ r.args = o.args /\ r.file = o.file /\ r.seen = o.seen /\ r.size = o.size
        /\ r.sent = o.sent /\ r.after = o.after /\ r.image = o.image /\ r.tree = o.tree
        /\ r.code \in {"BAD_REQUEST", "UNDEFINED"}
    BY <1>1, <1>5 DEF Fields, Pcs
  <2>2. ImageInv(r)
    BY <1>4, <2>1 DEF ImageInv, o
  <2>3. ParsingGoes(o, r)
    BY <1>3, <1>4, <2>1 DEF ParsingGoes
  <2>4. QuietStep(t, r)
    BY <1>3, <2>1 DEF QuietStep, Becomes, Quietly, o
  <2>5. QED
    BY <2>2, <2>3, <2>4 DEF Quiets, o
<1>6. CASE \E d \in Date(o.target) : \E size :
             r = [o EXCEPT !.after = d, !.file = <<name, size>>, !.pc = "stat"]
  <2>0. PICK d \in Date(o.target) : \E size :
               r = [o EXCEPT !.after = d, !.file = <<name, size>>, !.pc = "stat"]
    BY <1>6
  <2>1. PICK size : r = [o EXCEPT !.after = d, !.file = <<name, size>>, !.pc = "stat"]
    BY <2>0
  <2>2. /\ DOMAIN r = Fields /\ r.pc = "stat" /\ r.pc \in Pcs \ {"idle"} /\ r.target = o.target
        /\ r.text = o.text /\ r.args = o.args /\ r.file = <<name, size>> /\ r.seen = o.seen
        /\ r.size = o.size /\ r.sent = o.sent /\ r.after = d /\ r.image = o.image /\ r.tree = o.tree
    BY <1>1, <2>1 DEF Fields, Pcs
  <2>3. d = None \/ \E s \in Shifts : d = o.target.date - s
    BY DEF Date
  <2>4. ImageInv(r)
    BY <1>4, <2>2, <2>3 DEF ImageInv, o
  <2>5. r.file[1] = name
    BY <2>2
  <2>6. ParsingGoes(o, r)
    BY <1>3, <2>2, <2>5 DEF ParsingGoes, name
  <2>7. QuietStep(t, r)
    BY <1>3, <2>2 DEF QuietStep, Becomes, Quietly, o
  <2>8. QED
    BY <2>4, <2>6, <2>7 DEF Quiets, o
<1>7. QED
  BY <1>3, <1>5, <1>6

(* What the files may be.                                                  *)
LEMMA FilesAre ==
  /\ \A i \in Nat \ {0} : i <= Len(Disk) <=> i \in DOMAIN Disk
  /\ \A n \in DOMAIN Disk : \A file \in DOMAIN Disk[n] :
       Disk[n][file].length \in Nat /\ Disk[n][file].mtime \in Int
BY ImagesAssumption

(* What an answer of the images routine fills in.                          *)
LEMMA AnswersIs ==
  ASSUME NEW o, DOMAIN o = Fields, NEW image, NEW size, NEW code
  PROVE  LET r == Answers(o, image, size, code) IN
         /\ DOMAIN r = Fields /\ r.pc = "compose" /\ r.image = image /\ r.size = size /\ r.code = code
         /\ r.target = o.target /\ r.text = o.text /\ r.args = o.args /\ r.file = o.file
         /\ r.seen = o.seen /\ r.sent = o.sent /\ r.after = o.after /\ r.tree = o.tree
         /\ r.read = o.read
BY DEF Answers, Fields

(* ... the stat of the file and the dates (mimage.c:27-46) ...             *)
LEMMA StatsQuietly ==
  ASSUME StringsInv, now \in DOMAIN Disk, NEW t \in Threads, ImageInv(thread[t]), Stats(t)
  PROVE  \E r : Quiets(t, r)
<1>. DEFINE o == thread[t]
            z == [o EXCEPT !.seen = now]
<1>1. DOMAIN o = Fields /\ o.pc = "stat" /\ killer = None
  BY DEF StringsInv, HasStrings, Stats, At
<1>2. now \in 1..now /\ now \in 0..now
  BY ImagesAssumption
<1>3. /\ o.image = "unset" /\ (o.after = None \/ \E s \in Shifts : o.after = o.target.date - s)
      /\ o.sent \in Nat /\ o.size \in Int /\ o.file # << >>
  BY <1>1 DEF ImageInv
<1>4. PICK r : /\ Becomes(t, r) /\ Quietly
               /\ \/ r = Answers(z, "null", -2, "NOT_FOUND")
                  \/ r = Answers(z, "null", -5, "INTERNAL_SERVER_ERROR")
                  \/ /\ z.file \in DOMAIN Disk[now] /\ NeedNotLoad(z, Disk[now][z.file].mtime)
                     /\ r = Answers(z, "null", NO_NEED_TO_LOAD, "OK")
                  \/ z.file \in DOMAIN Disk[now] /\ r = [z EXCEPT !.pc = "load"]
  BY Zenon DEF Stats
<1>. HIDE DEF o
<1>5. /\ DOMAIN z = Fields /\ z.pc = "stat" /\ z.target = o.target /\ z.text = o.text
      /\ z.args = o.args /\ z.file = o.file /\ z.seen = now /\ z.sent = o.sent /\ z.after = o.after
      /\ z.tree = o.tree /\ z.image = o.image /\ z.size = o.size
  BY <1>1 DEF Fields
<1>. HIDE DEF z
<1>6. CASE r = [z EXCEPT !.pc = "load"] /\ z.file \in DOMAIN Disk[now]
  <2>1. /\ DOMAIN r = Fields /\ r.pc = "load" /\ r.target = o.target /\ r.text = o.text
        /\ r.args = o.args /\ r.file = o.file /\ r.seen = now /\ r.sent = o.sent /\ r.after = o.after
        /\ r.tree = o.tree /\ r.image = "unset" /\ r.size = o.size
    BY <1>3, <1>5, <1>6 DEF Fields
  <2>2. ImageInv(r)
    BY <1>2, <1>3, <1>5, <1>6, <2>1 DEF ImageInv
  <2>3. ParsingGoes(o, r)
    BY <1>1, <2>1 DEF ParsingGoes
  <2>4. QuietStep(t, r)
    BY <1>1, <1>4, <2>1 DEF QuietStep, Becomes, Quietly, o, Pcs
  <2>5. QED
    BY <2>2, <2>3, <2>4 DEF Quiets, o
<1>7. CASE \/ r = Answers(z, "null", -2, "NOT_FOUND")
           \/ r = Answers(z, "null", -5, "INTERNAL_SERVER_ERROR")
           \/ /\ z.file \in DOMAIN Disk[now] /\ NeedNotLoad(z, Disk[now][z.file].mtime)
              /\ r = Answers(z, "null", NO_NEED_TO_LOAD, "OK")
  <2>1. /\ DOMAIN r = Fields /\ r.pc = "compose" /\ r.target = o.target /\ r.text = o.text
        /\ r.args = o.args /\ r.file = o.file /\ r.seen = now /\ r.sent = o.sent /\ r.after = o.after
        /\ r.tree = o.tree /\ r.image = "null" /\ r.size \in {-2, -5, 0}
        /\ r.code \in {"NOT_FOUND", "INTERNAL_SERVER_ERROR", "OK"}
        /\ r.size = 0 => z.file \in DOMAIN Disk[now] /\ NeedNotLoad(z, Disk[now][z.file].mtime)
    BY <1>5, <1>7, AnswersIs DEF NO_NEED_TO_LOAD
  <2>2. r.size = NO_NEED_TO_LOAD => Current(r)
    BY <1>2, <1>5, <2>1 DEF Current, NeedNotLoad, NO_NEED_TO_LOAD
  <2>3. ImageInv(r)
    BY <1>2, <1>3, <2>1, <2>2 DEF ImageInv
  <2>4. ParsingGoes(o, r)
    BY <1>1, <2>1 DEF ParsingGoes
  <2>5. QuietStep(t, r)
    BY <1>1, <1>4, <2>1 DEF QuietStep, Becomes, Quietly, o, Pcs
  <2>6. QED
    BY <2>3, <2>4, <2>5 DEF Quiets, o
<1>8. QED
  BY <1>4, <1>6, <1>7

(* ... the reading of it (mimage.c:47-68) ...                              *)
LEMMA LoadsQuietly ==
  ASSUME StringsInv, now \in DOMAIN Disk, NEW t \in Threads, ImageInv(thread[t]), Loads(t)
  PROVE  \E r : Quiets(t, r)
<1>. DEFINE o == thread[t]
            z == [o EXCEPT !.read = now]
<1>1. DOMAIN o = Fields /\ o.pc = "load" /\ killer = None
  BY DEF StringsInv, HasStrings, Loads, At
<1>2. now \in 1..now
  BY ImagesAssumption
<1>3. /\ o.after = None \/ \E s \in Shifts : o.after = o.target.date - s
      /\ o.sent \in Nat /\ o.seen \in 0..now /\ o.seen \in 1..now /\ o.file \in DOMAIN Disk[o.seen]
      /\ o.file # << >>
  BY <1>1 DEF ImageInv
<1>4. PICK r : /\ Becomes(t, r) /\ Quietly
               /\ \/ \E e \in {-1, -4} : r = Answers(o, "null", e, "INTERNAL_SERVER_ERROR")
                  \/ o.file \in DOMAIN Disk[now] /\ r = Answers(z, "read", BytesRead(o), "OK")
  BY Zenon DEF Loads
<1>5. CASE \E e \in {-1, -4} : r = Answers(o, "null", e, "INTERNAL_SERVER_ERROR")
  <2>. HIDE DEF o
  <2>1. /\ DOMAIN r = Fields /\ r.pc = "compose" /\ r.target = o.target /\ r.text = o.text
        /\ r.args = o.args /\ r.file = o.file /\ r.seen = o.seen /\ r.sent = o.sent
        /\ r.after = o.after /\ r.tree = o.tree /\ r.image = "null" /\ r.size \in {-1, -4}
        /\ r.code = "INTERNAL_SERVER_ERROR"
    BY <1>1, <1>5, AnswersIs
  <2>2. ImageInv(r)
    BY <1>3, <2>1 DEF ImageInv, NO_NEED_TO_LOAD
  <2>3. ParsingGoes(o, r)
    BY <1>1, <2>1 DEF ParsingGoes
  <2>4. QuietStep(t, r)
    BY <1>1, <1>4, <2>1 DEF QuietStep, Becomes, Quietly, o, Pcs
  <2>5. QED
    BY <2>2, <2>3, <2>4 DEF Quiets, o
<1>6. CASE o.file \in DOMAIN Disk[now] /\ r = Answers(z, "read", BytesRead(o), "OK")
  <2>. HIDE DEF o
  <2>1. /\ DOMAIN z = Fields /\ z.pc = "load" /\ z.target = o.target /\ z.text = o.text
        /\ z.args = o.args /\ z.file = o.file /\ z.seen = o.seen /\ z.sent = o.sent
        /\ z.after = o.after /\ z.tree = o.tree /\ z.read = now
    BY <1>1 DEF Fields
  <2>. HIDE DEF z
  <2>2. /\ DOMAIN r = Fields /\ r.pc = "compose" /\ r.target = o.target /\ r.text = o.text
        /\ r.args = o.args /\ r.file = o.file /\ r.seen = o.seen /\ r.sent = o.sent
        /\ r.after = o.after /\ r.tree = o.tree /\ r.image = "read" /\ r.size = BytesRead(o)
        /\ r.read = now /\ r.code = "OK"
    BY <1>6, <2>1, AnswersIs
  <2>3. o.seen \in DOMAIN Disk
    <3>1. o.seen \in Nat \ {0} /\ o.seen <= Len(Disk)
      BY <1>3, ImagesAssumption
    <3>2. QED
      BY <3>1, FilesAre
  <2>4. BytesRead(o) \in Int
    <3>1. Disk[o.seen][o.file].length \in Nat /\ Disk[now][o.file].length \in Nat
      BY <1>3, <1>6, <2>3, FilesAre
    <3>2. QED
      BY <3>1 DEF BytesRead
  <2>5. WholeOf(r)
    BY <1>2, <1>3, <1>6, <2>2 DEF WholeOf, BytesRead
  <2>6. ImageInv(r)
    BY <1>3, <2>2, <2>4, <2>5 DEF ImageInv
  <2>7. ParsingGoes(o, r)
    BY <1>1, <2>2 DEF ParsingGoes
  <2>8. QuietStep(t, r)
    BY <1>1, <1>4, <2>2 DEF QuietStep, Becomes, Quietly, o, Pcs
  <2>9. QED
    BY <2>6, <2>7, <2>8 DEF Quiets, o
<1>7. QED
  BY <1>4, <1>5, <1>6

(* A whole image has a size.                                               *)
LEMMA SizeOfWhole ==
  ASSUME now \in DOMAIN Disk, NEW r, WholeOf(r)
  PROVE  r.size \in Nat
<1>1. r.seen \in Nat \ {0} /\ r.seen <= Len(Disk) /\ r.read \in Nat \ {0} /\ r.read <= Len(Disk)
  BY ImagesAssumption DEF WholeOf
<1>2. r.seen \in DOMAIN Disk /\ r.read \in DOMAIN Disk
  BY <1>1, FilesAre
<1>3. Disk[r.seen][r.file].length \in Nat /\ Disk[r.read][r.file].length \in Nat
  BY <1>2, FilesAre DEF WholeOf
<1>4. QED
  BY <1>3 DEF WholeOf

(* ... the composition of the answer ...                                   *)
LEMMA ComposesQuietly ==
  ASSUME StringsInv, now \in DOMAIN Disk, NEW t \in Threads, ImageInv(thread[t]), Composes(t), ~Dies(t)
  PROVE  \E r : Quiets(t, r)
<1>. DEFINE o == thread[t]
<1>1. DOMAIN o = Fields /\ o.pc = "compose" /\ killer = None
  BY DEF StringsInv, HasStrings, Composes, At
<1>2. PICK size \in Lengths(o) : \E sent \in BodySizes(o, size) : \E r :
        /\ Becomes(t, r) /\ Quietly
        /\ \/ r = [o EXCEPT !.pc = "answered", !.length = ContentLength(size), !.sent = sent,
                        !.code = IF size # NO_NEED_TO_LOAD THEN @
                                 ELSE IF o.target.since THEN "NOT_MODIFIED"
                                 ELSE "PRECONDITION_FAILED"]
           \/ r = [o EXCEPT !.pc = "answered", !.code = "SERVICE_UNAVAILABLE", !.sent = sent]
  BY Zenon DEF Composes
<1>2a. PICK sent \in BodySizes(o, size) : \E r :
        /\ Becomes(t, r) /\ Quietly
        /\ \/ r = [o EXCEPT !.pc = "answered", !.length = ContentLength(size), !.sent = sent,
                        !.code = IF size # NO_NEED_TO_LOAD THEN @
                                 ELSE IF o.target.since THEN "NOT_MODIFIED"
                                 ELSE "PRECONDITION_FAILED"]
           \/ r = [o EXCEPT !.pc = "answered", !.code = "SERVICE_UNAVAILABLE", !.sent = sent]
  BY <1>2
<1>3. PICK r :
        /\ Becomes(t, r) /\ Quietly
        /\ \/ r = [o EXCEPT !.pc = "answered", !.length = ContentLength(size), !.sent = sent,
                        !.code = IF size # NO_NEED_TO_LOAD THEN @
                                 ELSE IF o.target.since THEN "NOT_MODIFIED"
                                 ELSE "PRECONDITION_FAILED"]
           \/ r = [o EXCEPT !.pc = "answered", !.code = "SERVICE_UNAVAILABLE", !.sent = sent]
  BY <1>2a
<1>4. /\ o.after = None \/ \E s \in Shifts : o.after = o.target.date - s
      /\ o.sent \in Nat /\ o.size \in Int /\ o.seen \in 0..now
      /\ o.image \in {"unset", "null", "read"} /\ (o.image = "unset" => o.file = << >>)
      /\ o.code \notin {"NOT_MODIFIED", "PRECONDITION_FAILED"}
      /\ o.image = "null" /\ o.size = NO_NEED_TO_LOAD => Current(o)
      /\ o.image = "read" => WholeOf(o)
      /\ o.image # "unset" => o.file # << >>
  BY <1>1 DEF ImageInv
<1>5. o.image = "read" => o.size \in Nat
  BY <1>4, SizeOfWhole
<1>6. /\ o.image # "unset" => size = o.size
      /\ o.image # "read" => sent = 0
      /\ o.image = "read" /\ size # 0 => sent = size
      /\ o.image = "read" => sent \in Nat
  BY <1>4, <1>5 DEF Lengths, BodySizes
<1>. HIDE DEF o
<1>7. /\ DOMAIN r = Fields /\ r.pc = "answered" /\ r.target = o.target /\ r.text = o.text
      /\ r.args = o.args /\ r.file = o.file /\ r.seen = o.seen /\ r.sent = sent /\ r.after = o.after
      /\ r.tree = o.tree /\ r.image = o.image /\ r.size = o.size /\ r.read = o.read
      /\ \/ /\ size # NO_NEED_TO_LOAD /\ r.code = o.code /\ r.length = ContentLength(size)
         \/ size = NO_NEED_TO_LOAD /\ o.target.since /\ r.code = "NOT_MODIFIED"
         \/ size = NO_NEED_TO_LOAD /\ ~o.target.since /\ r.code = "PRECONDITION_FAILED"
         \/ r.code = "SERVICE_UNAVAILABLE"
  <2>. DEFINE code == IF size # NO_NEED_TO_LOAD THEN o.code
                      ELSE IF o.target.since THEN "NOT_MODIFIED"
                      ELSE "PRECONDITION_FAILED"
  <2>1. \/ r = [o EXCEPT !.pc = "answered", !.length = ContentLength(size), !.sent = sent, !.code = code]
        \/ r = [o EXCEPT !.pc = "answered", !.code = "SERVICE_UNAVAILABLE", !.sent = sent]
    BY <1>3
  <2>2. \/ size # NO_NEED_TO_LOAD /\ code = o.code
        \/ size = NO_NEED_TO_LOAD /\ o.target.since /\ code = "NOT_MODIFIED"
        \/ size = NO_NEED_TO_LOAD /\ ~o.target.since /\ code = "PRECONDITION_FAILED"
    BY Zenon
  <2>. HIDE DEF code
  <2>3. /\ DOMAIN r = Fields /\ r.pc = "answered" /\ r.target = o.target /\ r.text = o.text
        /\ r.args = o.args /\ r.file = o.file /\ r.seen = o.seen /\ r.sent = sent /\ r.after = o.after
        /\ r.tree = o.tree /\ r.image = o.image /\ r.size = o.size /\ r.read = o.read
        /\ (r.code = code /\ r.length = ContentLength(size)) \/ r.code = "SERVICE_UNAVAILABLE"
    BY ZenonT(40), <1>1, <2>1 DEF Fields
  <2>4. QED
    BY <2>2, <2>3, Zenon
<1>8. Current(o) => Current(r)
  BY <1>7 DEF Current, NeedNotLoad
<1>9. WholeOf(o) => WholeOf(r)
  BY <1>7 DEF WholeOf
<1>10. /\ r.image = "null" /\ r.code = "NOT_MODIFIED" => Current(r) /\ r.target.since
       /\ r.image = "null" /\ r.code = "PRECONDITION_FAILED" => Current(r) /\ ~r.target.since
  BY <1>4, <1>6, <1>7, <1>8
<1>11. r.image = "read" /\ r.code = "OK" => WholeOf(r) /\ r.length = r.size /\ r.sent = r.size
  BY <1>4, <1>5, <1>6, <1>7, <1>9 DEF ContentLength, NO_NEED_TO_LOAD
<1>12. ImageInv(r)
  BY <1>4, <1>6, <1>7, <1>10, <1>11 DEF ImageInv
<1>13. ParsingGoes(o, r)
  BY <1>1, <1>7 DEF ParsingGoes
<1>14. QuietStep(t, r)
  BY <1>1, <1>3, <1>7 DEF QuietStep, Becomes, Quietly, o, Pcs
<1>15. QED
  BY <1>12, <1>13, <1>14 DEF Quiets, o

(* ... and the end of a thread whose answer is sent.                       *)
LEMMA EndsQuietly ==
  ASSUME StringsInv, now \in DOMAIN Disk, NEW t \in Threads, Ends(t)
  PROVE  \E r : Quiets(t, r)
<1>. DEFINE o == thread[t]
            n == NewThread(o.target)
            r == [n EXCEPT !.pc = "done", !.text = o.text]
<1>1. DOMAIN o = Fields /\ o.pc = "answered" /\ killer = None /\ Becomes(t, r) /\ Quietly
  BY DEF StringsInv, HasStrings, Ends, At
<1>2. /\ DOMAIN n = Fields /\ n.target = o.target /\ n.args.in = None /\ n.file = << >>
      /\ n.after = None /\ n.seen = 0 /\ n.image = "unset" /\ n.size = None /\ n.sent = 0
  BY NewThreadIs
<1>. HIDE DEF o, n
<1>3. /\ DOMAIN r = Fields /\ r.pc = "done" /\ r.target = o.target /\ r.text = o.text
      /\ r.args.in = None /\ r.file = << >> /\ r.after = None /\ r.seen = 0 /\ r.image = "unset"
      /\ r.size = None /\ r.sent = 0
  BY <1>2 DEF Fields
<1>. HIDE DEF r
<1>4. 0 \in 0..now
  BY ImagesAssumption
<1>5. ImageInv(r)
  BY <1>3, <1>4 DEF ImageInv, None
<1>6. ParsingGoes(o, r)
  BY <1>3 DEF ParsingGoes
<1>7. QuietStep(t, r)
  BY <1>1, <1>3 DEF QuietStep, Becomes, Quietly, o, Pcs
<1>8. QED
  BY <1>5, <1>6, <1>7 DEF Quiets, o

(* Every step of a thread is a quiet one, a call of strtok, or its death.  *)
LEMMA StepsAre ==
  ASSUME StringsInv, now \in DOMAIN Disk, NEW t \in Threads, ImageInv(thread[t]), Runs(t)
  PROVE  \/ \E r : Quiets(t, r)
         \/ SplitPath(t) \/ SplitArguments(t) \/ TakesName(t) \/ TakesValue(t)
         \/ FindsPath(t) /\ Dies(t)
         \/ Composes(t) /\ Dies(t)
BY ChecksTargetQuietly, OtherRouteQuietly, FindsPathQuietly, StatsQuietly, LoadsQuietly,
   ComposesQuietly, EndsQuietly DEF Runs

(* Such steps keep the strings ...                                         *)
LEMMA QuietlyKeepsStrings ==
  ASSUME StringsInv, NEW t \in Threads, NEW r, QuietStep(t, r)
  PROVE  StringsInv'
BY QuietKeepsStrings DEF QuietStep

-----------------------------------------------------------------------------
(* The steps with strtok                                                   *)

(* What the calls of strtok leave alone in the thread that makes them.     *)
LEMMA StrtokStepsAre ==
  ASSUME StringsInv, NEW t \in Threads,
         \/ SplitArguments(t) \/ TakesName(t)
         \/ TakesValue(t) /\ Word(saved.in, saved.at) # None
  PROVE  \E u \in Threads : \E i, delims, r :
           /\ Calls(t, u, i, delims, r)
           /\ DOMAIN r = Fields /\ r.text = thread[t].text
           /\ thread[t].pc \in {"rest", "first", "name", "value"}
           /\ r.pc \in {"check", "value", "name", "handler", "answered"}
           /\ \A f \in {"target", "after", "seen", "image", "size", "sent", "file"} : r[f] = thread[t][f]
<1>. DEFINE o == thread[t]
<1>1. DOMAIN o = Fields
  BY DEF StringsInv, HasStrings
<1>2. CASE SplitArguments(t)
  <2>. DEFINE u == saved.in
              token == Token(thread[u].text, saved.at, {Quest})
              r == [o EXCEPT !.args = [in |-> u, at |-> token.start], !.pc = "check"]
  <2>1. o.pc = "rest" /\ Calls(t, u, saved.at, {Quest}, r)
    BY <1>2 DEF SplitArguments, At
  <2>2. u \in Threads
    BY <2>1, SavedIsInText DEF InText
  <2>. HIDE DEF o, token
  <2>3. /\ DOMAIN r = Fields /\ r.pc = "check" /\ r.text = o.text
        /\ \A f \in {"target", "after", "seen", "image", "size", "sent", "file"} : r[f] = o[f]
    BY <1>1 DEF Fields
  <2>. HIDE DEF r, u
  <2>4. QED
    BY <2>1, <2>2, <2>3 DEF o
<1>3. CASE TakesName(t)
  <2>. DEFINE u == IF o.pc = "first" THEN Arguments(t).in ELSE saved.in
              i == IF o.pc = "first" THEN Arguments(t).at ELSE saved.at
              name == Word(u, i)
              r == IF name # None THEN [o EXCEPT !.name = name, !.pc = "value"]
                   ELSE IF o.tree # Empty THEN [o EXCEPT !.pc = "handler"]
                   ELSE [o EXCEPT !.pc = "answered", !.code = "SERVICE_UNAVAILABLE"]
  <2>1. o.pc \in {"first", "name"} /\ Calls(t, u, i, {Eq, Amp}, r)
    BY <1>3 DEF TakesName, At
  <2>2. u \in Threads
    <3>1. o.pc = "first" => InText(o.args)
      BY DEF StringsInv, HasStrings
    <3>2. QED
      BY <2>1, <3>1, SavedIsInText DEF Arguments, InText
  <2>. HIDE DEF o, name, u, i
  <2>3. /\ DOMAIN r = Fields /\ r.pc \in {"value", "handler", "answered"} /\ r.text = o.text
        /\ \A f \in {"target", "after", "seen", "image", "size", "sent", "file"} : r[f] = o[f]
    BY <1>1 DEF Fields
  <2>. HIDE DEF r
  <2>4. QED
    BY <2>1, <2>2, <2>3 DEF o
<1>4. CASE TakesValue(t) /\ Word(saved.in, saved.at) # None
  <2>. DEFINE value == Word(saved.in, saved.at)
              r == [o EXCEPT !.tree = AddNode(@, o.name, value), !.pc = "name"]
  <2>1. o.pc = "value" /\ Calls(t, saved.in, saved.at, {Eq, Amp}, r)
    BY <1>4 DEF TakesValue, At
  <2>2. saved.in \in Threads
    BY <2>1, SavedIsInText DEF InText
  <2>. HIDE DEF o, value
  <2>3. /\ DOMAIN r = Fields /\ r.pc = "name" /\ r.text = o.text
        /\ \A f \in {"target", "after", "seen", "image", "size", "sent", "file"} : r[f] = o[f]
    BY <1>1 DEF Fields
  <2>. HIDE DEF r
  <2>4. QED
    BY <2>1, <2>2, <2>3 DEF o
<1>5. QED
  BY <1>2, <1>3, <1>4

(* The invariant on an image's thread speaks of its record and of now      *)
(* only.                                                                   *)
LEMMA ImagePrimes ==
  ASSUME NEW x \in Threads, now' = now, ImageInv(thread'[x])
  PROVE  ImageInv(thread[x])'
BY DEF ImageInv, Current, WholeOf

(* A cut string changes nothing of what is known of an image.              *)
LEMMA StrtokKeepsImages ==
  ASSUME StringsInv, \A x \in Threads : ImageInv(thread[x]), NEW t \in Threads,
         \/ SplitArguments(t) \/ TakesName(t)
         \/ TakesValue(t) /\ Word(saved.in, saved.at) # None
  PROVE  \A x \in Threads : ImageInv(thread[x])'
<1>0. PICK u \in Threads : \E i, delims, r :
           /\ Calls(t, u, i, delims, r)
           /\ DOMAIN r = Fields /\ r.text = thread[t].text
           /\ thread[t].pc \in {"rest", "first", "name", "value"}
           /\ r.pc \in {"check", "value", "name", "handler", "answered"}
           /\ \A f \in {"target", "after", "seen", "image", "size", "sent", "file"} : r[f] = thread[t][f]
  BY StrtokStepsAre
<1>1. PICK i, delims, r :
           /\ Calls(t, u, i, delims, r)
           /\ DOMAIN r = Fields /\ r.text = thread[t].text
           /\ thread[t].pc \in {"rest", "first", "name", "value"}
           /\ r.pc \in {"check", "value", "name", "handler", "answered"}
           /\ \A f \in {"target", "after", "seen", "image", "size", "sent", "file"} : r[f] = thread[t][f]
  BY <1>0
<1>2. \A x \in Threads : \A f \in Fields \ {"text"} :
        thread'[x][f] = IF x = t THEN r[f] ELSE thread[x][f]
  BY <1>1, CallsEffect
<1>3. now' = now
  BY <1>1 DEF Calls
<1>4. ASSUME NEW x \in Threads
      PROVE  ImageInv(thread'[x])
  <2>. DEFINE o == thread[x]
              z == thread'[x]
  <2>1. ImageInv(o)
    OBVIOUS
  <2>2. /\ z.target = o.target /\ z.after = o.after /\ z.seen = o.seen /\ z.image = o.image
        /\ z.size = o.size /\ z.sent = o.sent /\ z.file = o.file
    BY <1>1, <1>2 DEF Fields
  <2>3. CASE x = t
    <3>1. /\ o.pc \in {"rest", "first", "name", "value"}
          /\ z.pc \in {"check", "value", "name", "handler", "answered"}
      BY <1>1, <1>2, <2>3 DEF Fields
    <3>. HIDE DEF o, z
    <3>2. ImageInv(z)
      BY <2>1, <2>2, <3>1 DEF ImageInv
    <3>3. QED
      BY <3>2 DEF z
  <2>4. CASE x # t
    <3>1. z.pc = o.pc /\ z.code = o.code /\ z.read = o.read /\ z.length = o.length
      BY <1>2, <2>4 DEF Fields
    <3>. HIDE DEF o, z
    <3>2. Current(o) => Current(z)
      BY <2>2, Zenon DEF Current, NeedNotLoad
    <3>3. WholeOf(o) => WholeOf(z)
      BY <2>2, <3>1 DEF WholeOf
    <3>4. ImageInv(z)
      <4>1. z.target.since = o.target.since /\ z.target.date = o.target.date
        BY <2>2
      <4>2. /\ z.pc \notin {"compose", "answered"} => z.image = "unset"
            /\ z.pc \notin {"stat", "load", "answered"} /\ z.image = "unset" => z.file = << >>
            /\ z.pc \in {"stat", "load"} \/ z.image # "unset" => z.file # << >>
            /\ z.pc = "load" => z.seen \in 1..now /\ z.file \in DOMAIN Disk[z.seen]
            /\ z.pc \in {"compose", "answered"} => z.image \in {"unset", "null", "read"}
        BY <2>1, <2>2, <3>1 DEF ImageInv
      <4>3. /\ z.seen \in 0..now /\ z.size \in Int /\ z.sent \in Nat
            /\ z.after = None \/ \E s \in Shifts : z.after = z.target.date - s
        BY <2>1, <2>2 DEF ImageInv
      <4>4. z.pc = "compose" =>
              /\ z.code \notin {"NOT_MODIFIED", "PRECONDITION_FAILED"}
              /\ z.image = "null" /\ z.size = NO_NEED_TO_LOAD => Current(z)
              /\ z.image = "read" => WholeOf(z)
        BY <2>1, <2>2, <3>1, <3>2, <3>3 DEF ImageInv
      <4>5. z.pc = "answered" =>
              /\ z.image = "null" /\ z.code = "NOT_MODIFIED" => Current(z) /\ z.target.since
              /\ z.image = "null" /\ z.code = "PRECONDITION_FAILED" => Current(z) /\ ~z.target.since
        BY <2>1, <2>2, <3>1, <3>2, <4>1, Zenon DEF ImageInv
      <4>6. z.pc = "answered" /\ z.image = "read" /\ z.code = "OK" =>
              WholeOf(z) /\ z.length = z.size /\ z.sent = z.size
        BY <2>1, <2>2, <3>1, <3>3 DEF ImageInv
      <4>7. QED
        BY <4>2, <4>3, <4>4, <4>5, <4>6, Zenon DEF ImageInv
    <3>5. QED
      BY <3>4 DEF z
  <2>5. QED
    BY <2>3, <2>4
<1>5. QED
  BY <1>3, <1>4, ImagePrimes

(* A new thread knows nothing yet.                                         *)
LEMMA SplitPathKeepsImages ==
  ASSUME StringsInv, now \in DOMAIN Disk, \A x \in Threads : ImageInv(thread[x]), NEW t \in Threads,
         SplitPath(t)
  PROVE  \A x \in Threads : ImageInv(thread[x])'
<1>1. PICK g \in Targets[t] :
        LET r     == NewThread(g)
            token == Token(g.text, 1, {Quest})
            path  == IF token.start = None THEN << >> ELSE StringAt(token.left, token.start)
        IN thread' = [thread EXCEPT ![t] =
                        [r EXCEPT !.text = token.left, !.path = path,
                           !.pc = IF Len(path) # Len(g.text) - 1 THEN "rest" ELSE "check"]]
  BY DEF SplitPath
<1>. DEFINE token == Token(g.text, 1, {Quest})
            path  == IF token.start = None THEN << >> ELSE StringAt(token.left, token.start)
            pc    == IF Len(path) # Len(g.text) - 1 THEN "rest" ELSE "check"
            n     == NewThread(g)
            r     == [n EXCEPT !.text = token.left, !.path = path, !.pc = pc]
<1>2. pc \in {"rest", "check"}
  OBVIOUS
<1>3. /\ DOMAIN n = Fields /\ n.target = g /\ n.file = << >>
      /\ n.after = None /\ n.seen = 0 /\ n.image = "unset" /\ n.size = None /\ n.sent = 0
  BY NewThreadIs
<1>4. thread'[t] = r /\ \A x \in Threads \ {t} : thread'[x] = thread[x]
  BY <1>1 DEF StringsInv
<1>. HIDE DEF n, token, path, pc
<1>5. /\ r.file = << >> /\ r.after = None /\ r.seen = 0 /\ r.image = "unset" /\ r.size = None
      /\ r.sent = 0 /\ r.pc = pc
  BY <1>3 DEF Fields
<1>6. 0 \in 0..now
  BY ImagesAssumption
<1>. HIDE DEF r
<1>7. ImageInv(r)
  BY <1>2, <1>5, <1>6 DEF ImageInv, None
<1>8. now' = now
  BY DEF SplitPath
<1>9. QED
  BY <1>4, <1>7, <1>8, ImagePrimes

(* ... and, when they keep what is known of their own image, of every      *)
(* image.                                                                  *)
LEMMA QuietlyKeepsImages ==
  ASSUME StringsInv, \A x \in Threads : ImageInv(thread[x]), NEW t \in Threads, NEW r, Quiets(t, r)
  PROVE  \A x \in Threads : ImageInv(thread[x])'
<1>1. thread'[t] = r /\ now' = now /\ \A x \in Threads \ {t} : thread'[x] = thread[x]
  BY DEF StringsInv, Quiets, QuietStep
<1>2. \A x \in Threads : ImageInv(thread'[x])
  BY <1>1 DEF Quiets
<1>3. QED
  BY <1>1, <1>2, ImagePrimes

(* The files change: what was looked at stays in the past.                 *)
LEMMA DiskKeepsImages ==
  ASSUME now \in DOMAIN Disk, \A x \in Threads : ImageInv(thread[x]), DiskChanges
  PROVE  /\ now' \in DOMAIN Disk
         /\ \A x \in Threads : ImageInv(thread[x])'
<1>1. now \in Nat \ {0} /\ now < Len(Disk) /\ now' = now + 1 /\ thread' = thread
  BY ImagesAssumption DEF DiskChanges
<1>2. now' \in DOMAIN Disk
  BY <1>1, ImagesAssumption
<1>3. 1..now \subseteq 1..now' /\ 0..now \subseteq 0..now'
  BY <1>1
<1>4. ASSUME NEW x \in Threads
      PROVE  ImageInv(thread[x])'
  <2>. DEFINE r == thread[x]
  <2>1. ImageInv(r) /\ r' = r
    BY <1>1
  <2>2. Current(r) => Current(r)'
    BY <1>3, <2>1 DEF Current
  <2>3. WholeOf(r) => WholeOf(r)'
    BY <1>3, <2>1 DEF WholeOf
  <2>4. r.seen \in 0..now'
    BY <1>3, <2>1 DEF ImageInv
  <2>5. r.pc = "load" => r.seen \in 1..now'
    BY <1>3, <2>1 DEF ImageInv
  <2>6. QED
    BY <2>1, <2>2, <2>3, <2>4, <2>5 DEF ImageInv
<1>5. QED
  BY <1>2, <1>4

-----------------------------------------------------------------------------
(* What a client wrote                                                     *)

WrittenOf(g) ==
  LET q == FirstFrom(g.text, 1, Quest) IN
  IF q > Len(g.text) THEN << >> ELSE StringAt(g.text, q + 1)

(* What a client wrote depends on the target alone.                        *)
LEMMA WrittenIs == \A t : Written(t) = WrittenOf(thread[t].target)
BY DEF Written, WrittenOf

(* The arguments are all that is behind the first `?', but for the Nul.    *)
LEMMA WrittenFacts ==
  ASSUME NEW t \in Threads, NEW g \in Targets[t]
  PROVE  LET s == g.text
             q == FirstFrom(s, 1, Quest)
             w == WrittenOf(g)
         IN  /\ s \in Seq(Int) /\ Len(s) \in Nat \ {0} /\ w \in Seq(Int) /\ Len(w) \in Nat
             /\ \/ /\ q \in 1..Len(s) - 1 /\ s[q] = Quest
                   /\ \A k \in 1..q - 1 : s[k] \notin {Quest, Nul}
                   /\ Len(w) = Len(s) - 1 - q /\ \A i \in 1..Len(w) : w[i] = s[q + i]
                \/ /\ q = Len(s) + 1 /\ w = << >>
                   /\ \A k \in 1..Len(s) - 1 : s[k] \notin {Quest, Nul}
<1>. DEFINE s == g.text
            q == FirstFrom(s, 1, Quest)
            w == WrittenOf(g)
<1>1. /\ s \in Seq(Int) /\ Len(s) \in Nat \ {0} /\ Len(s) > 1 /\ s[Len(s)] = Nul
      /\ \A i \in 1..Len(s) : s[i] \in Int /\ (s[i] = Nul <=> i = Len(s))
  <2>1. CString(s) /\ Len(s) > 1 /\ \A i \in 1..Len(s) : s[i] = Nul <=> i = Len(s)
    BY TargetsAreStrings
  <2>2. s \in Seq(Int)
    BY <2>1 DEF CString
  <2>3. Len(s) \in Nat /\ \A i \in 1..Len(s) : s[i] \in Int
    BY <2>2, LenProperties, ElementOfSeq
  <2>. HIDE DEF s
  <2>4. QED
    BY <2>1, <2>2, <2>3 DEF CString
<1>. HIDE DEF s
<1>2. CASE \E j \in 1..Len(s) : s[j] = Quest
  <2>1. PICK e \in 1..Len(s) : s[e] = Quest
    BY <1>2
  <2>2. q = NextAt(s, 1, {Quest})
    BY <1>2 DEF FirstFrom
  <2>3. q \in 1..e /\ s[q] = Quest /\ \A k \in 1..q - 1 : s[k] # Quest
    <3>1. 1 \in Nat \ {0} /\ s[e] \in {Quest}
      BY <2>1
    <3>2. /\ NextAt(s, 1, {Quest}) \in 1..e /\ s[NextAt(s, 1, {Quest})] \in {Quest}
          /\ \A k \in 1..NextAt(s, 1, {Quest}) - 1 : s[k] \notin {Quest}
      BY <1>1, <2>1, <3>1, NextAtIsFirst
    <3>. HIDE DEF q
    <3>3. QED
      BY <2>2, <3>2
  <2>. HIDE DEF q
  <2>4. q \in 1..Len(s) - 1
    BY <1>1, <2>1, <2>3 DEF Quest, Nul
  <2>5. w = StringAt(s, q + 1)
    BY <1>1, <2>4 DEF q, s, WrittenOf
  <2>6. NextAt(s, q + 1, {Nul}) = Len(s)
    <3>. DEFINE i == q + 1
                z == Len(s)
    <3>1. /\ i \in Nat \ {0} /\ z \in i..Len(s) /\ s[z] \in {Nul}
          /\ \A k \in i..z - 1 : s[k] \notin {Nul}
      BY <1>1, <2>4
    <3>. HIDE DEF i, z
    <3>2. NextAt(s, i, {Nul}) = z
      BY <1>1, <3>1, NextAtIs
    <3>3. QED
      BY <3>2 DEF i, z
  <2>7. w = SubSeq(s, q + 1, Len(s) - 1)
    BY <2>5, <2>6 DEF StringAt
  <2>8. /\ w \in Seq(Int) /\ Len(w) = Len(s) - 1 - q /\ Len(w) \in Nat
        /\ \A i \in 1..Len(w) : w[i] = s[q + i]
    <3>. DEFINE a == q + 1
                b == Len(s) - 1
    <3>1. a \in Int /\ b \in Int /\ \A i \in a..b : s[i] \in Int
      BY <1>1, <2>4
    <3>2. /\ SubSeq(s, a, b) \in Seq(Int)
          /\ Len(SubSeq(s, a, b)) = IF a <= b THEN b - a + 1 ELSE 0
          /\ \A i \in 1..b - a + 1 : SubSeq(s, a, b)[i] = s[a + i - 1]
      <4>. HIDE DEF a, b
      <4>1. QED
        BY <3>1, SubSeqProperties
    <3>3. w = SubSeq(s, a, b)
      BY <2>7
    <3>. HIDE DEF w
    <3>4. w \in Seq(Int) /\ Len(w) = Len(s) - 1 - q /\ \A i \in 1..Len(w) : w[i] = s[a + i - 1]
      BY <1>1, <2>4, <3>2, <3>3
    <3>5. \A i \in 1..Len(w) : a + i - 1 = q + i
      BY <1>1, <2>4, <3>4
    <3>6. \A i \in 1..Len(w) : w[i] = s[q + i]
      <4>. HIDE DEF a
      <4>1. QED
        BY <3>4, <3>5
    <3>7. Len(w) \in Nat
      BY <3>4, LenProperties
    <3>8. QED
      BY <3>4, <3>6, <3>7
  <2>9. \A k \in 1..q - 1 : s[k] \notin {Quest, Nul}
    BY <1>1, <2>3, <2>4
  <2>. HIDE DEF w
  <2>10. QED
    BY <1>1, <2>3, <2>4, <2>8, <2>9 DEF q, w, s
<1>3. CASE ~ \E j \in 1..Len(s) : s[j] = Quest
  <2>1. q = Len(s) + 1
    BY <1>3 DEF FirstFrom
  <2>2. w = << >>
    BY <1>1, <2>1 DEF WrittenOf, s
  <2>3. w \in Seq(Int) /\ Len(w) \in Nat
    BY <2>2, EmptySeq
  <2>4. \A k \in 1..Len(s) - 1 : s[k] \notin {Quest, Nul}
    BY <1>1, <1>3
  <2>. HIDE DEF q, w
  <2>5. QED
    BY <1>1, <2>1, <2>2, <2>3, <2>4 DEF q, w, s
<1>4. QED
  BY <1>2, <1>3

(* An argument and its separator are four units long: the units are        *)
(* numbered by the argument and the place in it.                           *)
LEMMA Quarters ==
  ASSUME NEW x \in Nat
  PROVE  (x \div 4) \in Nat /\ x = 4 * (x \div 4) + (x % 4)
OBVIOUS

(* The units of the m-th argument.                                         *)
LEMMA WellFormedAt ==
  ASSUME NEW w \in Seq(Int), WellFormed(w), NEW m \in Nat, 4 * m + 3 <= Len(w)
  PROVE  /\ w[4 * m + 1] > 0 /\ w[4 * m + 2] = Eq /\ w[4 * m + 3] > 0
         /\ 4 * m + 3 = Len(w) \/ (w[4 * m + 4] = Amp /\ 4 * m + 7 <= Len(w))
<1>1. Len(w) \in Nat /\ DOMAIN w = 1..Len(w)
  BY LenProperties
<1>2. w # << >>
  BY <1>1, EmptySeq
<1>3. Len(w) % 4 = 3 /\ \A i \in 1..Len(w) : IF i % 2 = 1 THEN w[i] > 0
                                             ELSE w[i] = (IF i % 4 = 2 THEN Eq ELSE Amp)
  BY <1>1, <1>2 DEF WellFormed
<1>4. /\ 4 * m + 1 \in 1..Len(w) /\ 4 * m + 2 \in 1..Len(w) /\ 4 * m + 3 \in 1..Len(w)
      /\ (4 * m + 1) % 2 = 1 /\ (4 * m + 3) % 2 = 1
      /\ (4 * m + 2) % 2 = 0 /\ (4 * m + 2) % 4 = 2
  BY <1>1
<1>5. w[4 * m + 1] > 0 /\ w[4 * m + 2] = Eq /\ w[4 * m + 3] > 0
  BY <1>3, <1>4
<1>6. 4 * m + 3 = Len(w) \/ 4 * m + 7 <= Len(w)
  <2>. DEFINE n == Len(w) \div 4
  <2>1. n \in Nat /\ Len(w) = 4 * n + 3
    BY <1>1, <1>3, Quarters
  <2>. HIDE DEF n
  <2>2. QED
    BY <2>1
<1>7. 4 * m + 7 <= Len(w) => w[4 * m + 4] = Amp
  <2>1. 4 * m + 7 <= Len(w) => 4 * m + 4 \in 1..Len(w)
    BY <1>1
  <2>2. (4 * m + 4) % 2 = 0 /\ (4 * m + 4) % 4 = 0
    OBVIOUS
  <2>3. QED
    BY <1>3, <2>1, <2>2
<1>8. QED
  BY <1>5, <1>6, <1>7

(* Every unit of the arguments is a word, `=' or `&'.                      *)
LEMMA WellFormedUnits ==
  ASSUME NEW w \in Seq(Int), WellFormed(w), NEW i \in 1..Len(w)
  PROVE  w[i] \notin {Quest, Nul}
<1>1. DOMAIN w = 1..Len(w) /\ w[i] \in Int
  BY LenProperties, ElementOfSeq
<1>2. w[i] > 0 \/ w[i] = Eq \/ w[i] = Amp
  BY <1>1 DEF WellFormed
<1>3. QED
  BY <1>1, <1>2 DEF Quest, Nul, Eq, Amp

(* An argument more.                                                       *)
LEMMA HasOneMore ==
  ASSUME NEW tree, NEW w, NEW m \in Nat, Has(tree, w, m),
         w[4 * m + 1] \in Int, w[4 * m + 3] # None
  PROVE  /\ Has(AddNode(tree, w[4 * m + 1], w[4 * m + 3]), w, m + 1)
         /\ AddNode(tree, w[4 * m + 1], w[4 * m + 3]) # Empty
<1>. DEFINE name  == w[4 * m + 1]
            value == w[4 * m + 3]
            more  == AddNode(tree, name, value)
<1>1. /\ Tree(more) /\ more # Empty
      /\ \A o \in Int : SearchTree(more, o) = IF o = name /\ SearchTree(tree, name) = None
                                              THEN value ELSE SearchTree(tree, o)
  <2>. HIDE DEF name, value
  <2>1. Tree(tree) /\ name \in Int /\ value # None
    BY DEF Has, name, value
  <2>2. QED
    BY <2>1, AddNodeAdds
<1>. HIDE DEF more
<1>2. ASSUME NEW k \in Int
      PROVE  \/ SearchTree(more, k) = None /\ \A j \in 0..(m + 1) - 1 : w[4 * j + 1] # k
             \/ \E j \in 0..(m + 1) - 1 : /\ w[4 * j + 1] = k /\ SearchTree(more, k) = w[4 * j + 3]
                                          /\ SearchTree(more, k) # None /\ \A i \in 0..j - 1 : w[4 * i + 1] # k
  <2>0. (m + 1) - 1 = m /\ m \in 0..m
    OBVIOUS
  <2>1. CASE \E j \in 0..m - 1 : /\ w[4 * j + 1] = k /\ SearchTree(tree, k) = w[4 * j + 3]
                                 /\ SearchTree(tree, k) # None /\ \A i \in 0..j - 1 : w[4 * i + 1] # k
    <3>1. PICK j \in 0..m - 1 : /\ w[4 * j + 1] = k /\ SearchTree(tree, k) = w[4 * j + 3]
                                /\ SearchTree(tree, k) # None /\ \A i \in 0..j - 1 : w[4 * i + 1] # k
      BY <2>1
    <3>2. SearchTree(more, k) = SearchTree(tree, k)
      BY <1>1, <3>1
    <3>3. QED
      BY <2>0, <3>1, <3>2
  <2>2. CASE SearchTree(tree, k) = None /\ \A j \in 0..m - 1 : w[4 * j + 1] # k
    <3>1. CASE k = name
      BY <1>1, <2>0, <2>2, <3>1
    <3>2. CASE k # name
      <4>1. \A j \in 0..m : w[4 * j + 1] # k
        BY <2>2, <3>2
      <4>2. QED
        BY <1>1, <2>0, <2>2, <3>2, <4>1
    <3>3. QED
      BY <3>1, <3>2
  <2>3. QED
    BY <2>1, <2>2 DEF Has
<1>3. Has(more, w, m + 1)
  BY <1>1, <1>2 DEF Has
<1>4. QED
  BY <1>1, <1>3 DEF more

(* All of them.                                                            *)
LEMMA HasAll ==
  ASSUME NEW tree, NEW w \in Seq(Int), NEW m \in Nat, 4 * m = Len(w) + 1, Has(tree, w, m)
  PROVE  \A k \in Int : SearchTree(tree, k) = ValueIn(w, k)
<1>1. Len(w) \in Nat /\ DOMAIN w = 1..Len(w)
  BY LenProperties
<1>2. SUFFICES ASSUME NEW k \in Int PROVE SearchTree(tree, k) = ValueIn(w, k)
  OBVIOUS
<1>. DEFINE at == {i \in DOMAIN w : i % 4 = 1 /\ w[i] = k}
<1>3. ASSUME NEW i \in at
      PROVE  \E j \in 0..m - 1 : i = 4 * j + 1
  <2>. DEFINE j == i \div 4
  <2>1. i \in Nat /\ i \in 1..Len(w) /\ i % 4 = 1
    BY <1>1
  <2>2. j \in Nat /\ i = 4 * j + 1
    BY <2>1, Quarters
  <2>. HIDE DEF j
  <2>3. QED
    BY <1>1, <2>1, <2>2
<1>4. \A j \in 0..m - 1 : 4 * j + 1 \in 1..Len(w) /\ (4 * j + 1) % 4 = 1
  BY <1>1
<1>5. \A j \in 0..m - 1 : w[4 * j + 1] = k => 4 * j + 1 \in at
  BY <1>1, <1>4
<1>6. \A i \in at : i \in Nat /\ w[i] = k
  BY <1>1
<1>7. ValueIn(w, k) = IF at = {} THEN None ELSE w[(CHOOSE i \in at : \A j \in at : i <= j) + 2]
  BY DEF ValueIn
<1>. HIDE DEF at
<1>8. CASE SearchTree(tree, k) = None /\ \A j \in 0..m - 1 : w[4 * j + 1] # k
  <2>1. at = {}
    BY <1>3, <1>6, <1>8
  <2>2. QED
    BY <1>7, <1>8, <2>1
<1>9. CASE \E j \in 0..m - 1 : /\ w[4 * j + 1] = k /\ SearchTree(tree, k) = w[4 * j + 3]
                               /\ SearchTree(tree, k) # None /\ \A i \in 0..j - 1 : w[4 * i + 1] # k
  <2>1. PICK j \in 0..m - 1 : /\ w[4 * j + 1] = k /\ SearchTree(tree, k) = w[4 * j + 3]
                              /\ \A i \in 0..j - 1 : w[4 * i + 1] # k
    BY <1>9
  <2>2. 4 * j + 1 \in at
    BY <1>5, <2>1
  <2>3. \A i \in at : 4 * j + 1 <= i
    <3>1. SUFFICES ASSUME NEW i \in at PROVE 4 * j + 1 <= i
      OBVIOUS
    <3>2. PICK n \in 0..m - 1 : i = 4 * n + 1
      BY <1>3
    <3>3. w[4 * n + 1] = k
      BY <1>6, <3>2
    <3>4. n \notin 0..j - 1
      BY <2>1, <3>3
    <3>5. m \in Nat
      BY <1>1
    <3>6. QED
      BY <3>2, <3>4, <3>5
  <2>4. \A i \in at : (\A n \in at : i <= n) => i = 4 * j + 1
    BY <1>6, <2>2, <2>3
  <2>5. (CHOOSE i \in at : \A n \in at : i <= n) = 4 * j + 1
    BY <2>2, <2>3, <2>4, Zenon
  <2>6. (4 * j + 1) + 2 = 4 * j + 3
    OBVIOUS
  <2>7. QED
    BY <1>7, <2>1, <2>2, <2>5, <2>6
<1>10. QED
  BY <1>8, <1>9 DEF Has

(* A client that wrote none.                                               *)
LEMMA HasNone ==
  Has(Empty, << >>, 0) /\ \A k \in Int : SearchTree(Empty, k) = ValueIn(<< >>, k)
<1>1. \A w : Has(Empty, w, 0)
  BY EmptyTree DEF Has
<1>2. \A k : ValueIn(<< >>, k) = None
  <2>1. DOMAIN << >> = {}
    OBVIOUS
  <2>2. QED
    BY <2>1 DEF ValueIn
<1>3. QED
  BY <1>1, <1>2, EmptyTree

-----------------------------------------------------------------------------
(* The parsing                                                             *)

(* Of the threads that are not in the middle of it, nothing is asked that  *)
(* another thread could change.                                            *)
LEMMA OthersParsing ==
  ASSUME NEW x \in Threads, Unmixed(x) => ParsingInv(x), ~Parsing(x), mixed \subseteq mixed',
         thread'[x].pc = thread[x].pc, thread'[x].target = thread[x].target,
         thread'[x].tree = thread[x].tree, thread'[x].file = thread[x].file
  PROVE  Unmixed(x)' => ParsingInv(x)'
<1>1. SUFFICES ASSUME Unmixed(x)' PROVE ParsingInv(x)'
  OBVIOUS
<1>2. Written(x)' = Written(x)
  BY DEF Written
<1>3. Unmixed(x)
  BY <1>1, <1>2 DEF Unmixed
<1>. DEFINE r == thread[x]
            w == Written(x)
<1>4. r.pc \notin {"rest", "check", "first", "name", "value"}
  BY DEF Parsing
<1>5. /\ r.pc \in {"handler", "stat", "load", "compose"} => KnowsArguments(x)
      /\ r.pc \in {"stat", "load", "compose", "answered"} /\ r.file # << >> =>
           r.file[1] = ValueIn(w, ImageName)
  BY <1>3 DEF ParsingInv
<1>6. KnowsArguments(x) => KnowsArguments(x)'
  BY <1>2 DEF KnowsArguments
<1>7. QED
  BY <1>2, <1>4, <1>5, <1>6 DEF ParsingInv

(* A call of strtok leaves alone, or mixes, whoever does not make it.      *)
LEMMA StrtokSparesOthers ==
  ASSUME StringsInv, \A x \in Threads : Unmixed(x) => ParsingInv(x),
         NEW t \in Threads, mixed' = mixed \cup {x \in Threads \ {t} : Parsing(x)},
         NEW x \in Threads \ {t},
         \A f \in Fields \ {"text"} : thread'[x][f] = thread[x][f]
  PROVE  Unmixed(x)' => ParsingInv(x)'
<1>1. CASE Parsing(x)
  BY <1>1 DEF Unmixed
<1>2. CASE ~Parsing(x)
  BY <1>2, OthersParsing DEF Fields
<1>3. QED
  BY <1>1, <1>2

(* What is known of images stays true of a thread that stands still.       *)
LEMMA ImageInvIsKept ==
  ASSUME NEW x \in Threads, ImageInv(thread[x]), thread'[x] = thread[x], now' = now
  PROVE  ImageInv(thread[x])'
<1>1. (Current(thread[x])' <=> Current(thread[x])) /\ (WholeOf(thread[x])' <=> WholeOf(thread[x]))
  BY DEF Current, WholeOf
<1>. QED  BY <1>1 DEF ImageInv

(* A quiet step spares the others, too ...                                 *)
LEMMA QuietSparesOthers ==
  ASSUME NEW x \in Threads, Unmixed(x) => ParsingInv(x),
         thread'[x] = thread[x], saved' = saved, mixed' = mixed
  PROVE  Unmixed(x)' => ParsingInv(x)'
<1>1. (Unmixed(x)' <=> Unmixed(x)) /\ Written(x)' = Written(x) /\ QuestOf(x)' = QuestOf(x)
  BY DEF Unmixed, Written, QuestOf
<1>2. KnowsArguments(x)' <=> KnowsArguments(x)
  BY <1>1 DEF KnowsArguments
<1>3. \A m \in Nat : (AtName(x, m)' <=> AtName(x, m)) /\ (AtValue(x, m)' <=> AtValue(x, m))
  BY <1>1 DEF AtName, AtValue
<1>4. /\ AtArguments(x, saved)' <=> AtArguments(x, saved)
      /\ AtArguments(x, thread[x].args)' <=> AtArguments(x, thread[x].args)
  BY <1>1 DEF AtArguments
<1>. QED  BY <1>1, <1>2, <1>3, <1>4 DEF ParsingInv

(* ... and keeps what its own thread knows.                                *)
LEMMA QuietlyKeepsParsing ==
  ASSUME StringsInv, \A x \in Threads : Unmixed(x) => ParsingInv(x),
         NEW t \in Threads, NEW r, Quiets(t, r)
  PROVE  \A x \in Threads : Unmixed(x)' => ParsingInv(x)'
<1>. DEFINE o == thread[t]
            w == Written(t)
<1>1. /\ thread'[t] = r /\ saved' = saved /\ mixed' = mixed
      /\ \A x \in Threads \ {t} : thread'[x] = thread[x]
      /\ r.target = o.target /\ r.text = o.text /\ ParsingGoes(o, r)
  BY DEF StringsInv, Quiets, QuietStep
<1>2. \A x \in Threads \ {t} : Unmixed(x)' => ParsingInv(x)'
  BY <1>1, QuietSparesOthers
<1>3. ASSUME Unmixed(t)'
      PROVE  ParsingInv(t)'
  <2>1. Written(t)' = w /\ QuestOf(t)' = QuestOf(t)
    BY <1>1 DEF Written, QuestOf
  <2>2. Unmixed(t)
    BY <1>1, <1>3, <2>1 DEF Unmixed
  <2>3. ParsingInv(t)
    BY <2>2
  <2>4. r.pc \notin {"rest", "check", "name", "value"}
    BY <1>1 DEF ParsingGoes
  <2>5. r.pc = "first" => r.tree = Empty /\ w # << >> /\ AtArguments(t, r.args)
    BY <1>1, <2>3 DEF ParsingGoes, ParsingInv
  <2>6. r.pc \in {"handler", "stat", "load", "compose"} =>
          \A k \in Int : SearchTree(r.tree, k) = ValueIn(w, k)
    <3>1. r.pc = "handler" => r.tree = Empty /\ w = << >>
      <4>1. SUFFICES ASSUME r.pc = "handler" PROVE r.tree = Empty /\ w = << >>
        OBVIOUS
      <4>2. o.pc = "check" /\ o.args.in = None /\ r.tree = o.tree
        BY <1>1, <4>1 DEF ParsingGoes
      <4>3. ~AtArguments(t, o.args)
        BY <4>2, NothingIsNobody DEF AtArguments
      <4>4. QED
        BY <2>3, <4>2, <4>3 DEF ParsingInv
    <3>2. r.pc \in {"stat", "load", "compose"} => r.tree = o.tree /\ KnowsArguments(t)
      BY <1>1, <2>3 DEF ParsingGoes, ParsingInv
    <3>3. QED
      BY <3>1, <3>2, HasNone DEF KnowsArguments
  <2>7. r.pc \in {"stat", "load", "compose", "answered"} /\ r.file # << >> =>
          r.file[1] = ValueIn(w, ImageName)
    <3>1. ImageName \in Int
      BY ImagesAssumption
    <3>2. o.pc = "handler" => SearchTree(o.tree, ImageName) = ValueIn(w, ImageName)
      BY <2>3, <3>1 DEF ParsingInv, KnowsArguments
    <3>3. o.pc \in {"stat", "load", "compose"} /\ o.file # << >> =>
            o.file[1] = ValueIn(w, ImageName)
      BY <2>3 DEF ParsingInv
    <3>4. QED
      BY <1>1, <3>2, <3>3 DEF ParsingGoes
  <2>8. AtArguments(t, r.args) => AtArguments(t, thread[t].args)'
    BY <1>1, <2>1 DEF AtArguments, Keeps
  <2>9. (\A k \in Int : SearchTree(r.tree, k) = ValueIn(w, k)) => KnowsArguments(t)'
    BY <1>1, <2>1 DEF KnowsArguments
  <2>. HIDE DEF w, o
  <2>10. QED
    BY <1>1, <2>1, <2>4, <2>5, <2>6, <2>7, <2>8, <2>9 DEF ParsingInv
<1>4. QED
  BY <1>2, <1>3

(* The string that strtok leaves.                                          *)
LEMMA CutString ==
  ASSUME NEW s \in Seq(Int), NEW e \in 1..Len(s)
  PROVE  LET left == [s EXCEPT ![e] = Nul] IN
         /\ left \in Seq(Int) /\ Len(left) = Len(s)
         /\ \A k \in 1..Len(s) : left[k] = IF k = e THEN Nul ELSE s[k]
<1>1. Nul \in Int
  BY DEF Nul
<1>2. QED
  BY <1>1, ExceptSeq

(* Where a target starts with a path, the path ends at the `?' or at the   *)
(* end of the string.                                                      *)
LEMMA PathIsSplitOff ==
  ASSUME StringsInv, NEW t \in Threads, SplitPath(t), thread'[t].target.text[1] # Quest
  PROVE  ParsingInv(t)' /\ killer' = None
<1>1. PICK g \in Targets[t] :
        LET r     == NewThread(g)
            token == Token(g.text, 1, {Quest})
            path  == IF token.start = None THEN << >> ELSE StringAt(token.left, token.start)
        IN /\ thread' = [thread EXCEPT ![t] =
                           [r EXCEPT !.text = token.left, !.path = path,
                              !.pc = IF Len(path) # Len(g.text) - 1 THEN "rest" ELSE "check"]]
           /\ saved' = [in |-> t, at |-> token.next]
           /\ killer' = IF token.start = None THEN t ELSE None
  BY DEF SplitPath
<1>. DEFINE s     == g.text
            w     == WrittenOf(g)
            q     == FirstFrom(s, 1, Quest)
            token == Token(s, 1, {Quest})
            path  == IF token.start = None THEN << >> ELSE StringAt(token.left, token.start)
            pc    == IF Len(path) # Len(s) - 1 THEN "rest" ELSE "check"
            n     == NewThread(g)
            r     == [n EXCEPT !.text = token.left, !.path = path, !.pc = pc]
            e     == IF q <= Len(s) THEN q ELSE Len(s)
<1>2. /\ s \in Seq(Int) /\ Len(s) \in Nat \ {0} /\ w \in Seq(Int) /\ Len(w) \in Nat
      /\ \/ /\ q \in 1..Len(s) - 1 /\ s[q] = Quest
            /\ \A k \in 1..q - 1 : s[k] \notin {Quest, Nul}
         \/ /\ q = Len(s) + 1 /\ w = << >>
            /\ \A k \in 1..Len(s) - 1 : s[k] \notin {Quest, Nul}
  BY WrittenFacts
<1>3. Len(s) > 1 /\ s[Len(s)] = Nul
  BY TargetsAreStrings DEF CString
<1>a. s[1] # Quest
  <2>1. DOMAIN n = Fields /\ n.target = g
    BY NewThreadIs
  <2>2. thread'[t] = r
    BY <1>1 DEF StringsInv
  <2>. HIDE DEF n, token, path, pc
  <2>3. r.target = g
    BY <2>1 DEF Fields
  <2>4. QED
    BY <2>2, <2>3
<1>. HIDE DEF w, q
<1>4. e \in 1 + 1..Len(s) /\ 1 \in 1..Len(s) /\ s[e] \in {Quest} \cup {Nul}
      /\ (\A k \in 1..e - 1 : s[k] \notin {Quest} \cup {Nul})
      /\ (e = Len(s) <=> q > Len(s)) /\ (s[e] = Nul <=> e = Len(s)) /\ (q <= Len(s) => e = q)
  <2>1. Quest # Nul
    BY DEF Quest, Nul
  <2>2. CASE q <= Len(s)
    <3>1. /\ q \in 1..Len(s) - 1 /\ s[q] = Quest
          /\ \A k \in 1..q - 1 : s[k] \notin {Quest, Nul}
      BY <1>2, <2>2
    <3>2. e = q
      BY <2>2
    <3>a. q # 1
      BY <1>a, <3>1
    <3>. HIDE DEF e, s
    <3>3. e \in 1 + 1..Len(s) /\ 1 \in 1..Len(s) /\ e # Len(s) /\ ~(q > Len(s))
      BY <1>2, <3>1, <3>2, <3>a
    <3>4. QED
      BY <2>1, <3>1, <3>2, <3>3
  <2>3. CASE ~(q <= Len(s))
    <3>1. q = Len(s) + 1 /\ \A k \in 1..Len(s) - 1 : s[k] \notin {Quest, Nul}
      <4>1. ~(q \in 1..Len(s) - 1)
        <5>. HIDE DEF s, e
        <5>. QED  BY <1>2, <2>3
      <4>. QED  BY ZenonT(40), <1>2, <4>1
    <3>2. e = Len(s)
      BY <2>3
    <3>. HIDE DEF e, s
    <3>3. e \in 1 + 1..Len(s) /\ 1 \in 1..Len(s) /\ q > Len(s)
      BY <1>2, <1>3, <3>1, <3>2
    <3>4. s[e] = Nul
      BY <1>3, <3>2
    <3>5. QED
      BY <2>3, <3>1, <3>2, <3>3, <3>4
  <2>4. QED
    BY <2>2, <2>3
<1>. HIDE DEF e
<1>5. token = [start |-> 1, left |-> [s EXCEPT ![e] = Nul], next |-> IF s[e] = Nul THEN e ELSE e + 1]
  <2>. HIDE DEF s
  <2>1. QED
    BY ZenonT(40), <1>2, <1>4, TokenIs, NulIsNoDelimiter DEF token
<1>. DEFINE left == [s EXCEPT ![e] = Nul]
<1>6. left \in Seq(Int) /\ Len(left) = Len(s) /\ \A k \in 1..Len(s) : left[k] = IF k = e THEN Nul ELSE s[k]
  <2>1. e \in 1..Len(s)
    BY <1>2, <1>4
  <2>2. s \in Seq(Int)
    BY <1>2
  <2>. HIDE DEF s
  <2>3. QED
    BY <2>1, <2>2, CutString
<1>7. Len(path) = e - 1
  <2>1. path = StringAt(left, 1)
    <3>1. token.start = 1 /\ token.left = left
      BY <1>5
    <3>. HIDE DEF token, left
    <3>2. QED
      BY <3>1 DEF None
  <2>. HIDE DEF left, token, path
  <2>2. 1 \in Nat \ {0} /\ e \in 1..Len(left) /\ left[e] \in {Nul} /\ \A k \in 1..e - 1 : left[k] \notin {Nul}
    <3>1. e \in 1..Len(s) /\ \A k \in 1..e - 1 : k \in 1..Len(s) /\ k # e /\ s[k] # Nul
      <4>1. e \in 1..Len(s) /\ \A k \in 1..e - 1 : k \in 1..Len(s) /\ k # e
        BY <1>2, <1>4
      <4>2. \A k \in 1..e - 1 : s[k] # Nul
        BY <1>4
      <4>3. QED
        BY <4>1, <4>2
    <3>2. left[e] = Nul /\ \A k \in 1..e - 1 : left[k] = s[k]
      BY <1>6, <3>1
    <3>3. QED
      BY <1>6, <3>1, <3>2
  <2>3. NextAt(left, 1, {Nul}) = e
    BY <1>6, <2>2, NextAtIs
  <2>4. path = SubSeq(left, 1, e - 1)
    BY <2>1, <2>3 DEF StringAt
  <2>5. 1 \in Int /\ e - 1 \in Int /\ (\A i \in 1..e - 1 : left[i] \in Int) /\ 1 <= e - 1
    <3>1. \A i \in 1..Len(left) : left[i] \in Int
      BY <1>6, ElementOfSeq
    <3>2. QED
      BY <1>2, <1>4, <1>6, <3>1
  <2>6. Len(SubSeq(left, 1, e - 1)) = IF 1 <= e - 1 THEN (e - 1) - 1 + 1 ELSE 0
    <3>. DEFINE b == e - 1
    <3>1. b \in Int /\ \A i \in 1..b : left[i] \in Int
      BY <2>5
    <3>. HIDE DEF b
    <3>2. Len(SubSeq(left, 1, b)) = IF 1 <= b THEN b - 1 + 1 ELSE 0
      BY <3>1, SubSeqProperties
    <3>3. QED
      BY <3>2 DEF b
  <2>7. QED
    BY <2>4, <2>5, <2>6
<1>8. saved'.in = t /\ saved'.at = (IF s[e] = Nul THEN e ELSE e + 1) /\ killer' = None
  <2>1. token.start = 1 /\ token.next = IF s[e] = Nul THEN e ELSE e + 1
    BY <1>5
  <2>. HIDE DEF token, left
  <2>2. QED
    BY <1>1, <2>1 DEF None, token
<1>9. /\ DOMAIN n = Fields /\ n.target = g /\ n.args.in = None /\ n.file = << >> /\ n.tree = Empty
  BY NewThreadIs
<1>10. thread'[t] = r /\ \A x \in Threads \ {t} : thread'[x] = thread[x]
  BY <1>1 DEF StringsInv
<1>11. token.left = left
  BY <1>5
<1>. HIDE DEF n, token, path, pc, left, s
<1>12. /\ r.target = g /\ r.args.in = None /\ r.file = << >> /\ r.tree = Empty
       /\ r.text = left /\ r.pc = pc
  BY <1>9, <1>11 DEF Fields
<1>. HIDE DEF r
<1>13. pc = IF q <= Len(s) THEN "rest" ELSE "check"
  BY <1>2, <1>4, <1>7 DEF pc
<1>14. ParsingInv(t)'
  <2>1. Written(t)' = w /\ QuestOf(t)' = q /\ thread'[t].target.text = s
    BY <1>10, <1>12 DEF Written, WrittenOf, QuestOf, w, q, s
  <2>2. CASE q <= Len(s)
    <3>1. saved'.at = q + 1
      BY <1>2, <1>4, <1>8, <2>2
    <3>2. \A j \in q + 1..Len(s) : left[j] = s[j]
      <4>1. \A j \in q + 1..Len(s) : j \in 1..Len(s) /\ j # e
        <5>1. e = q
          BY <1>4, <2>2
        <5>2. e \in 1 + 1..Len(s)
          BY <1>4, Zenon
        <5>3. Len(s) \in Nat
          BY <1>2, Zenon
        <5>4. QED
          BY ONLY <5>1, <5>2, <5>3
      <4>2. ASSUME NEW j \in q + 1..Len(s)
            PROVE  left[j] = s[j]
        <5>1. j \in 1..Len(s) /\ j # e
          BY <4>1
        <5>2. left[j] = IF j = e THEN Nul ELSE s[j]
          BY <1>6, <5>1
        <5>3. QED
          BY <5>1, <5>2
      <4>3. QED
        BY <4>2
    <3>3. AtArguments(t, saved)'
      BY <1>8, <1>10, <1>12, <2>1, <2>2, <3>1, <3>2 DEF AtArguments, Keeps
    <3>4. QED
      BY <1>10, <1>12, <1>13, <2>2, <3>3 DEF ParsingInv
  <2>3. CASE q > Len(s)
    <3>1. w = << >> /\ ~(q <= Len(s))
      BY <1>2, <2>3
    <3>2. QED
      BY <1>10, <1>12, <1>13, <2>1, <3>1 DEF ParsingInv
  <2>4. QED
    BY <1>2, <2>2, <2>3
<1>15. QED
  BY <1>8, <1>14

(* The others are spared, and who has no path is not somebody whose        *)
(* parsing is spoken of.                                                   *)
LEMMA SplitPathKeepsParsing ==
  ASSUME StringsInv, \A x \in Threads : Unmixed(x) => ParsingInv(x),
         NEW t \in Threads, SplitPath(t)
  PROVE  /\ \A x \in Threads : Unmixed(x)' => ParsingInv(x)'
         /\ killer' = None \/ (killer' = t /\ ~Unmixed(t)')
<1>1. /\ \A x \in Threads \ {t} : thread'[x] = thread[x]
      /\ mixed' = mixed \cup {x \in Threads \ {t} : Parsing(x)}
      /\ killer' \in {t, None}
  BY DEF SplitPath, StringsInv
<1>2. \A x \in Threads \ {t} : Unmixed(x)' => ParsingInv(x)'
  BY <1>1, StrtokSparesOthers
<1>3. Unmixed(t)' => ParsingInv(t)' /\ killer' = None
  BY PathIsSplitOff DEF Unmixed
<1>4. QED
  BY <1>1, <1>2, <1>3

(* The string of a thread that has begun, and what its client wrote.       *)
LEMMA OwnString ==
  ASSUME StringsInv, NEW t \in Threads, thread[t].pc # "idle"
  PROVE  LET s == thread[t].target.text
             x == thread[t].text
             q == QuestOf(t)
             w == Written(t)
         IN  /\ s \in Seq(Int) /\ Len(s) \in Nat \ {0} /\ s[Len(s)] = Nul
             /\ x \in Seq(Int) /\ Len(x) = Len(s)
             /\ w \in Seq(Int) /\ Len(w) \in Nat
             /\ \/ q \in 1..Len(s) - 1 /\ Len(w) = Len(s) - 1 - q /\ \A i \in 1..Len(w) : w[i] = s[q + i]
                \/ q = Len(s) + 1 /\ w = << >>
<1>. DEFINE g == thread[t].target
<1>1. g \in Targets[t] /\ CString(thread[t].text) /\ Len(thread[t].text) = Len(g.text)
  BY DEF StringsInv, HasStrings
<1>2. CString(g.text)
  BY <1>1, TargetsAreStrings
<1>3. /\ g.text \in Seq(Int) /\ Len(g.text) \in Nat \ {0} /\ WrittenOf(g) \in Seq(Int)
      /\ Len(WrittenOf(g)) \in Nat
      /\ \/ /\ FirstFrom(g.text, 1, Quest) \in 1..Len(g.text) - 1
            /\ Len(WrittenOf(g)) = Len(g.text) - 1 - FirstFrom(g.text, 1, Quest)
            /\ \A i \in 1..Len(WrittenOf(g)) : WrittenOf(g)[i] = g.text[FirstFrom(g.text, 1, Quest) + i]
         \/ FirstFrom(g.text, 1, Quest) = Len(g.text) + 1 /\ WrittenOf(g) = << >>
  BY <1>1, WrittenFacts
<1>4. Written(t) = WrittenOf(g) /\ QuestOf(t) = FirstFrom(g.text, 1, Quest)
  BY WrittenIs DEF QuestOf
<1>. HIDE DEF g
<1>5. QED
  BY <1>1, <1>2, <1>3, <1>4 DEF CString, g

(* A thread that goes on in its own string.                                *)
LEMMA OwnCall ==
  ASSUME StringsInv, \A x \in Threads : Unmixed(x) => ParsingInv(x),
         NEW t \in Threads, NEW u \in Threads, NEW i, NEW delims, NEW r, Calls(t, u, i, delims, r),
         DOMAIN r = Fields, r.text = thread[t].text, r.target = thread[t].target
  PROVE  /\ \A x \in Threads \ {t} : Unmixed(x)' => ParsingInv(x)'
         /\ Unmixed(t)' => Unmixed(t)
         /\ Written(t)' = Written(t) /\ QuestOf(t)' = QuestOf(t)
         /\ \A f \in Fields \ {"text"} : thread'[t][f] = r[f]
         /\ thread'[t].text = IF t = u THEN Token(thread[u].text, i, delims).left ELSE thread[t].text
         /\ saved'.in = u /\ saved'.at = Token(thread[u].text, i, delims).next
<1>. DEFINE token == Token(thread[u].text, i, delims)
<1>1. /\ DOMAIN thread' = Threads
      /\ \A x \in Threads :
              /\ DOMAIN thread'[x] = Fields
              /\ thread'[x].text = IF x = u THEN token.left ELSE thread[x].text
              /\ \A f \in Fields \ {"text"} : thread'[x][f] = IF x = t THEN r[f] ELSE thread[x][f]
      /\ saved'.in = u /\ saved'.at = token.next
  BY CallsEffect
<1>. HIDE DEF token
<1>2. mixed' = mixed \cup {x \in Threads \ {t} : Parsing(x)}
  BY DEF Calls
<1>3. \A x \in Threads \ {t} : Unmixed(x)' => ParsingInv(x)'
  BY <1>1, <1>2, StrtokSparesOthers
<1>4. thread'[t].target = thread[t].target
  BY <1>1 DEF Fields
<1>5. Written(t)' = Written(t) /\ QuestOf(t)' = QuestOf(t)
  BY <1>4 DEF Written, QuestOf
<1>6. Unmixed(t)' => Unmixed(t)
  BY <1>2, <1>4, <1>5 DEF Unmixed
<1>7. QED
  BY <1>1, <1>3, <1>5, <1>6 DEF token

(* strtok(NULL, "?") leaves the arguments where the client wrote them,     *)
(* when no other thread came in between.                                   *)
LEMMA SplitArgumentsKeepsParsing ==
  ASSUME StringsInv, \A x \in Threads : Unmixed(x) => ParsingInv(x),
         NEW t \in Threads, SplitArguments(t)
  PROVE  \A x \in Threads : Unmixed(x)' => ParsingInv(x)'
<1>. DEFINE o == thread[t]
            u == saved.in
            i == saved.at
            token == Token(thread[u].text, i, {Quest})
            r == [o EXCEPT !.args = [in |-> u, at |-> token.start], !.pc = "check"]
            s == o.target.text
            x == o.text
            q == QuestOf(t)
            w == Written(t)
<1>1. o.pc = "rest" /\ Calls(t, u, i, {Quest}, r) /\ DOMAIN o = Fields
  BY DEF SplitArguments, At, StringsInv, HasStrings
<1>2. u \in Threads
  BY <1>1, SavedIsInText DEF InText
<1>3. /\ s \in Seq(Int) /\ Len(s) \in Nat \ {0} /\ s[Len(s)] = Nul
      /\ x \in Seq(Int) /\ Len(x) = Len(s)
      /\ w \in Seq(Int) /\ Len(w) \in Nat
      /\ \/ q \in 1..Len(s) - 1 /\ Len(w) = Len(s) - 1 - q /\ \A j \in 1..Len(w) : w[j] = s[q + j]
         \/ q = Len(s) + 1 /\ w = << >>
  BY <1>1, OwnString
<1>. HIDE DEF w, q, token, o
<1>4. /\ DOMAIN r = Fields /\ r.text = o.text /\ r.target = o.target /\ r.pc = "check"
      /\ r.args.in = u /\ r.args.at = token.start /\ r.tree = o.tree
  BY <1>1 DEF Fields
<1>. HIDE DEF r, u, i
<1>5. /\ \A y \in Threads \ {t} : Unmixed(y)' => ParsingInv(y)'
      /\ Unmixed(t)' => Unmixed(t)
      /\ Written(t)' = w /\ QuestOf(t)' = q
      /\ \A f \in Fields \ {"text"} : thread'[t][f] = r[f]
      /\ thread'[t].text = IF t = u THEN token.left ELSE o.text
  BY <1>1, <1>2, <1>4, OwnCall DEF o, w, q, token
<1>6. /\ thread'[t].pc = "check" /\ thread'[t].args = r.args /\ thread'[t].tree = o.tree
      /\ thread'[t].target = o.target
  BY <1>4, <1>5 DEF Fields
<1>7. ASSUME Unmixed(t)'
      PROVE  ParsingInv(t)'
  <2>1. WellFormed(w) /\ ParsingInv(t)
    BY <1>5, <1>7 DEF Unmixed, w
  <2>2. o.tree = Empty /\ u = t /\ i = q + 1 /\ q <= Len(s) /\ \A j \in q + 1..Len(s) : x[j] = s[j]
    BY <1>1, <2>1 DEF ParsingInv, AtArguments, Keeps, o, u, i, q
  <2>3. q \in 1..Len(s) - 1 /\ Len(w) = Len(s) - 1 - q /\ \A j \in 1..Len(w) : w[j] = s[q + j]
    BY <1>3, <2>2
  <2>4. token = Token(x, q + 1, {Quest}) /\ q + 1 \in 1..Len(x)
    BY <1>3, <2>2, <2>3 DEF token, o
  <2>5. CASE w = << >>
    <3>1. q + 1 = Len(s) /\ x[q + 1] = Nul
      <4>1. Len(w) = 0
        BY <2>5, EmptySeq
      <4>. HIDE DEF s, x
      <4>2. q + 1 = Len(s)
        BY <1>3, <2>3, <4>1
      <4>3. q + 1 \in q + 1..Len(s)
        BY <1>3, <4>2
      <4>4. QED
        BY <1>3, <2>2, <4>2, <4>3
    <3>2. token.start = None
      <4>. DEFINE n == q + 1
      <4>. DEFINE D == {Quest}
      <4>1. n \in 1..Len(x) /\ x[n] = Nul /\ token = Token(x, n, D) /\ Nul \notin D /\ x \in Seq(Int)
        BY <1>3, <2>4, <3>1, NulIsNoDelimiter
      <4>. HIDE DEF n, x, D
      <4>2. token = [start |-> None, left |-> x, next |-> n]
        BY <4>1, NoTokenAtEnd
      <4>3. QED
        BY <4>2
    <3>3. QED
      BY <1>4, <1>5, <1>6, <2>2, <2>5, <3>2 DEF ParsingInv, w
  <2>6. CASE w # << >>
    <3>. DEFINE n == q + 1
                e == Len(s)
    <3>1. Len(w) > 0
      BY <1>3, <2>6, EmptySeq
    <3>2. ASSUME NEW k \in n..e - 1
          PROVE  x[k] \notin {Quest} \cup {Nul}
      <4>1. k - q \in 1..Len(w) /\ q + (k - q) = k /\ k \in q + 1..Len(s)
        BY <1>3, <2>3
      <4>2. w[k - q] = s[k] /\ w[k - q] \notin {Quest, Nul}
        BY <1>3, <2>1, <2>3, <4>1, WellFormedUnits
      <4>3. QED
        BY <2>2, <4>1, <4>2
    <3>3. n \in 1..Len(x) /\ e \in n + 1..Len(x) /\ x[e] = Nul
      <4>1. n \in 1..Len(s) /\ e \in n + 1..Len(s) /\ e \in q + 1..Len(s)
        BY <1>3, <2>3, <3>1
      <4>2. x[e] = s[e] /\ s[e] = Nul
        BY <1>3, <2>2, <4>1
      <4>3. QED
        BY <1>3, <4>1, <4>2
    <3>4. token = [start |-> n, left |-> [x EXCEPT ![e] = Nul], next |-> IF x[e] = Nul THEN e ELSE e + 1]
      <4>. DEFINE D == {Quest}
      <4>1. /\ token = Token(x, n, D) /\ Nul \notin D /\ x \in Seq(Int)
            /\ n \in 1..Len(x) /\ e \in n + 1..Len(x) /\ x[e] \in D \cup {Nul}
            /\ \A k \in n..e - 1 : x[k] \notin D \cup {Nul}
        BY <1>3, <2>4, <3>2, <3>3, NulIsNoDelimiter
      <4>. HIDE DEF n, e, x, D
      <4>2. QED
        BY <4>1, TokenIs
    <3>5. token.start = q + 1
      BY <3>4
    <3>6. \A j \in q + 1..Len(s) : token.left[j] = s[j]
      <4>. DEFINE left == [x EXCEPT ![e] = Nul]
      <4>1. e \in 1..Len(x)
        BY <1>3, <3>3
      <4>2. \A k \in 1..Len(x) : left[k] = IF k = e THEN Nul ELSE x[k]
        <5>. HIDE DEF x, e
        <5>1. QED
          BY <1>3, <4>1, CutString
      <4>3. token.left = left
        BY <3>4
      <4>. HIDE DEF left
      <4>4. \A j \in q + 1..Len(s) : j \in 1..Len(x)
        BY <1>3, <2>3
      <4>5. QED
        BY <1>3, <2>2, <4>2, <4>3, <4>4
    <3>7. AtArguments(t, thread[t].args)'
      <4>1. thread'[t].args.in = t /\ thread'[t].args.at = q + 1 /\ thread'[t].target.text = s
        BY <1>4, <1>6, <2>2, <3>5
      <4>2. \A j \in q + 1..Len(thread'[t].target.text) : thread'[t].text[j] = thread'[t].target.text[j]
        BY <1>5, <2>2, <3>6, <4>1
      <4>3. QED
        BY <1>5, <2>2, <4>1, <4>2 DEF AtArguments, Keeps
    <3>8. QED
      BY <1>5, <1>6, <2>2, <2>6, <3>7 DEF ParsingInv, w
  <2>7. QED
    BY <2>5, <2>6
<1>8. QED
  BY <1>5, <1>7

(* A word of one unit is what the next call finds.                         *)
LEMMA OneWord ==
  ASSUME NEW x \in Seq(Int), NEW i \in 1..Len(x), i + 1 \in 1..Len(x),
         x[i] > 0, x[i + 1] \in {Eq, Amp, Nul}
  PROVE  LET token == Token(x, i, {Eq, Amp}) IN
         /\ token.start = i
         /\ token.next = IF x[i + 1] = Nul THEN i + 1 ELSE i + 2
         /\ \A k \in token.next..Len(x) : token.left[k] = x[k]
<1>. DEFINE D == {Eq, Amp}
            e == i + 1
            left == [x EXCEPT ![e] = Nul]
            next == IF x[e] = Nul THEN e ELSE e + 1
<1>1. Len(x) \in Nat /\ x[i] \in Int
  BY LenProperties, ElementOfSeq
<1>2. Nul \notin D /\ e \in i + 1..Len(x) /\ e \in 1..Len(x) /\ x[e] \in D \cup {Nul}
  BY <1>1, NulIsNoDelimiter
<1>3. \A k \in i..e - 1 : x[k] \notin D \cup {Nul}
  <2>1. x[i] \notin D \cup {Nul}
    BY <1>1 DEF Eq, Amp, Nul
  <2>2. \A k \in i..e - 1 : k = i
    BY <1>1
  <2>3. QED
    BY <2>1, <2>2
<1>4. Token(x, i, D) = [start |-> i, left |-> left, next |-> next]
  <2>. HIDE DEF D, e
  <2>1. QED
    BY <1>2, <1>3, TokenIs
<1>5. \A k \in 1..Len(x) : left[k] = IF k = e THEN Nul ELSE x[k]
  <2>. HIDE DEF e
  <2>1. QED
    BY <1>2, CutString
<1>. HIDE DEF left
<1>6. \A k \in next..Len(x) : left[k] = x[k]
  <2>1. CASE x[e] = Nul
    <3>1. \A k \in next..Len(x) : k \in 1..Len(x)
      BY <1>1, <2>1
    <3>2. QED
      BY <1>5, <2>1, <3>1
  <2>2. CASE x[e] # Nul
    <3>1. \A k \in next..Len(x) : k \in 1..Len(x) /\ k # e
      BY <1>1, <2>2
    <3>2. QED
      BY <1>5, <3>1
  <2>3. QED
    BY <2>1, <2>2
<1>7. next = IF x[i + 1] = Nul THEN i + 1 ELSE i + 2
  BY <1>1
<1>. HIDE DEF next
<1>. DEFINE token == Token(x, i, {Eq, Amp})
<1>8. token.start = i /\ token.next = next /\ token.left = left
  BY <1>4
<1>. HIDE DEF token
<1>9. (\A k \in token.next..Len(x) : token.left[k] = x[k]) /\ token.start = i
      /\ token.next = IF x[i + 1] = Nul THEN i + 1 ELSE i + 2
  BY <1>6, <1>7, <1>8
<1>10. QED
  BY <1>9 DEF token

(* Before a name, or at the end.                                           *)
NameStart(t) == IF thread[t].pc = "first" THEN thread[t].args.at ELSE saved.at

(* Before the next name is taken, the pointer is at what is still          *)
(* unparsed, and the tree holds what went before.                          *)
LEMMA BeforeName ==
  ASSUME StringsInv, NEW t \in Threads, thread[t].pc \in {"first", "name"}, Unmixed(t), ParsingInv(t)
  PROVE  LET r == thread[t]
             w == Written(t)
             i == NameStart(t)
             q == QuestOf(t)
         IN  /\ (IF r.pc = "first" THEN r.args.in ELSE saved.in) = t
             /\ q \in 1..Len(r.target.text) - 1 /\ Keeps(r, i)
             /\ \E m \in Nat : /\ Has(r.tree, w, m)
                               /\ \/ 4 * m + 3 <= Len(w) /\ i = q + 4 * m + 1
                                  \/ 4 * m = Len(w) + 1 /\ i = q + 4 * m /\ r.tree # Empty
<1>. DEFINE r == thread[t]
            w == Written(t)
            q == QuestOf(t)
            s == r.target.text
<1>1. /\ Len(s) \in Nat \ {0} /\ w \in Seq(Int) /\ Len(w) \in Nat /\ WellFormed(w)
      /\ q \in 1..Len(s) - 1 \/ (q = Len(s) + 1 /\ w = << >>)
  BY OwnString DEF Unmixed
<1>. HIDE DEF w, q, s
<1>2. CASE r.pc = "first"
  <2>1. /\ r.tree = Empty /\ w # << >> /\ q <= Len(s)
        /\ r.args.in = t /\ r.args.at = q + 1 /\ Keeps(r, q + 1)
    BY <1>2 DEF ParsingInv, AtArguments, w, q, s
  <2>2. Len(w) >= 3
    <3>1. Len(w) % 4 = 3
      BY <1>1, <2>1 DEF WellFormed
    <3>2. QED
      BY SMTT(30), <1>1, <3>1
  <2>3. Has(r.tree, w, 0)
    BY <2>1, EmptyTree DEF Has
  <2>4. NameStart(t) = q + 1 /\ q + 1 = q + 4 * 0 + 1 /\ 4 * 0 + 3 <= Len(w) /\ 0 \in Nat
        /\ q \in 1..Len(s) - 1
    BY <1>1, <1>2, <2>1, <2>2 DEF NameStart
  <2>5. QED
    BY <1>2, <2>1, <2>3, <2>4 DEF w, q, s
<1>3. CASE r.pc = "name"
  <2>1. PICK m \in Nat : AtName(t, m)
    BY <1>3 DEF ParsingInv
  <2>2. /\ 0 < m /\ 4 * m <= Len(w) + 1 /\ r.tree # Empty /\ Has(r.tree, w, m)
        /\ saved.in = t /\ saved.at = q + 4 * m + (IF 4 * m = Len(w) + 1 THEN 0 ELSE 1)
        /\ Keeps(r, saved.at)
    BY <2>1 DEF AtName, w, q
  <2>3. w # << >>
    BY <1>1, <2>2, EmptySeq
  <2>4. 4 * m = Len(w) + 1 \/ 4 * m + 3 <= Len(w)
    <3>. DEFINE n == m - 1
    <3>1. n \in Nat /\ 4 * n + 3 <= Len(w) /\ m = n + 1
      BY <1>1, <2>2
    <3>. HIDE DEF n
    <3>2. 4 * n + 3 = Len(w) \/ 4 * n + 7 <= Len(w)
      BY <1>1, <3>1, WellFormedAt
    <3>3. QED
      BY SMTT(30), <1>1, <3>1, <3>2
  <2>5. NameStart(t) = saved.at
    BY <1>3 DEF NameStart
  <2>6. \/ 4 * m + 3 <= Len(w) /\ saved.at = q + 4 * m + 1
        \/ 4 * m = Len(w) + 1 /\ saved.at = q + 4 * m
    <3>1. q \in Nat
      BY <1>1
    <3>2. QED
      BY <1>1, <2>2, <2>4, <3>1
  <2>7. QED
    BY <1>1, <1>3, <2>2, <2>3, <2>5, <2>6 DEF w, q, s
<1>4. QED
  BY <1>2, <1>3

(* strtok takes the next name that was written, or ends at the last.       *)
LEMMA TakesNameKeepsParsing ==
  ASSUME StringsInv, \A x \in Threads : Unmixed(x) => ParsingInv(x),
         NEW t \in Threads, TakesName(t)
  PROVE  \A x \in Threads : Unmixed(x)' => ParsingInv(x)'
<1>. DEFINE o == thread[t]
            u == IF o.pc = "first" THEN o.args.in ELSE saved.in
            i == NameStart(t)
            name == Word(u, i)
            token == Token(thread[u].text, i, {Eq, Amp})
            r == IF name # None THEN [o EXCEPT !.name = name, !.pc = "value"]
                 ELSE IF o.tree # Empty THEN [o EXCEPT !.pc = "handler"]
                 ELSE [o EXCEPT !.pc = "answered", !.code = "SERVICE_UNAVAILABLE"]
            s == o.target.text
            x == o.text
            q == QuestOf(t)
            w == Written(t)
<1>1. o.pc \in {"first", "name"} /\ Calls(t, u, i, {Eq, Amp}, r) /\ DOMAIN o = Fields
  BY DEF TakesName, At, StringsInv, HasStrings, Arguments, NameStart
<1>2. u \in Threads
  <2>1. o.pc = "first" => InText(o.args)
    BY DEF StringsInv, HasStrings
  <2>2. QED
    BY <1>1, <2>1, SavedIsInText DEF InText
<1>3. /\ s \in Seq(Int) /\ Len(s) \in Nat \ {0} /\ s[Len(s)] = Nul
      /\ x \in Seq(Int) /\ Len(x) = Len(s)
      /\ w \in Seq(Int) /\ Len(w) \in Nat
      /\ \/ q \in 1..Len(s) - 1 /\ Len(w) = Len(s) - 1 - q /\ \A j \in 1..Len(w) : w[j] = s[q + j]
         \/ q = Len(s) + 1 /\ w = << >>
  BY <1>1, OwnString
<1>. HIDE DEF w, q, token, o, name, u, i
<1>4. /\ DOMAIN r = Fields /\ r.text = o.text /\ r.target = o.target /\ r.tree = o.tree
      /\ r.file = o.file
      /\ \/ name # None /\ r.name = name /\ r.pc = "value"
         \/ name = None /\ o.tree # Empty /\ r.pc = "handler"
         \/ name = None /\ o.tree = Empty /\ r.pc = "answered"
  BY <1>1 DEF Fields
<1>. HIDE DEF r
<1>5. /\ \A y \in Threads \ {t} : Unmixed(y)' => ParsingInv(y)'
      /\ Unmixed(t)' => Unmixed(t)
      /\ Written(t)' = w /\ QuestOf(t)' = q
      /\ \A f \in Fields \ {"text"} : thread'[t][f] = r[f]
      /\ thread'[t].text = IF t = u THEN token.left ELSE o.text
      /\ saved'.in = u /\ saved'.at = token.next
  BY <1>1, <1>2, <1>4, OwnCall DEF o, w, q, token
<1>6. /\ thread'[t].pc = r.pc /\ thread'[t].name = r.name /\ thread'[t].tree = o.tree
      /\ thread'[t].target = o.target /\ thread'[t].file = o.file
  BY <1>4, <1>5 DEF Fields
<1>7. ASSUME Unmixed(t)'
      PROVE  ParsingInv(t)'
  <2>1. WellFormed(w) /\ ParsingInv(t) /\ Unmixed(t)
    BY <1>5, <1>7 DEF Unmixed, w
  <2>2. /\ u = t /\ q \in 1..Len(s) - 1 /\ Keeps(o, i)
        /\ \E m \in Nat : /\ Has(o.tree, w, m)
                          /\ \/ 4 * m + 3 <= Len(w) /\ i = q + 4 * m + 1
                             \/ 4 * m = Len(w) + 1 /\ i = q + 4 * m /\ o.tree # Empty
    BY <1>1, <2>1, BeforeName DEF o, u, i, q, w
  <2>3. PICK m \in Nat : /\ Has(o.tree, w, m)
                         /\ \/ 4 * m + 3 <= Len(w) /\ i = q + 4 * m + 1
                            \/ 4 * m = Len(w) + 1 /\ i = q + 4 * m /\ o.tree # Empty
    BY <2>2
  <2>4. Len(w) = Len(s) - 1 - q /\ (\A j \in 1..Len(w) : w[j] = s[q + j])
        /\ \A j \in i..Len(s) : x[j] = s[j]
    <3>1. ~(q = Len(s) + 1)
      BY <1>3, <2>2
    <3>2. QED
      BY <1>3, <2>2, <3>1 DEF Keeps
  <2>5. token = Token(x, i, {Eq, Amp}) /\ (name = IF token.start = None THEN None ELSE x[token.start])
    BY <2>2 DEF token, name, o, Word
  <2>. HIDE DEF s, x
  <2>a. /\ Len(s) \in Nat /\ Len(x) = Len(s) /\ q \in Nat /\ q > 0 /\ q < Len(s)
        /\ Len(w) \in Nat /\ Len(s) = Len(w) + 1 + q
    BY <1>3, <2>2, <2>4
  <2>6. CASE 4 * m + 3 <= Len(w) /\ i = q + 4 * m + 1
    <3>1. w[4 * m + 1] > 0 /\ w[4 * m + 2] = Eq
      BY <1>3, <2>1, <2>6, WellFormedAt
    <3>2. /\ i \in 1..Len(x) /\ i + 1 \in 1..Len(x) /\ i \in i..Len(s) /\ i + 1 \in i..Len(s)
          /\ q + (4 * m + 1) = i /\ q + (4 * m + 2) = i + 1
          /\ 4 * m + 1 \in 1..Len(w) /\ 4 * m + 2 \in 1..Len(w)
      BY <2>a, <2>6
    <3>3. x[i] = w[4 * m + 1] /\ x[i + 1] = w[4 * m + 2]
      BY <2>4, <3>2
    <3>4. x[i + 1] = Eq /\ x[i] > 0 /\ Eq # Nul /\ x[i] \in Int
      <4>1. x[i] \in Int
        BY <1>3, <3>2, ElementOfSeq
      <4>2. QED
        BY <3>1, <3>3, <4>1 DEF Eq, Nul
    <3>5. token.start = i /\ token.next = i + 2 /\ \A k \in token.next..Len(x) : token.left[k] = x[k]
      <4>1. /\ token.start = i /\ token.next = (IF x[i + 1] = Nul THEN i + 1 ELSE i + 2)
            /\ \A k \in token.next..Len(x) : token.left[k] = x[k]
        <5>1. x \in Seq(Int) /\ x[i + 1] \in {Eq, Amp, Nul}
          BY <1>3, <3>4
        <5>2. QED
          BY <2>5, <3>2, <3>4, <5>1, OneWord
      <4>2. QED
        BY <3>4, <4>1
    <3>6. name = w[4 * m + 1] /\ name # None
      <4>1. i # None
        BY <3>2 DEF None
      <4>2. name = x[i]
        BY <2>5, <3>5, <4>1
      <4>3. QED
        BY <3>3, <3>4, <4>2 DEF None
    <3>7. r.pc = "value" /\ r.name = w[4 * m + 1]
      BY <1>4, <3>6
    <3>8. /\ thread'[t].name = w[4 * m + 1] /\ thread'[t].tree = o.tree
          /\ saved'.in = t /\ saved'.at = q + 4 * m + 3
      <4>1. i + 2 = q + 4 * m + 3
        BY <1>3, <2>2, <2>6
      <4>2. QED
        BY <1>5, <1>6, <2>2, <3>5, <3>7, <4>1
    <3>9. \A j \in saved'.at..Len(thread'[t].target.text) : thread'[t].text[j] = thread'[t].target.text[j]
      <4>1. thread'[t].target.text = s /\ thread'[t].text = token.left /\ saved'.at = i + 2
        BY <1>5, <1>6, <2>2, <3>5 DEF s
      <4>2. \A j \in i + 2..Len(s) : j \in i..Len(s)
        BY <3>2
      <4>3. \A j \in i + 2..Len(s) : token.left[j] = s[j]
        BY <1>3, <2>4, <3>5, <4>2
      <4>4. QED
        BY <4>1, <4>3
    <3>10. AtValue(t, m)'
      BY <1>5, <2>3, <2>6, <3>8, <3>9 DEF AtValue, Keeps, w
    <3>11. (QuestOf(t) <= Len(thread[t].target.text))'
      BY <1>3, <1>5, <1>6, <2>2 DEF s
    <3>12. QED
      BY <1>6, <3>7, <3>10, <3>11 DEF ParsingInv
  <2>7. CASE 4 * m = Len(w) + 1 /\ i = q + 4 * m /\ o.tree # Empty
    <3>1. i = Len(s) /\ i \in 1..Len(x) /\ i \in i..Len(s)
      BY <2>a, <2>7
    <3>2. x[i] = Nul
      BY <1>3, <2>4, <3>1
    <3>3. token.start = None
      <4>. DEFINE D == {Eq, Amp}
      <4>1. Nul \notin D /\ token = Token(x, i, D)
        BY <2>5, NulIsNoDelimiter
      <4>. HIDE DEF D
      <4>2. token = [start |-> None, left |-> x, next |-> i]
        BY <1>3, <3>1, <3>2, <4>1, NoTokenAtEnd
      <4>3. QED
        BY <4>2
    <3>4. r.pc = "handler"
      BY <1>4, <2>5, <2>7, <3>3
    <3>5. \A k \in Int : SearchTree(o.tree, k) = ValueIn(w, k)
      BY <1>3, <2>3, <2>7, HasAll
    <3>6. KnowsArguments(t)'
      BY <1>5, <1>6, <3>5 DEF KnowsArguments
    <3>7. QED
      BY <1>6, <3>4, <3>6 DEF ParsingInv
  <2>8. QED
    BY <2>3, <2>6, <2>7
<1>8. QED
  BY <1>5, <1>7

(* Behind a name there is a value, unless another thread came in between.  *)
LEMMA ValueIsThere ==
  ASSUME StringsInv, NEW t \in Threads, thread[t].pc = "value", Unmixed(t), ParsingInv(t)
  PROVE  LET w == Written(t)
             q == QuestOf(t)
             s == thread[t].target.text
             token == Token(thread[t].text, saved.at, {Eq, Amp})
         IN  /\ saved.in = t
             /\ \E m \in Nat :
                  /\ Has(thread[t].tree, w, m) /\ thread[t].name = w[4 * m + 1]
                  /\ w[4 * m + 1] \in Int /\ w[4 * m + 3] # None
                  /\ Word(t, saved.at) = w[4 * m + 3]
                  /\ 4 * (m + 1) <= Len(w) + 1
                  /\ token.next = q + 4 * (m + 1) + (IF 4 * (m + 1) = Len(w) + 1 THEN 0 ELSE 1)
                  /\ \A j \in token.next..Len(s) : token.left[j] = s[j]
<1>. DEFINE w == Written(t)
            q == QuestOf(t)
            s == thread[t].target.text
            x == thread[t].text
            i == saved.at
            token == Token(x, i, {Eq, Amp})
<1>1. /\ s \in Seq(Int) /\ Len(s) \in Nat \ {0} /\ s[Len(s)] = Nul
      /\ x \in Seq(Int) /\ Len(x) = Len(s)
      /\ w \in Seq(Int) /\ Len(w) \in Nat
      /\ \/ q \in 1..Len(s) - 1 /\ Len(w) = Len(s) - 1 - q /\ \A j \in 1..Len(w) : w[j] = s[q + j]
         \/ q = Len(s) + 1 /\ w = << >>
  BY OwnString
<1>2. WellFormed(w)
  BY DEF Unmixed
<1>3. q <= Len(s) /\ \E m \in Nat : AtValue(t, m)
  BY DEF ParsingInv
<1>4. PICK m \in Nat : AtValue(t, m)
  BY <1>3
<1>5. /\ 4 * m + 3 <= Len(w) /\ Has(thread[t].tree, w, m) /\ thread[t].name = w[4 * m + 1]
      /\ saved.in = t /\ i = q + 4 * m + 3 /\ \A j \in i..Len(s) : x[j] = s[j]
  BY <1>4 DEF AtValue, Keeps
<1>. HIDE DEF w, q, s, x, i
<1>6. /\ Len(s) \in Nat /\ Len(x) = Len(s) /\ q \in Nat /\ q > 0 /\ q < Len(s)
      /\ Len(w) \in Nat /\ Len(s) = Len(w) + 1 + q /\ \A j \in 1..Len(w) : w[j] = s[q + j]
  <2>1. ~(q = Len(s) + 1)
    BY <1>1, <1>3
  <2>2. q \in 1..Len(s) - 1 /\ Len(w) = Len(s) - 1 - q /\ \A j \in 1..Len(w) : w[j] = s[q + j]
    BY <1>1, <2>1
  <2>3. Len(s) = Len(w) + 1 + q /\ q \in Nat /\ q > 0 /\ q < Len(s)
    <3>1. Len(s) \in Nat /\ Len(w) \in Nat /\ q \in 1..Len(s) - 1 /\ Len(w) = Len(s) - 1 - q
      BY <1>1, <2>2
    <3>2. QED
      BY <3>1
  <2>4. QED
    BY <1>1, <2>2, <2>3
<1>7. /\ w[4 * m + 1] > 0 /\ w[4 * m + 3] > 0
      /\ 4 * m + 3 = Len(w) \/ (w[4 * m + 4] = Amp /\ 4 * m + 7 <= Len(w))
  BY <1>1, <1>2, <1>5, WellFormedAt
<1>8. w[4 * m + 1] \in Int /\ w[4 * m + 3] \in Int /\ w[4 * m + 3] # None
  <2>1. 4 * m + 1 \in 1..Len(w) /\ 4 * m + 3 \in 1..Len(w)
    BY <1>5, <1>6
  <2>2. w[4 * m + 1] \in Int /\ w[4 * m + 3] \in Int
    BY <1>1, <2>1, ElementOfSeq
  <2>3. QED
    BY <1>7, <2>2 DEF None
<1>9. /\ i \in 1..Len(x) /\ i + 1 \in 1..Len(x) /\ i \in i..Len(s) /\ i + 1 \in i..Len(s)
      /\ q + (4 * m + 3) = i /\ 4 * m + 3 \in 1..Len(w)
  BY <1>5, <1>6
<1>10. x[i] = w[4 * m + 3]
  BY <1>5, <1>6, <1>9
<1>11. IF 4 * m + 3 = Len(w) THEN x[i + 1] = Nul ELSE x[i + 1] = Amp
  <2>1. CASE 4 * m + 3 = Len(w)
    <3>1. i + 1 = Len(s)
      BY <1>6, <1>9, <2>1
    <3>2. QED
      BY <1>1, <1>5, <1>9, <2>1, <3>1
  <2>2. CASE 4 * m + 3 # Len(w)
    <3>1. w[4 * m + 4] = Amp /\ 4 * m + 7 <= Len(w)
      BY <1>7, <2>2
    <3>2. 4 * m + 4 \in 1..Len(w) /\ q + (4 * m + 4) = i + 1
      <4>1. Len(w) \in Nat /\ q \in Nat /\ i = q + 4 * m + 3 /\ 4 * m + 7 <= Len(w)
        BY <1>5, <1>6, <3>1
      <4>2. QED
        BY <4>1
    <3>3. QED
      BY <1>5, <1>6, <1>9, <2>2, <3>1, <3>2
  <2>3. QED
    BY <2>1, <2>2
<1>12. /\ token.start = i
       /\ token.next = (IF x[i + 1] = Nul THEN i + 1 ELSE i + 2)
       /\ \A k \in token.next..Len(x) : token.left[k] = x[k]
  <2>1. x[i + 1] \in {Eq, Amp, Nul} /\ x[i] > 0 /\ x \in Seq(Int)
    BY <1>1, <1>7, <1>10, <1>11
  <2>2. QED
    BY <1>9, <2>1, OneWord
<1>13. Word(t, i) = w[4 * m + 3]
  <2>1. i # None
    BY <1>9 DEF None
  <2>2. Word(t, i) = IF token.start = None THEN None ELSE x[token.start]
    BY DEF Word, x
  <2>. HIDE DEF token
  <2>3. QED
    BY <1>10, <1>12, <2>1, <2>2
<1>. HIDE DEF token
<1>14. /\ 4 * (m + 1) <= Len(w) + 1
       /\ token.next = q + 4 * (m + 1) + (IF 4 * (m + 1) = Len(w) + 1 THEN 0 ELSE 1)
  <2>1. CASE 4 * m + 3 = Len(w)
    <3>1. token.next = i + 1
      BY <1>11, <1>12, <2>1
    <3>2. 4 * (m + 1) = Len(w) + 1 /\ i + 1 = q + 4 * (m + 1)
      BY <1>6, <1>9, <2>1
    <3>3. QED
      BY <1>6, <3>1, <3>2
  <2>2. CASE 4 * m + 3 # Len(w)
    <3>1. token.next = i + 2
      BY <1>11, <1>12, <2>2 DEF Nul, Amp
    <3>2. 4 * (m + 1) # Len(w) + 1 /\ 4 * (m + 1) <= Len(w) + 1 /\ i + 2 = q + 4 * (m + 1) + 1
      BY <1>5, <1>6, <1>9, <2>2
    <3>3. QED
      BY <3>1, <3>2
  <2>3. QED
    BY <2>1, <2>2
<1>15. \A j \in token.next..Len(s) : token.left[j] = s[j]
  <2>1. i \in Nat /\ token.next \in {i + 1, i + 2}
    BY <1>9, <1>12
  <2>2. \A j \in token.next..Len(s) : j \in i..Len(s)
    BY <1>9, <2>1
  <2>3. QED
    BY <1>5, <1>6, <1>12, <2>2
<1>16. QED
  BY <1>5, <1>8, <1>13, <1>14, <1>15 DEF w, q, s, x, i, token

(* strtok takes its value, and add_bstnode keeps the first of equal names. *)
LEMMA TakesValueKeepsParsing ==
  ASSUME StringsInv, \A x \in Threads : Unmixed(x) => ParsingInv(x),
         NEW t \in Threads, TakesValue(t), Word(saved.in, saved.at) # None
  PROVE  \A x \in Threads : Unmixed(x)' => ParsingInv(x)'
<1>. DEFINE o == thread[t]
            u == saved.in
            i == saved.at
            value == Word(u, i)
            token == Token(thread[u].text, i, {Eq, Amp})
            more == AddNode(o.tree, o.name, value)
            r == [o EXCEPT !.tree = more, !.pc = "name"]
            q == QuestOf(t)
            w == Written(t)
<1>1. o.pc = "value" /\ Calls(t, u, i, {Eq, Amp}, r) /\ DOMAIN o = Fields
  BY DEF TakesValue, At, StringsInv, HasStrings
<1>2. u \in Threads
  BY <1>1, SavedIsInText DEF InText
<1>. HIDE DEF w, q, token, o, value, u, i, more
<1>3. /\ DOMAIN r = Fields /\ r.text = o.text /\ r.target = o.target /\ r.tree = more /\ r.pc = "name"
  BY <1>1 DEF Fields
<1>. HIDE DEF r
<1>4. /\ \A y \in Threads \ {t} : Unmixed(y)' => ParsingInv(y)'
      /\ Unmixed(t)' => Unmixed(t)
      /\ Written(t)' = w /\ QuestOf(t)' = q
      /\ \A f \in Fields \ {"text"} : thread'[t][f] = r[f]
      /\ thread'[t].text = IF t = u THEN token.left ELSE o.text
      /\ saved'.in = u /\ saved'.at = token.next
  BY <1>1, <1>2, <1>3, OwnCall DEF o, w, q, token
<1>5. thread'[t].pc = "name" /\ thread'[t].tree = more /\ thread'[t].target = o.target
  BY <1>3, <1>4 DEF Fields
<1>6. ASSUME Unmixed(t)'
      PROVE  ParsingInv(t)'
  <2>1. /\ u = t
        /\ \E m \in Nat :
             /\ Has(o.tree, w, m) /\ o.name = w[4 * m + 1]
             /\ w[4 * m + 1] \in Int /\ w[4 * m + 3] # None
             /\ Word(t, i) = w[4 * m + 3]
             /\ 4 * (m + 1) <= Len(w) + 1
             /\ Token(o.text, i, {Eq, Amp}).next
                  = q + 4 * (m + 1) + (IF 4 * (m + 1) = Len(w) + 1 THEN 0 ELSE 1)
             /\ \A j \in Token(o.text, i, {Eq, Amp}).next..Len(o.target.text) :
                  Token(o.text, i, {Eq, Amp}).left[j] = o.target.text[j]
    <3>1. Unmixed(t) /\ ParsingInv(t)
      BY <1>4, <1>6
    <3>2. QED
      BY <1>1, <3>1, ValueIsThere DEF o, u, i, q, w
  <2>2. token = Token(o.text, i, {Eq, Amp}) /\ value = Word(t, i)
    BY <2>1 DEF token, value, o
  <2>3. PICK m \in Nat :
             /\ Has(o.tree, w, m) /\ o.name = w[4 * m + 1]
             /\ w[4 * m + 1] \in Int /\ w[4 * m + 3] # None
             /\ Word(t, i) = w[4 * m + 3]
             /\ 4 * (m + 1) <= Len(w) + 1
             /\ token.next = q + 4 * (m + 1) + (IF 4 * (m + 1) = Len(w) + 1 THEN 0 ELSE 1)
             /\ \A j \in token.next..Len(o.target.text) : token.left[j] = o.target.text[j]
    BY <2>1, <2>2
  <2>4. more = AddNode(o.tree, w[4 * m + 1], w[4 * m + 3])
    BY <2>2, <2>3 DEF more
  <2>5. Has(more, w, m + 1) /\ more # Empty
    BY <2>3, <2>4, HasOneMore
  <2>6. \A j \in saved'.at..Len(thread'[t].target.text) : thread'[t].text[j] = thread'[t].target.text[j]
    BY <1>4, <1>5, <2>1, <2>3
  <2>7. 0 < m + 1 /\ m + 1 \in Nat
    OBVIOUS
  <2>8. saved'.in = t /\ saved'.at = q + 4 * (m + 1) + (IF 4 * (m + 1) = Len(w) + 1 THEN 0 ELSE 1)
    BY <1>4, <2>1, <2>3
  <2>9. AtName(t, m + 1)'
    BY <1>4, <1>5, <2>3, <2>5, <2>6, <2>7, <2>8 DEF AtName, Keeps
  <2>10. QED
    BY <1>5, <2>7, <2>9 DEF ParsingInv
<1>7. QED
  BY <1>4, <1>6

-----------------------------------------------------------------------------
(* The end of the process                                                  *)

(* A thread that dies has been interrupted, has asked for what the code    *)
(* cannot do, or has got no memory.                                        *)
LEMMA DeathsAreExcused ==
  ASSUME StringsInv, killer = None, NEW t \in Threads, ImageInv(thread[t]),
         Unmixed(t) => ParsingInv(t),
         \/ TakesValue(t) /\ Word(saved.in, saved.at) = None
         \/ FindsPath(t) /\ Dies(t)
         \/ Composes(t) /\ Dies(t)
  PROVE  Dies(t) /\ GoodRequestsAreHarmless'
<1>1. Dies(t)
  BY DEF TakesValue
<1>2. killer' = t /\ UNCHANGED <<mixed, thread>>
  BY <1>1 DEF Dies
<1>3. Unmixed(t)' = Unmixed(t) /\ Complete(t)' = Complete(t)
  BY <1>2 DEF Unmixed, Complete, Written
<1>4. SUFFICES \/ ~(Unmixed(t) /\ Complete(t))
               \/ thread[t].pc = "compose" /\ thread[t].file = << >>
  BY <1>1, <1>2, <1>3 DEF GoodRequestsAreHarmless
<1>5. CASE TakesValue(t) /\ Word(saved.in, saved.at) = None
  <2>1. thread[t].pc = "value"
    BY <1>5 DEF TakesValue, At
  <2>2. ~Unmixed(t)
    BY <1>5, <2>1, ValueIsThere
  <2>3. QED
    BY <2>2
<1>6. CASE FindsPath(t)
  <2>. DEFINE tree == thread[t].tree
              name == SearchTree(tree, ImageName)
              word == SearchTree(tree, SizeKey)
              size == IF word \in DOMAIN Sizes THEN Sizes[word] ELSE "medium"
  <2>1. thread[t].pc = "handler"
    BY <1>6 DEF FindsPath, At
  <2>2. \A r : ~Becomes(t, r)
    BY <1>2, NothingIsNobody DEF Becomes
  <2>3. NeedsDot(size) /\ name \notin Dotted
    BY <1>6, <2>2, Zenon DEF FindsPath
  <2>4. SUFFICES ASSUME Unmixed(t), Complete(t) PROVE FALSE
    OBVIOUS
  <2>5. ImageName \in Int /\ SizeKey \in Int
    BY ImagesAssumption
  <2>6. name = ValueIn(Written(t), ImageName) /\ word = ValueIn(Written(t), SizeKey)
    BY <2>1, <2>4, <2>5 DEF ParsingInv, KnowsArguments
  <2>. HIDE DEF name, word
  <2>7. word \notin DOMAIN Sizes \/ Sizes[word] = "medium"
    BY <2>3, <2>4, <2>6 DEF Complete
  <2>8. QED
    BY <2>3, <2>7 DEF NeedsDot
<1>7. CASE Composes(t)
  <2>1. thread[t].pc = "compose"
    BY <1>7 DEF Composes, At
  <2>2. \A r : ~Becomes(t, r)
    BY <1>2, NothingIsNobody DEF Becomes
  <2>3. thread[t].image = "unset"
    BY <1>7, <2>2, Zenon DEF Composes
  <2>4. QED
    BY <2>1, <2>3 DEF ImageInv
<1>8. QED
  BY <1>5, <1>6, <1>7

-----------------------------------------------------------------------------
(* The inductive invariant is one                                          *)

(* The target of a thread that has not started is a C string.              *)
LEMMA NoTargetIs ==
  CString(NoTarget.text)
<1>1. << Nul >> \in Seq(Int) /\ Len(<< Nul >>) = 1 /\ << Nul >>[1] = Nul
  BY DEF Nul
<1>2. QED
  BY <1>1 DEF NoTarget, CString

(* The inductive invariant holds at first ...                              *)
LEMMA IInvInit == Init => IInv
<1>1. SUFFICES ASSUME Init PROVE IInv
  OBVIOUS
<1>. DEFINE n == NewThread(NoTarget)
            r == [n EXCEPT !.pc = "idle"]
<1>2. /\ DOMAIN n = Fields /\ n.target = NoTarget /\ n.text = NoTarget.text /\ n.args.in = None
      /\ n.file = << >> /\ n.after = None /\ n.seen = 0 /\ n.image = "unset" /\ n.size = None
      /\ n.sent = 0
  BY NewThreadIs
<1>3. DOMAIN thread = Threads /\ \A t \in Threads : thread[t] = r
  BY <1>1 DEF Init
<1>. HIDE DEF n
<1>4. /\ DOMAIN r = Fields /\ r.pc = "idle" /\ r.target = NoTarget /\ r.text = NoTarget.text
      /\ r.args.in = None /\ r.file = << >> /\ r.after = None /\ r.seen = 0 /\ r.image = "unset"
      /\ r.size = None /\ r.sent = 0
  BY <1>2 DEF Fields
<1>. HIDE DEF r
<1>5. now \in DOMAIN Disk /\ 0 \in 0..now /\ killer = None /\ mixed = {} /\ saved.in = None
  BY <1>1, ImagesAssumption DEF Init
<1>6. \A t \in Threads : HasStrings(t)
  BY <1>3, <1>4, NoTargetIs DEF HasStrings, Pcs
<1>7. StringsInv
  BY <1>3, <1>4, <1>5, <1>6 DEF StringsInv
<1>8. ImageInv(r)
  BY <1>4, <1>5 DEF ImageInv, None
<1>9. \A t \in Threads : ParsingInv(t)
  BY <1>3, <1>4 DEF ParsingInv
<1>10. QED
  BY <1>3, <1>5, <1>7, <1>8, <1>9 DEF IInv, GoodRequestsAreHarmless

(* ... every step keeps it: strtok's by the lemmas on strings and parsing, *)
(* the others because they are quiet ...                                   *)
LEMMA IInvStep == IInv /\ [Next]_vars => IInv'
<1>1. SUFFICES ASSUME IInv, [Next]_vars PROVE IInv'
  OBVIOUS
<1>2. /\ killer \in Threads \cup {None} /\ mixed \subseteq Threads /\ now \in DOMAIN Disk
      /\ StringsInv
      /\ \A t \in Threads : ImageInv(thread[t])
      /\ \A t \in Threads : Unmixed(t) => ParsingInv(t)
      /\ GoodRequestsAreHarmless
  BY <1>1 DEF IInv
<1>3. CASE UNCHANGED vars
  <2>1. UNCHANGED <<killer, saved, now, mixed, thread>>
    BY <1>3 DEF vars
  <2>2. StringsInv'
    BY <1>2, <2>1 DEF StringsInv, HasStrings, InText
  <2>3. \A x \in Threads : ImageInv(thread[x])'
    BY <1>2, <2>1, ImageInvIsKept
  <2>4. \A x \in Threads : Unmixed(x)' => ParsingInv(x)'
    BY <1>2, <2>1, QuietSparesOthers
  <2>5. GoodRequestsAreHarmless'
    BY <1>2, <2>1 DEF GoodRequestsAreHarmless, Unmixed, Complete, Written
  <2>6. QED
    BY <1>2, <2>1, <2>2, <2>3, <2>4, <2>5 DEF IInv
<1>4. ASSUME NEW t \in Threads, Runs(t)
      PROVE  IInv'
  <2>1. killer = None
    BY <1>4 DEF Runs, SplitPath, SplitArguments, ChecksTarget, TakesName, TakesValue, FindsPath,
       OtherRoute, Stats, Loads, Composes, Ends, At
  <2>2. killer' = None => GoodRequestsAreHarmless'
    BY DEF GoodRequestsAreHarmless
  <2>3. CASE \E r : Quiets(t, r)
    <3>1. PICK r : Quiets(t, r)
      BY <2>3
    <3>2. StringsInv'
      BY <1>2, <3>1, QuietlyKeepsStrings DEF Quiets
    <3>3. \A x \in Threads : ImageInv(thread[x])'
      BY <1>2, <3>1, QuietlyKeepsImages
    <3>4. \A x \in Threads : Unmixed(x)' => ParsingInv(x)'
      BY <1>2, <3>1, QuietlyKeepsParsing
    <3>5. killer' = None /\ now' = now /\ mixed' = mixed
      BY <3>1 DEF Quiets, QuietStep
    <3>6. QED
      BY <1>2, <2>2, <3>2, <3>3, <3>4, <3>5 DEF IInv
  <2>4. CASE SplitPath(t)
    <3>1. StringsInv'
      BY <1>2, <2>4, SplitPathKeepsStrings
    <3>2. \A x \in Threads : ImageInv(thread[x])'
      BY <1>2, <2>4, SplitPathKeepsImages
    <3>3. /\ \A x \in Threads : Unmixed(x)' => ParsingInv(x)'
          /\ killer' = None \/ (killer' = t /\ ~Unmixed(t)')
      BY <1>2, <2>4, SplitPathKeepsParsing
    <3>4. killer' \in Threads \cup {None} /\ now' = now /\ mixed' \subseteq Threads
      BY <1>2, <2>4, <3>3 DEF SplitPath
    <3>5. GoodRequestsAreHarmless'
      BY <2>2, <3>3 DEF GoodRequestsAreHarmless
    <3>6. QED
      BY <1>2, <3>1, <3>2, <3>3, <3>4, <3>5 DEF IInv
  <2>5. CASE \/ SplitArguments(t) \/ TakesName(t)
             \/ TakesValue(t) /\ Word(saved.in, saved.at) # None
    <3>1. StringsInv'
      BY <1>2, <2>5, StrtokKeepsStrings
    <3>2. \A x \in Threads : ImageInv(thread[x])'
      BY <1>2, <2>5, StrtokKeepsImages
    <3>3. \A x \in Threads : Unmixed(x)' => ParsingInv(x)'
      BY <1>2, <2>5, SplitArgumentsKeepsParsing, TakesNameKeepsParsing, TakesValueKeepsParsing
    <3>4. killer' = None /\ now' = now /\ mixed' \subseteq Threads
      <4>1. \E u \in Threads : \E i, delims, r : Calls(t, u, i, delims, r)
        BY <1>2, <2>5, StrtokStepsAre
      <4>2. QED
        BY <1>2, <2>1, <4>1 DEF Calls
    <3>5. QED
      BY <1>2, <2>2, <3>1, <3>2, <3>3, <3>4 DEF IInv
  <2>6. CASE \/ TakesValue(t) /\ Word(saved.in, saved.at) = None
             \/ FindsPath(t) /\ Dies(t)
             \/ Composes(t) /\ Dies(t)
    <3>1. Dies(t) /\ GoodRequestsAreHarmless'
      BY <1>2, <2>1, <2>6, DeathsAreExcused
    <3>2. killer' = t /\ UNCHANGED <<saved, now, mixed, thread>>
      BY <3>1 DEF Dies
    <3>3. StringsInv'
      BY <1>2, <3>2 DEF StringsInv, HasStrings, InText
    <3>4. \A x \in Threads : ImageInv(thread[x])'
      BY <1>2, <3>2, ImageInvIsKept
    <3>5. \A x \in Threads : Unmixed(x)' => ParsingInv(x)'
      BY <1>2, <3>2, QuietSparesOthers
    <3>6. QED
      BY <1>2, <3>1, <3>2, <3>3, <3>4, <3>5 DEF IInv
  <2>7. QED
    BY <1>2, <1>4, <2>3, <2>4, <2>5, <2>6, StepsAre
<1>5. CASE DiskChanges
  <2>1. killer = None /\ UNCHANGED <<killer, saved, mixed, thread>>
    BY <1>5 DEF DiskChanges
  <2>2. now' \in DOMAIN Disk /\ \A x \in Threads : ImageInv(thread[x])'
    BY <1>2, <1>5, DiskKeepsImages
  <2>3. StringsInv'
    BY <1>2, <2>1 DEF StringsInv, HasStrings, InText
  <2>4. \A x \in Threads : Unmixed(x)' => ParsingInv(x)'
    BY <1>2, <2>1, QuietSparesOthers
  <2>5. GoodRequestsAreHarmless'
    BY <2>1 DEF GoodRequestsAreHarmless
  <2>6. QED
    BY <1>2, <2>1, <2>2, <2>3, <2>4, <2>5 DEF IInv
<1>6. QED
  BY <1>1, <1>3, <1>4, <1>5 DEF Next, Finished

(* ... and so it holds for good.                                           *)
LEMMA IInvHolds == Spec => []IInv
BY IInvInit, IInvStep, PTL DEF Spec

-----------------------------------------------------------------------------
(* What it means                                                           *)

(* The variables have their types, and neither strtok's pointer nor the    *)
(* arguments of a thread ever leave a string of one of the threads         *)
(* (threadroutines.c:814-820, 145-167).                                    *)
THEOREM ImagesTypeCorrect == Spec => []TypeOK
<1>1. ASSUME IInv PROVE TypeOK
  <2>1. /\ killer \in Threads \cup {None} /\ mixed \subseteq Threads /\ now \in DOMAIN Disk
        /\ DOMAIN thread = Threads /\ \A t \in Threads : HasStrings(t) /\ ImageInv(thread[t])
        /\ InText(saved) \/ saved.in = None
    BY <1>1 DEF IInv, StringsInv
  <2>2. ASSUME NEW p, InText(p)
        PROVE  p.in \in Threads /\ p.at \in DOMAIN thread[p.in].text
    <3>1. p.in \in Threads /\ p.at \in 1..Len(thread[p.in].text)
      BY <2>2 DEF InText
    <3>2. thread[p.in].text \in Seq(Int)
      BY <2>1, <3>1 DEF HasStrings, CString
    <3>3. QED
      BY <3>1, <3>2
  <2>3. \A p \in {saved} \cup {thread[t].args : t \in Threads} :
          p.in # None /\ p.at # None => InText(p)
    BY <2>1 DEF HasStrings
  <2>4. \A t \in Threads :
          LET r == thread[t] IN
          /\ Len(r.text) = Len(r.target.text) /\ r.text[Len(r.text)] = Nul
          /\ r.target \in Targets[t] \cup {NoTarget}
          /\ r.size \in Int /\ r.sent \in Nat
          /\ r.seen \in 0..now
    BY <2>1 DEF HasStrings, CString, ImageInv
  <2>5. QED
    BY <2>1, <2>2, <2>3, <2>4 DEF TypeOK
<1>2. QED
  BY <1>1, IInvHolds, PTL

(* A handler gets the arguments that its client wrote, the first of equal  *)
(* names, unless another connection's strtok came in between               *)
(* (threadroutines.c:816-821, 957, 145-149).                               *)
THEOREM HandlersGetTheirArguments == Spec => []OwnArguments
<1>1. ASSUME IInv PROVE OwnArguments
  <2>1. SUFFICES ASSUME NEW t \in Threads,
                        thread[t].pc \in {"handler", "stat", "load", "compose"}, Unmixed(t),
                        NEW k \in Words
                 PROVE  SearchTree(thread[t].tree, k) = ValueIn(Written(t), k)
    BY DEF OwnArguments
  <2>2. k \in Int
    <3>1. PICK u \in Threads : \E g \in Targets[u] : k \in ToSet(g.text)
      BY <2>1 DEF Words
    <3>2. PICK g \in Targets[u] : k \in ToSet(g.text)
      BY <3>1
    <3>3. g.text \in Seq(Int)
      BY ImagesAssumption
    <3>4. QED
      BY <3>2, <3>3 DEF ToSet
  <2>3. ParsingInv(t)
    BY <1>1, <2>1 DEF IInv
  <2>4. QED
    BY <2>1, <2>2, <2>3 DEF ParsingInv, KnowsArguments
<1>2. QED
  BY <1>1, IInvHolds, PTL

(* A request that is written as it should be, and that no other connection *)
(* interrupts, does not end the process, unless there is no memory for its *)
(* path (threadroutines.c:50-76, 82-103, 145-167).                         *)
THEOREM GoodRequestsDoNoHarm == Spec => []GoodRequestsAreHarmless
<1>1. IInv => GoodRequestsAreHarmless
  BY DEF IInv
<1>2. QED
  BY <1>1, IInvHolds, PTL

(* An image that is sent is the one that was asked for, as long as it was  *)
(* announced, and the whole file unless the file changed after stat looked *)
(* at it (mimage.c:27-68).                                                 *)
THEOREM ImagesAreWhole == Spec => []ImageIsWhole
<1>1. ASSUME IInv PROVE ImageIsWhole
  <2>1. SUFFICES ASSUME NEW t \in Threads, thread[t].pc = "answered", thread[t].code = "OK",
                        thread[t].image = "read"
                 PROVE  LET r == thread[t] IN
                        /\ Unmixed(t) => r.file[1] = ValueIn(Written(t), ImageName)
                        /\ r.length = r.sent
                        /\ r.sent <= Disk[r.read][r.file].length
                        /\ r.read = r.seen => r.sent = Disk[r.seen][r.file].length
    BY DEF ImageIsWhole
  <2>. DEFINE r == thread[t]
  <2>2. /\ now \in DOMAIN Disk /\ ImageInv(r)
        /\ Unmixed(t) => ParsingInv(t)
    BY <1>1 DEF IInv
  <2>3. r.file # << >> /\ WholeOf(r) /\ r.length = r.size /\ r.sent = r.size
    BY <2>1, <2>2 DEF ImageInv
  <2>4. Unmixed(t) => r.file[1] = ValueIn(Written(t), ImageName)
    BY <2>1, <2>2, <2>3 DEF ParsingInv
  <2>. HIDE DEF r
  <2>5. r.seen \in DOMAIN Disk /\ r.read \in DOMAIN Disk
    <3>1. /\ r.seen \in Nat \ {0} /\ r.seen <= Len(Disk)
          /\ r.read \in Nat \ {0} /\ r.read <= Len(Disk)
      BY <2>2, <2>3, ImagesAssumption DEF WholeOf
    <3>2. QED
      BY <3>1, FilesAre
  <2>6. Disk[r.seen][r.file].length \in Nat /\ Disk[r.read][r.file].length \in Nat
    BY <2>3, <2>5, FilesAre DEF WholeOf
  <2>7. /\ r.sent <= Disk[r.read][r.file].length
        /\ r.read = r.seen => r.sent = Disk[r.seen][r.file].length
    BY <2>3, <2>6 DEF WholeOf
  <2>8. QED
    BY <2>3, <2>4, <2>7 DEF r
<1>2. QED
  BY <1>1, IInvHolds, PTL

(* A client is told that its copy is current only if the file is older     *)
(* than the date it gave, and that its precondition failed only if the     *)
(* file is newer, by the date as the server reads it, wherever the server  *)
(* is (threadroutines.c:91-94, mimage.c:32-46, httphelper.c:274).          *)
THEOREM NotModifiedAnswersAreTrue == Spec => []NotModifiedIsTrue
<1>1. ASSUME IInv PROVE NotModifiedIsTrue
  <2>1. SUFFICES ASSUME NEW t \in Threads, thread[t].pc = "answered", thread[t].image = "null",
                        thread[t].code \in {"NOT_MODIFIED", "PRECONDITION_FAILED"}
                 PROVE  LET r == thread[t] IN
                        /\ r.code = "NOT_MODIFIED" =>
                             \E s \in Shifts : Disk[r.seen][r.file].mtime < r.target.date - s
                        /\ r.code = "PRECONDITION_FAILED" =>
                             \E s \in Shifts : Disk[r.seen][r.file].mtime > r.target.date - s
    BY DEF NotModifiedIsTrue
  <2>. DEFINE r == thread[t]
              mtime == Disk[r.seen][r.file].mtime
  <2>2. ImageInv(r)
    BY <1>1 DEF IInv
  <2>3. /\ Current(r)
        /\ r.code = "NOT_MODIFIED" => r.target.since
        /\ r.code = "PRECONDITION_FAILED" => ~r.target.since
        /\ r.after = None \/ \E s \in Shifts : r.after = r.target.date - s
    BY <2>1, <2>2 DEF ImageInv
  <2>. HIDE DEF r
  <2>4. r.after # None /\ (IF r.target.since THEN mtime < r.after ELSE mtime > r.after)
    BY <2>3 DEF Current, NeedNotLoad
  <2>5. PICK s \in Shifts : r.after = r.target.date - s
    BY <2>3, <2>4
  <2>. HIDE DEF mtime
  <2>6. /\ r.code = "NOT_MODIFIED" => mtime < r.target.date - s
        /\ r.code = "PRECONDITION_FAILED" => mtime > r.target.date - s
    BY <2>3, <2>4, <2>5
  <2>7. QED
    BY <2>5, <2>6 DEF r, mtime
<1>2. QED
  BY <1>1, IInvHolds, PTL

(* The copy that a client is told is current has not changed since the     *)
(* date that the client gave.                                              *)
CurrentCopiesAreCurrent ==
  \A t \in Threads :
    LET r == thread[t] IN
    r.pc = "answered" /\ r.image = "null" /\ r.code = "NOT_MODIFIED" =>
      Disk[r.seen][r.file].mtime < r.target.date

(* That is so where mktime only takes off from a date, on a server on UTC  *)
(* or east of it.  To the west it fails, for httphelper.c:274 reads a date *)
(* in GMT as one in local time.                                            *)
THEOREM CopiesAreCurrentEastOfUTC ==
  ASSUME Shifts \subseteq Nat
  PROVE  Spec => []CurrentCopiesAreCurrent
<1>1. ASSUME IInv, NotModifiedIsTrue PROVE CurrentCopiesAreCurrent
  <2>1. SUFFICES ASSUME NEW t \in Threads, thread[t].pc = "answered", thread[t].image = "null",
                        thread[t].code = "NOT_MODIFIED"
                 PROVE  Disk[thread[t].seen][thread[t].file].mtime < thread[t].target.date
    BY DEF CurrentCopiesAreCurrent
  <2>. DEFINE r == thread[t]
              mtime == Disk[r.seen][r.file].mtime
  <2>2. PICK s \in Shifts : mtime < r.target.date - s
    BY <1>1, <2>1 DEF NotModifiedIsTrue
  <2>3. now \in DOMAIN Disk /\ ImageInv(r) /\ HasStrings(t)
    BY <1>1 DEF IInv, StringsInv
  <2>4. r.target.date \in Int
    BY <2>1, <2>3, ImagesAssumption DEF HasStrings
  <2>5. Current(r)
    BY <2>1, <2>3 DEF ImageInv
  <2>. HIDE DEF r
  <2>6. r.seen \in DOMAIN Disk
    <3>1. r.seen \in Nat \ {0} /\ r.seen <= Len(Disk)
      BY <2>3, <2>5, ImagesAssumption DEF Current
    <3>2. QED
      BY <3>1, FilesAre
  <2>7. mtime \in Int
    BY <2>5, <2>6, FilesAre DEF Current
  <2>8. s \in Nat
    BY <2>2
  <2>. HIDE DEF mtime
  <2>9. mtime < r.target.date
    BY <2>2, <2>4, <2>7, <2>8
  <2>10. QED
    BY <2>9 DEF r, mtime
<1>2. QED
  BY <1>1, IInvHolds, NotModifiedAnswersAreTrue, PTL

=============================================================================
