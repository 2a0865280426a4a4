-------------------------- MODULE LinkedList_proofs --------------------------
(***************************************************************************)
(* What RemoveLinkedListNode returns, for lists of any length.             *)
(***************************************************************************)
EXTENDS LinkedList, SequenceTheorems, WellFoundedInduction, TLAPS

(* Every non-empty set of naturals has a smallest element.                 *)
LEMMA LeastNaturalOfSet ==
  ASSUME NEW T \in SUBSET Nat, T # {}
  PROVE  \E m \in T : \A n \in T : m <= n
<1>1. \E m \in T : \A n \in T : ~(<<n, m>> \in OpToRel(<, Nat))
  BY NatLessThanWellFounded, WFMin
<1>2. \E m \in T : \A n \in T : ~(n < m)
  BY <1>1, Zenon DEF OpToRel
<1>3. QED
  BY <1>2

(* The walk stops at the first node that holds the value, or past the end. *)
LEMMA PositionIsFirst ==
  ASSUME NEW S, NEW list \in Seq(S), NEW value
  PROVE  /\ Position(list, value) \in 1..Len(list)+1
         /\ Position(list, value) <= Len(list) => list[Position(list, value)] = value
         /\ \A j \in 1..Position(list, value)-1 : list[j] # value
<1>. DEFINE T == {i \in 1..Len(list)+1 : i <= Len(list) => list[i] = value}
<1>1. Len(list) \in Nat
  BY LenProperties
<1>2. Len(list) + 1 \in T /\ T \in SUBSET Nat
  BY <1>1
<1>3. PICK m \in T : \A n \in T : m <= n
  <2>. HIDE DEF T
  <2>. QED  BY <1>2, LeastNaturalOfSet
<1>4. \A j \in 1..m-1 : list[j] # value
  BY <1>1, <1>3
<1>5. \E i \in 1..Len(list)+1 : /\ i <= Len(list) => list[i] = value
                                /\ \A j \in 1..i-1 : list[j] # value
  BY <1>3, <1>4
<1>. QED  BY <1>5 DEF Position

(* The result is the list without the value found and without the nodes    *)
(* dropped on the way: which old index each new index comes from.          *)
LEMMA RemoveElements ==
  ASSUME NEW S, NEW list \in Seq(S), NEW value
  PROVE  LET result == RemoveLinkedListNode(list, value)
             k      == Position(list, value)
             kept   == IF k > 3 THEN 2 ELSE k - 1
         IN  /\ result \in Seq(S)
             /\ kept \in 0..Len(list) /\ kept < k
             /\ k \in 1..Len(list)+1
             /\ Len(result) = kept + (IF k > Len(list) THEN 0 ELSE Len(list) - k)
             /\ \A i \in 1..Len(result) :
                  result[i] = IF i <= kept THEN list[i] ELSE list[i - kept + k]
<1>. DEFINE k    == Position(list, value)
            kept == IF k > 3 THEN 2 ELSE k - 1
            front == SubSeq(list, 1, kept)
            back  == SubSeq(list, k + 1, Len(list))
<1>1. Len(list) \in Nat /\ \A i \in 1..Len(list) : list[i] \in S
  BY LenProperties, ElementOfSeq
<1>2. k \in 1..Len(list)+1
  BY PositionIsFirst
<1>. HIDE DEF k
<1>3. kept \in 0..Len(list) /\ kept < k
  BY <1>1, <1>2
<1>4. /\ front \in Seq(S)
      /\ Len(front) = kept
      /\ \A i \in 1..kept : front[i] = list[i]
  <2>1. \A i \in 1..kept : list[i] \in S
    BY <1>1, <1>3
  <2>2. kept \in Int
    BY <1>3
  <2>. HIDE DEF kept
  <2>3. /\ front \in Seq(S)
        /\ Len(front) = IF 1 <= kept THEN kept - 1 + 1 ELSE 0
        /\ \A i \in 1..kept - 1 + 1 : front[i] = list[1 + i - 1]
    BY <2>1, <2>2, SubSeqProperties
  <2>. QED  BY <2>2, <2>3, <1>3
<1>5. /\ back \in Seq(S)
      /\ Len(back) = IF k + 1 <= Len(list) THEN Len(list) - (k + 1) + 1 ELSE 0
      /\ \A i \in 1..Len(list) - (k + 1) + 1 : back[i] = list[(k + 1) + i - 1]
  <2>1. \A i \in (k + 1)..Len(list) : list[i] \in S
    BY <1>1, <1>2
  <2>2. k + 1 \in Int /\ Len(list) \in Int
    BY <1>1, <1>2
  <2>. QED  BY <2>1, <2>2, SubSeqProperties
<1>6. RemoveLinkedListNode(list, value) = front \o back
  BY DEF RemoveLinkedListNode, k
<1>. HIDE DEF front, back, kept
<1>7. /\ front \o back \in Seq(S)
      /\ Len(front \o back) = Len(front) + Len(back)
      /\ \A i \in 1..Len(front) + Len(back) :
           (front \o back)[i] = IF i <= Len(front) THEN front[i]
                                                   ELSE back[i - Len(front)]
  BY <1>4, <1>5, ConcatProperties
<1>8. Len(front \o back) = kept + (IF k > Len(list) THEN 0 ELSE Len(list) - k)
  BY <1>1, <1>2, <1>3, <1>4, <1>5, <1>7
<1>9. ASSUME NEW i \in 1..Len(front \o back)
      PROVE  (front \o back)[i] = IF i <= kept THEN list[i] ELSE list[i - kept + k]
  <2>1. CASE i <= kept
    BY <2>1, <1>1, <1>3, <1>4, <1>7, <1>8
  <2>2. CASE i > kept
    <3>1. (front \o back)[i] = back[i - kept] /\ i - kept \in 1..Len(list) - (k + 1) + 1
      BY <2>2, <1>1, <1>2, <1>3, <1>4, <1>5, <1>7, <1>8
    <3>2. back[i - kept] = list[(k + 1) + (i - kept) - 1]
      BY <3>1, <1>5
    <3>3. (k + 1) + (i - kept) - 1 = i - kept + k
      BY <1>1, <1>2, <1>3, <1>8
    <3>. QED  BY <3>1, <3>2, <3>3, <2>2, <1>3, <1>8, <1>1, <1>2
  <2>. QED  BY <2>1, <2>2, <1>1, <1>2, <1>3, <1>8
<1>10. /\ front \o back \in Seq(S)
       /\ kept \in 0..Len(list) /\ kept < k
       /\ k \in 1..Len(list)+1
       /\ Len(front \o back) = kept + (IF k > Len(list) THEN 0 ELSE Len(list) - k)
       /\ \A i \in 1..Len(front \o back) :
            (front \o back)[i] = IF i <= kept THEN list[i] ELSE list[i - kept + k]
  BY <1>2, <1>3, <1>7, <1>8, <1>9
<1>. QED  BY <1>6, <1>10 DEF k, kept

Holds(list, x)  == \E i \in 1..Len(list) : list[i] = x
NoRepeats(list) == \A i, j \in 1..Len(list) : list[i] = list[j] => i = j

(* A removal adds nothing, repeats nothing, and does remove its value.     *)
LEMMA RemoveShrinks ==
  ASSUME NEW S, NEW list \in Seq(S), NEW value, NoRepeats(list)
  PROVE  LET result == RemoveLinkedListNode(list, value)
         IN  /\ result \in Seq(S)
             /\ Len(result) <= Len(list)
             /\ NoRepeats(result)
             /\ \A x : Holds(result, x) => Holds(list, x) /\ x # value
<1>. DEFINE result == RemoveLinkedListNode(list, value)
            k      == Position(list, value)
            kept   == IF k > 3 THEN 2 ELSE k - 1
            old(i) == IF i <= kept THEN i ELSE i - kept + k
<1>1. Len(list) \in Nat
  BY LenProperties
<1>2. /\ result \in Seq(S)
      /\ kept \in 0..Len(list) /\ kept < k
      /\ k \in 1..Len(list)+1
      /\ Len(result) = kept + (IF k > Len(list) THEN 0 ELSE Len(list) - k)
      /\ \A i \in 1..Len(result) :
           result[i] = IF i <= kept THEN list[i] ELSE list[i - kept + k]
  BY RemoveElements
<1>3. /\ k <= Len(list) => list[k] = value
      /\ \A j \in 1..k-1 : list[j] # value
  BY PositionIsFirst
<1>. HIDE DEF result, k, kept
<1>4. \A i \in 1..Len(result) : /\ old(i) \in 1..Len(list)
                                /\ old(i) # k
                                /\ result[i] = list[old(i)]
  BY <1>1, <1>2
<1>5. \A i, j \in 1..Len(result) : old(i) = old(j) => i = j
  BY <1>1, <1>2
<1>6. \A i \in 1..Len(result) : list[old(i)] # value
  <2>. TAKE i \in 1..Len(result)
  <2>1. CASE old(i) < k
    <3>1. old(i) \in 1..k-1
      BY <2>1, <1>1, <1>2, <1>4
    <3>. QED  BY <3>1, <1>3
  <2>2. CASE ~(old(i) < k)
    <3>. DEFINE o == old(i)
    <3>1. o \in 1..Len(list) /\ o # k
      BY <1>4
    <3>2. k \in 1..Len(list) /\ ~(o < k)
      BY <3>1, <2>2, <1>1, <1>2
    <3>. HIDE DEF o
    <3>3. list[k] = value /\ list[o] # list[k]
      BY <3>1, <3>2, <1>1, <1>2, <1>3 DEF NoRepeats
    <3>. QED  BY <3>3 DEF o
  <2>. QED  BY <2>1, <2>2
<1>. HIDE DEF old
<1>7. NoRepeats(result)
  BY <1>4, <1>5 DEF NoRepeats
<1>8. \A x : Holds(result, x) => Holds(list, x) /\ x # value
  BY <1>4, <1>6 DEF Holds
<1>9. Len(result) <= Len(list)
  BY <1>1, <1>2
<1>. QED  BY <1>2, <1>7, <1>8, <1>9 DEF result

(* In a list of at most three nodes a removal takes its own node only.     *)
LEMMA RemoveIsExact ==
  ASSUME NEW S, NEW list \in Seq(S), NEW value,
         Len(list) <= 3, Holds(list, value), NoRepeats(list)
  PROVE  \A x : Holds(list, x) /\ x # value => Holds(RemoveLinkedListNode(list, value), x)
<1>. DEFINE result == RemoveLinkedListNode(list, value)
            k      == Position(list, value)
            kept   == IF k > 3 THEN 2 ELSE k - 1
<1>1. Len(list) \in Nat
  BY LenProperties
<1>2. /\ k \in 1..Len(list)+1
      /\ Len(result) = kept + (IF k > Len(list) THEN 0 ELSE Len(list) - k)
      /\ \A i \in 1..Len(result) :
           result[i] = IF i <= kept THEN list[i] ELSE list[i - kept + k]
  BY RemoveElements
<1>3. /\ k <= Len(list) => list[k] = value
      /\ \A j \in 1..k-1 : list[j] # value
  BY PositionIsFirst
<1>. HIDE DEF result, k
<1>4. k \in 1..Len(list) /\ kept = k - 1 /\ list[k] = value
  BY <1>1, <1>2, <1>3 DEF Holds
<1>. HIDE DEF kept
<1>5. SUFFICES ASSUME NEW x, NEW i \in 1..Len(list), list[i] = x, x # value
               PROVE  Holds(result, x)
  BY DEF Holds, result
<1>6. CASE i < k
  <2>1. i \in 1..Len(result) /\ result[i] = list[i]
    BY <1>1, <1>2, <1>4, <1>6
  <2>. QED  BY <2>1, <1>5 DEF Holds
<1>7. CASE i > k
  <2>1. i - 1 \in 1..Len(result) /\ ~(i - 1 <= kept) /\ (i - 1) - kept + k = i
    BY <1>1, <1>2, <1>4, <1>7
  <2>2. result[i - 1] = list[i]
    BY <2>1, <1>2
  <2>. QED  BY <2>1, <2>2, <1>5 DEF Holds
<1>. QED  BY <1>1, <1>4, <1>5, <1>6, <1>7

(* A new node goes in front of the others.                                 *)
LEMMA AddFirstElements ==
  ASSUME NEW S, NEW list \in Seq(S), NEW value \in S
  PROVE  LET result == AddFirst(list, value)
         IN  /\ result \in Seq(S)
             /\ Len(result) = Len(list) + 1
             /\ \A x : Holds(result, x) <=> (Holds(list, x) \/ x = value)
             /\ NoRepeats(list) /\ ~Holds(list, value) => NoRepeats(result)
<1>. DEFINE result == AddFirst(list, value)
<1>1. Len(list) \in Nat
  BY LenProperties
<1>2. <<value>> \in Seq(S) /\ Len(<<value>>) = 1 /\ <<value>>[1] = value
  OBVIOUS
<1>3. /\ result \in Seq(S)
      /\ Len(result) = 1 + Len(list)
      /\ \A i \in 1..1 + Len(list) :
           result[i] = IF i <= 1 THEN <<value>>[i] ELSE list[i - 1]
  BY <1>2, ConcatProperties DEF AddFirst
<1>. HIDE DEF result
<1>4. result[1] = value /\ \A i \in 1..Len(list) : result[i + 1] = list[i]
  BY <1>1, <1>2, <1>3
<1>5. \A i \in 1..Len(result) : i = 1 \/ (i - 1 \in 1..Len(list) /\ result[i] = list[i - 1])
  BY <1>1, <1>3
<1>6. ASSUME NEW x  PROVE Holds(result, x) <=> (Holds(list, x) \/ x = value)
  <2>1. Holds(result, x) => Holds(list, x) \/ x = value
    BY <1>4, <1>5 DEF Holds
  <2>2. x = value => Holds(result, x)
    BY <1>1, <1>3, <1>4 DEF Holds
  <2>3. ASSUME NEW i \in 1..Len(list), list[i] = x
        PROVE  Holds(result, x)
    <3>1. i + 1 \in 1..Len(result) /\ result[i + 1] = x
      BY <2>3, <1>1, <1>3, <1>4
    <3>. QED  BY <3>1 DEF Holds
  <2>. QED  BY <2>1, <2>2, <2>3 DEF Holds
<1>7. ASSUME NoRepeats(list), ~Holds(list, value)
      PROVE  NoRepeats(result)
  <2>. SUFFICES ASSUME NEW i \in 1..Len(result), NEW j \in 1..Len(result),
                       result[i] = result[j]
                PROVE  i = j
    BY DEF NoRepeats
  <2>1. CASE i = 1 \/ j = 1
    BY <2>1, <1>4, <1>5, <1>7 DEF Holds
  <2>2. CASE i # 1 /\ j # 1
    <3>1. i - 1 = j - 1
      BY <2>2, <1>5, <1>7 DEF NoRepeats
    <3>. QED  BY <3>1, <1>1, <1>3
  <2>. QED  BY <2>1, <2>2
<1>. QED  BY <1>1, <1>3, <1>6, <1>7 DEF result

=============================================================================
