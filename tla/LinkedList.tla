----------------------------- MODULE LinkedList -----------------------------
(***************************************************************************)
(* The singly linked list of server/src/linkedlist.c, seen from outside: a *)
(* list is the sequence of the values reached from its root.  The list is  *)
(* used for one thing only, the active threads of a connection, whose      *)
(* values are the malloc'ed pthread_t cells of its handler threads.        *)
(*                                                                         *)
(* LinkedListHeap models the same functions pointer by pointer and checks  *)
(* that they compute what the operators below say.                         *)
(***************************************************************************)
EXTENDS Integers, Sequences

(* Where the walk of remove_linkedlistnode meets `value': its first index, *)
(* or one past the end when the list does not hold it.                     *)
Position(list, value) ==
  CHOOSE i \in 1..Len(list)+1 :
    /\ i <= Len(list) => list[i] = value
    /\ \A j \in 1..i-1 : list[j] # value

(* Mutant: the recursion takes over one node sooner.                       *)
RemoveLinkedListNode_DropsSooner(list, value) ==
  LET k    == Position(list, value)
      kept == IF k > 2 THEN 1 ELSE k - 1
  IN  SubSeq(list, 1, kept) \o SubSeq(list, k + 1, Len(list))

(* linkedlist.c:19-52.  The head and the second node are unlinked in       *)
(* place.  Deeper, remove_linkedlistnode_r returns node->next instead of   *)
(* node, and each level of the recursion stores that result in its own     *)
(* next field: every node between the second one and the node removed is   *)
(* unlinked with it, and when the value is absent so is the whole tail.    *)
RemoveLinkedListNode(list, value) ==
  LET k    == Position(list, value)
      kept == IF k > 3 THEN 2 ELSE k - 1
  IN  SubSeq(list, 1, kept) \o SubSeq(list, k + 1, Len(list))

(* threadroutines.c:1097-1098: the new node becomes the root.              *)
AddFirst(list, value) == <<value>> \o list

=============================================================================
