--------------------------- MODULE ArgumentTrees ---------------------------
(***************************************************************************)
(* The strings and the search trees of the server: strtok(3), the check    *)
(* and the splitting of a request's arguments (httphelper.c:106-172), and  *)
(* the binary tree that holds routes, headers and arguments (bstnode.c).   *)
(*                                                                         *)
(* A string is a sequence of units: a word is a positive number, ordered   *)
(* as strcmp orders words; the separators and the final zero are below.    *)
(* A tree is a function from the paths of its nodes to [key, value].       *)
(***************************************************************************)
EXTENDS Integers, Sequences, FiniteSets, SequencesExt

Nul   == 0
Quest == -1
Eq    == -2
Amp   == -3
None  == -9   \* NULL

-----------------------------------------------------------------------------
(* strtok(3) on the string s from i on: where the token starts, or None,   *)
(* the string it leaves, and where the next call goes on.                  *)

NextAt(s, i, stop) == CHOOSE j \in i..Len(s) : s[j] \in stop /\ \A k \in i..j - 1 : s[k] \notin stop

(* Mutant: the next call starts behind the final zero.                     *)
Token_PastEnd(s, i, delims) ==
  LET start == CHOOSE j \in i..Len(s) :
                 s[j] \notin delims /\ \A k \in i..j - 1 : s[k] \in delims
      stop  == NextAt(s, start, delims \cup {Nul})
  IN IF s[start] = Nul
     THEN [start |-> None, left |-> s, next |-> start]
     ELSE [start |-> start, left |-> [s EXCEPT ![stop] = Nul], next |-> stop + 1]

Token(s, i, delims) ==
  LET start == CHOOSE j \in i..Len(s) :
                 s[j] \notin delims /\ \A k \in i..j - 1 : s[k] \in delims
      stop  == NextAt(s, start, delims \cup {Nul})
  IN IF s[start] = Nul
     THEN [start |-> None, left |-> s, next |-> start]
     ELSE [start |-> start, left |-> [s EXCEPT ![stop] = Nul],
           next  |-> IF s[stop] = Nul THEN stop ELSE stop + 1]

(* The C string at position i of s.                                        *)
StringAt(s, i) == SubSeq(s, i, NextAt(s, i, {Nul}) - 1)

-----------------------------------------------------------------------------
(* isValidArgStr.  The first `=' and the first `&' from k on, beyond the   *)
(* end if there is none.                                                   *)
FirstFrom(s, k, unit) ==
  IF \E j \in k..Len(s) : s[j] = unit THEN NextAt(s, k, {unit}) ELSE Len(s) + 1

IsValidArgStr(s) ==
  LET valid[k \in 1..Len(s) + 1] ==
        LET eq  == FirstFrom(s, k, Eq)
            amp == FirstFrom(s, k, Amp)
        IN CASE eq > Len(s)  -> amp > Len(s)
             [] eq <= Len(s) /\ amp > Len(s) -> FirstFrom(s, eq + 1, Eq) > Len(s)
             [] OTHER -> /\ amp > eq + 1
                         /\ FirstFrom(s, amp, Eq) <= Len(s)
                         /\ valid[amp + 1]
  IN valid[1]

-----------------------------------------------------------------------------
(* bstnode.c                                                               *)

Empty == << >>

(* A greater key is to the left (28-33, 51-54).                            *)
Side(key, k) == IF key < k THEN "left" ELSE "right"

Paths(tree) == UNION {[1..n -> {"left", "right"}] : n \in 0..Cardinality(DOMAIN tree)}

(* Where k is, or would be added.                                          *)
Place(tree, k) ==
  CHOOSE p \in Paths(tree) :
    /\ p \in DOMAIN tree => tree[p].key = k
    /\ \A n \in 0..Len(p) - 1 :
         LET q == SubSeq(p, 1, n) IN
         q \in DOMAIN tree /\ tree[q].key # k /\ p[n + 1] = Side(tree[q].key, k)

(* Mutant: the node that has the key already gets the new value.           *)
AddNode_Replaces(tree, k, v) ==
  [p \in DOMAIN tree \cup {Place(tree, k)} |->
     IF p = Place(tree, k) THEN [key |-> k, value |-> v] ELSE tree[p]]

(* A key that is there already keeps its value.                            *)
AddNode(tree, k, v) ==
  [p \in DOMAIN tree \cup {Place(tree, k)} |->
     IF p \in DOMAIN tree THEN tree[p] ELSE [key |-> k, value |-> v]]

SearchTree(tree, k) ==
  IF Place(tree, k) \in DOMAIN tree THEN tree[Place(tree, k)].value ELSE None

(* init_bst: the nodes in the order of its arguments.                      *)
InitTree(nodes) == FoldLeft(LAMBDA tree, node : AddNode(tree, node[1], node[2]), Empty, nodes)

=============================================================================
