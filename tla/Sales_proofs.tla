----------------------------- MODULE Sales_proofs -----------------------------
(***************************************************************************)
(* Theorems about Sales, for any recipes, stock, calls and any number of   *)
(* backends: types and locks; that calls which run at once act as if each  *)
(* were one step of SalesLedger; and that every unit that was ever sold    *)
(* was taken from the stock there was at first.                            *)
(*                                                                         *)
(* What the sales have used is a sum over the rows of Sale, a fold over a  *)
(* set.  Facts about it are proved by a smallest set that contradicts them.*)
(***************************************************************************)
EXTENDS Sales, FiniteSetTheorems, WellFoundedInduction, TLAPS

-----------------------------------------------------------------------------
(* Arithmetic: what a quotient allows, and that less fits where more does. *)

(* What is at most the rounded-down quotient fits the dividend ...         *)
LEMMA QuotientFits ==
  ASSUME NEW a \in Int, NEW r \in Nat, r > 0, NEW l \in Int, l <= a \div r
  PROVE  l * r <= a
<1>1. r * (a \div r) <= a
  BY Z3
<1>2. DEFINE k == a \div r
<1>3. k \in Int /\ l <= k
  BY SMT
<1>4. l * r <= k * r
  <2>1. HIDE DEF k
  <2>2. QED BY <1>3, Z3
<1>5. QED
  BY <1>1, <1>3, <1>4, Z3

(* ... which quotient is a natural number ...                              *)
LEMMA QuotientIsNat ==
  ASSUME NEW a \in Nat, NEW r \in Nat, r > 0
  PROVE  a \div r \in Nat
OBVIOUS

(* ... and so does anything less.                                          *)
LEMMA LessFits ==
  ASSUME NEW q \in Int, NEW l \in Int, q <= l, NEW r \in Nat, NEW a \in Int, l * r <= a
  PROVE  q * r <= a
<1>1. q * r <= l * r
  BY Z3
<1>2. QED
  BY <1>1, Z3

-----------------------------------------------------------------------------
(* The inductive invariant, backend by backend                             *)

(* What a transaction has taken it has locked, and it was there.           *)
LocksProtect(b) == \A i \in Ingredients : taken[b][i] # 0 => lockedBy[i] = b
TakenIsThere(b) == \A i \in Ingredients : taken[b][i] <= stock[i]

(* The n-th ingredient of b's product is locked by b and suffices for q.   *)
Reserved(b, n, q) ==
  LET i == Recipe[Pid(b)][n] IN
    lockedBy[i] = b /\ q * Need[Pid(b)][i] <= stock[i] - taken[b][i]

(* While b counts, what it counted so far is reserved for it ...           *)
CountIsSound(b) ==
  at[b] = "count" =>
    /\ least[b] # Null => row[b] > 1 /\ 1 \in DOMAIN Recipe[Pid(b)]
    /\ \A n \in DOMAIN Recipe[Pid(b)] :
         n < row[b] => least[b] \in Nat /\ Reserved(b, n, least[b])

(* ... when it decides, the number counted is, or there is none ...        *)
DecisionIsSound(b) ==
  at[b] = "decide" /\ least[b] # Null =>
    least[b] = 0 \/ \A n \in DOMAIN Recipe[Pid(b)] : Reserved(b, n, least[b])

(* ... and while it takes, what it still has to take is.                   *)
TakeIsSound(b) ==
  at[b] = "take" =>
    Quantity(b) <= 0 \/
      \A n \in DOMAIN Recipe[Pid(b)] : n >= row[b] => Reserved(b, n, Quantity(b))

(* Whatever was counted, the first row of the recipe is locked: calls for  *)
(* one product are executed one after the other.                           *)
FirstRowIsLocked(b) ==
  (at[b] = "decide" /\ least[b] # Null) \/ at[b] \in {"take", "write"} =>
    1 \in DOMAIN Recipe[Pid(b)] /\ lockedBy[Recipe[Pid(b)][1]] = b

OnlyGoodRowsAreWritten(b) ==
  at[b] # "idle" /\ (at[b] = "write" \/ op[b] = "UPDATE") => Quantity(b) >= 0

InsertsNewRow(b) ==
  at[b] = "write" /\ op[b] = "INSERT" => Key(b) \notin DOMAIN sale

IdleIsReset(b) == at[b] = "idle" => least[b] = Null /\ op[b] = "INSERT"

BackendInv(b) ==
  /\ IdleIsReset(b)
  /\ LocksProtect(b) /\ TakenIsThere(b)
  /\ CountIsSound(b) /\ DecisionIsSound(b) /\ TakeIsSound(b)
  /\ FirstRowIsLocked(b) /\ OnlyGoodRowsAreWritten(b) /\ InsertsNewRow(b)

IInv == TypeOK /\ \A b \in Backends : BackendInv(b)

(* What a step of c leaves to the others: their variables, their locks and *)
(* the stock of what they locked; new rows of Sale are for products whose  *)
(* first ingredient is c's.                                                *)
Frame(c) ==
  /\ \A b \in Backends \ {c} :
       /\ at'[b] = at[b] /\ call'[b] = call[b] /\ op'[b] = op[b]
       /\ row'[b] = row[b] /\ least'[b] = least[b] /\ taken'[b] = taken[b]
       /\ \A i \in Ingredients : lockedBy[i] = b =>
            lockedBy'[i] = b /\ stock'[i] = stock[i]
  /\ \A s \in DOMAIN sale' : s \in DOMAIN sale \/
       \E p \in Products : s[2] = p /\ lockedBy[Recipe[p][1]] = c

(* What a session knows stays true when another one moves: the rows that   *)
(* it relies on are those that it has locked.                              *)
LEMMA OthersKeepTheirInvariant ==
  ASSUME TypeOK, TypeOK', NEW c \in Backends, Frame(c),
         NEW b \in Backends \ {c}, BackendInv(b)
  PROVE  BackendInv(b)'
<1>. USE SalesAssumption
<1>1. /\ at'[b] = at[b] /\ call'[b] = call[b] /\ op'[b] = op[b]
      /\ row'[b] = row[b] /\ least'[b] = least[b] /\ taken'[b] = taken[b]
      /\ \A i \in Ingredients : lockedBy[i] = b =>
           lockedBy'[i] = b /\ stock'[i] = stock[i]
  BY DEF Frame
<1>2. Pid(b)' = Pid(b) /\ Quantity(b)' = Quantity(b) /\ Key(b)' = Key(b)
  BY <1>1 DEF Pid, Quantity, Key
<1>3. LocksProtect(b)'
  BY <1>1 DEF BackendInv, LocksProtect
<1>4. TakenIsThere(b)'
  BY <1>1 DEF BackendInv, LocksProtect, TakenIsThere, TypeOK
<1>5. at[b] # "idle" => /\ Pid(b) \in Products
                        /\ Recipe[Pid(b)] \in Seq(Ingredients)
                        /\ \A n \in DOMAIN Recipe[Pid(b)] : Recipe[Pid(b)][n] \in Ingredients
  BY DEF TypeOK, Pid
<1>6. ASSUME at[b] # "idle", NEW n \in DOMAIN Recipe[Pid(b)], NEW q, Reserved(b, n, q)
      PROVE  Reserved(b, n, q)'
  BY <1>1, <1>2, <1>5, <1>6 DEF Reserved
<1>7. CountIsSound(b)'
  BY <1>1, <1>2, <1>6 DEF BackendInv, CountIsSound
<1>8. DecisionIsSound(b)'
  BY <1>1, <1>2, <1>6 DEF BackendInv, DecisionIsSound
<1>9. TakeIsSound(b)'
  BY <1>1, <1>2, <1>6 DEF BackendInv, TakeIsSound
<1>10. FirstRowIsLocked(b)'
  BY <1>1, <1>2, <1>5 DEF BackendInv, FirstRowIsLocked
<1>11. OnlyGoodRowsAreWritten(b)'
  BY <1>1, <1>2 DEF BackendInv, OnlyGoodRowsAreWritten
<1>12. InsertsNewRow(b)'
  <2>. SUFFICES ASSUME at[b] = "write", op[b] = "INSERT", Key(b) \in DOMAIN sale'
                PROVE  FALSE
    BY <1>1, <1>2 DEF InsertsNewRow
  <2>1. Key(b) \notin DOMAIN sale /\ lockedBy[Recipe[Pid(b)][1]] = b
    BY DEF BackendInv, InsertsNewRow, FirstRowIsLocked
  <2>2. lockedBy[Recipe[Pid(b)][1]] = c
    BY <2>1 DEF Frame, Key, Pid
  <2>. QED  BY <2>1, <2>2
<1>13. IdleIsReset(b)'
  BY <1>1 DEF BackendInv, IdleIsReset
<1>. QED
  BY <1>3, <1>4, <1>7, <1>8, <1>9, <1>10, <1>11, <1>12, <1>13 DEF BackendInv

-----------------------------------------------------------------------------
(* Every step of b keeps the types, the frame of the others and b's own    *)
(* part of the invariant.                                                  *)

Keeps(b) == TypeOK' /\ Frame(b) /\ BackendInv(b)'

(* What is known of b while it executes a call.                            *)
LEMMA CallFacts ==
  ASSUME TypeOK, NEW b \in Backends, at[b] # "idle"
  PROVE  /\ call[b] \in Calls /\ Pid(b) \in Products /\ call[b].user \in Users
         /\ Quantity(b) \in Int
         /\ Key(b) = <<call[b].user, Pid(b)>> /\ Key(b) \in Users \X Products
         /\ Recipe[Pid(b)] \in Seq(Ingredients)
         /\ \A n \in DOMAIN Recipe[Pid(b)] : Recipe[Pid(b)][n] \in Ingredients
         /\ DOMAIN Recipe[Pid(b)] = 1..Len(Recipe[Pid(b)])
         /\ Len(Recipe[Pid(b)]) \in Nat
         /\ Need[Pid(b)] \in [Ingredients -> Nat]
         /\ AtRow(b) => row[b] \in DOMAIN Recipe[Pid(b)] /\ Ingredient(b) \in Ingredients
<1>. USE SalesAssumption
<1>1. call[b] \in Calls
  BY DEF TypeOK
<1>2. Pid(b) \in Products /\ call[b].user \in Users /\ Quantity(b) \in Int
  BY <1>1 DEF Pid, Quantity
<1>3. Recipe[Pid(b)] \in Seq(Ingredients) /\ Need[Pid(b)] \in [Ingredients -> Nat]
  BY <1>2
<1>4. AtRow(b) => row[b] \in DOMAIN Recipe[Pid(b)] /\ Ingredient(b) \in Ingredients
  BY <1>3 DEF AtRow, Ingredient, TypeOK
<1>. QED
  BY <1>1, <1>2, <1>3, <1>4 DEF Key, Pid

(* A session that ends releases its locks and knows nothing any more.      *)
LEMMA EndingKeeps ==
  ASSUME IInv, NEW b \in Backends, NEW result \in {"sold", "refused"}, Ends(b, result),
         stock' \in [Ingredients -> Nat],
         \A i \in Ingredients : lockedBy[i] # b => stock'[i] = stock[i],
         DOMAIN sale' \subseteq Users \X Products,
         \A s \in DOMAIN sale' : sale'[s] \in Nat,
         \A s \in DOMAIN sale' : s \in DOMAIN sale \/
           \E p \in Products : s[2] = p /\ lockedBy[Recipe[p][1]] = b
  PROVE  Keeps(b)
<1>. USE SalesAssumption DEF IInv
<1>1. TypeOK'
  BY DEF TypeOK, Ends, Goes, Release, Places
<1>2. Frame(b)
  BY DEF Frame, Ends, Goes, Release, TypeOK
<1>3. at'[b] = "idle" /\ op'[b] = "INSERT" /\ least'[b] = Null /\ \A i \in Ingredients : taken'[b][i] = 0
  BY DEF Ends, Goes, TypeOK
<1>4. BackendInv(b)'
  BY <1>1, <1>3 DEF BackendInv, LocksProtect, TakenIsThere, CountIsSound, DecisionIsSound,
    TakeIsSound, FirstRowIsLocked, OnlyGoodRowsAreWritten, InsertsNewRow,
    IdleIsReset, TypeOK
<1>. QED
  BY <1>1, <1>2, <1>4 DEF Keeps

(* Each step of a session keeps what is known of it and of the rest: a     *)
(* roll back ...                                                           *)
LEMMA RollingBackKeeps ==
  ASSUME IInv, NEW b \in Backends, RollBack(b) PROVE Keeps(b)
<1>1. stock' = stock /\ sale' = sale
  BY DEF RollBack, tables
<1>. QED
  BY <1>1, EndingKeeps DEF RollBack, IInv, TypeOK

(* ... a commit ...                                                        *)
LEMMA CommittingKeeps ==
  ASSUME IInv, NEW b \in Backends, Commit(b) PROVE Keeps(b)
<1>. USE SalesAssumption DEF IInv
<1>1. at[b] = "write"
  BY DEF Commit
<1>2. /\ Key(b) \in Users \X Products /\ Quantity(b) \in Int /\ Quantity(b) >= 0
      /\ Key(b)[2] = Pid(b) /\ Pid(b) \in Products
      /\ lockedBy[Recipe[Pid(b)][1]] = b
  BY <1>1, CallFacts DEF BackendInv, OnlyGoodRowsAreWritten, FirstRowIsLocked
<1>3. stock' \in [Ingredients -> Nat]
  BY DEF Commit, BackendInv, TakenIsThere, TypeOK
<1>4. \A i \in Ingredients : lockedBy[i] # b => stock'[i] = stock[i]
  BY DEF Commit, BackendInv, LocksProtect, TypeOK
<1>5. DOMAIN sale' = DOMAIN sale \cup {Key(b)}
  BY DEF Commit
<1>6. \A s \in DOMAIN sale' : sale'[s] \in Nat
  BY SMTT(30), <1>2 DEF Commit, TypeOK
<1>7. DOMAIN sale' \subseteq Users \X Products
  BY <1>2, <1>5 DEF TypeOK
<1>8. \A s \in DOMAIN sale' : s \in DOMAIN sale \/
        \E p \in Products : s[2] = p /\ lockedBy[Recipe[p][1]] = b
  BY <1>2, <1>5
<1>9. Ends(b, "sold")
  BY DEF Commit
<1>. QED
  BY <1>3, <1>4, <1>6, <1>7, <1>8, <1>9, EndingKeeps

(* The steps inside a call change b's variables and lock at most one row   *)
(* that was b's or nobody's.                                               *)
LEMMA InsideFrame ==
  ASSUME TypeOK, NEW b \in Backends, UNCHANGED tables,
         \A c \in Backends \ {b} :
           /\ at'[c] = at[c] /\ call'[c] = call[c] /\ op'[c] = op[c]
           /\ row'[c] = row[c] /\ least'[c] = least[c] /\ taken'[c] = taken[c],
         \A i \in Ingredients : lockedBy'[i] = lockedBy[i] \/ lockedBy[i] \in {Nobody, b}
  PROVE  Frame(b)
BY SalesAssumption DEF Frame, tables

(* ... the start of a call ...                                             *)
LEMMA StartingKeeps ==
  ASSUME IInv, NEW b \in Backends, NEW c \in Calls, UpsertSale(b, c) PROVE Keeps(b)
<1>. USE SalesAssumption DEF IInv
<1>1. TypeOK'
  BY DEF UpsertSale, Scans, Goes, TypeOK, Places, tables
<1>2. Frame(b)
  BY InsideFrame DEF UpsertSale, Scans, Goes, TypeOK
<1>3. /\ at'[b] = "count" /\ row'[b] = 1 /\ op'[b] = op[b] /\ least'[b] = least[b]
      /\ taken' = taken /\ lockedBy' = lockedBy /\ stock' = stock
  BY DEF UpsertSale, Scans, Goes, TypeOK, tables
<1>4. BackendInv(b)'
  <2>1. op'[b] = "INSERT" /\ least'[b] = Null
    BY <1>3 DEF BackendInv, IdleIsReset, UpsertSale
  <2>2. at[b] = "idle" /\ Pid(b)' = c.pid /\ c.pid \in Products
    BY DEF UpsertSale, Pid, TypeOK
  <2>3. \A n \in DOMAIN Recipe[Pid(b)'] : n >= 1
    BY <2>2
  <2>. QED
    BY <1>3, <2>1, <2>2, <2>3 DEF BackendInv, LocksProtect, TakenIsThere, CountIsSound,
      DecisionIsSound, TakeIsSound, FirstRowIsLocked, OnlyGoodRowsAreWritten,
      InsertsNewRow, IdleIsReset
<1>. QED
  BY <1>1, <1>2, <1>4 DEF Keeps

(* ... a row of the count, which locks its ingredient (main.pgsql:131-140) *)
(* ...                                                                     *)
LEMMA CountingKeeps ==
  ASSUME IInv, NEW b \in Backends, CountRow(b) PROVE Keeps(b)
<1>. USE SalesAssumption DEF IInv
<1>. DEFINE i == Ingredient(b)
            usages == Available(b) \div NeedOf(b)
<1>1. /\ at[b] = "count" /\ i \in Ingredients /\ row[b] \in DOMAIN Recipe[Pid(b)]
      /\ i = Recipe[Pid(b)][row[b]] /\ NeedOf(b) = Need[Pid(b)][i]
      /\ NeedOf(b) \in Nat /\ NeedOf(b) > 0 /\ row[b] \in Nat \ {0}
  BY CallFacts DEF CountRow, NeedOf, Ingredient, TypeOK
<1>2. /\ Available(b) = stock[i] - taken[b][i] /\ Available(b) \in Nat
  BY <1>1 DEF Available, BackendInv, TakenIsThere, TypeOK
<1>3. usages \in Nat
  BY <1>1, <1>2, QuotientIsNat
<1>4. /\ stock' = stock /\ sale' = sale /\ taken' = taken /\ call' = call /\ op' = op
      /\ lockedBy[i] \in {Nobody, b} /\ lockedBy' = [lockedBy EXCEPT ![i] = b]
      /\ outcome' = outcome
  BY DEF CountRow, Locks, tables, transaction
<1>5. \/ /\ usages = 0 /\ least' = [least EXCEPT ![b] = 0]
         /\ at' = [at EXCEPT ![b] = "decide"] /\ row' = row
      \/ /\ usages > 0 /\ at' = at /\ row' = [row EXCEPT ![b] = row[b] + 1]
         /\ least' = [least EXCEPT ![b] =
                        IF least[b] = Null \/ least[b] > usages THEN usages ELSE least[b]]
  BY <1>3 DEF CountRow, Goes
<1>. HIDE DEF usages, i
<1>6. TypeOK'
  <2>1. row' \in [Backends -> Nat \ {0}]
    <3>1. row \in [Backends -> Nat \ {0}]
      BY DEF TypeOK
    <3>2. row[b] + 1 \in Nat \ {0}
      BY <1>1
    <3>3. CASE row' = row
      BY <3>1, <3>3
    <3>4. CASE row' = [row EXCEPT ![b] = row[b] + 1]
      BY <3>1, <3>2, <3>4, Zenon
    <3>. QED  BY <1>5, <3>3, <3>4
  <2>2. least' \in [Backends -> Nat \cup {Null}]
    <3>1. least \in [Backends -> Nat \cup {Null}]
      BY DEF TypeOK
    <3>2. PICK l \in Nat \cup {Null} : least' = [least EXCEPT ![b] = l]
      BY <1>3, <1>5, <3>1
    <3>. QED  BY <3>1, <3>2, Zenon
  <2>3. lockedBy' \in [Ingredients -> Backends \cup {Nobody}]
    BY <1>1, <1>4 DEF TypeOK
  <2>4. at' \in [Backends -> Places]
    BY ZenonT(40), <1>5 DEF TypeOK, Places
  <2>5. \A c \in Backends : call'[c] = Null <=> at'[c] = "idle"
    BY <1>1, <1>4, <1>5 DEF TypeOK
  <2>. QED  BY <1>4, <2>1, <2>2, <2>3, <2>4, <2>5 DEF TypeOK
<1>7. Frame(b)
  <2>1. \A c \in Backends \ {b} :
           /\ at'[c] = at[c] /\ row'[c] = row[c] /\ least'[c] = least[c]
    BY <1>5 DEF TypeOK
  <2>2. \A j \in Ingredients : lockedBy'[j] = lockedBy[j] \/ lockedBy[j] \in {Nobody, b}
    BY <1>4 DEF TypeOK
  <2>. QED  BY <1>4, <2>1, <2>2, InsideFrame DEF tables
<1>8. /\ Pid(b)' = Pid(b) /\ Quantity(b)' = Quantity(b) /\ Key(b)' = Key(b)
      /\ \A n \in DOMAIN Recipe[Pid(b)] :
           lockedBy[Recipe[Pid(b)][n]] = b => lockedBy'[Recipe[Pid(b)][n]] = b
      /\ lockedBy'[i] = b
  BY <1>1, <1>4 DEF Pid, Quantity, Key, TypeOK
<1>9. LocksProtect(b)' /\ TakenIsThere(b)' /\ TakeIsSound(b)'
      /\ OnlyGoodRowsAreWritten(b)' /\ InsertsNewRow(b)' /\ IdleIsReset(b)'
  BY <1>1, <1>4, <1>5, <1>8 DEF BackendInv, LocksProtect, TakenIsThere, TakeIsSound,
    OnlyGoodRowsAreWritten, InsertsNewRow, IdleIsReset, TypeOK
<1>10. CASE usages = 0
  <2>1. at'[b] = "decide" /\ least'[b] = 0
    BY <1>1, <1>5, <1>10 DEF TypeOK
  <2>2. 1 \in DOMAIN Recipe[Pid(b)] /\ lockedBy'[Recipe[Pid(b)][1]] = b
    <3>1. 1 \in DOMAIN Recipe[Pid(b)]
      BY <1>1, CallFacts
    <3>2. row[b] = 1 \/ lockedBy[Recipe[Pid(b)][1]] = b
      <4>1. row[b] = 1 \/ 1 < row[b]
        <5>1. row[b] \in Nat \ {0}
          BY <1>1
        <5>. QED  BY ONLY <5>1
      <4>. QED  BY <1>1, <3>1, <4>1 DEF BackendInv, CountIsSound, Reserved
    <3>. QED  BY <1>1, <1>8, <3>1, <3>2
  <2>. QED
    BY <1>6, <1>7, <1>8, <1>9, <2>1, <2>2 DEF Keeps, BackendInv, CountIsSound,
      DecisionIsSound, FirstRowIsLocked
<1>11. CASE usages > 0
  <2>1. PICK l : l = IF least[b] = Null \/ least[b] > usages THEN usages ELSE least[b]
    OBVIOUS
  <2>2. at'[b] = "count" /\ row'[b] = row[b] + 1 /\ least'[b] = l
    BY SMTT(30), <1>1, <1>5, <1>11, <2>1 DEF TypeOK
  <2>3. l \in Nat /\ l <= usages /\ (least[b] # Null => l <= least[b])
    BY <1>3, <2>1 DEF TypeOK
  <2>4. \A n \in DOMAIN Recipe[Pid(b)] : n < row[b] + 1 => Reserved(b, n, l) \/ n = row[b]
    <3>. SUFFICES ASSUME NEW n \in DOMAIN Recipe[Pid(b)], n < row[b] + 1, n # row[b]
                  PROVE  Reserved(b, n, l)
      OBVIOUS
    <3>1. PICK j \in Ingredients, r \in Nat, a \in Int :
            j = Recipe[Pid(b)][n] /\ r = Need[Pid(b)][j] /\ a = stock[j] - taken[b][j]
      <4>1. Recipe[Pid(b)][n] \in Ingredients /\ Need[Pid(b)] \in [Ingredients -> Nat]
        BY <1>1, CallFacts
      <4>2. stock \in [Ingredients -> Nat] /\ taken[b] \in [Ingredients -> Int]
        BY DEF TypeOK
      <4>3. stock[Recipe[Pid(b)][n]] - taken[b][Recipe[Pid(b)][n]] \in Int
        BY <4>1, <4>2
      <4>. QED  BY <4>1, <4>3
    <3>2. n < row[b]
      <4>1. n \in Nat /\ row[b] \in Nat
        <5>1. /\ DOMAIN Recipe[Pid(b)] = 1..Len(Recipe[Pid(b)])
              /\ Len(Recipe[Pid(b)]) \in Nat
          BY <1>1, CallFacts, Zenon
        <5>2. n \in DOMAIN Recipe[Pid(b)]
          OBVIOUS
        <5>3. n \in Nat
          BY ONLY <5>1, <5>2
        <5>4. row[b] \in Nat
          BY <1>1
        <5>. QED  BY ONLY <5>3, <5>4
      <4>2. n < row[b] + 1 /\ n # row[b]
        OBVIOUS
      <4>. QED  BY ONLY <4>1, <4>2
    <3>3. least[b] \in Nat /\ lockedBy[j] = b /\ least[b] * r <= a
      BY <1>1, <3>1, <3>2 DEF BackendInv, CountIsSound, Reserved
    <3>4. l \in Int /\ least[b] \in Int /\ l <= least[b]
      BY <2>3, <3>3, SalesAssumption
    <3>5. l * r <= a
      BY ONLY <3>3, <3>4, LessFits
    <3>. QED  BY <3>1, <3>3, <3>5 DEF Reserved
  <2>5. l * Need[Pid(b)][i] <= stock[i] - taken[b][i]
    <3>. DEFINE r == NeedOf(b)
                a == Available(b)
    <3>1. r \in Nat /\ r > 0 /\ a \in Int
      BY <1>1, <1>2
    <3>2. l \in Int /\ l <= a \div r
      BY <2>3 DEF usages
    <3>3. r = Need[Pid(b)][i] /\ a = stock[i] - taken[b][i]
      BY <1>1, <1>2
    <3>. HIDE DEF r, a
    <3>4. l * r <= a
      BY ONLY <3>1, <3>2, QuotientFits
    <3>. QED  BY <3>3, <3>4
  <2>6. \A n \in DOMAIN Recipe[Pid(b)] : n < row'[b] =>
          /\ lockedBy'[Recipe[Pid(b)][n]] = b
          /\ l * Need[Pid(b)][Recipe[Pid(b)][n]]
               <= stock[Recipe[Pid(b)][n]] - taken[b][Recipe[Pid(b)][n]]
    BY SMTT(30), <1>1, <1>8, <2>2, <2>4, <2>5 DEF Reserved
  <2>7. row[b] + 1 > 1 /\ 1 \in DOMAIN Recipe[Pid(b)]
    BY <1>1, CallFacts
  <2>8. CountIsSound(b)'
    BY <1>4, <1>8, <2>2, <2>3, <2>6, <2>7 DEF CountIsSound, Reserved
  <2>. QED
    BY <1>6, <1>7, <1>9, <2>2, <2>8 DEF Keeps, BackendInv, DecisionIsSound, FirstRowIsLocked
<1>. QED
  BY <1>3, <1>10, <1>11

(* ... the end of the count ...                                            *)
LEMMA CountEndingKeeps ==
  ASSUME IInv, NEW b \in Backends, CountEnds(b) PROVE Keeps(b)
<1>. USE SalesAssumption DEF IInv
<1>1. /\ at[b] = "count" /\ at' = [at EXCEPT ![b] = "decide"]
      /\ UNCHANGED <<stock, sale, lockedBy, call, op, taken, row, least, outcome>>
  BY DEF CountEnds, Goes, tables, transaction
<1>2. TypeOK'
  BY <1>1 DEF TypeOK, Places
<1>3. Frame(b)
  BY <1>1, InsideFrame DEF TypeOK, tables
<1>4. \A n \in DOMAIN Recipe[Pid(b)] : n < row[b]
  <2>1. ~(row[b] <= Len(Recipe[Pid(b)])) /\ row[b] \in Nat
    BY <1>1 DEF CountEnds, AtRow, TypeOK
  <2>. QED  BY <1>1, <2>1, CallFacts
<1>5. least[b] # Null =>
        /\ \A n \in DOMAIN Recipe[Pid(b)] : Reserved(b, n, least[b])
        /\ 1 \in DOMAIN Recipe[Pid(b)] /\ lockedBy[Recipe[Pid(b)][1]] = b
  BY <1>1, <1>4 DEF BackendInv, CountIsSound, Reserved
<1>6. at'[b] = "decide" /\ Pid(b)' = Pid(b) /\ Quantity(b)' = Quantity(b)
  BY <1>1 DEF TypeOK, Pid, Quantity
<1>7. DecisionIsSound(b)' /\ FirstRowIsLocked(b)'
  BY <1>1, <1>5, <1>6 DEF DecisionIsSound, FirstRowIsLocked, Reserved
<1>8. /\ IdleIsReset(b)' /\ LocksProtect(b)' /\ TakenIsThere(b)' /\ CountIsSound(b)'
      /\ TakeIsSound(b)' /\ OnlyGoodRowsAreWritten(b)' /\ InsertsNewRow(b)'
  BY <1>1, <1>6 DEF BackendInv, IdleIsReset, LocksProtect, TakenIsThere, CountIsSound,
    TakeIsSound, OnlyGoodRowsAreWritten, InsertsNewRow
<1>. QED
  BY <1>2, <1>3, <1>7, <1>8 DEF Keeps, BackendInv

(* ... the trigger's decision (main.pgsql:189-206) ...                     *)
LEMMA SellingKeeps ==
  ASSUME IInv, NEW b \in Backends, Sells(b) PROVE Keeps(b)
<1>. USE SalesAssumption DEF IInv
<1>1. /\ at[b] = "decide" /\ at' = [at EXCEPT ![b] = "take"]
      /\ row' = [row EXCEPT ![b] = 1]
      /\ UNCHANGED <<stock, sale, lockedBy, call, op, taken, least, outcome>>
      /\ least[b] # Null /\ least[b] >= Quantity(b)
  BY DEF Sells, Enough, Scans, Goes, tables, transaction
<1>2. TypeOK'
  BY <1>1 DEF TypeOK, Places
<1>3. Frame(b)
  BY <1>1, InsideFrame DEF TypeOK, tables
<1>4. at'[b] = "take" /\ Pid(b)' = Pid(b) /\ Quantity(b)' = Quantity(b)
  BY <1>1 DEF TypeOK, Pid, Quantity
<1>5. Quantity(b) \in Int /\ least[b] \in Nat /\ Quantity(b) <= least[b]
  BY <1>1, CallFacts DEF TypeOK
<1>6. Quantity(b) <= 0 \/ \A n \in DOMAIN Recipe[Pid(b)] : Reserved(b, n, Quantity(b))
  <2>. SUFFICES ASSUME least[b] # 0, NEW n \in DOMAIN Recipe[Pid(b)]
                PROVE  Reserved(b, n, Quantity(b))
    BY <1>5
  <2>1. PICK j \in Ingredients, r \in Nat, a \in Int :
          j = Recipe[Pid(b)][n] /\ r = Need[Pid(b)][j] /\ a = stock[j] - taken[b][j]
    <3>1. Recipe[Pid(b)][n] \in Ingredients /\ Need[Pid(b)] \in [Ingredients -> Nat]
      BY <1>1, CallFacts
    <3>2. stock \in [Ingredients -> Nat] /\ taken[b] \in [Ingredients -> Int]
      BY DEF TypeOK
    <3>3. stock[Recipe[Pid(b)][n]] - taken[b][Recipe[Pid(b)][n]] \in Int
      BY <3>1, <3>2
    <3>. QED  BY <3>1, <3>3
  <2>2. lockedBy[j] = b /\ least[b] * r <= a
    BY <1>1, <2>1 DEF BackendInv, DecisionIsSound, Reserved
  <2>3. least[b] \in Int
    BY <1>5
  <2>4. Quantity(b) * r <= a
    BY ONLY <1>5, <2>2, <2>3, LessFits
  <2>. QED  BY <2>1, <2>2, <2>4 DEF Reserved
<1>7. TakeIsSound(b)'
  BY <1>1, <1>4, <1>6 DEF TakeIsSound, Reserved
<1>8. /\ IdleIsReset(b)' /\ LocksProtect(b)' /\ TakenIsThere(b)' /\ CountIsSound(b)'
      /\ DecisionIsSound(b)' /\ OnlyGoodRowsAreWritten(b)' /\ InsertsNewRow(b)'
  BY <1>1, <1>4 DEF BackendInv, IdleIsReset, LocksProtect, TakenIsThere, CountIsSound,
    DecisionIsSound, OnlyGoodRowsAreWritten, InsertsNewRow
<1>9. FirstRowIsLocked(b)'
  BY <1>1, <1>4 DEF BackendInv, FirstRowIsLocked
<1>. QED
  BY <1>2, <1>3, <1>7, <1>8, <1>9 DEF Keeps, BackendInv

(* ... the taking of one ingredient (main.pgsql:156-176) ...               *)
LEMMA TakingKeeps ==
  ASSUME IInv, NEW b \in Backends, TakeIngredient(b) PROVE Keeps(b)
<1>. USE SalesAssumption DEF IInv
<1>1. CASE Available(b) < Takes(b)
  BY <1>1, RollingBackKeeps DEF TakeIngredient
<1>2. CASE ~(Available(b) < Takes(b))
  <2>. DEFINE i == Ingredient(b)
              t == Takes(b)
  <2>1. /\ at[b] = "take" /\ i \in Ingredients /\ row[b] \in DOMAIN Recipe[Pid(b)]
        /\ i = Recipe[Pid(b)][row[b]] /\ row[b] \in Nat \ {0}
    BY CallFacts DEF TakeIngredient, Ingredient, TypeOK
  <2>2. t \in Int
    <3>1. Quantity(b) \in Int /\ NeedOf(b) \in Int
      BY <2>1, CallFacts DEF NeedOf
    <3>. QED  BY <3>1 DEF Takes
  <2>3. /\ stock[i] \in Nat /\ taken[b][i] \in Int /\ t <= stock[i] - taken[b][i]
    BY <1>2, <2>1, <2>2 DEF Available, TypeOK
  <2>4. /\ stock' = stock /\ sale' = sale /\ at' = at /\ call' = call /\ op' = op
        /\ least' = least /\ outcome' = outcome
        /\ lockedBy[i] \in {Nobody, b} /\ lockedBy' = [lockedBy EXCEPT ![i] = b]
        /\ taken' = [taken EXCEPT ![b][i] = taken[b][i] + t]
        /\ row' = [row EXCEPT ![b] = row[b] + 1]
    BY <1>2 DEF TakeIngredient, Locks, tables
  <2>. HIDE DEF i, t
  <2>5. /\ taken' \in [Backends -> [Ingredients -> Int]]
        /\ taken'[b][i] = taken[b][i] + t
        /\ \A j \in Ingredients \ {i} : taken'[b][j] = taken[b][j]
        /\ \A c \in Backends \ {b} : taken'[c] = taken[c]
    <3>1. taken \in [Backends -> [Ingredients -> Int]] /\ taken[b][i] + t \in Int
      BY <2>2, <2>3 DEF TypeOK
    <3>2. PICK f \in [Ingredients -> Int] :
            f = [taken[b] EXCEPT ![i] = taken[b][i] + t]
      BY <2>1, <3>1
    <3>3. taken' = [taken EXCEPT ![b] = f]
      BY <2>4, <3>1, <3>2
    <3>4. taken'[b] = f /\ taken' \in [Backends -> [Ingredients -> Int]]
          /\ \A c \in Backends \ {b} : taken'[c] = taken[c]
      BY <3>1, <3>3, Zenon
    <3>5. f[i] = taken[b][i] + t /\ \A j \in Ingredients \ {i} : f[j] = taken[b][j]
      BY <2>1, <3>1, <3>2
    <3>. QED  BY <3>4, <3>5
  <2>6. /\ row' \in [Backends -> Nat \ {0}] /\ row'[b] = row[b] + 1
        /\ \A c \in Backends \ {b} : row'[c] = row[c]
    <3>1. row \in [Backends -> Nat \ {0}] /\ row[b] + 1 \in Nat \ {0}
      BY SMTT(30), <2>1 DEF TypeOK
    <3>. QED  BY <2>4, <3>1, ZenonT(40)
  <2>7. TypeOK'
    BY <2>1, <2>4, <2>5, <2>6 DEF TypeOK
  <2>8. Frame(b)
    <3>1. \A j \in Ingredients : lockedBy'[j] = lockedBy[j] \/ lockedBy[j] \in {Nobody, b}
      BY <2>4 DEF TypeOK
    <3>. QED  BY <2>4, <2>5, <2>6, <3>1, InsideFrame DEF tables
  <2>9. Pid(b)' = Pid(b) /\ Quantity(b)' = Quantity(b) /\ Key(b)' = Key(b)
    BY <2>4 DEF Pid, Quantity, Key
  <2>10. lockedBy'[i] = b /\ \A j \in Ingredients : lockedBy[j] = b => lockedBy'[j] = b
    BY <2>1, <2>4 DEF TypeOK
  <2>11. LocksProtect(b)'
    BY <2>5, <2>10 DEF BackendInv, LocksProtect
  <2>12. TakenIsThere(b)'
    BY <2>2, <2>3, <2>4, <2>5 DEF BackendInv, TakenIsThere
  <2>13. TakeIsSound(b)'
    <3>. SUFFICES ASSUME ~(Quantity(b) <= 0), NEW n \in DOMAIN Recipe[Pid(b)], n >= row'[b]
                  PROVE  Reserved(b, n, Quantity(b))'
      BY <2>9 DEF TakeIsSound
    <3>1. n \in Nat /\ n >= row[b] /\ n # row[b]
      <4>1. n \in Nat
        BY <2>1, CallFacts
      <4>2. n >= row[b] + 1 /\ row[b] \in Nat
        BY <2>1, <2>6
      <4>. QED  BY ONLY <4>1, <4>2
    <3>2. Reserved(b, n, Quantity(b))
      BY <2>1, <3>1 DEF BackendInv, TakeIsSound
    <3>3. Recipe[Pid(b)][n] \in Ingredients \ {i}
      BY <2>1, <3>1, CallFacts
    <3>. QED  BY <2>4, <2>5, <2>9, <2>10, <3>2, <3>3 DEF Reserved
  <2>14. FirstRowIsLocked(b)'
    BY <2>1, <2>4, <2>9, <2>10, CallFacts DEF BackendInv, FirstRowIsLocked
  <2>15. /\ IdleIsReset(b)' /\ CountIsSound(b)' /\ DecisionIsSound(b)'
         /\ OnlyGoodRowsAreWritten(b)' /\ InsertsNewRow(b)'
    BY <2>1, <2>4, <2>9 DEF BackendInv, IdleIsReset, CountIsSound, DecisionIsSound,
      OnlyGoodRowsAreWritten, InsertsNewRow
  <2>. QED
    BY <2>7, <2>8, <2>11, <2>12, <2>13, <2>14, <2>15 DEF Keeps, BackendInv
<1>. QED
  BY <1>1, <1>2

(* ... a row that exists (main.pgsql:116-119) ...                          *)
LEMMA ConflictKeeps ==
  ASSUME IInv, NEW b \in Backends, Conflict(b) PROVE Keeps(b)
<1>. USE SalesAssumption DEF IInv
<1>1. /\ at[b] = "take" /\ Quantity(b) >= 0 /\ op' = [op EXCEPT ![b] = "UPDATE"]
      /\ UNCHANGED <<stock, sale, lockedBy, call, taken, outcome>>
      /\ \/ at' = [at EXCEPT ![b] = "write"] /\ row' = row /\ least' = least
         \/ /\ at' = [at EXCEPT ![b] = "count"] /\ row' = [row EXCEPT ![b] = 1]
            /\ least' = [least EXCEPT ![b] = Null]
  BY DEF Conflict, Passed, Scans, Goes, tables
<1>2. TypeOK'
  <2>1. op' \in [Backends -> {"INSERT", "UPDATE"}] /\ at' \in [Backends -> Places]
    BY ZenonT(40), <1>1 DEF TypeOK, Places
  <2>2. row' \in [Backends -> Nat \ {0}]
    <3>1. row \in [Backends -> Nat \ {0}] /\ 1 \in Nat \ {0}
      BY DEF TypeOK
    <3>. QED  BY <1>1, <3>1, ZenonT(40)
  <2>3. least' \in [Backends -> Nat \cup {Null}]
    <3>1. least \in [Backends -> Nat \cup {Null}]
      BY DEF TypeOK
    <3>. QED  BY <1>1, <3>1, Zenon
  <2>4. \A c \in Backends : call'[c] = Null <=> at'[c] = "idle"
    BY <1>1 DEF TypeOK
  <2>. QED  BY <1>1, <2>1, <2>2, <2>3, <2>4 DEF TypeOK
<1>3. Frame(b)
  <2>1. \A c \in Backends \ {b} :
          at'[c] = at[c] /\ op'[c] = op[c] /\ row'[c] = row[c] /\ least'[c] = least[c]
    BY <1>1 DEF TypeOK
  <2>. QED  BY <1>1, <2>1, InsideFrame DEF tables
<1>4. Pid(b)' = Pid(b) /\ Quantity(b)' = Quantity(b) /\ op'[b] = "UPDATE"
  BY <1>1 DEF TypeOK, Pid, Quantity
<1>5. \/ at'[b] = "write"
      \/ at'[b] = "count" /\ row'[b] = 1 /\ least'[b] = Null
  BY <1>1 DEF TypeOK
<1>6. \A n \in DOMAIN Recipe[Pid(b)] : ~(n < 1)
  BY <1>1, CallFacts
<1>7. CountIsSound(b)'
  BY <1>4, <1>5, <1>6 DEF CountIsSound
<1>8. FirstRowIsLocked(b)'
  BY <1>1, <1>4, <1>5 DEF BackendInv, FirstRowIsLocked
<1>9. /\ IdleIsReset(b)' /\ LocksProtect(b)' /\ TakenIsThere(b)' /\ DecisionIsSound(b)'
      /\ TakeIsSound(b)' /\ OnlyGoodRowsAreWritten(b)' /\ InsertsNewRow(b)'
  BY <1>1, <1>4, <1>5 DEF BackendInv, IdleIsReset, LocksProtect, TakenIsThere,
    DecisionIsSound, TakeIsSound, OnlyGoodRowsAreWritten, InsertsNewRow
<1>. QED
  BY <1>2, <1>3, <1>7, <1>8, <1>9 DEF Keeps, BackendInv

(* ... and one that does not.                                              *)
LEMMA NoConflictKeeps ==
  ASSUME IInv, NEW b \in Backends, NoConflict(b) PROVE Keeps(b)
<1>. USE SalesAssumption DEF IInv
<1>1. /\ at[b] = "take" /\ at' = [at EXCEPT ![b] = "write"]
      /\ op[b] = "INSERT" => Quantity(b) >= 0 /\ Key(b) \notin DOMAIN sale
      /\ UNCHANGED <<stock, sale, lockedBy, call, op, taken, row, least, outcome>>
  BY DEF NoConflict, Passed, Goes, tables, transaction
<1>2. TypeOK'
  BY <1>1 DEF TypeOK, Places
<1>3. Frame(b)
  BY <1>1, InsideFrame DEF TypeOK, tables
<1>4. /\ at'[b] = "write" /\ Pid(b)' = Pid(b) /\ Quantity(b)' = Quantity(b)
      /\ Key(b)' = Key(b)
  BY <1>1 DEF TypeOK, Pid, Quantity, Key
<1>5. op[b] = "INSERT" \/ Quantity(b) >= 0
  BY <1>1 DEF BackendInv, OnlyGoodRowsAreWritten, TypeOK
<1>6. OnlyGoodRowsAreWritten(b)' /\ InsertsNewRow(b)'
  BY <1>1, <1>4, <1>5 DEF OnlyGoodRowsAreWritten, InsertsNewRow
<1>7. FirstRowIsLocked(b)'
  BY <1>1, <1>4 DEF BackendInv, FirstRowIsLocked
<1>8. /\ IdleIsReset(b)' /\ LocksProtect(b)' /\ TakenIsThere(b)' /\ CountIsSound(b)'
      /\ DecisionIsSound(b)' /\ TakeIsSound(b)'
  BY <1>1, <1>4 DEF BackendInv, IdleIsReset, LocksProtect, TakenIsThere, CountIsSound,
    DecisionIsSound, TakeIsSound
<1>. QED
  BY <1>2, <1>3, <1>6, <1>7, <1>8 DEF Keeps, BackendInv

-----------------------------------------------------------------------------
(* The invariant is inductive.                                             *)

(* The inductive invariant holds at first ...                              *)
LEMMA InitiallyIInv == Init => IInv
<1>. SUFFICES ASSUME Init PROVE IInv
  OBVIOUS
<1>1. TypeOK
  BY SalesAssumption DEF Init, TypeOK, Places
<1>2. ASSUME NEW b \in Backends PROVE BackendInv(b)
  <2>1. /\ at[b] = "idle" /\ least[b] = Null /\ op[b] = "INSERT"
        /\ \A i \in Ingredients : taken[b][i] = 0 /\ stock[i] \in Nat
    BY SalesAssumption DEF Init
  <2>. QED
    BY <2>1 DEF BackendInv, IdleIsReset, LocksProtect, TakenIsThere, CountIsSound,
      DecisionIsSound, TakeIsSound, FirstRowIsLocked, OnlyGoodRowsAreWritten, InsertsNewRow
<1>. QED
  BY <1>1, <1>2 DEF IInv

(* ... every step keeps it ...                                             *)
LEMMA NextKeepsIInv == IInv /\ [Next]_vars => IInv'
<1>. SUFFICES ASSUME IInv, [Next]_vars PROVE IInv'
  OBVIOUS
<1>1. ASSUME NEW b \in Backends, Keeps(b) PROVE IInv'
  BY <1>1, OthersKeepTheirInvariant DEF Keeps, IInv
<1>2. ASSUME NEW b \in Backends, NEW c \in Calls, UpsertSale(b, c) PROVE IInv'
  BY <1>1, <1>2, StartingKeeps
<1>3. ASSUME NEW b \in Backends, Step(b) PROVE IInv'
  <2>1. CASE CountRow(b)
    BY <1>1, <2>1, CountingKeeps
  <2>2. CASE CountEnds(b)
    BY <1>1, <2>2, CountEndingKeeps
  <2>3. CASE Sells(b)
    BY <1>1, <2>3, SellingKeeps
  <2>4. CASE TakeIngredient(b)
    BY <1>1, <2>4, TakingKeeps
  <2>5. CASE Conflict(b)
    BY <1>1, <2>5, ConflictKeeps
  <2>6. CASE NoConflict(b)
    BY <1>1, <2>6, NoConflictKeeps
  <2>7. CASE Commit(b)
    BY <1>1, <2>7, CommittingKeeps
  <2>8. CASE \/ DivisionByZero(b) \/ CannotSell(b) \/ CursorInUse(b) \/ SaleCheckFails(b)
             \/ UnknownUser(b) \/ Deadlock(b)
    BY <1>1, <2>8, RollingBackKeeps
       DEF DivisionByZero, CannotSell, CursorInUse, SaleCheckFails, UnknownUser, Deadlock
  <2>. QED
    BY <1>3, <2>1, <2>2, <2>3, <2>4, <2>5, <2>6, <2>7, <2>8 DEF Step
<1>4. ASSUME NEW b \in Backends, Lost(b) PROVE IInv'
  BY <1>1, <1>4, RollingBackKeeps DEF Lost
<1>5. CASE UNCHANGED vars
  <2>1. TypeOK'
    BY <1>1, <1>5 DEF vars, IInv, TypeOK
  <2>2. ASSUME NEW b \in Backends PROVE BackendInv(b)'
    <3>1. (IdleIsReset(b) /\ LocksProtect(b) /\ TakenIsThere(b) /\ CountIsSound(b))'
      BY <1>1, <1>5 DEF vars, IInv, BackendInv, IdleIsReset, LocksProtect, TakenIsThere, CountIsSound,
                        Reserved, Pid, Quantity
    <3>2. (DecisionIsSound(b) /\ TakeIsSound(b))'
      BY <1>1, <1>5 DEF vars, IInv, BackendInv, DecisionIsSound, TakeIsSound, Reserved, Pid, Quantity
    <3>3. (FirstRowIsLocked(b) /\ OnlyGoodRowsAreWritten(b) /\ InsertsNewRow(b))'
      BY <1>1, <1>5 DEF vars, IInv, BackendInv, FirstRowIsLocked, OnlyGoodRowsAreWritten, InsertsNewRow,
                        Pid, Quantity, Key
    <3>. QED  BY <3>1, <3>2, <3>3 DEF BackendInv
  <2>. QED  BY <2>1, <2>2 DEF IInv
<1>. QED
  BY <1>2, <1>3, <1>4, <1>5 DEF Next

(* ... and so it holds for good.                                           *)
LEMMA AlwaysIInv == Spec => []IInv
BY InitiallyIInv, NextKeepsIInv, PTL DEF Spec

-----------------------------------------------------------------------------
(* Main theorems                                                           *)

(* The variables of the procedures and the tables stay in their types: no  *)
(* stock and no sale is ever negative (main.pgsql:55, 109), whatever the   *)
(* calls ask for and wherever sessions are lost.                           *)
THEOREM SalesTypeCorrect == Spec => []TypeOK
BY AlwaysIInv, PTL DEF IInv

(* What the trigger counted is still there when                            *)
(* update_ingredients_quantity takes it (main.pgsql:185-212): the CHECK of *)
(* Ingredient never has to refuse.                                         *)
THEOREM CountedIsThere == Spec => []CheckNeverFires
<1>1. IInv => CheckNeverFires
  <2>. SUFFICES ASSUME IInv, NEW b \in Backends, at[b] = "take", AtRow(b)
                PROVE  Takes(b) <= Available(b)
    BY DEF CheckNeverFires
  <2>1. /\ row[b] \in DOMAIN Recipe[Pid(b)] /\ Ingredient(b) \in Ingredients
        /\ Quantity(b) \in Int /\ row[b] \in Nat
        /\ Need[Pid(b)] \in [Ingredients -> Nat]
    BY CallFacts DEF IInv, TypeOK
  <2>2. PICK r \in Nat, a \in Int :
          r = NeedOf(b) /\ a = Available(b) /\ a >= 0
    BY <2>1 DEF NeedOf, Available, IInv, TypeOK, BackendInv, TakenIsThere
  <2>3. CASE Quantity(b) <= 0
    <3>1. 0 \in Int /\ 0 * r <= a
      BY <2>2
    <3>2. Quantity(b) * r <= a
      BY ONLY <2>1, <2>3, <3>1, LessFits
    <3>. QED  BY <2>2, <3>2 DEF Takes
  <2>4. CASE ~(Quantity(b) <= 0)
    <3>1. Reserved(b, row[b], Quantity(b))
      BY <2>1, <2>4 DEF IInv, BackendInv, TakeIsSound
    <3>. QED  BY <3>1 DEF Reserved, Takes, NeedOf, Available, Ingredient
  <2>. QED  BY <2>3, <2>4
<1>. QED
  BY <1>1, AlwaysIInv, PTL

(* A row that upsert_sale is about to insert has not been inserted by      *)
(* another call since it looked for it (main.pgsql:112-121): the lock on   *)
(* the first ingredient of the product keeps such calls apart.             *)
THEOREM RowsAreNew == Spec => []InsertsNewRows
<1>1. IInv => InsertsNewRows
  BY DEF IInv, BackendInv, InsertsNewRow, InsertsNewRows
<1>. QED
  BY <1>1, AlwaysIInv, PTL

-----------------------------------------------------------------------------
(* What a transaction has taken, exactly                                   *)

(* What one run of update_ingredients_quantity takes of an ingredient.     *)
Unit(b, i) == Quantity(b) * Need[Pid(b)][i]

(* What the trigger of the INSERT has taken when that of the UPDATE runs.  *)
Before(b, i) == IF op[b] = "UPDATE" THEN Unit(b, i) ELSE 0

(* The cursor has passed the row of i.                                     *)
Took(b, i) == \E n \in DOMAIN Recipe[Pid(b)] : n < row[b] /\ Recipe[Pid(b)][n] = i

Charged(b, i) ==
  /\ at[b] = "idle" => taken[b][i] = 0
  /\ at[b] \in {"count", "decide"} => taken[b][i] = Before(b, i)
  /\ at[b] = "take" =>
       taken[b][i] = IF Took(b, i) THEN Before(b, i) + Unit(b, i) ELSE Before(b, i)
  /\ at[b] = "write" => taken[b][i] = Before(b, i) + Unit(b, i)

(* The second trigger runs only for a row that is there.                   *)
UpdatesOldRow(b) == at[b] # "idle" /\ op[b] = "UPDATE" => Key(b) \in DOMAIN sale

(* In a first purchase, the number counted is what one of the ingredients  *)
(* that b has locked allows; there is none only if there is no ingredient. *)
LeastIsAttained(b) ==
  /\ at[b] \in {"count", "decide"} /\ least[b] # Null /\ op[b] = "INSERT" =>
       \E n \in DOMAIN Recipe[Pid(b)] :
         LET i == Recipe[Pid(b)][n] IN
         lockedBy[i] = b /\ Need[Pid(b)][i] > 0 /\ least[b] = stock[i] \div Need[Pid(b)][i]
  /\ at[b] = "decide" /\ least[b] = Null => Recipe[Pid(b)] = << >>

LedgerInv(b) == (\A i \in Ingredients : Charged(b, i)) /\ UpdatesOldRow(b) /\ LeastIsAttained(b)

AllLedgerInv == \A b \in Backends : LedgerInv(b)

-----------------------------------------------------------------------------
(* What the quantities of a running call are.                              *)
LEMMA UnitFacts ==
  ASSUME TypeOK, NEW b \in Backends, NEW i \in Ingredients
  PROVE  /\ taken[b][i] \in Int /\ stock[i] \in Nat
         /\ at[b] # "idle" => Unit(b, i) \in Int /\ Before(b, i) \in Int
<1>1. taken[b][i] \in Int /\ stock[i] \in Nat
  BY DEF TypeOK
<1>2. ASSUME at[b] # "idle" PROVE Unit(b, i) \in Int
  <2>1. Quantity(b) \in Int /\ Need[Pid(b)][i] \in Int
    BY <1>2, CallFacts
  <2>. QED  BY <2>1 DEF Unit
<1>. QED
  BY <1>1, <1>2 DEF Before

(* What a step of b leaves to the ledger's part of another backend.        *)
LEMMA OthersStayCharged ==
  ASSUME TypeOK, NEW b \in Backends, Frame(b), DOMAIN sale \subseteq DOMAIN sale',
         NEW c \in Backends \ {b}, LedgerInv(c)
  PROVE  LedgerInv(c)'
<1>1. /\ at'[c] = at[c] /\ call'[c] = call[c] /\ op'[c] = op[c]
      /\ row'[c] = row[c] /\ least'[c] = least[c] /\ taken'[c] = taken[c]
      /\ \A i \in Ingredients : lockedBy[i] = c =>
           lockedBy'[i] = c /\ stock'[i] = stock[i]
  BY DEF Frame
<1>2. Pid(c)' = Pid(c) /\ Quantity(c)' = Quantity(c) /\ Key(c)' = Key(c)
  BY <1>1 DEF Pid, Quantity, Key
<1>3. \A i \in Ingredients : Charged(c, i)'
  BY <1>1, <1>2 DEF LedgerInv, Charged, Before, Unit, Took
<1>4. UpdatesOldRow(c)'
  BY <1>1, <1>2 DEF LedgerInv, UpdatesOldRow
<1>5. LeastIsAttained(c)'
  <2>1. at[c] # "idle" => \A n \in DOMAIN Recipe[Pid(c)] : Recipe[Pid(c)][n] \in Ingredients
    BY CallFacts
  <2>. QED  BY <1>1, <1>2, <2>1 DEF LedgerInv, LeastIsAttained
<1>. QED
  BY <1>3, <1>4, <1>5 DEF LedgerInv

-----------------------------------------------------------------------------
(* Each step of b keeps its own part.                                      *)

(* What each step leaves taken from the stock for its call: nothing once   *)
(* the call has ended ...                                                  *)
LEMMA EndingUncharges ==
  ASSUME TypeOK, NEW b \in Backends, NEW result, Ends(b, result)
  PROVE  LedgerInv(b)'
<1>1. at'[b] = "idle" /\ \A i \in Ingredients : taken'[b][i] = 0
  BY DEF Ends, Goes, TypeOK
<1>. QED
  BY <1>1 DEF LedgerInv, Charged, UpdatesOldRow, LeastIsAttained

(* ... nothing when it starts ...                                          *)
LEMMA StartingIsCharged ==
  ASSUME IInv, NEW b \in Backends, LedgerInv(b), NEW c \in Calls, UpsertSale(b, c)
  PROVE  LedgerInv(b)'
<1>1. at[b] = "idle" /\ at'[b] = "count" /\ taken' = taken /\ op' = op /\ least' = least
  BY DEF UpsertSale, Scans, Goes, TypeOK, IInv
<1>2. op[b] = "INSERT" /\ least[b] = Null
  BY <1>1 DEF IInv, BackendInv, IdleIsReset
<1>. QED
  BY <1>1, <1>2 DEF LedgerInv, Charged, Before, UpdatesOldRow, LeastIsAttained

(* The steps of the count: what is taken stays, and so does the call.      *)
LEMMA CountingIsCharged ==
  ASSUME IInv, NEW b \in Backends, LedgerInv(b), CountRow(b)
  PROVE  LedgerInv(b)'
<1>. USE SalesAssumption DEF IInv
<1>. DEFINE i == Ingredient(b)
            usages == Available(b) \div NeedOf(b)
<1>1. /\ at[b] = "count" /\ i \in Ingredients /\ row[b] \in DOMAIN Recipe[Pid(b)]
      /\ i = Recipe[Pid(b)][row[b]] /\ NeedOf(b) = Need[Pid(b)][i]
      /\ NeedOf(b) \in Nat /\ NeedOf(b) > 0
  BY CallFacts DEF CountRow, NeedOf, Ingredient, TypeOK
<1>2. /\ stock' = stock /\ sale' = sale /\ taken' = taken /\ call' = call /\ op' = op
      /\ lockedBy' = [lockedBy EXCEPT ![i] = b]
  BY DEF CountRow, Locks, tables, transaction
<1>3. /\ at'[b] \in {"count", "decide"}
      /\ \/ least'[b] = least[b] /\ least[b] # Null
         \/ least'[b] = usages /\ usages \in Nat
  <2>1. least \in [Backends -> Nat \cup {Null}] /\ at \in [Backends -> Places]
    BY DEF TypeOK
  <2>2. /\ Available(b) = stock[i] - taken[b][i] /\ Available(b) \in Nat
    BY <1>1 DEF Available, BackendInv, TakenIsThere, TypeOK
  <2>3. usages \in Nat
    BY <1>1, <2>2, QuotientIsNat
  <2>4. CASE usages <= 0
    <3>1. least' = [least EXCEPT ![b] = 0] /\ at' = [at EXCEPT ![b] = "decide"]
      BY <2>4 DEF CountRow, Goes
    <3>2. usages = 0
      BY ONLY <2>3, <2>4
    <3>. QED  BY <2>1, <2>3, <3>1, <3>2
  <2>5. CASE ~(usages <= 0)
    <3>1. /\ least' = [least EXCEPT ![b] =
                        IF least[b] = Null \/ least[b] > usages THEN usages ELSE least[b]]
          /\ at' = at
      BY <2>5 DEF CountRow
    <3>. QED  BY <1>1, <2>1, <2>3, <3>1
  <2>. QED  BY <2>4, <2>5
<1>. HIDE DEF i, usages
<1>4. Pid(b)' = Pid(b) /\ Quantity(b)' = Quantity(b) /\ Key(b)' = Key(b)
  BY <1>2 DEF Pid, Quantity, Key
<1>5. \A j \in Ingredients : Charged(b, j)'
  BY <1>1, <1>2, <1>3, <1>4 DEF LedgerInv, Charged, Before, Unit
<1>6. UpdatesOldRow(b)'
  BY <1>1, <1>2, <1>4 DEF LedgerInv, UpdatesOldRow
<1>7. LeastIsAttained(b)'
  <2>1. lockedBy'[i] = b /\ \A j \in Ingredients : lockedBy[j] = b => lockedBy'[j] = b
    BY <1>1, <1>2 DEF TypeOK
  <2>2. \A n \in DOMAIN Recipe[Pid(b)] : Recipe[Pid(b)][n] \in Ingredients
    BY <1>1, CallFacts
  <2>3. CASE least'[b] = least[b] /\ least[b] # Null
    BY <1>1, <1>2, <1>3, <1>4, <2>1, <2>2, <2>3 DEF LedgerInv, LeastIsAttained
  <2>4. CASE least'[b] = usages /\ usages \in Nat
    <3>1. op[b] = "INSERT" => usages = stock[i] \div Need[Pid(b)][i]
      <4>. SUFFICES ASSUME op[b] = "INSERT" PROVE usages = stock[i] \div Need[Pid(b)][i]
        OBVIOUS
      <4>1. taken[b][i] = 0
        BY <1>1 DEF LedgerInv, Charged, Before
      <4>2. Available(b) = stock[i]
        BY <1>1, <4>1 DEF Available, i, TypeOK
      <4>. QED  BY <1>1, <4>2 DEF usages
    <3>2. least'[b] # Null
      BY <2>4
    <3>3. op[b] = "INSERT" =>
            /\ lockedBy'[i] = b /\ Need[Pid(b)][i] > 0
            /\ least'[b] = stock[i] \div Need[Pid(b)][i]
      BY <1>1, <2>1, <2>4, <3>1
    <3>. QED  BY <1>1, <1>2, <1>4, <3>2, <3>3 DEF LeastIsAttained
  <2>. QED  BY <1>3, <2>3, <2>4
<1>. QED
  BY <1>5, <1>6, <1>7 DEF LedgerInv

(* ... no more than before while it counts ...                             *)
LEMMA CountEndingIsCharged ==
  ASSUME IInv, NEW b \in Backends, LedgerInv(b), CountEnds(b)
  PROVE  LedgerInv(b)'
<1>. USE DEF IInv
<1>1. /\ at[b] = "count" /\ at'[b] = "decide"
      /\ UNCHANGED <<stock, sale, lockedBy, call, op, taken, row, least>>
  BY DEF CountEnds, Goes, tables, transaction, TypeOK
<1>2. Pid(b)' = Pid(b) /\ Quantity(b)' = Quantity(b) /\ Key(b)' = Key(b)
  BY <1>1 DEF Pid, Quantity, Key
<1>3. least[b] = Null => Recipe[Pid(b)] = << >>
  <2>. SUFFICES ASSUME Recipe[Pid(b)] # << >> PROVE least[b] # Null
    OBVIOUS
  <2>1. Recipe[Pid(b)] \in Seq(Ingredients) /\ Len(Recipe[Pid(b)]) > 0
    BY <1>1, CallFacts
  <2>2. 1 \in DOMAIN Recipe[Pid(b)] /\ 1 < row[b]
    BY <1>1, <2>1 DEF CountEnds, AtRow, TypeOK
  <2>3. least[b] \in Nat
    BY <1>1, <2>2 DEF BackendInv, CountIsSound
  <2>. QED  BY <2>3, SalesAssumption
<1>. QED
  BY <1>1, <1>2, <1>3 DEF LedgerInv, Charged, Before, Unit, UpdatesOldRow, LeastIsAttained

(* ... nor when the trigger has decided and not taken yet ...              *)
LEMMA SellingIsCharged ==
  ASSUME IInv, NEW b \in Backends, LedgerInv(b), Sells(b)
  PROVE  LedgerInv(b)'
<1>1. /\ at[b] = "decide" /\ at'[b] = "take" /\ row'[b] = 1
      /\ UNCHANGED <<stock, sale, lockedBy, call, op, taken, least>>
  BY DEF Sells, Scans, Goes, tables, transaction, TypeOK, IInv
<1>2. Pid(b)' = Pid(b) /\ Quantity(b)' = Quantity(b) /\ Key(b)' = Key(b)
  BY <1>1 DEF Pid, Quantity, Key
<1>3. \A n \in DOMAIN Recipe[Pid(b)] : ~(n < 1)
  BY <1>1, CallFacts DEF IInv
<1>. QED
  BY <1>1, <1>2, <1>3
     DEF LedgerInv, Charged, Before, Unit, Took, UpdatesOldRow, LeastIsAttained

(* An ingredient is in a recipe once: its row has not been passed before.  *)
LEMMA TakingIsCharged ==
  ASSUME IInv, NEW b \in Backends, LedgerInv(b), TakeIngredient(b)
  PROVE  LedgerInv(b)'
<1>. USE SalesAssumption DEF IInv
<1>1. CASE Available(b) < Takes(b)
  BY <1>1, EndingUncharges DEF TakeIngredient, RollBack
<1>2. CASE ~(Available(b) < Takes(b))
  <2>. DEFINE i == Ingredient(b)
  <2>1. /\ at[b] = "take" /\ i \in Ingredients /\ row[b] \in DOMAIN Recipe[Pid(b)]
        /\ i = Recipe[Pid(b)][row[b]] /\ row[b] \in Nat /\ Pid(b) \in Products
    BY CallFacts DEF TakeIngredient, Ingredient, TypeOK
  <2>2. /\ UNCHANGED <<stock, sale, at, call, op, least>>
        /\ taken' = [taken EXCEPT ![b][i] = taken[b][i] + Takes(b)]
        /\ row' = [row EXCEPT ![b] = row[b] + 1]
    BY <1>2 DEF TakeIngredient, tables
  <2>3. Takes(b) = Unit(b, i)
    BY <2>1 DEF Takes, NeedOf, Unit
  <2>. HIDE DEF i
  <2>4. row'[b] = row[b] + 1
    BY <2>2 DEF TypeOK
  <2>5. /\ taken'[b][i] = taken[b][i] + Unit(b, i)
        /\ \A j \in Ingredients \ {i} : taken'[b][j] = taken[b][j]
    <3>. DEFINE t == taken[b][i] + Takes(b)
                f == [taken[b] EXCEPT ![i] = t]
    <3>1. taken \in [Backends -> [Ingredients -> Int]]
      BY DEF TypeOK
    <3>2. f[i] = t /\ \A j \in Ingredients \ {i} : f[j] = taken[b][j]
      <4>1. taken[b] \in [Ingredients -> Int]
        BY <3>1
      <4>. HIDE DEF t
      <4>. QED  BY SMTT(30), <2>1, <4>1
    <3>3. taken' = [taken EXCEPT ![b] = f]
      BY <2>2, Zenon
    <3>4. taken'[b] = f
      BY <3>1, <3>3, Zenon
    <3>5. t = taken[b][i] + Unit(b, i)
      BY <2>3
    <3>. HIDE DEF f, t
    <3>. QED  BY <3>2, <3>4, <3>5
  <2>6. Pid(b)' = Pid(b) /\ Quantity(b)' = Quantity(b) /\ Key(b)' = Key(b)
    BY <2>2 DEF Pid, Quantity, Key
  <2>7. ~Took(b, i)
    BY <2>1, CallFacts DEF Took
  <2>8. ASSUME NEW j \in Ingredients PROVE Took(b, j)' <=> Took(b, j) \/ j = i
    <3>1. \A n \in DOMAIN Recipe[Pid(b)] : n < row[b] + 1 <=> n < row[b] \/ n = row[b]
      <4>. SUFFICES ASSUME NEW n \in DOMAIN Recipe[Pid(b)]
                    PROVE  n < row[b] + 1 <=> n < row[b] \/ n = row[b]
        OBVIOUS
      <4>1. n \in Int
        BY <2>1, CallFacts
      <4>2. row[b] \in Int
        BY DEF TypeOK
      <4>. QED  BY ONLY <4>1, <4>2
    <3>. QED  BY <2>1, <2>4, <2>6, <3>1 DEF Took
  <2>9. ASSUME NEW j \in Ingredients PROVE Charged(b, j)'
    <3>1. Unit(b, j)' = Unit(b, j) /\ Before(b, j)' = Before(b, j) /\ at'[b] = "take"
      BY <2>1, <2>2, <2>6 DEF Unit, Before
    <3>2. taken'[b][j] = IF Took(b, j) \/ j = i THEN Before(b, j) + Unit(b, j) ELSE Before(b, j)
      <4>1. CASE j = i
        BY <2>1, <2>5, <2>7, <4>1 DEF LedgerInv, Charged
      <4>2. CASE j # i
        BY <2>1, <2>5, <4>2 DEF LedgerInv, Charged
      <4>. QED  BY <4>1, <4>2
    <3>. QED  BY <2>8, <3>1, <3>2 DEF Charged
  <2>10. UpdatesOldRow(b)' /\ LeastIsAttained(b)'
    BY <2>1, <2>2, <2>6 DEF LedgerInv, UpdatesOldRow, LeastIsAttained
  <2>. QED  BY <2>9, <2>10 DEF LedgerInv
<1>. QED
  BY <1>1, <1>2

(* When the cursor is through, every row of the recipe has been passed,    *)
(* and of what has no row nothing is needed.                               *)
LEMMA PassedHasTaken ==
  ASSUME IInv, NEW b \in Backends, LedgerInv(b), Passed(b), NEW i \in Ingredients
  PROVE  taken[b][i] = Before(b, i) + Unit(b, i)
<1>. USE SalesAssumption DEF IInv
<1>1. at[b] = "take" /\ ~(row[b] <= Len(Recipe[Pid(b)])) /\ row[b] \in Nat
  BY DEF Passed, AtRow, TypeOK
<1>2. Pid(b) \in Products /\ Quantity(b) \in Int
  BY <1>1, CallFacts
<1>3. \A n \in DOMAIN Recipe[Pid(b)] : n < row[b]
  BY <1>1, CallFacts
<1>4. CASE Took(b, i)
  BY <1>1, <1>4 DEF LedgerInv, Charged
<1>5. CASE ~Took(b, i)
  <2>1. Need[Pid(b)][i] = 0
    BY <1>2, <1>3, <1>5 DEF Took
  <2>2. Unit(b, i) = 0 /\ Before(b, i) = 0
    BY <1>2, <2>1 DEF Unit, Before
  <2>. QED  BY <1>1, <1>5, <2>2 DEF LedgerInv, Charged
<1>. QED
  BY <1>4, <1>5

(* ... the share of the first trigger when that of the UPDATE starts ...   *)
LEMMA ConflictIsCharged ==
  ASSUME IInv, NEW b \in Backends, LedgerInv(b), Conflict(b)
  PROVE  LedgerInv(b)'
<1>. USE SalesAssumption DEF IInv
<1>1. /\ Passed(b) /\ at[b] = "take" /\ op[b] = "INSERT" /\ op'[b] = "UPDATE"
      /\ Quantity(b) >= 0 /\ Key(b) \in DOMAIN sale
      /\ UNCHANGED <<stock, sale, call, taken>>
      /\ \/ at'[b] = "write" /\ Quantity(b) <= 0
         \/ at'[b] = "count" /\ least'[b] = Null
  BY DEF Conflict, Passed, Scans, Goes, tables, TypeOK
<1>2. Pid(b)' = Pid(b) /\ Quantity(b)' = Quantity(b) /\ Key(b)' = Key(b)
  BY <1>1 DEF Pid, Quantity, Key
<1>3. ASSUME NEW i \in Ingredients PROVE Charged(b, i)'
  <2>1. /\ Before(b, i) = 0 /\ Unit(b, i) \in Int
        /\ taken'[b][i] = Unit(b, i) /\ Before(b, i)' = Unit(b, i) /\ Unit(b, i)' = Unit(b, i)
    <3>1. Before(b, i) = 0 /\ Before(b, i)' = Unit(b, i) /\ Unit(b, i)' = Unit(b, i)
      BY <1>1, <1>2 DEF Before, Unit
    <3>2. Unit(b, i) \in Int
      BY <1>1, UnitFacts
    <3>3. taken'[b][i] = Before(b, i) + Unit(b, i)
      BY <1>1, PassedHasTaken
    <3>. QED  BY <3>1, <3>2, <3>3
  <2>2. Quantity(b) <= 0 => Unit(b, i) = 0
    <3>1. Quantity(b) \in Int /\ Need[Pid(b)][i] \in Int
      BY <1>1, CallFacts
    <3>2. Quantity(b) <= 0 => Quantity(b) = 0
      BY <1>1, <3>1
    <3>. QED  BY <3>1, <3>2 DEF Unit
  <2>. QED  BY <1>1, <2>1, <2>2 DEF Charged
<1>4. UpdatesOldRow(b)'
  BY <1>1, <1>2 DEF UpdatesOldRow
<1>5. LeastIsAttained(b)'
  BY <1>1, <1>2 DEF LeastIsAttained
<1>. QED
  BY <1>3, <1>4, <1>5 DEF LedgerInv

(* ... and the last share when the row is to be written.                   *)
LEMMA NoConflictIsCharged ==
  ASSUME IInv, NEW b \in Backends, LedgerInv(b), NoConflict(b)
  PROVE  LedgerInv(b)'
<1>. USE DEF IInv
<1>1. /\ Passed(b) /\ at[b] = "take" /\ at'[b] = "write"
      /\ UNCHANGED <<stock, sale, call, op, taken, least>>
  BY DEF NoConflict, Passed, Goes, tables, transaction, TypeOK
<1>2. Pid(b)' = Pid(b) /\ Quantity(b)' = Quantity(b) /\ Key(b)' = Key(b)
  BY <1>1 DEF Pid, Quantity, Key
<1>3. \A i \in Ingredients : Charged(b, i)'
  BY <1>1, <1>2, PassedHasTaken DEF Charged, Before, Unit
<1>. QED
  BY <1>1, <1>2, <1>3 DEF LedgerInv, UpdatesOldRow, LeastIsAttained

-----------------------------------------------------------------------------
(* The ledger's part is inductive together with IInv.                      *)

(* A step keeps both parts of one backend, and the rows of Sale.           *)
LEMMA StepKeepsLedger ==
  ASSUME IInv, AllLedgerInv, NEW b \in Backends,
         Keeps(b), LedgerInv(b)', DOMAIN sale \subseteq DOMAIN sale'
  PROVE  AllLedgerInv'
BY OthersStayCharged DEF Keeps, IInv, AllLedgerInv

(* A roll back leaves the ledger of every other call.                      *)
LEMMA RollingBackKeepsLedger ==
  ASSUME IInv, AllLedgerInv, NEW b \in Backends, RollBack(b)
  PROVE  AllLedgerInv'
<1>1. LedgerInv(b)' /\ sale' = sale
  BY EndingUncharges DEF RollBack, tables, IInv
<1>. QED
  BY <1>1, RollingBackKeeps, StepKeepsLedger

(* No call is charged at first ...                                         *)
LEMMA InitiallyLedgerInv == Init => AllLedgerInv
<1>. SUFFICES ASSUME Init, NEW b \in Backends PROVE LedgerInv(b)
  BY DEF AllLedgerInv
<1>. QED
  BY DEF Init, LedgerInv, Charged, UpdatesOldRow, LeastIsAttained

(* ... each step charges its own call only ...                             *)
LEMMA NextKeepsLedgerInv == IInv /\ AllLedgerInv /\ [Next]_vars => AllLedgerInv'
<1>. SUFFICES ASSUME IInv, AllLedgerInv, [Next]_vars PROVE AllLedgerInv'
  OBVIOUS
<1>1. \A b \in Backends : LedgerInv(b)
  BY DEF AllLedgerInv
<1>2. ASSUME NEW b \in Backends, NEW c \in Calls, UpsertSale(b, c) PROVE AllLedgerInv'
  <2>1. sale' = sale
    BY <1>2 DEF UpsertSale, tables
  <2>. QED  BY <1>1, <1>2, <2>1, StartingKeeps, StartingIsCharged, StepKeepsLedger
<1>3. ASSUME NEW b \in Backends, Step(b) PROVE AllLedgerInv'
  <2>1. CASE CountRow(b)
    BY <1>1, <2>1, CountingKeeps, CountingIsCharged, StepKeepsLedger DEF CountRow, tables
  <2>2. CASE CountEnds(b)
    BY <1>1, <2>2, CountEndingKeeps, CountEndingIsCharged, StepKeepsLedger DEF CountEnds, tables
  <2>3. CASE Sells(b)
    BY <1>1, <2>3, SellingKeeps, SellingIsCharged, StepKeepsLedger DEF Sells, tables
  <2>4. CASE TakeIngredient(b)
    <3>1. sale' = sale
      BY <2>4 DEF TakeIngredient, RollBack, tables
    <3>. QED  BY <1>1, <2>4, <3>1, TakingKeeps, TakingIsCharged, StepKeepsLedger
  <2>5. CASE Conflict(b)
    BY <1>1, <2>5, ConflictKeeps, ConflictIsCharged, StepKeepsLedger DEF Conflict, tables
  <2>6. CASE NoConflict(b)
    BY <1>1, <2>6, NoConflictKeeps, NoConflictIsCharged, StepKeepsLedger DEF NoConflict, tables
  <2>7. CASE Commit(b)
    <3>1. LedgerInv(b)' /\ DOMAIN sale \subseteq DOMAIN sale'
      BY <2>7, EndingUncharges DEF Commit, IInv
    <3>. QED  BY <2>7, <3>1, CommittingKeeps, StepKeepsLedger
  <2>8. CASE \/ DivisionByZero(b) \/ CannotSell(b) \/ CursorInUse(b) \/ SaleCheckFails(b)
             \/ UnknownUser(b) \/ Deadlock(b)
    BY <2>8, RollingBackKeepsLedger
       DEF DivisionByZero, CannotSell, CursorInUse, SaleCheckFails, UnknownUser, Deadlock
  <2>. QED
    BY <1>3, <2>1, <2>2, <2>3, <2>4, <2>5, <2>6, <2>7, <2>8 DEF Step
<1>4. ASSUME NEW b \in Backends, Lost(b) PROVE AllLedgerInv'
  BY <1>4, RollingBackKeepsLedger DEF Lost
<1>5. CASE UNCHANGED vars
  <2>1. ASSUME NEW b \in Backends PROVE LedgerInv(b)'
    <3>1. ASSUME NEW i \in Ingredients PROVE Charged(b, i)'
      BY <1>5 DEF vars, AllLedgerInv, LedgerInv, Charged, Before, Unit, Took, Pid, Quantity
    <3>2. UpdatesOldRow(b)'
      BY <1>5 DEF vars, AllLedgerInv, LedgerInv, UpdatesOldRow, Key, Pid
    <3>3. LeastIsAttained(b)'
      BY <1>5 DEF vars, AllLedgerInv, LedgerInv, LeastIsAttained, Pid, Quantity
    <3>. QED  BY <3>1, <3>2, <3>3 DEF LedgerInv
  <2>. QED  BY <2>1 DEF AllLedgerInv
<1>. QED
  BY <1>2, <1>3, <1>4, <1>5 DEF Next

(* ... and so every call is charged for what it has taken, for good.       *)
LEMMA AlwaysLedgerInv == Spec => [](IInv /\ AllLedgerInv)
<1>1. Init => IInv /\ AllLedgerInv
  BY InitiallyIInv, InitiallyLedgerInv
<1>2. IInv /\ AllLedgerInv /\ [Next]_vars => (IInv /\ AllLedgerInv)'
  BY NextKeepsIInv, NextKeepsLedgerInv
<1>. QED
  BY <1>1, <1>2, PTL DEF Spec

-----------------------------------------------------------------------------
(* The refinement                                                          *)

(* What a transaction that commits has taken is the ledger's charge.       *)
LEMMA CommitSells ==
  ASSUME IInv, AllLedgerInv, NEW b \in Backends, Commit(b)
  PROVE  Ledger!Sell(call[b].user, call[b].pid, call[b].quantity)
<1>. USE SalesAssumption DEF IInv
<1>. DEFINE q == Quantity(b)
            charge == Ledger!Charge(call[b].user, call[b].pid, q)
<1>1. at[b] = "write" /\ LedgerInv(b) /\ BackendInv(b)
  BY DEF Commit, AllLedgerInv
<1>2. q \in Int /\ q >= 0 /\ Need[Pid(b)] \in [Ingredients -> Nat]
  BY <1>1, CallFacts DEF BackendInv, OnlyGoodRowsAreWritten
<1>3. charge = IF op[b] = "UPDATE" THEN 2 * q ELSE q
  <2>1. op[b] = "UPDATE" <=> Key(b) \in DOMAIN sale
    BY <1>1 DEF LedgerInv, UpdatesOldRow, BackendInv, InsertsNewRow, TypeOK
  <2>. QED  BY <2>1 DEF Ledger!Charge, Key
<1>4. ASSUME NEW i \in Ingredients PROVE taken[b][i] = charge * Need[Pid(b)][i]
  <2>1. taken[b][i] = Before(b, i) + Unit(b, i)
    BY <1>1 DEF LedgerInv, Charged
  <2>2. PICK n \in Nat : n = Need[Pid(b)][i]
    BY <1>2
  <2>3. Unit(b, i) = q * n
    BY <2>2 DEF Unit
  <2>4. q * n + q * n = (2 * q) * n /\ q * n + 0 = q * n /\ 0 + q * n = q * n
    BY <1>2, Z3
  <2>. HIDE DEF q, charge
  <2>5. CASE op[b] = "UPDATE"
    BY <1>3, <2>1, <2>2, <2>3, <2>4, <2>5 DEF Before
  <2>6. CASE op[b] # "UPDATE"
    BY <1>3, <2>1, <2>2, <2>3, <2>4, <2>6 DEF Before
  <2>. QED  BY <2>5, <2>6
<1>5. Ledger!Allows(call[b].user, call[b].pid, q)
  <2>1. \A i \in Ingredients : charge * Need[call[b].pid][i] <= stock[i]
    BY <1>1, <1>4 DEF BackendInv, TakenIsThere, Pid
  <2>. QED  BY <1>2, <2>1 DEF Ledger!Allows
<1>6. stock' = [i \in Ingredients |-> stock[i] - charge * Need[call[b].pid][i]]
  BY <1>4 DEF Commit, Pid
<1>7. sale' = [s \in DOMAIN sale \cup {<<call[b].user, call[b].pid>>} |->
                (IF s \in DOMAIN sale THEN sale[s] ELSE 0)
                  + (IF s = <<call[b].user, call[b].pid>> THEN q ELSE 0)]
  BY DEF Commit, Key
<1>. QED
  BY <1>5, <1>6, <1>7 DEF Ledger!Sell, Quantity

(* Everything but a commit is invisible in the tables.                     *)
LEMMA StepsAreTheLedgers ==
  ASSUME IInv, AllLedgerInv, [Next]_vars
  PROVE  [Ledger!Next]_<<stock, sale>>
<1>1. ASSUME NEW b \in Backends, NEW c \in Calls, UpsertSale(b, c)
      PROVE  UNCHANGED <<stock, sale>>
  BY <1>1 DEF UpsertSale, tables
<1>2. ASSUME NEW b \in Backends, Commit(b) PROVE Ledger!Next
  <2>1. call[b] \in Calls
    BY <1>2, CallFacts DEF Commit, IInv
  <2>. QED  BY <1>2, <2>1, CommitSells DEF Ledger!Next
<1>3. ASSUME NEW b \in Backends, RollBack(b) PROVE UNCHANGED <<stock, sale>>
  BY <1>3 DEF RollBack, tables
<1>4. ASSUME NEW b \in Backends, Step(b), ~Commit(b) PROVE UNCHANGED <<stock, sale>>
  <2>1. CASE CountRow(b) \/ CountEnds(b) \/ Sells(b) \/ Conflict(b) \/ NoConflict(b)
    BY <2>1 DEF CountRow, CountEnds, Sells, Conflict, NoConflict, tables
  <2>2. CASE TakeIngredient(b)
    BY <1>3, <2>2 DEF TakeIngredient, tables
  <2>3. CASE \/ DivisionByZero(b) \/ CannotSell(b) \/ CursorInUse(b) \/ SaleCheckFails(b)
             \/ UnknownUser(b) \/ Deadlock(b)
    BY <1>3, <2>3 DEF DivisionByZero, CannotSell, CursorInUse, SaleCheckFails, UnknownUser, Deadlock
  <2>. QED  BY <1>4, <2>1, <2>2, <2>3 DEF Step
<1>5. CASE UNCHANGED vars
  BY <1>5 DEF vars
<1>. QED
  BY <1>1, <1>2, <1>3, <1>4, <1>5 DEF Next, Lost

(* Calls of upsert_sale that run at once, lock by lock and row by row      *)
(* (main.pgsql:112-214), change the tables as if each were one step that   *)
(* sells what the stock of that moment allows, or nothing.                 *)
THEOREM CallsActAsSteps == Spec => ImplementsLedger
<1>1. Init => Ledger!Init
  BY DEF Init, Ledger!Init
<1>2. IInv /\ AllLedgerInv /\ [Next]_vars => [Ledger!Next]_<<stock, sale>>
  BY StepsAreTheLedgers
<1>. QED
  BY <1>1, <1>2, AlwaysLedgerInv, PTL DEF Spec, ImplementsLedger, Ledger!Spec

-----------------------------------------------------------------------------
(* Refusals                                                                *)

(* A number of units that a quotient does not allow needs more than there  *)
(* is.                                                                     *)
LEMMA QuotientIsTight ==
  ASSUME NEW a \in Nat, NEW r \in Nat, r > 0, NEW q \in Int, q > a \div r
  PROVE  q * r > a
<1>. DEFINE k == a \div r
<1>1. k \in Int /\ a < (k + 1) * r
  BY Z3
<1>2. q >= k + 1
  BY <1>1
<1>3. (k + 1) * r <= q * r
  <2>. HIDE DEF k
  <2>. QED  BY <1>1, <1>2, LessFits
<1>4. (k + 1) * r \in Int /\ q * r \in Int
  BY <1>1, Z3
<1>. HIDE DEF k
<1>. QED
  BY <1>1, <1>3, <1>4

(* A first purchase is refused by the trigger (main.pgsql:185-199) only if *)
(* the stock of that moment does not allow it, or the product has no       *)
(* recipe.                                                                 *)
THEOREM RefusalsAreJustified == Spec => RefusalIsJustified
<1>1. ASSUME IInv, AllLedgerInv, NEW b \in Backends,
             CannotSell(b), op[b] = "INSERT", Recipe[Pid(b)] # << >>
      PROVE  \E i \in Ingredients : Quantity(b) * Need[Pid(b)][i] > stock[i]
  <2>. USE SalesAssumption DEF IInv
  <2>1. at[b] = "decide" /\ ~Enough(b) /\ LeastIsAttained(b)
    BY <1>1 DEF CannotSell, AllLedgerInv, LedgerInv
  <2>2. least[b] # Null
    BY <1>1, <2>1 DEF LeastIsAttained
  <2>3. PICK n \in DOMAIN Recipe[Pid(b)] :
          /\ Need[Pid(b)][Recipe[Pid(b)][n]] > 0
          /\ least[b] = stock[Recipe[Pid(b)][n]] \div Need[Pid(b)][Recipe[Pid(b)][n]]
    BY <1>1, <2>1, <2>2 DEF LeastIsAttained
  <2>4. Recipe[Pid(b)][n] \in Ingredients /\ Quantity(b) \in Int
        /\ Need[Pid(b)] \in [Ingredients -> Nat] /\ least[b] \in Nat
    <3>1. least[b] \in Nat
      BY <1>1, <2>2 DEF TypeOK
    <3>. QED  BY <1>1, <2>1, <3>1, CallFacts
  <2>5. PICK i \in Ingredients : i = Recipe[Pid(b)][n]
    BY <2>4
  <2>6. Quantity(b) > least[b]
    BY <2>1, <2>2, <2>4 DEF Enough
  <2>7. PICK a \in Nat, r \in Nat : a = stock[i] /\ r = Need[Pid(b)][i]
    <3>1. stock[i] \in Nat /\ Need[Pid(b)][i] \in Nat
      BY <1>1, <2>4 DEF TypeOK
    <3>. QED  BY <3>1
  <2>8. r > 0 /\ Quantity(b) > a \div r
    BY <2>3, <2>5, <2>6, <2>7
  <2>9. Quantity(b) * r > a
    BY <2>4, <2>8, QuotientIsTight
  <2>. QED  BY <2>7, <2>9
<1>2. IInv /\ AllLedgerInv /\ [Next]_vars =>
        [\A b \in Backends :
           CannotSell(b) /\ op[b] = "INSERT" /\ Recipe[Pid(b)] # << >> =>
             \E i \in Ingredients : Quantity(b) * Need[Pid(b)][i] > stock[i]]_vars
  BY <1>1
<1>. QED
  BY <1>2, AlwaysLedgerInv, PTL DEF Spec, RefusalIsJustified

-----------------------------------------------------------------------------
(* Sums over finite sets                                                   *)

Any(S) == CHOOSE s \in S : TRUE

(* F[T] is the sum of f over T, for the subsets T of S.                    *)
Adds(F, f, S) ==
  F = [T \in SUBSET S |-> IF T = {} THEN 0 ELSE f[Any(T)] + F[T \ {Any(T)}]]

Sum(f, S) == (CHOOSE F : Adds(F, f, S))[S]

(* A nonempty set of numbers has a least one.                              *)
LEMMA LeastNumber ==
  ASSUME NEW T, T \subseteq Nat, T # {}
  PROVE  \E n \in T : \A m \in T : n <= m
<1>1. PICK n \in T : \A m \in T : <<m, n>> \notin OpToRel(<, Nat)
  BY NatLessThanWellFounded, WFMin
<1>2. \A m \in T : ~(m < n)
  BY <1>1 DEF OpToRel
<1>. QED  BY <1>2

(* Of finite sets, there is one of which no smaller one is among them.     *)
LEMMA SmallestSet ==
  ASSUME NEW Sets, Sets # {}, \A S \in Sets : IsFiniteSet(S)
  PROVE  \E S \in Sets : \A s \in S : \A T \in SUBSET (S \ {s}) : T \notin Sets
<1>. DEFINE sizes == {Cardinality(S) : S \in Sets}
<1>1. \A S \in Sets : Cardinality(S) \in Nat
  BY FS_CardinalityType
<1>2. PICK n \in sizes : \A m \in sizes : n <= m
  <2>1. sizes \subseteq Nat /\ sizes # {}
    BY <1>1
  <2>. HIDE DEF sizes
  <2>. QED  BY <2>1, LeastNumber
<1>3. PICK S \in Sets : Cardinality(S) = n
  BY <1>2
<1>4. ASSUME NEW s \in S, NEW T \in SUBSET (S \ {s}), T \in Sets PROVE FALSE
  <2>1. IsFiniteSet(S \ {s}) /\ Cardinality(S \ {s}) = Cardinality(S) - 1
    BY FS_RemoveElement
  <2>2. Cardinality(T) <= Cardinality(S \ {s})
    BY <2>1, FS_Subset
  <2>3. Cardinality(S) <= Cardinality(T)
    BY <1>2, <1>3, <1>4
  <2>. QED  BY <1>1, <1>4, <2>1, <2>2, <2>3
<1>. QED  BY <1>4

(* A nonempty set contains what is chosen from it.                         *)
LEMMA AnyIsElement ==
  ASSUME NEW S, S # {}
  PROVE  Any(S) \in S
BY DEF Any

(* What a sum is, one element at a time.                                   *)
LEMMA AddsOne ==
  ASSUME NEW f, NEW S, NEW F, Adds(F, f, S), NEW T \in SUBSET S
  PROVE  F[T] = IF T = {} THEN 0 ELSE f[Any(T)] + F[T \ {Any(T)}]
BY DEF Adds

(* A sum depends on nothing but what is added.                             *)
LEMMA AddsAgree ==
  ASSUME NEW f, NEW g, NEW S, NEW T, NEW F, NEW G, Adds(F, f, S), Adds(G, g, T),
         NEW U, U \subseteq S, U \subseteq T, IsFiniteSet(U), \A u \in U : f[u] = g[u]
  PROVE  F[U] = G[U]
<1>. DEFINE Bad == {V \in SUBSET U : F[V] # G[V]}
<1>1. ASSUME Bad # {} PROVE FALSE
  <2>1. PICK V \in Bad : \A v \in V : \A W \in SUBSET (V \ {v}) : W \notin Bad
    <3>1. \A V \in Bad : IsFiniteSet(V)
      BY FS_Subset
    <3>. HIDE DEF Bad
    <3>. QED  BY <1>1, <3>1, SmallestSet
  <2>2. V \in SUBSET S /\ V \in SUBSET T /\ V \subseteq U
    OBVIOUS
  <2>3. F[V] = IF V = {} THEN 0 ELSE f[Any(V)] + F[V \ {Any(V)}]
    BY <2>2 DEF Adds
  <2>4. G[V] = IF V = {} THEN 0 ELSE g[Any(V)] + G[V \ {Any(V)}]
    BY <2>2 DEF Adds
  <2>5. CASE V = {}
    BY <2>3, <2>4, <2>5
  <2>6. CASE V # {}
    <3>1. Any(V) \in V
      BY <2>6, AnyIsElement
    <3>2. F[V \ {Any(V)}] = G[V \ {Any(V)}]
      BY <2>1, <2>2, <3>1
    <3>3. f[Any(V)] = g[Any(V)]
      BY <2>2, <3>1
    <3>. QED  BY <2>3, <2>4, <2>6, <3>2, <3>3
  <2>. QED  BY <2>5, <2>6
<1>. QED  BY <1>1

(* Over a finite set there is such an F.                                   *)
LEMMA AddsExists ==
  ASSUME NEW f, NEW R, IsFiniteSet(R)
  PROVE  \E F : Adds(F, f, R)
<1>. DEFINE Bad == {S \in SUBSET R : ~\E F : Adds(F, f, S)}
<1>1. ASSUME Bad # {} PROVE FALSE
  <2>1. PICK S \in Bad : \A s \in S : \A T \in SUBSET (S \ {s}) : T \notin Bad
    <3>1. \A S \in Bad : IsFiniteSet(S)
      BY FS_Subset
    <3>. HIDE DEF Bad
    <3>. QED  BY <1>1, <3>1, SmallestSet
  <2>2. S \subseteq R /\ \A T \in SUBSET S : IsFiniteSet(T)
    BY FS_Subset
  <2>. DEFINE Part(T) == CHOOSE F : Adds(F, f, T)
              G == [T \in SUBSET S |-> IF T = {} THEN 0
                                       ELSE f[Any(T)] + Part(T \ {Any(T)})[T \ {Any(T)}]]
  <2>3. ASSUME NEW s \in S, NEW T \in SUBSET (S \ {s}) PROVE Adds(Part(T), f, T)
    <3>1. \E F : Adds(F, f, T)
      BY <2>1, <2>2
    <3>. QED  BY <3>1
  <2>4. ASSUME NEW s \in S, NEW T \in SUBSET (S \ {s}) PROVE G[T] = Part(T)[T]
    <3>1. Part(T)[T] = IF T = {} THEN 0 ELSE f[Any(T)] + Part(T)[T \ {Any(T)}]
      <4>1. Adds(Part(T), f, T) /\ T \in SUBSET T
        BY <2>3
      <4>. HIDE DEF Part
      <4>. QED  BY <4>1, AddsOne
    <3>2. ASSUME T # {} PROVE Part(T)[T \ {Any(T)}] = Part(T \ {Any(T)})[T \ {Any(T)}]
      <4>. DEFINE U == T \ {Any(T)}
      <4>1. Adds(Part(T), f, T) /\ Adds(Part(U), f, U) /\ U \subseteq T /\ IsFiniteSet(U)
        BY <2>2, <2>3
      <4>. HIDE DEF Part, U
      <4>2. Part(T)[U] = Part(U)[U]
        BY <4>1, AddsAgree
      <4>. QED  BY <4>2 DEF U
    <3>3. G[T] = IF T = {} THEN 0 ELSE f[Any(T)] + Part(T \ {Any(T)})[T \ {Any(T)}]
      OBVIOUS
    <3>. HIDE DEF Part, G
    <3>. QED  BY <3>1, <3>2, <3>3
  <2>5. G = [T \in SUBSET S |-> IF T = {} THEN 0 ELSE f[Any(T)] + G[T \ {Any(T)}]]
    <3>1. ASSUME NEW T \in SUBSET S, T # {}
          PROVE  G[T \ {Any(T)}] = Part(T \ {Any(T)})[T \ {Any(T)}]
      <4>1. Any(T) \in S /\ T \ {Any(T)} \in SUBSET (S \ {Any(T)})
        BY <3>1, AnyIsElement
      <4>. QED  BY <2>4, <4>1
    <3>. DEFINE H == [T \in SUBSET S |-> IF T = {} THEN 0 ELSE f[Any(T)] + G[T \ {Any(T)}]]
    <3>2. \A T \in SUBSET S : G[T] = H[T]
      <4>1. TAKE T \in SUBSET S
      <4>2. G[T] = IF T = {} THEN 0 ELSE f[Any(T)] + Part(T \ {Any(T)})[T \ {Any(T)}]
        OBVIOUS
      <4>3. H[T] = IF T = {} THEN 0 ELSE f[Any(T)] + G[T \ {Any(T)}]
        OBVIOUS
      <4>. HIDE DEF G, Part, H
      <4>. QED  BY <3>1, <4>2, <4>3
    <3>3. G = [T \in SUBSET S |-> G[T]] /\ H = [T \in SUBSET S |-> H[T]]
      OBVIOUS
    <3>. HIDE DEF G, H
    <3>4. G = H
      BY <3>2, <3>3
    <3>. QED  BY <3>4 DEF H
  <2>6. Adds(G, f, S)
    <3>. HIDE DEF G
    <3>. QED  BY <2>5 DEF Adds
  <2>. QED  BY <2>1, <2>6
<1>. QED  BY <1>1

(* A sum over a finite set, one element at a time.                         *)
LEMMA SumOfAny ==
  ASSUME NEW f, NEW S, IsFiniteSet(S)
  PROVE  Sum(f, S) = IF S = {} THEN 0 ELSE f[Any(S)] + Sum(f, S \ {Any(S)})
<1>. DEFINE Whole == CHOOSE F : Adds(F, f, S)
            T == S \ {Any(S)}
            Part == CHOOSE F : Adds(F, f, T)
<1>1. Adds(Whole, f, S)
  BY AddsExists
<1>2. IsFiniteSet(T) /\ T \subseteq S
  BY FS_Subset
<1>3. Adds(Part, f, T)
  BY <1>2, AddsExists
<1>4. Sum(f, S) = Whole[S] /\ Sum(f, T) = Part[T]
  BY DEF Sum
<1>. HIDE DEF Whole, Part
<1>5. Whole[S] = IF S = {} THEN 0 ELSE f[Any(S)] + Whole[T]
  BY <1>1, AddsOne
<1>6. Whole[T] = Part[T]
  <2>. HIDE DEF T
  <2>. QED  BY <1>1, <1>2, <1>3, AddsAgree
<1>. QED  BY <1>4, <1>5, <1>6

(* The same numbers have the same sum.                                     *)
LEMMA SumsAgree ==
  ASSUME NEW f, NEW g, NEW S, IsFiniteSet(S), \A s \in S : f[s] = g[s]
  PROVE  Sum(f, S) = Sum(g, S)
<1>. DEFINE F == CHOOSE F : Adds(F, f, S)
            G == CHOOSE G : Adds(G, g, S)
<1>1. Adds(F, f, S) /\ Adds(G, g, S)
  BY AddsExists
<1>2. Sum(f, S) = F[S] /\ Sum(g, S) = G[S]
  BY DEF Sum
<1>. HIDE DEF F, G
<1>. QED  BY <1>1, <1>2, AddsAgree

(* Integers have an integer for their sum.                                 *)
LEMMA SumIsInt ==
  ASSUME NEW f, NEW R, IsFiniteSet(R), \A s \in R : f[s] \in Int
  PROVE  Sum(f, R) \in Int
<1>. DEFINE Bad == {S \in SUBSET R : Sum(f, S) \notin Int}
<1>1. ASSUME Bad # {} PROVE FALSE
  <2>1. PICK S \in Bad : \A s \in S : \A T \in SUBSET (S \ {s}) : T \notin Bad
    <3>1. \A S \in Bad : IsFiniteSet(S)
      BY FS_Subset
    <3>. HIDE DEF Bad
    <3>. QED  BY <1>1, <3>1, SmallestSet
  <2>2. S \subseteq R /\ IsFiniteSet(S) /\ Sum(f, S) \notin Int
    BY FS_Subset
  <2>3. Sum(f, S) = IF S = {} THEN 0 ELSE f[Any(S)] + Sum(f, S \ {Any(S)})
    BY <2>2, SumOfAny
  <2>4. CASE S = {}
    BY <2>2, <2>3, <2>4
  <2>5. CASE S # {}
    <3>1. Any(S) \in S
      BY <2>5, AnyIsElement
    <3>2. Sum(f, S \ {Any(S)}) \in Int
      BY <2>1, <2>2, <3>1
    <3>. QED  BY <2>2, <2>3, <2>5, <3>1, <3>2
  <2>. QED  BY <2>4, <2>5
<1>. QED  BY <1>1

(* Any element may be added last.                                          *)
LEMMA SumOfElement ==
  ASSUME NEW f, NEW R, IsFiniteSet(R), \A s \in R : f[s] \in Int, NEW k \in R
  PROVE  Sum(f, R) = f[k] + Sum(f, R \ {k})
<1>. DEFINE Bad == {S \in SUBSET R : \E s \in S : Sum(f, S) # f[s] + Sum(f, S \ {s})}
<1>1. ASSUME Bad # {} PROVE FALSE
  <2>1. PICK S \in Bad : \A s \in S : \A T \in SUBSET (S \ {s}) : T \notin Bad
    <3>1. \A S \in Bad : IsFiniteSet(S)
      BY FS_Subset
    <3>. HIDE DEF Bad
    <3>. QED  BY <1>1, <3>1, SmallestSet
  <2>2. PICK s \in S : Sum(f, S) # f[s] + Sum(f, S \ {s})
    OBVIOUS
  <2>. DEFINE a == Any(S)
  <2>3. a \in S /\ S \in SUBSET R
    BY AnyIsElement
  <2>4. \A T \in SUBSET R : IsFiniteSet(T) /\ Sum(f, T) \in Int
    BY FS_Subset, SumIsInt
  <2>5. Sum(f, S) = f[a] + Sum(f, S \ {a})
    BY <2>3, <2>4, SumOfAny
  <2>. HIDE DEF a
  <2>6. a # s
    BY <2>2, <2>5
  <2>7. Sum(f, S \ {a}) = f[s] + Sum(f, (S \ {a}) \ {s})
    <3>1. S \ {a} \in SUBSET (S \ {a}) /\ S \ {a} \notin Bad /\ S \ {a} \in SUBSET R /\ s \in S \ {a}
      BY <2>1, <2>3, <2>6
    <3>. QED  BY <3>1
  <2>8. Sum(f, S \ {s}) = f[a] + Sum(f, (S \ {s}) \ {a})
    <3>1. S \ {s} \in SUBSET (S \ {s}) /\ S \ {s} \notin Bad /\ S \ {s} \in SUBSET R /\ a \in S \ {s}
      BY <2>1, <2>2, <2>3, <2>6
    <3>. QED  BY <3>1
  <2>9. (S \ {a}) \ {s} = (S \ {s}) \ {a}
    OBVIOUS
  <2>10. f[a] \in Int /\ f[s] \in Int /\ Sum(f, (S \ {a}) \ {s}) \in Int
    BY <2>3, <2>4
  <2>. QED  BY <2>2, <2>5, <2>7, <2>8, <2>9, <2>10
<1>. QED  BY <1>1

(* One more element, or one that grows.                                    *)
LEMMA SumGrows ==
  ASSUME NEW f, NEW g, NEW S, IsFiniteSet(S), NEW k, NEW d \in Int,
         \A s \in S : f[s] \in Int, \A s \in S \ {k} : g[s] = f[s],
         g[k] = (IF k \in S THEN f[k] ELSE 0) + d
  PROVE  /\ IsFiniteSet(S \cup {k})
         /\ Sum(g, S \cup {k}) = Sum(f, S) + d
<1>. DEFINE T == S \cup {k}
            rest == S \ {k}
<1>1. IsFiniteSet(T) /\ IsFiniteSet(rest) /\ T \ {k} = rest /\ k \in T
  BY FS_AddElement, FS_RemoveElement
<1>2. \A s \in T : g[s] \in Int
  OBVIOUS
<1>3. Sum(f, rest) \in Int
  BY <1>1, SumIsInt
<1>4. Sum(g, rest) = Sum(f, rest)
  BY <1>1, SumsAgree
<1>. HIDE DEF T
<1>5. Sum(g, T) = g[k] + Sum(g, T \ {k})
  BY <1>1, <1>2, SumOfElement
<1>6. CASE k \in S
  <2>1. Sum(f, S) = f[k] + Sum(f, rest)
    BY <1>6, SumOfElement
  <2>2. g[k] = f[k] + d /\ f[k] \in Int
    BY <1>6
  <2>3. Sum(g, T) = (f[k] + d) + Sum(f, rest)
    BY <1>1, <1>4, <1>5, <2>2
  <2>. HIDE DEF rest
  <2>4. Sum(g, T) = Sum(f, S) + d
    BY <1>3, <2>1, <2>2, <2>3
  <2>. QED  BY <1>1, <2>4 DEF T
<1>7. CASE k \notin S
  <2>1. rest = S /\ g[k] = d
    BY <1>7
  <2>2. Sum(g, T) = Sum(f, S) + d
    BY <1>1, <1>3, <1>4, <1>5, <2>1
  <2>. QED  BY <1>1, <2>2 DEF T
<1>. QED  BY <1>6, <1>7

-----------------------------------------------------------------------------
(* The stock                                                               *)

(* What each row of the table t has used of i.                             *)
Uses(t, i) == [s \in DOMAIN t |-> t[s] * Need[s[2]][i]]

StockInv == IsFiniteSet(DOMAIN sale) /\ NeverOversold

(* What UsedBySales adds up in the table t, with its own choice of rows.   *)
Used(t, i) ==
  MapThenFoldSet(LAMBDA x, y : x + y, 0, LAMBDA s : t[s] * Need[s[2]][i],
                 LAMBDA S : CHOOSE s \in S : TRUE, DOMAIN t)

(* Used, a fold over the rows of Sale, is their sum.                       *)
LEMMA UsedIsSum ==
  ASSUME NEW t, NEW i, IsFiniteSet(DOMAIN t)
  PROVE  Used(t, i) = Sum(Uses(t, i), DOMAIN t)
<1>. DEFINE f == Uses(t, i)
            D == DOMAIN t
            Adding(F) == F = [T \in SUBSET D |->
                                IF T = {} THEN 0
                                ELSE t[Any(T)] * Need[Any(T)[2]][i] + F[T \ {Any(T)}]]
            F == CHOOSE F : Adding(F)
<1>1. Used(t, i) = F[D]
  BY DEF Used, MapThenFoldSet, Any
<1>2. ASSUME NEW H PROVE Adds(H, f, D) <=> Adding(H)
  <2>1. \A T \in SUBSET D : T # {} => f[Any(T)] = t[Any(T)] * Need[Any(T)[2]][i]
    <3>1. TAKE T \in SUBSET D
    <3>2. T # {} => Any(T) \in D
      BY AnyIsElement
    <3>. QED  BY <3>2 DEF Uses
  <2>. DEFINE X == [T \in SUBSET D |-> IF T = {} THEN 0 ELSE f[Any(T)] + H[T \ {Any(T)}]]
              Y == [T \in SUBSET D |->
                      IF T = {} THEN 0
                      ELSE t[Any(T)] * Need[Any(T)[2]][i] + H[T \ {Any(T)}]]
  <2>2. X = Y
    <3>. HIDE DEF f
    <3>. QED  BY <2>1
  <2>3. (Adds(H, f, D) <=> H = X) /\ (Adding(H) <=> H = Y)
    BY DEF Adds
  <2>. HIDE DEF X, Y, Adding
  <2>. QED  BY <2>2, <2>3
<1>3. F = CHOOSE H : Adds(H, f, D)
  <2>. HIDE DEF f, D, Adding
  <2>. QED  BY <1>2
<1>. QED  BY <1>1, <1>3 DEF Sum

(* NeverOversold speaks of these sums, now and after a step.               *)
LEMMA UsedBySalesIsUsed ==
  ASSUME NEW i
  PROVE  UsedBySales(i) = Used(sale, i) /\ UsedBySales(i)' = Used(sale', i)
BY DEF UsedBySales, Used, MapThenFoldSet

(* A call takes at least what it sells: its charge is no less than its     *)
(* quantity.                                                               *)
LEMMA SellingIsPaidFor ==
  ASSUME TypeOK, TypeOK', StockInv, NEW c \in Calls, Ledger!Sell(c.user, c.pid, c.quantity)
  PROVE  StockInv'
<1>. USE SalesAssumption
<1>. DEFINE q == c.quantity
            k == <<c.user, c.pid>>
            charge == Ledger!Charge(c.user, c.pid, q)
<1>1. q \in Nat /\ charge \in Nat /\ q <= charge /\ c.pid \in Products
  BY DEF Ledger!Sell, Ledger!Allows, Ledger!Charge
<1>2. stock' = [i \in Ingredients |-> stock[i] - charge * Need[c.pid][i]]
  BY DEF Ledger!Sell
<1>3. sale' = [s \in DOMAIN sale \cup {k} |->
                 (IF s \in DOMAIN sale THEN sale[s] ELSE 0) + (IF s = k THEN q ELSE 0)]
  BY DEF Ledger!Sell
<1>. HIDE DEF q, k, charge
<1>4. DOMAIN sale' = DOMAIN sale \cup {k} /\ k[2] = c.pid
  BY <1>3 DEF k
<1>5. IsFiniteSet(DOMAIN sale) /\ IsFiniteSet(DOMAIN sale')
  <2>1. IsFiniteSet(DOMAIN sale)
    BY DEF StockInv
  <2>2. IsFiniteSet(DOMAIN sale \cup {k})
    BY <2>1, FS_AddElement
  <2>. QED  BY <1>4, <2>1, <2>2
<1>6. ASSUME NEW i \in Ingredients
      PROVE  UsedBySales(i)' + stock'[i] <= InitialStock[i]
  <2>. DEFINE n == Need[c.pid][i]
              f == Uses(sale, i)
              g == Uses(sale', i)
  <2>1. n \in Nat
    BY <1>1
  <2>2. \A s \in DOMAIN sale : f[s] = sale[s] * Need[s[2]][i] /\ f[s] \in Int
    <3>1. TAKE s \in DOMAIN sale
    <3>2. sale[s] \in Nat /\ Need[s[2]][i] \in Nat
      BY DEF TypeOK
    <3>. QED  BY <3>2 DEF Uses
  <2>3. \A s \in (DOMAIN sale) \ {k} : g[s] = f[s]
    <3>1. TAKE s \in (DOMAIN sale) \ {k}
    <3>2. sale'[s] = sale[s] + 0
      BY <1>3, <1>4
    <3>3. sale'[s] = sale[s]
      BY <3>2 DEF TypeOK
    <3>. QED  BY <1>4, <3>3 DEF Uses
  <2>4. g[k] = (IF k \in DOMAIN sale THEN f[k] ELSE 0) + q * n
    <3>1. g[k] = sale'[k] * n
      BY <1>4 DEF Uses
    <3>2. sale'[k] = (IF k \in DOMAIN sale THEN sale[k] ELSE 0) + q
      BY <1>3, <1>4
    <3>3. ASSUME NEW a \in Nat PROVE (a + q) * n = a * n + q * n
      <4>. HIDE DEF n
      <4>. QED  BY <1>1, <2>1, Z3
    <3>4. CASE k \in DOMAIN sale
      <4>1. sale[k] \in Nat /\ f[k] = sale[k] * n
        BY <1>4, <3>4 DEF TypeOK, Uses
      <4>. HIDE DEF n, f, g
      <4>. QED  BY <3>1, <3>2, <3>3, <3>4, <4>1
    <3>5. CASE k \notin DOMAIN sale
      <4>. HIDE DEF n, f, g
      <4>1. 0 + q = q
        BY <1>1
      <4>2. g[k] = q * n
        BY <3>1, <3>2, <3>5, <4>1
      <4>3. q * n \in Nat
        BY <1>1, <2>1, Z3
      <4>. QED  BY <3>5, <4>2, <4>3
    <3>. HIDE DEF f, g, n
    <3>. QED  BY <3>4, <3>5
  <2>5. q * n \in Nat /\ charge * n \in Nat /\ q * n <= charge * n
    <3>. HIDE DEF n
    <3>. QED  BY <1>1, <2>1, Z3
  <2>6. Sum(g, DOMAIN sale \cup {k}) = Sum(f, DOMAIN sale) + q * n
    <3>1. PICK d \in Int : d = q * n
      BY <2>5
    <3>. HIDE DEF f, g, n
    <3>2. g[k] = (IF k \in DOMAIN sale THEN f[k] ELSE 0) + d
      BY <2>4, <3>1
    <3>3. \A s \in DOMAIN sale : f[s] \in Int
      BY <2>2
    <3>4. Sum(g, DOMAIN sale \cup {k}) = Sum(f, DOMAIN sale) + d
      <4>. DEFINE D == DOMAIN sale
      <4>1. IsFiniteSet(D)
        BY <1>5
      <4>2. \A s \in D : f[s] \in Int
        BY <3>3
      <4>3. \A s \in D \ {k} : g[s] = f[s]
        BY <2>3
      <4>4. g[k] = (IF k \in D THEN f[k] ELSE 0) + d
        BY <3>2
      <4>. HIDE DEF D
      <4>. HIDE SalesAssumption
      <4>5. Sum(g, D \cup {k}) = Sum(f, D) + d
        BY SMTT(30), <4>1, <4>2, <4>3, <4>4, SumGrows
      <4>. QED  BY <4>5 DEF D
    <3>. QED  BY <3>1, <3>4
  <2>7. Sum(f, DOMAIN sale) \in Int
    <3>. HIDE DEF f
    <3>. QED  BY <1>5, <2>2, SumIsInt
  <2>8. UsedBySales(i) = Sum(f, DOMAIN sale)
    BY <1>5, UsedIsSum, UsedBySalesIsUsed
  <2>9. UsedBySales(i)' = Sum(g, DOMAIN sale \cup {k})
    <3>1. UsedBySales(i)' = Sum(Uses(sale', i), DOMAIN sale')
      BY <1>5, UsedIsSum, UsedBySalesIsUsed
    <3>. QED  BY <1>4, <3>1
  <2>10. UsedBySales(i) + stock[i] <= InitialStock[i]
    BY DEF StockInv, NeverOversold
  <2>11. stock'[i] = stock[i] - charge * n /\ stock[i] \in Nat /\ InitialStock[i] \in Nat
    BY <1>2 DEF TypeOK
  <2>. HIDE DEF f, g, n
  <2>. QED  BY <2>5, <2>6, <2>7, <2>8, <2>9, <2>10, <2>11
<1>. QED  BY <1>5, <1>6 DEF StockInv, NeverOversold

(* Every unit that was ever sold was taken from the stock there was at     *)
(* first, with any number of calls at once: the trigger of Sale takes      *)
(* before the row is written, and at least what the row says               *)
(* (main.pgsql:112-121, 185-213).                                          *)
THEOREM NeverSellsWhatIsNot == Spec => []NeverOversold
<1>1. Init => StockInv
  <2>. SUFFICES ASSUME Init PROVE StockInv
    OBVIOUS
  <2>2. DOMAIN sale = {} /\ stock = InitialStock
    <3>1. sale = << >> /\ stock = InitialStock
      BY DEF Init
    <3>2. \A s : s \notin DOMAIN sale
      BY <3>1
    <3>. QED  BY <3>1, <3>2
  <2>3. IsFiniteSet(DOMAIN sale)
    BY <2>2, FS_EmptySet
  <2>4. ASSUME NEW i \in Ingredients PROVE UsedBySales(i) = 0
    <3>1. UsedBySales(i) = Sum(Uses(sale, i), DOMAIN sale)
      BY <2>3, UsedIsSum, UsedBySalesIsUsed
    <3>2. Sum(Uses(sale, i), {}) = 0
      BY FS_EmptySet, SumOfAny
    <3>. QED  BY <2>2, <3>1, <3>2
  <2>5. \A i \in Ingredients : InitialStock[i] \in Nat
    BY SalesAssumption
  <2>. QED  BY <2>2, <2>3, <2>4, <2>5 DEF StockInv, NeverOversold
<1>2. IInv /\ IInv' /\ AllLedgerInv /\ StockInv /\ [Next]_vars => StockInv'
  <2>1. SUFFICES ASSUME IInv, IInv', AllLedgerInv, StockInv, [Next]_vars PROVE StockInv'
    OBVIOUS
  <2>2. [Ledger!Next]_<<stock, sale>>
    BY <2>1, StepsAreTheLedgers
  <2>3. CASE Ledger!Next
    BY <2>1, <2>3, SellingIsPaidFor DEF Ledger!Next, IInv
  <2>4. CASE UNCHANGED <<stock, sale>>
    BY <2>1, <2>4, UsedBySalesIsUsed DEF StockInv, NeverOversold
  <2>. QED  BY <2>2, <2>3, <2>4
<1>3. StockInv => NeverOversold
  BY DEF StockInv
<1>. QED
  BY <1>1, <1>2, <1>3, AlwaysLedgerInv, PTL DEF Spec

=============================================================================
