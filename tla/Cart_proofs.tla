---------------------------- MODULE Cart_proofs ----------------------------
(***************************************************************************)
(* Theorems about the cart, for any lists of drinks, any number of fetches *)
(* and purchases, and any number of threads in the pool.                   *)
(***************************************************************************)
EXTENDS Cart, SequenceTheorems, FiniteSetTheorems, TLAPS

(* The tasks, and the closures that they leave for the main thread.        *)
FetchTask ==
  [kind : {"fetch"}, n : 1..MaxFetches, view : DOMAIN Lists, pc : {"asks", "copy", "over"}]

BuyTask ==
  [kind : {"buy"}, order : SUBSET Products, pc : {"asks", "walk", "over", "reported"},
   unbought : SUBSET Products, i : Nat \ {0}, found : Nat, sum : Int, before : Seq(Items)]

Closure ==
  [what : {"list"}, n : 1..MaxFetches, view : DOMAIN Lists] \cup [what : {"show"}]
    \cup [what : {"bought", "unbought"}, k : Nat]

Task == FetchTask \cup BuyTask

OncePerProduct(s) == \A i, j \in 1..Len(s) : Pid(s[i]) = Pid(s[j]) => i = j

(* Types, and what the cart is whoever meets in it.                        *)
ShapeInv ==
  /\ died \in BOOLEAN /\ raced \in BOOLEAN
  /\ quantity \in [Items -> 0..MaxQuantity]
  /\ cart \in Seq(Items) /\ OncePerProduct(cart)
  /\ rows \in Seq(Items) /\ count \in Int
  /\ view \in DOMAIN Lists \cup {"cart"}
  /\ visible \in [rows : BOOLEAN, buy : BOOLEAN]
  /\ tasks \in Seq(Task)
  /\ ui \in Seq(Closure)

(* The purchases whose result is still to be told.                         *)
Unreported == {k \in Purchases : tasks[k].pc # "reported"}

Tells(c) == c.what \in {"bought", "unbought"}

(* Each list has a number of its own, up to the bound, with room left for  *)
(* those that the results will ask for.                                    *)
NumbersInv ==
  /\ Cardinality(Fetches) + Cardinality(Unreported) <= MaxFetches
  /\ \A k \in Fetches : tasks[k].n <= Cardinality(Fetches)
  /\ list = CartItself \/ list \in 0..Cardinality(Fetches)

(* A list that is to be shown was fetched, and the result of a purchase is *)
(* told once, when it is over.                                             *)
ToldInv ==
  /\ \A j \in 1..Len(ui) :
       /\ ui[j].what = "list" => ui[j].n <= Cardinality(Fetches)
       /\ Tells(ui[j]) => ui[j].k \in Purchases /\ tasks[ui[j].k].pc = "over"
  /\ \A i, j \in 1..Len(ui) :
       Tells(ui[i]) /\ Tells(ui[j]) /\ ui[i].k = ui[j].k => i = j

CountInv == NumbersInv /\ ToldInv

-----------------------------------------------------------------------------
(* Sequences                                                               *)

(* Removing an element moves those behind it to the front by one.          *)
LEMMA RemoveAtElements ==
  ASSUME NEW S, NEW s \in Seq(S), NEW i \in 1..Len(s)
  PROVE  /\ RemoveAt(s, i) \in Seq(S)
         /\ Len(RemoveAt(s, i)) = Len(s) - 1
         /\ \A j \in 1..Len(s) - 1 : RemoveAt(s, i)[j] = IF j < i THEN s[j] ELSE s[j + 1]
<1>. DEFINE front == SubSeq(s, 1, i - 1)
            back  == SubSeq(s, i + 1, Len(s))
<1>1. Len(s) \in Nat /\ \A j \in 1..Len(s) : s[j] \in S
  BY LenProperties, ElementOfSeq
<1>2. /\ front \in Seq(S) /\ Len(front) = i - 1
      /\ \A j \in 1..i - 1 : front[j] = s[j]
  BY <1>1, SubSeqProperties
<1>3. /\ back \in Seq(S) /\ Len(back) = Len(s) - i
      /\ \A j \in 1..Len(s) - i : back[j] = s[i + j]
  BY <1>1, SubSeqProperties
<1>4. RemoveAt(s, i) = front \o back
  BY DEF RemoveAt
<1>. HIDE DEF front, back
<1>5. /\ front \o back \in Seq(S) /\ Len(front \o back) = Len(front) + Len(back)
      /\ \A j \in 1..Len(front) + Len(back) :
           (front \o back)[j] = IF j <= Len(front) THEN front[j] ELSE back[j - Len(front)]
  BY <1>2, <1>3, ConcatProperties
<1>6. Len(front) + Len(back) = Len(s) - 1
  BY <1>1, <1>2, <1>3
<1>7. ASSUME NEW j \in 1..Len(s) - 1
      PROVE  (front \o back)[j] = IF j < i THEN s[j] ELSE s[j + 1]
  <2>1. (front \o back)[j] = IF j <= Len(front) THEN front[j] ELSE back[j - Len(front)]
    BY <1>5, <1>6
  <2>2. CASE j < i
    <3>1. j \in 1..i - 1 /\ j <= i - 1
      BY <1>1, <2>2
    <3>. QED  BY <1>2, <2>1, <2>2, <3>1
  <2>3. CASE ~(j < i)
    <3>1. j - (i - 1) \in 1..Len(s) - i /\ i + (j - (i - 1)) = j + 1 /\ ~(j <= i - 1)
      BY <1>1, <2>3
    <3>2. back[j - (i - 1)] = s[j + 1]
      BY <1>3, <3>1
    <3>. QED  BY <1>2, <2>1, <2>3, <3>1, <3>2
  <2>. QED  BY <2>2, <2>3
<1>. QED  BY <1>4, <1>5, <1>6, <1>7

(* A cart with an item less still has one item per product.                *)
LEMMA RemovingKeepsOnce ==
  ASSUME NEW s \in Seq(Items), OncePerProduct(s), NEW i \in 1..Len(s)
  PROVE  RemoveAt(s, i) \in Seq(Items) /\ OncePerProduct(RemoveAt(s, i))
<1>. DEFINE r == RemoveAt(s, i)
<1>1. /\ r \in Seq(Items) /\ Len(r) = Len(s) - 1 /\ Len(s) \in Nat
      /\ \A j \in 1..Len(s) - 1 : r[j] = IF j < i THEN s[j] ELSE s[j + 1]
  BY RemoveAtElements, LenProperties
<1>. HIDE DEF r
<1>2. ASSUME NEW j \in 1..Len(r), NEW k \in 1..Len(r), Pid(r[j]) = Pid(r[k])
      PROVE  j = k
  <2>. DEFINE a == IF j < i THEN j ELSE j + 1
              b == IF k < i THEN k ELSE k + 1
  <2>1. a \in 1..Len(s) /\ b \in 1..Len(s) /\ r[j] = s[a] /\ r[k] = s[b]
    BY <1>1
  <2>2. a = b
    <3>. HIDE DEF a, b
    <3>. QED  BY <1>2, <2>1 DEF OncePerProduct
  <2>. QED  BY <1>1, <2>2
<1>3. OncePerProduct(r)
  BY <1>2 DEF OncePerProduct
<1>. QED  BY <1>1, <1>3 DEF r

(* An item of a product that is not there yet may come to the end.         *)
LEMMA AppendingKeepsOnce ==
  ASSUME NEW s \in Seq(Items), OncePerProduct(s), NEW x \in Items,
         \A j \in 1..Len(s) : Pid(x) # Pid(s[j])
  PROVE  Append(s, x) \in Seq(Items) /\ OncePerProduct(Append(s, x))
<1>1. /\ Append(s, x) \in Seq(Items) /\ Len(Append(s, x)) = Len(s) + 1 /\ Len(s) \in Nat
      /\ Append(s, x)[Len(s) + 1] = x
      /\ \A j \in 1..Len(s) : Append(s, x)[j] = s[j]
  BY AppendProperties, LenProperties
<1>. QED  BY <1>1 DEF OncePerProduct

(* What a fetch makes is a list of items.                                  *)
LEMMA FetchedIsList ==
  ASSUME NEW n \in 1..MaxFetches, NEW v \in DOMAIN Lists
  PROVE  Fetched(n, v) \in Seq(Items)
<1>1. Lists[v] \in Seq(Nat) /\ Len(Lists[v]) \in Nat /\ DOMAIN Lists[v] = 1..Len(Lists[v])
  BY CartAssumption, LenProperties
<1>2. \A i \in 1..Len(Lists[v]) : Lists[v][i] \in Products
  BY <1>1 DEF Products, ToSet
<1>3. \A i \in 1..Len(Lists[v]) : <<n, Lists[v][i]>> \in Items
  BY <1>2 DEF Items
<1>. QED  BY <1>1, <1>3, IsASeq DEF Fetched

-----------------------------------------------------------------------------
(* The shape is kept                                                       *)

(* What is known of the tasks and of their number.                         *)
LEMMA TasksAreCounted ==
  ASSUME ShapeInv
  PROVE  /\ Len(tasks) \in Nat /\ DOMAIN tasks = 1..Len(tasks)
         /\ \A k \in DOMAIN tasks : tasks[k] \in Task
         /\ IsFiniteSet(Fetches) /\ Cardinality(Fetches) \in Nat
         /\ IsFiniteSet(Unreported) /\ Cardinality(Unreported) \in Nat
<1>1. tasks \in Seq(Task)
  BY DEF ShapeInv
<1>2. Len(tasks) \in Nat /\ DOMAIN tasks = 1..Len(tasks) /\ \A k \in DOMAIN tasks : tasks[k] \in Task
  BY <1>1, LenProperties, ElementOfSeq
<1>3. IsFiniteSet(1..Len(tasks))
  BY <1>2, FS_Interval
<1>4. Fetches \subseteq 1..Len(tasks) /\ Unreported \subseteq 1..Len(tasks)
  BY <1>2 DEF Fetches, Unreported, Purchases
<1>. QED  BY <1>2, <1>3, <1>4, FS_Subset, FS_CardinalityType

(* A task that is another now.                                             *)
LEMMA ChangingTask ==
  ASSUME ShapeInv, NEW k \in DOMAIN tasks, NEW r \in Task
  PROVE  [tasks EXCEPT ![k] = r] \in Seq(Task)
BY ExceptSeq DEF ShapeInv

(* A task that goes on: the fields of its kind stay.                       *)
LEMMA FetchGoesOn ==
  ASSUME ShapeInv, NEW k \in Fetches, NEW pc \in {"asks", "copy", "over"}
  PROVE  [tasks EXCEPT ![k].pc = pc] \in Seq(Task)
<1>1. k \in DOMAIN tasks /\ tasks[k] \in FetchTask
  BY TasksAreCounted DEF Fetches, Task, FetchTask, BuyTask
<1>2. [tasks[k] EXCEPT !.pc = pc] \in Task
  BY <1>1 DEF Task, FetchTask
<1>. QED  BY <1>1, <1>2, ChangingTask

(* A purchase that goes on is still a task.                                *)
LEMMA PurchaseGoesOn ==
  ASSUME ShapeInv, NEW k \in Purchases, NEW pc \in {"asks", "walk", "over", "reported"}
  PROVE  [tasks EXCEPT ![k].pc = pc] \in Seq(Task)
<1>1. k \in DOMAIN tasks /\ tasks[k] \in BuyTask
  BY TasksAreCounted DEF Purchases, Task, FetchTask, BuyTask
<1>2. [tasks[k] EXCEPT !.pc = pc] \in Task
  BY <1>1 DEF Task, BuyTask
<1>. QED  BY <1>1, <1>2, ChangingTask

(* What a purchase is that has been given to the executor.                 *)
LEMMA BuyIsTask ==
  ASSUME NEW order \in SUBSET Products
  PROVE  Buy(order) \in BuyTask
<1>1. << >> \in Seq(Items)
  BY EmptySeq
<1>. QED  BY <1>1 DEF Buy, BuyTask

(* A change of view: to the cart, or to a list that there is room for.     *)
LEMMA SwitchingKeepsShape ==
  ASSUME ShapeInv, NEW v \in DOMAIN Lists \cup {"cart"}, NEW cnt, NEW crt \in Seq(Items),
         NEW tsks \in Seq(Task), v # "cart" => Cardinality(Fetches) + 1 <= MaxFetches,
         SwitchState(v, cnt, crt, tsks)
  PROVE  /\ view' \in DOMAIN Lists \cup {"cart"} /\ rows' \in Seq(Items)
         /\ visible' \in [rows : BOOLEAN, buy : BOOLEAN] /\ tasks' \in Seq(Task)
<1>1. CASE v = view
  BY <1>1 DEF SwitchState, ShapeInv
<1>2. CASE v # view /\ v = "cart"
  <2>1. /\ view' = v /\ rows' = crt /\ tasks' = tsks
        /\ \E b \in BOOLEAN : visible' = [rows |-> TRUE, buy |-> b]
    BY <1>2 DEF SwitchState
  <2>2. \A b \in BOOLEAN : [rows |-> TRUE, buy |-> b] \in [rows : BOOLEAN, buy : BOOLEAN]
    OBVIOUS
  <2>. QED  BY <2>1, <2>2
<1>3. CASE v # view /\ v # "cart"
  <2>1. Cardinality(Fetches) + 1 \in 1..MaxFetches
    BY <1>3, TasksAreCounted, CartAssumption
  <2>2. Fetch(Cardinality(Fetches) + 1, v) \in Task
    BY <1>3, <2>1 DEF Fetch, Task, FetchTask
  <2>3. Append(tsks, Fetch(Cardinality(Fetches) + 1, v)) \in Seq(Task)
    BY <2>2, AppendProperties
  <2>4. /\ view' = v /\ visible' = [rows |-> FALSE, buy |-> FALSE] /\ rows' = rows
        /\ tasks' = Append(tsks, Fetch(Cardinality(Fetches) + 1, v))
    BY <1>3 DEF SwitchState
  <2>5. [rows |-> FALSE, buy |-> FALSE] \in [rows : BOOLEAN, buy : BOOLEAN]
    OBVIOUS
  <2>. QED  BY <2>3, <2>4, <2>5 DEF ShapeInv
<1>. QED  BY <1>1, <1>2, <1>3

(* Changing a quantity adds to the cart what it lacks, or takes out what   *)
(* is not wanted any more; there is one item at most to be found.          *)
LEMMA OnChangeKeepsShape ==
  ASSUME ShapeInv, NEW x \in Items, NEW d \in Int, NEW q, OnChange(x, d, q)
  PROVE  /\ cart' \in Seq(Items) /\ OncePerProduct(cart') /\ count' \in Int
         /\ raced' \in BOOLEAN /\ visible' \in [rows : BOOLEAN, buy : BOOLEAN]
<1>. DEFINE found == {j \in DOMAIN cart : SameItem(x, cart[j])}
            first == CHOOSE j \in found : \A k \in found : j <= k
<1>1. cart \in Seq(Items) /\ OncePerProduct(cart) /\ DOMAIN cart = 1..Len(cart) /\ Len(cart) \in Nat
  BY LenProperties DEF ShapeInv
<1>2. \A j, k \in found : j = k
  BY <1>1 DEF SameItem, OncePerProduct
<1>3. found # {} => first \in 1..Len(cart)
  <2>. SUFFICES ASSUME NEW j \in found PROVE first \in 1..Len(cart)
    OBVIOUS
  <2>1. \A k \in found : j <= k
    BY <1>1, <1>2
  <2>. QED  BY <1>1, <2>1
<1>4. cart' = IF found = {} /\ d > 0 THEN Append(cart, x)
              ELSE IF found # {} /\ d < 0 /\ q[cart[first]] = 0 /\ view # "cart"
              THEN RemoveAt(cart, first)
              ELSE cart
  BY DEF OnChange
<1>5. found = {} => \A j \in 1..Len(cart) : Pid(x) # Pid(cart[j])
  BY <1>1 DEF SameItem
<1>. HIDE DEF found, first
<1>6. cart' \in Seq(Items) /\ OncePerProduct(cart')
  <2>1. CASE found = {} /\ d > 0
    BY <1>1, <1>4, <1>5, <2>1, AppendingKeepsOnce
  <2>2. CASE found # {} /\ d < 0 /\ q[cart[first]] = 0 /\ view # "cart"
    BY <1>1, <1>3, <1>4, <2>2, RemovingKeepsOnce
  <2>. QED  BY <1>1, <1>4, <2>1, <2>2
<1>7. count' \in Int /\ raced' \in BOOLEAN
  BY DEF OnChange, Meets, ShapeInv
<1>8. visible' \in [rows : BOOLEAN, buy : BOOLEAN]
  <2>1. visible \in [rows : BOOLEAN, buy : BOOLEAN]
    BY DEF ShapeInv
  <2>2. visible' = visible \/ \E b \in BOOLEAN : visible' = [visible EXCEPT !.buy = b]
    BY DEF OnChange
  <2>. QED  BY <2>1, <2>2
<1>. QED  BY <1>6, <1>7, <1>8

(* A result that is told leaves room for the list that is fetched then.    *)
LEMMA RoomForSuggested ==
  ASSUME ShapeInv, CountInv, ui # << >>, Tells(Head(ui))
  PROVE  /\ Head(ui).k \in Unreported /\ Head(ui).k \in Purchases
         /\ tasks[Head(ui).k].pc = "over"
         /\ Cardinality(Fetches) + 1 <= MaxFetches
<1>1. Len(ui) \in Nat /\ Len(ui) >= 1 /\ Head(ui) = ui[1]
  BY LenProperties, HeadTailProperties, EmptySeq DEF ShapeInv
<1>2. Head(ui).k \in Purchases /\ tasks[Head(ui).k].pc = "over"
  BY <1>1 DEF CountInv, ToldInv
<1>3. Head(ui).k \in Unreported
  BY <1>2 DEF Unreported
<1>4. Cardinality(Unreported) >= 1
  BY <1>3, TasksAreCounted, FS_EmptySet
<1>. QED  BY <1>2, <1>3, <1>4, TasksAreCounted, CartAssumption DEF CountInv, NumbersInv

(* What closures a task leaves are closures.                               *)
LEMMA PostingKeepsShape ==
  ASSUME ShapeInv, NEW cs \in Seq(Closure), Posts(cs)
  PROVE  ui' \in Seq(Closure)
BY ConcatProperties DEF ShapeInv, Posts

(* The shape is kept by the user and the main thread.                      *)
LEMMA UserKeepsShape ==
  ASSUME ShapeInv, CountInv, User \/ LaysOut
  PROVE  ShapeInv'
<1>1. ASSUME NEW v \in DOMAIN Lists \cup {"cart"}, Selects(v) PROVE ShapeInv'
  <2>1. v # "cart" => Cardinality(Fetches) + 1 <= MaxFetches
    <3>1. \A k \in DOMAIN tasks : k \in Unreported <=> k \in Purchases /\ tasks[k].pc # "reported"
      BY DEF Unreported, Purchases
    <3>2. v # "cart" => Cardinality(Fetches) + Cardinality(Unreported) < MaxFetches
      BY <1>1 DEF Selects, Room, Unreported
    <3>. QED  BY <3>2, TasksAreCounted, CartAssumption
  <2>2. SwitchState(v, count, cart, tasks)
    BY <1>1 DEF Selects
  <2>3. cart \in Seq(Items) /\ tasks \in Seq(Task)
    BY DEF ShapeInv
  <2>4. /\ view' \in DOMAIN Lists \cup {"cart"} /\ rows' \in Seq(Items)
        /\ visible' \in [rows : BOOLEAN, buy : BOOLEAN] /\ tasks' \in Seq(Task)
    BY <2>1, <2>2, <2>3, SwitchingKeepsShape
  <2>. QED  BY <1>1, <2>4 DEF Selects, Meets, ShapeInv
<1>2. ASSUME NEW x \in Items, Increases(x) PROVE ShapeInv'
  <2>1. OnChange(x, 1, quantity')
    BY <1>2 DEF Increases
  <2>2. /\ cart' \in Seq(Items) /\ OncePerProduct(cart') /\ count' \in Int
        /\ raced' \in BOOLEAN /\ visible' \in [rows : BOOLEAN, buy : BOOLEAN]
    BY <2>1, OnChangeKeepsShape
  <2>3. quantity' \in [Items -> 0..MaxQuantity]
    BY <1>2, CartAssumption DEF Increases, ShapeInv
  <2>. QED  BY <1>2, <2>2, <2>3 DEF Increases, ShapeInv
<1>3. ASSUME NEW x \in Items, Decreases(x) PROVE ShapeInv'
  <2>1. OnChange(x, -1, quantity')
    BY <1>3 DEF Decreases
  <2>2. /\ cart' \in Seq(Items) /\ OncePerProduct(cart') /\ count' \in Int
        /\ raced' \in BOOLEAN /\ visible' \in [rows : BOOLEAN, buy : BOOLEAN]
    BY <2>1, OnChangeKeepsShape
  <2>3. quantity' \in [Items -> 0..MaxQuantity]
    BY <1>3, CartAssumption DEF Decreases, MayDecrease, ShapeInv
  <2>. QED  BY <1>3, <2>2, <2>3 DEF Decreases, ShapeInv
<1>4. ASSUME Buys PROVE ShapeInv'
  <2>. DEFINE order == {Pid(x) : x \in {y \in ToSet(cart) : quantity[y] > 0}}
  <2>1. ToSet(cart) \subseteq Items
    BY ElementOfSeq, LenProperties DEF ToSet, ShapeInv
  <2>2. order \in SUBSET Products
    BY <2>1 DEF Items, Pid
  <2>3. tasks' = Append(tasks, Buy(order)) /\ tasks \in Seq(Task)
    BY <1>4 DEF Buys, ShapeInv
  <2>. HIDE DEF order
  <2>4. tasks' \in Seq(Task)
    BY <2>2, <2>3, BuyIsTask, AppendProperties DEF Task
  <2>. QED  BY <1>4, <2>4 DEF Buys, Meets, ShapeInv
<1>5. ASSUME LaysOut PROVE ShapeInv'
  BY <1>5 DEF LaysOut, Meets, ShapeInv
<1>. QED  BY <1>1, <1>2, <1>3, <1>4, <1>5 DEF User

(* ... by the main thread's closures ...                                   *)
LEMMA MainThreadKeepsShape ==
  ASSUME ShapeInv, CountInv, MainThread
  PROVE  ShapeInv'
<1>1. ASSUME ui # << >> PROVE Head(ui) \in Closure /\ Tail(ui) \in Seq(Closure)
  BY <1>1, HeadTailProperties DEF ShapeInv
<1>2. ASSUME SetsList PROVE ShapeInv'
  <2>1. Head(ui) \in Closure /\ Tail(ui) \in Seq(Closure) /\ Head(ui).what = "list"
    BY <1>1, <1>2 DEF SetsList, IsNext
  <2>2. Head(ui).n \in 1..MaxFetches /\ Head(ui).view \in DOMAIN Lists
    BY <2>1 DEF Closure
  <2>3. Fetched(Head(ui).n, Head(ui).view) \in Seq(Items)
    BY <2>2, FetchedIsList
  <2>. QED  BY <1>2, <2>1, <2>3 DEF SetsList, ShapeInv
<1>3. ASSUME ShowsList PROVE ShapeInv'
  <2>1. Tail(ui) \in Seq(Closure)
    BY <1>1, <1>3 DEF ShowsList, IsNext
  <2>2. [visible EXCEPT !.rows = TRUE] \in [rows : BOOLEAN, buy : BOOLEAN]
    BY DEF ShapeInv
  <2>. QED  BY <1>3, <2>1, <2>2 DEF ShowsList, ShapeInv
<1>4. ASSUME EmptiesCart PROVE ShapeInv'
  <2>1. ui # << >> /\ Head(ui).what = "bought" /\ Tells(Head(ui))
    BY <1>4 DEF EmptiesCart, IsNext, Tells
  <2>2. Tail(ui) \in Seq(Closure)
    BY <1>1, <2>1
  <2>3. Head(ui).k \in Purchases /\ Cardinality(Fetches) + 1 <= MaxFetches
    BY <2>1, RoomForSuggested
  <2>4. Reported(Head(ui).k) \in Seq(Task)
    BY <2>3, PurchaseGoesOn DEF Reported
  <2>5. quantity' \in [Items -> 0..MaxQuantity]
    <3>1. 0 \in 0..MaxQuantity /\ quantity \in [Items -> 0..MaxQuantity]
      BY CartAssumption DEF ShapeInv
    <3>2. quantity' = [x \in Items |-> IF x \in ToSet(cart) THEN 0 ELSE quantity[x]]
      BY <1>4 DEF EmptiesCart
    <3>. QED  BY <3>1, <3>2
  <2>6. cart' = << >> /\ cart' \in Seq(Items) /\ OncePerProduct(cart')
    BY <1>4, EmptySeq DEF EmptiesCart, OncePerProduct
  <2>7. /\ view' \in DOMAIN Lists \cup {"cart"} /\ rows' \in Seq(Items)
        /\ visible' \in [rows : BOOLEAN, buy : BOOLEAN] /\ tasks' \in Seq(Task)
    <3>1. CASE view = Suggested
      <4>1. [visible EXCEPT !.buy = FALSE] \in [rows : BOOLEAN, buy : BOOLEAN]
        BY DEF ShapeInv
      <4>. QED  BY <1>4, <2>4, <3>1, <4>1 DEF EmptiesCart, ShapeInv
    <3>2. CASE view # Suggested
      <4>1. SwitchState(Suggested, 0, << >>, Reported(Head(ui).k))
        BY <1>4, <3>2 DEF EmptiesCart
      <4>2. << >> \in Seq(Items) /\ Suggested \in DOMAIN Lists \cup {"cart"}
        BY EmptySeq, CartAssumption
      <4>. QED  BY <2>3, <2>4, <4>1, <4>2, SwitchingKeepsShape
    <3>. QED  BY <3>1, <3>2
  <2>. QED  BY <1>4, <2>2, <2>5, <2>6, <2>7 DEF EmptiesCart, Meets, ShapeInv
<1>5. ASSUME TellsUnbought PROVE ShapeInv'
  <2>1. ui # << >> /\ Tells(Head(ui))
    BY <1>5 DEF TellsUnbought, IsNext, Tells
  <2>2. Tail(ui) \in Seq(Closure)
    BY <1>1, <2>1
  <2>3. Reported(Head(ui).k) \in Seq(Task)
    BY <2>1, RoomForSuggested, PurchaseGoesOn DEF Reported
  <2>. QED  BY <1>5, <2>2, <2>3 DEF TellsUnbought, ShapeInv
<1>. QED  BY <1>2, <1>3, <1>4, <1>5 DEF MainThread

(* ... and by the tasks in the background.                                 *)
LEMMA BackgroundKeepsShape ==
  ASSUME ShapeInv, NEW k \in DOMAIN tasks, Background(k)
  PROVE  ShapeInv'
<1>1. tasks[k] \in Task
  BY TasksAreCounted
<1>2. cart \in Seq(Items) /\ Len(cart) \in Nat /\ \A i \in 1..Len(cart) : cart[i] \in Items
  BY ElementOfSeq, LenProperties DEF ShapeInv
<1>3. ASSUME GetsList(k) PROVE ShapeInv'
  <2>1. k \in Fetches
    BY <1>3 DEF GetsList, Runs, Fetches
  <2>2. tasks' \in Seq(Task)
    BY <1>3, <2>1, FetchGoesOn DEF GetsList
  <2>3. <<[what |-> "show"]>> \in Seq(Closure)
    BY DEF Closure
  <2>4. ui' \in Seq(Closure)
    BY <1>3, <2>3, PostingKeepsShape DEF GetsList, ShapeInv
  <2>. QED  BY <1>3, <2>2, <2>4 DEF GetsList, ShapeInv
<1>4. ASSUME CopiesQuantities(k) PROVE ShapeInv'
  <2>. DEFINE InCart(x) == {y \in ToSet(cart) : Pid(y) = Pid(x)}
  <2>1. k \in Fetches /\ tasks[k] \in FetchTask
    BY <1>1, <1>4 DEF CopiesQuantities, Runs, Fetches, Task, FetchTask, BuyTask
  <2>2. tasks' \in Seq(Task)
    BY <1>4, <2>1, FetchGoesOn DEF CopiesQuantities
  <2>3. /\ [what |-> "list", n |-> tasks[k].n, view |-> tasks[k].view] \in Closure
        /\ [what |-> "show"] \in Closure
    BY <2>1 DEF Closure, FetchTask
  <2>4. ui' \in Seq(Closure)
    <3>1. <<[what |-> "list", n |-> tasks[k].n, view |-> tasks[k].view], [what |-> "show"]>>
            \in Seq(Closure)
      <4>. HIDE DEF Closure
      <4>. QED  BY <2>3
    <3>. QED  BY <1>4, <3>1, PostingKeepsShape DEF CopiesQuantities
  <2>5. \A x \in Items : InCart(x) # {} => (CHOOSE y \in InCart(x) : TRUE) \in Items
    <3>1. \A x \in Items : InCart(x) \subseteq Items
      BY <1>2 DEF ToSet
    <3>. QED  BY <3>1
  <2>6. quantity' \in [Items -> 0..MaxQuantity]
    <3>1. quantity \in [Items -> 0..MaxQuantity]
      BY DEF ShapeInv
    <3>2. quantity' = [x \in Items |->
              IF x \in ToSet(Fetched(tasks[k].n, tasks[k].view)) /\ InCart(x) # {}
              THEN quantity[CHOOSE y \in InCart(x) : TRUE] ELSE quantity[x]]
      BY <1>4 DEF CopiesQuantities
    <3>. HIDE DEF InCart
    <3>. QED  BY <2>5, <3>1, <3>2
  <2>. QED  BY <1>4, <2>2, <2>4, <2>6 DEF CopiesQuantities, Meets, ShapeInv
<1>5. ASSUME Runs(k, "buy", "asks") \/ Runs(k, "buy", "walk")
      PROVE  k \in Purchases /\ tasks[k] \in BuyTask
  BY <1>1, <1>5 DEF Runs, Purchases, Task, FetchTask, BuyTask
<1>6. ASSUME GetsAnswer(k) PROVE ShapeInv'
  <2>1. k \in Purchases /\ tasks[k] \in BuyTask
    BY <1>5, <1>6 DEF GetsAnswer
  <2>2. k \in Nat
    BY TasksAreCounted
  <2>3. <<[what |-> "bought", k |-> k]>> \in Seq(Closure)
    BY <2>2 DEF Closure
  <2>4. ui' \in Seq(Closure)
    BY <1>6, <2>3, PostingKeepsShape DEF GetsAnswer, ShapeInv
  <2>5. tasks' \in Seq(Task)
    <3>1. CASE tasks' = [tasks EXCEPT ![k].pc = "over"]
      BY <2>1, <3>1, PurchaseGoesOn
    <3>2. ASSUME NEW unbought \in SUBSET tasks[k].order,
                 tasks' = [tasks EXCEPT ![k].pc = "walk", ![k].unbought = unbought,
                                        ![k].before = cart]
          PROVE  tasks' \in Seq(Task)
      <4>. DEFINE r == [tasks[k] EXCEPT !.pc = "walk", !.unbought = unbought, !.before = cart]
      <4>1. r \in Task
        BY <1>2, <2>1 DEF Task, BuyTask
      <4>2. tasks' = [tasks EXCEPT ![k] = r]
        BY <3>2
      <4>. QED  BY <4>1, <4>2, ChangingTask
    <3>. QED  BY <1>6, <3>1, <3>2 DEF GetsAnswer
  <2>. QED  BY <1>6, <2>4, <2>5 DEF GetsAnswer, ShapeInv
<1>7. ASSUME ToastThrows(k) PROVE ShapeInv'
  BY <1>7 DEF ToastThrows, ShapeInv
<1>8. ASSUME KeepsItem(k) \/ DropsItem(k)
      PROVE  /\ tasks[k] \in BuyTask /\ tasks[k].i \in 1..Len(cart) /\ cart[tasks[k].i] \in Items
             /\ quantity[cart[tasks[k].i]] \in Int
  <2>1. tasks[k] \in BuyTask
    BY <1>5, <1>8 DEF KeepsItem, DropsItem
  <2>2. tasks[k].i \in Nat \ {0} /\ ~(tasks[k].i > Len(cart))
    BY <1>8, <2>1 DEF KeepsItem, DropsItem, WalkIsOver, BuyTask
  <2>3. tasks[k].i \in 1..Len(cart)
    BY <1>2, <2>2
  <2>. QED  BY <1>2, <2>1, <2>3, CartAssumption DEF ShapeInv
<1>9. ASSUME KeepsItem(k) PROVE ShapeInv'
  <2>. DEFINE r == [tasks[k] EXCEPT !.i = @ + 1, !.found = @ + 1,
                                    !.sum = @ + quantity[cart[tasks[k].i]]]
  <2>1. r \in Task
    <3>1. /\ tasks[k] \in BuyTask /\ tasks[k].i + 1 \in Nat \ {0} /\ tasks[k].found + 1 \in Nat
          /\ tasks[k].sum + quantity[cart[tasks[k].i]] \in Int
      BY <1>8, <1>9 DEF BuyTask
    <3>2. \A i \in Nat \ {0}, found \in Nat, sum \in Int :
            [tasks[k] EXCEPT !.i = i, !.found = found, !.sum = sum] \in BuyTask
      BY <3>1 DEF BuyTask
    <3>. QED  BY <3>1, <3>2 DEF Task
  <2>2. tasks' = [tasks EXCEPT ![k] = r]
    BY <1>9 DEF KeepsItem
  <2>3. tasks' \in Seq(Task)
    BY <2>1, <2>2, ChangingTask
  <2>. QED  BY <1>9, <2>3 DEF KeepsItem, Meets, ShapeInv
<1>10. ASSUME DropsItem(k) PROVE ShapeInv'
  <2>. DEFINE r == [tasks[k] EXCEPT !.i = AfterRemoval(@)]
  <2>1. r \in Task
    BY <1>8, <1>10 DEF Task, BuyTask, AfterRemoval
  <2>2. tasks' = [tasks EXCEPT ![k] = r]
    BY <1>10 DEF DropsItem
  <2>3. tasks' \in Seq(Task)
    BY <2>1, <2>2, ChangingTask
  <2>4. cart' \in Seq(Items) /\ OncePerProduct(cart')
    BY <1>8, <1>10, RemovingKeepsOnce DEF DropsItem, ShapeInv
  <2>5. quantity' \in [Items -> 0..MaxQuantity]
    <3>1. quantity' = [quantity EXCEPT ![cart[tasks[k].i]] = 0]
      BY <1>10 DEF DropsItem
    <3>2. 0 \in 0..MaxQuantity /\ quantity \in [Items -> 0..MaxQuantity]
      BY CartAssumption DEF ShapeInv
    <3>. QED  BY <3>1, <3>2
  <2>. QED  BY <1>10, <2>3, <2>4, <2>5 DEF DropsItem, Meets, ShapeInv
<1>11. ASSUME EndsWalk(k) PROVE ShapeInv'
  <2>1. tasks[k] \in BuyTask
    BY <1>5, <1>11 DEF EndsWalk
  <2>2. Buy(tasks[k].order) \in BuyTask
    BY <2>1, BuyIsTask DEF BuyTask
  <2>3. [Buy(tasks[k].order) EXCEPT !.pc = "over"] \in Task
    BY <2>2 DEF Task, BuyTask
  <2>4. tasks' \in Seq(Task)
    BY <1>11, <2>3, ChangingTask DEF EndsWalk
  <2>5. k \in Nat
    BY TasksAreCounted
  <2>6. Result(k, tasks[k]) \in Seq(Closure)
    BY <2>5 DEF Result, Closure
  <2>7. ui' \in Seq(Closure)
    BY <1>11, <2>6, PostingKeepsShape DEF EndsWalk
  <2>. QED  BY <1>11, <2>4, <2>7 DEF EndsWalk, ShapeInv
<1>. QED  BY <1>3, <1>4, <1>6, <1>7, <1>9, <1>10, <1>11 DEF Background

-----------------------------------------------------------------------------
(* The numbers                                                             *)

(* Tasks that are neither added nor reported.                              *)
LEMMA SameTasks ==
  ASSUME DOMAIN tasks' = DOMAIN tasks,
         \A k \in DOMAIN tasks : /\ tasks'[k].kind = tasks[k].kind
                                 /\ tasks'[k].pc = "reported" <=> tasks[k].pc = "reported"
  PROVE  UNCHANGED <<Fetches, Purchases, Unreported>>
<1>1. Fetches' = Fetches
  BY DEF Fetches
<1>2. Purchases' = Purchases
  BY DEF Purchases
<1>3. Unreported' = Unreported
  BY <1>2 DEF Unreported, Purchases
<1>. QED  BY <1>1, <1>2, <1>3

(* Their numbers stay, and so does what was told.                          *)
LEMMA SameNumbers ==
  ASSUME NumbersInv, UNCHANGED <<Fetches, Unreported>>,
         \A k \in Fetches : tasks'[k].n = tasks[k].n,
         list' \in {list, CartItself} \cup 0..Cardinality(Fetches)
  PROVE  NumbersInv'
BY DEF NumbersInv

(* What is told is still so, and one closure less is to come.              *)
LEMMA TellingOneLess ==
  ASSUME ShapeInv, ToldInv, ui # << >>, ui' = Tail(ui),
         Cardinality(Fetches) \in Int, Cardinality(Fetches)' \in Int,
         Cardinality(Fetches) <= Cardinality(Fetches)',
         \A j \in 2..Len(ui) :
           Tells(ui[j]) => ui[j].k \in Purchases' /\ tasks'[ui[j].k].pc = "over"
  PROVE  ToldInv'
<1>1. ui \in Seq(Closure) /\ Len(ui) \in Nat /\ Len(ui) >= 1
  BY LenProperties, EmptySeq DEF ShapeInv
<1>2. Len(ui') = Len(ui) - 1 /\ \A j \in 1..Len(ui) - 1 : ui'[j] = ui[j + 1]
  BY <1>1, HeadTailProperties
<1>3. ASSUME NEW j \in 1..Len(ui')
      PROVE  /\ ui'[j] = ui[j + 1] /\ j + 1 \in 2..Len(ui) /\ j + 1 \in 1..Len(ui)
  BY <1>1, <1>2
<1>4. ASSUME NEW j \in 1..Len(ui')
      PROVE  /\ ui'[j].what = "list" => ui'[j].n <= Cardinality(Fetches)'
             /\ Tells(ui'[j]) => ui'[j].k \in Purchases' /\ tasks'[ui'[j].k].pc = "over"
  <2>1. ui'[j].what = "list" => ui'[j].n \in Int /\ ui'[j].n <= Cardinality(Fetches)
    <3>1. ui[j + 1] \in Closure
      BY <1>1, <1>3, ElementOfSeq
    <3>2. ui[j + 1].what = "list" => ui[j + 1].n \in Int
      BY <3>1 DEF Closure
    <3>. QED  BY <1>3, <3>2 DEF ToldInv
  <2>. QED  BY <1>3, <2>1
<1>5. ASSUME NEW i \in 1..Len(ui'), NEW j \in 1..Len(ui'),
             Tells(ui'[i]), Tells(ui'[j]), ui'[i].k = ui'[j].k
      PROVE  i = j
  <2>1. i + 1 = j + 1
    BY <1>3, <1>5 DEF ToldInv
  <2>. QED  BY <1>1, <1>2, <2>1
<1>. QED  BY <1>4, <1>5 DEF ToldInv, Tells

(* More is to be told: of a purchase that nobody told of.                  *)
LEMMA TellingMore ==
  ASSUME ShapeInv, ToldInv, NEW cs \in Seq(Closure), ui' = ui \o cs,
         Cardinality(Fetches)' = Cardinality(Fetches),
         \A j \in 1..Len(ui) :
           Tells(ui[j]) => ui[j].k \in Purchases' /\ tasks'[ui[j].k].pc = "over",
         \A j \in 1..Len(cs) :
           /\ cs[j].what = "list" => cs[j].n <= Cardinality(Fetches)
           /\ Tells(cs[j]) => /\ cs[j].k \in Purchases' /\ tasks'[cs[j].k].pc = "over"
                              /\ tasks[cs[j].k].pc # "over",
         \A i, j \in 1..Len(cs) : Tells(cs[i]) /\ Tells(cs[j]) => i = j
  PROVE  ToldInv'
<1>1. ui \in Seq(Closure) /\ Len(ui) \in Nat /\ Len(cs) \in Nat
  BY LenProperties DEF ShapeInv
<1>2. /\ Len(ui') = Len(ui) + Len(cs)
      /\ \A j \in 1..Len(ui) + Len(cs) : ui'[j] = IF j <= Len(ui) THEN ui[j] ELSE cs[j - Len(ui)]
  BY <1>1, ConcatProperties
<1>3. ASSUME NEW j \in 1..Len(ui')
      PROVE  \/ j \in 1..Len(ui) /\ ui'[j] = ui[j]
             \/ j > Len(ui) /\ j - Len(ui) \in 1..Len(cs) /\ ui'[j] = cs[j - Len(ui)]
  <2>1. CASE j <= Len(ui)
    BY <1>1, <1>2, <2>1
  <2>2. CASE ~(j <= Len(ui))
    BY <1>1, <1>2, <2>2
  <2>. QED  BY <2>1, <2>2
<1>4. ASSUME NEW j \in 1..Len(ui')
      PROVE  /\ ui'[j].what = "list" => ui'[j].n <= Cardinality(Fetches)'
             /\ Tells(ui'[j]) => ui'[j].k \in Purchases' /\ tasks'[ui'[j].k].pc = "over"
  BY <1>3 DEF ToldInv
<1>5. ASSUME NEW i \in 1..Len(ui'), NEW j \in 1..Len(ui'),
             Tells(ui'[i]), Tells(ui'[j]), ui'[i].k = ui'[j].k
      PROVE  i = j
  <2>1. CASE i \in 1..Len(ui) /\ j \in 1..Len(ui) /\ ui'[i] = ui[i] /\ ui'[j] = ui[j]
    BY <1>5, <2>1 DEF ToldInv
  <2>2. CASE i > Len(ui) /\ j > Len(ui)
    <3>1. ~(i \in 1..Len(ui)) /\ ~(j \in 1..Len(ui))
      BY <1>1, <2>2
    <3>2. /\ i - Len(ui) \in 1..Len(cs) /\ ui'[i] = cs[i - Len(ui)]
          /\ j - Len(ui) \in 1..Len(cs) /\ ui'[j] = cs[j - Len(ui)]
      BY <1>3, <3>1
    <3>3. i - Len(ui) = j - Len(ui)
      BY <1>5, <3>2
    <3>. QED  BY <1>1, <1>2, <3>3
  <2>3. ASSUME NEW a \in 1..Len(ui'), NEW b \in 1..Len(ui'), a \in 1..Len(ui), ui'[a] = ui[a],
               b - Len(ui) \in 1..Len(cs), ui'[b] = cs[b - Len(ui)],
               Tells(ui'[a]), Tells(ui'[b])
        PROVE  ui'[a].k # ui'[b].k
    BY <2>3 DEF ToldInv
  <2>. QED  BY <1>3, <1>5, <2>1, <2>2, <2>3
<1>. QED  BY <1>4, <1>5 DEF ToldInv, Tells

(* A new task has the number after the last.                               *)
LEMMA AppendingTask ==
  ASSUME ShapeInv, NEW r \in Task, tasks' = Append(tasks, r)
  PROVE  LET k == Len(tasks) + 1 IN
         /\ k \notin DOMAIN tasks /\ DOMAIN tasks' = DOMAIN tasks \cup {k} /\ tasks'[k] = r
         /\ \A j \in DOMAIN tasks : tasks'[j] = tasks[j]
<1>1. tasks \in Seq(Task) /\ Len(tasks) \in Nat /\ DOMAIN tasks = 1..Len(tasks)
  BY TasksAreCounted DEF ShapeInv
<1>2. /\ tasks' \in Seq(Task) /\ Len(tasks') = Len(tasks) + 1
      /\ tasks'[Len(tasks) + 1] = r
      /\ \A j \in 1..Len(tasks) : tasks'[j] = tasks[j]
  BY <1>1, AppendProperties
<1>3. DOMAIN tasks' = 1..Len(tasks) + 1
  BY <1>2, LenProperties
<1>. QED  BY <1>1, <1>2, <1>3

(* A fetch more, for which there is room.                                  *)
LEMMA FetchingOneMore ==
  ASSUME ShapeInv, NumbersInv, NEW v,
         Cardinality(Fetches) + 1 + Cardinality(Unreported) <= MaxFetches,
         Fetch(Cardinality(Fetches) + 1, v) \in Task,
         tasks' = Append(tasks, Fetch(Cardinality(Fetches) + 1, v)), list' = list
  PROVE  /\ NumbersInv' /\ Cardinality(Fetches)' = Cardinality(Fetches) + 1
         /\ Purchases' = Purchases /\ \A j \in DOMAIN tasks : tasks'[j] = tasks[j]
<1>. DEFINE k == Len(tasks) + 1
            r == Fetch(Cardinality(Fetches) + 1, v)
<1>1. /\ k \notin DOMAIN tasks /\ DOMAIN tasks' = DOMAIN tasks \cup {k} /\ tasks'[k] = r
      /\ \A j \in DOMAIN tasks : tasks'[j] = tasks[j]
  BY AppendingTask
<1>2. r.kind = "fetch" /\ r.n = Cardinality(Fetches) + 1
  BY DEF Fetch
<1>. HIDE DEF k, r
<1>3. Fetches' = Fetches \cup {k} /\ k \notin Fetches
  BY <1>1, <1>2 DEF Fetches
<1>4. Purchases' = Purchases
  BY <1>1, <1>2 DEF Purchases
<1>5. Unreported' = Unreported
  BY <1>1, <1>4 DEF Unreported, Purchases
<1>6. Cardinality(Fetches)' = Cardinality(Fetches) + 1
  BY <1>3, TasksAreCounted, FS_AddElement
<1>7. /\ Cardinality(Fetches) \in Nat /\ Cardinality(Unreported) \in Nat
      /\ \A j \in Fetches : tasks[j].n \in Int
  BY TasksAreCounted DEF Fetches, Task, FetchTask, BuyTask
<1>8. \A j \in Fetches' : tasks'[j].n <= Cardinality(Fetches) + 1
  <2>1. tasks'[k].n = Cardinality(Fetches) + 1
    BY <1>1, <1>2 DEF Fetch
  <2>2. ASSUME NEW j \in Fetches
        PROVE  tasks'[j].n <= Cardinality(Fetches) + 1
    <3>1. tasks[j].n <= Cardinality(Fetches) /\ tasks[j].n \in Int
      BY <1>7 DEF NumbersInv
    <3>2. tasks'[j] = tasks[j]
      BY <1>1, <1>2 DEF Fetches
    <3>3. tasks'[j].n = tasks[j].n
      BY ZenonT(40), <3>2
    <3>4. tasks[j].n <= Cardinality(Fetches) + 1
      BY <1>7, <3>1
    <3>. QED  BY ZenonT(40), <3>3, <3>4
  <2>3. Cardinality(Fetches) + 1 <= Cardinality(Fetches) + 1
    BY <1>7
  <2>4. tasks'[k].n <= Cardinality(Fetches) + 1
    BY ZenonT(40), <2>1, <2>3
  <2>. QED  BY ZenonT(40), <1>3, <2>2, <2>4
<1>9. list' = CartItself \/ list' \in 0..Cardinality(Fetches) + 1
  BY <1>7 DEF NumbersInv
<1>. QED  BY <1>1, <1>4, <1>5, <1>6, <1>7, <1>8, <1>9 DEF NumbersInv

(* A purchase more, for whose list there is room.                          *)
LEMMA BuyingOneMore ==
  ASSUME ShapeInv, NumbersInv, NEW order \in SUBSET Products,
         Cardinality(Fetches) + Cardinality(Unreported) < MaxFetches,
         tasks' = Append(tasks, Buy(order)), list' = list
  PROVE  /\ NumbersInv' /\ Fetches' = Fetches /\ Purchases \subseteq Purchases'
         /\ \A j \in DOMAIN tasks : tasks'[j] = tasks[j]
<1>. DEFINE k == Len(tasks) + 1
            r == Buy(order)
<1>1. /\ k \notin DOMAIN tasks /\ DOMAIN tasks' = DOMAIN tasks \cup {k} /\ tasks'[k] = r
      /\ \A j \in DOMAIN tasks : tasks'[j] = tasks[j]
  BY AppendingTask, BuyIsTask DEF Task
<1>2. r.kind = "buy" /\ r.pc = "asks"
  BY DEF Buy
<1>. HIDE DEF k, r
<1>3. Fetches' = Fetches
  BY <1>1, <1>2 DEF Fetches
<1>4. Purchases' = Purchases \cup {k}
  BY <1>1, <1>2 DEF Purchases
<1>5. Unreported' = Unreported \cup {k} /\ k \notin Unreported
  BY <1>1, <1>2, <1>4 DEF Unreported, Purchases
<1>6. Cardinality(Unreported)' = Cardinality(Unreported) + 1
  BY <1>5, TasksAreCounted, FS_AddElement
<1>7. Cardinality(Fetches) \in Nat /\ Cardinality(Unreported) \in Nat /\ MaxFetches \in Nat
  BY TasksAreCounted, CartAssumption
<1>8. \A j \in Fetches' : tasks'[j].n <= Cardinality(Fetches)
  BY <1>1, <1>3 DEF NumbersInv, Fetches
<1>9. Cardinality(Fetches)' + Cardinality(Unreported)' <= MaxFetches
  BY <1>3, <1>6, <1>7
<1>. QED  BY <1>1, <1>3, <1>4, <1>8, <1>9 DEF NumbersInv

(* A purchase that is reported waits for no list any more.                 *)
LEMMA ReportingOne ==
  ASSUME ShapeInv, NEW k \in Unreported
  PROVE  LET after == [tasks EXCEPT ![k].pc = "reported"] IN
         /\ DOMAIN after = DOMAIN tasks
         /\ \A j \in DOMAIN tasks : j # k => after[j] = tasks[j]
         /\ after[k].kind = "buy" /\ after[k].pc = "reported"
<1>1. k \in DOMAIN tasks /\ tasks[k] \in BuyTask
  BY TasksAreCounted DEF Unreported, Purchases, Task, FetchTask, BuyTask
<1>. QED  BY <1>1, TasksAreCounted DEF BuyTask

(* What was told stays told when nothing more is.                          *)
LEMMA TellingNothing ==
  ASSUME ToldInv, ui' = ui,
         \A j \in 1..Len(ui) : ui[j].what = "list" => ui[j].n <= Cardinality(Fetches)',
         \A j \in 1..Len(ui) :
           Tells(ui[j]) => ui[j].k \in Purchases' /\ tasks'[ui[j].k].pc = "over"
  PROVE  ToldInv'
BY DEF ToldInv, Tells

(* The lists that are to be shown have numbers.                            *)
LEMMA ShownAreNumbered ==
  ASSUME ShapeInv, NEW j \in 1..Len(ui), ui[j].what = "list"
  PROVE  ui[j].n \in 1..MaxFetches /\ ui[j].n \in Int
<1>1. ui[j] \in Closure
  BY ElementOfSeq DEF ShapeInv
<1>. QED  BY <1>1 DEF Closure

(* The user's steps keep the numbers.                                      *)
LEMMA UserCounts ==
  ASSUME ShapeInv, CountInv, User \/ LaysOut
  PROVE  CountInv'
<1>0. NumbersInv /\ ToldInv
  BY DEF CountInv
<1>1. /\ Cardinality(Fetches) \in Nat /\ Cardinality(Unreported) \in Nat /\ MaxFetches \in Nat
      /\ Purchases \subseteq DOMAIN tasks
  BY TasksAreCounted, CartAssumption DEF Purchases
<1>2. ASSUME UNCHANGED <<tasks, ui>>, list' \in {list, CartItself} PROVE CountInv'
  <2>1. UNCHANGED <<Fetches, Purchases, Unreported>>
    BY <1>2, SameTasks
  <2>2. NumbersInv'
    BY <1>0, <1>2, <2>1, SameNumbers
  <2>3. ToldInv'
    BY <1>0, <1>2, <2>1 DEF ToldInv, Tells
  <2>. QED  BY <2>2, <2>3 DEF CountInv
<1>3. ASSUME NEW v \in DOMAIN Lists \cup {"cart"}, Selects(v) PROVE CountInv'
  <2>1. SwitchState(v, count, cart, tasks) /\ v # view /\ ui' = ui
    BY <1>3 DEF Selects
  <2>2. CASE v = "cart"
    BY <1>2, <2>1, <2>2 DEF SwitchState
  <2>3. CASE v # "cart"
    <3>1. Cardinality(Fetches) + Cardinality(Unreported) < MaxFetches
      BY <1>3, <2>3 DEF Selects, Room, Unreported
    <3>2. Fetch(Cardinality(Fetches) + 1, v) \in Task
      BY <1>1, <2>3, <3>1 DEF Fetch, Task, FetchTask
    <3>3. tasks' = Append(tasks, Fetch(Cardinality(Fetches) + 1, v)) /\ list' = list
      BY <2>1, <2>3 DEF SwitchState
    <3>4. /\ NumbersInv' /\ Cardinality(Fetches)' = Cardinality(Fetches) + 1
          /\ Purchases' = Purchases /\ \A j \in DOMAIN tasks : tasks'[j] = tasks[j]
      BY <1>0, <1>1, <3>1, <3>2, <3>3, FetchingOneMore
    <3>5. \A j \in 1..Len(ui) : ui[j].what = "list" => ui[j].n <= Cardinality(Fetches)'
      BY <1>0, <1>1, <3>4, ShownAreNumbered DEF ToldInv
    <3>6. ToldInv'
      BY <1>0, <1>1, <2>1, <3>4, <3>5, TellingNothing DEF ToldInv
    <3>. QED  BY <3>4, <3>6 DEF CountInv
  <2>. QED  BY <2>2, <2>3
<1>4. ASSUME NEW x \in Items, Increases(x) \/ Decreases(x) PROVE CountInv'
  BY <1>2, <1>4 DEF Increases, Decreases
<1>5. ASSUME Buys PROVE CountInv'
  <2>. DEFINE order == {Pid(x) : x \in {y \in ToSet(cart) : quantity[y] > 0}}
  <2>1. ToSet(cart) \subseteq Items
    BY ElementOfSeq, LenProperties DEF ToSet, ShapeInv
  <2>2. order \in SUBSET Products
    BY <2>1 DEF Items, Pid
  <2>3. /\ tasks' = Append(tasks, Buy(order)) /\ UNCHANGED <<list, ui>>
        /\ Cardinality(Fetches) + Cardinality(Unreported) < MaxFetches
    BY <1>5 DEF Buys, Room, Unreported
  <2>. HIDE DEF order
  <2>4. /\ NumbersInv' /\ Fetches' = Fetches /\ Purchases \subseteq Purchases'
        /\ \A j \in DOMAIN tasks : tasks'[j] = tasks[j]
    BY <1>0, <2>2, <2>3, BuyingOneMore
  <2>5. ToldInv'
    BY <1>0, <1>1, <2>3, <2>4, TellingNothing DEF ToldInv
  <2>. QED  BY <2>4, <2>5 DEF CountInv
<1>6. ASSUME LaysOut PROVE CountInv'
  BY <1>2, <1>6 DEF LaysOut
<1>. QED  BY <1>3, <1>4, <1>5, <1>6 DEF User

(* ... and so do the closures of the main thread ...                       *)
LEMMA MainThreadCounts ==
  ASSUME ShapeInv, CountInv, MainThread
  PROVE  CountInv'
<1>0. NumbersInv /\ ToldInv
  BY DEF CountInv
<1>1. /\ Cardinality(Fetches) \in Nat /\ Cardinality(Unreported) \in Nat /\ MaxFetches \in Nat
      /\ Purchases \subseteq DOMAIN tasks
  BY TasksAreCounted, CartAssumption DEF Purchases
<1>2. ui # << >> /\ ui' = Tail(ui)
  BY DEF MainThread, SetsList, ShowsList, EmptiesCart, TellsUnbought, IsNext
<1>3. Len(ui) \in Nat /\ Len(ui) >= 1 /\ Head(ui) = ui[1]
  BY <1>2, LenProperties, HeadTailProperties, EmptySeq DEF ShapeInv
<1>4. ASSUME SetsList \/ ShowsList PROVE CountInv'
  <2>1. tasks' = tasks
    BY <1>4 DEF SetsList, ShowsList
  <2>2. UNCHANGED <<Fetches, Purchases, Unreported>>
    BY <2>1, SameTasks
  <2>3. list' \in {list, CartItself} \cup 0..Cardinality(Fetches)
    <3>1. CASE SetsList
      <4>1. list' = ui[1].n /\ ui[1].what = "list" /\ 1 \in 1..Len(ui)
        BY <1>3, <3>1 DEF SetsList, IsNext
      <4>2. ui[1].n \in 1..MaxFetches /\ ui[1].n <= Cardinality(Fetches)
        BY <1>0, <4>1, ShownAreNumbered DEF ToldInv
      <4>. QED  BY <1>1, <4>1, <4>2
    <3>2. CASE ShowsList
      BY <3>2 DEF ShowsList
    <3>. QED  BY <1>4, <3>1, <3>2
  <2>4. NumbersInv'
    BY <1>0, <2>1, <2>2, <2>3, SameNumbers
  <2>5. Cardinality(Fetches)' = Cardinality(Fetches)
    BY <2>2
  <2>6. \A j \in 2..Len(ui) : j \in 1..Len(ui)
    BY <1>3
  <2>7. ToldInv'
    BY <1>0, <1>1, <1>2, <2>1, <2>2, <2>5, <2>6, TellingOneLess DEF ToldInv
  <2>. QED  BY <2>4, <2>7 DEF CountInv
<1>5. ASSUME EmptiesCart \/ TellsUnbought
      PROVE  CountInv'
  <2>. DEFINE k     == Head(ui).k
              after == Reported(k)
              n     == Len(tasks) + 1
              r     == Fetch(Cardinality(Fetches) + 1, Suggested)
  <2>1. Tells(Head(ui))
    BY <1>5 DEF EmptiesCart, TellsUnbought, IsNext, Tells
  <2>2. k \in Unreported /\ k \in Purchases /\ tasks[k].pc = "over" /\ k \in DOMAIN tasks
    BY <1>1, <1>2, <2>1, RoomForSuggested
  <2>3. /\ DOMAIN after = DOMAIN tasks
        /\ \A j \in DOMAIN tasks : j # k => after[j] = tasks[j]
        /\ after[k].kind = "buy" /\ after[k].pc = "reported"
    BY <2>2, ReportingOne DEF Reported
  <2>4. after \in Seq(Task) /\ tasks \in Seq(Task) /\ Len(after) = Len(tasks)
    <3>1. after \in Seq(Task) /\ tasks \in Seq(Task)
      BY <2>2, PurchaseGoesOn DEF Reported, ShapeInv
    <3>. HIDE DEF after
    <3>. QED  BY <2>3, <3>1, LenProperties
  <2>5. tasks[k].kind = "buy"
    BY <2>2 DEF Purchases
  <2>6. \A j \in 2..Len(ui) : j \in 1..Len(ui) /\ (Tells(ui[j]) => ui[j].k # k)
    BY <1>0, <1>3, <2>1 DEF ToldInv
  <2>7. \/ tasks' = after /\ list' = list
        \/ tasks' = after /\ list' = CartItself
        \/ tasks' = Append(after, r) /\ list' = list
    BY <1>5, CartAssumption DEF EmptiesCart, TellsUnbought, SwitchState
  <2>. HIDE DEF k, after, n
  <2>8. ASSUME tasks' = after, list' \in {list, CartItself} PROVE CountInv'
    <3>1. Fetches' = Fetches /\ Purchases' = Purchases
      BY <2>2, <2>3, <2>5, <2>8 DEF Fetches, Purchases
    <3>2. Unreported' = Unreported \ {k}
      BY <2>3, <2>8, <3>1, <1>1 DEF Unreported
    <3>3. Cardinality(Unreported)' = Cardinality(Unreported) - 1
      BY <2>2, <3>2, TasksAreCounted, FS_RemoveElement
    <3>4. \A j \in Fetches : tasks'[j].n = tasks[j].n
      BY <2>3, <2>5, <2>8 DEF Fetches
    <3>5. Cardinality(Fetches)' + Cardinality(Unreported)' <= MaxFetches
      BY <1>0, <1>1, <3>1, <3>3 DEF NumbersInv
    <3>6. NumbersInv'
      BY <1>0, <2>8, <3>1, <3>4, <3>5 DEF NumbersInv
    <3>7. Cardinality(Fetches)' = Cardinality(Fetches)
      BY <3>1
    <3>8. \A j \in 2..Len(ui) : Tells(ui[j]) => ui[j].k \in Purchases' /\ tasks'[ui[j].k].pc = "over"
      BY <1>0, <1>1, <2>3, <2>6, <2>8, <3>1 DEF ToldInv
    <3>9. ToldInv'
      BY <1>0, <1>1, <1>2, <3>7, <3>8, TellingOneLess
    <3>. QED  BY <3>6, <3>9 DEF CountInv
  <2>9. ASSUME tasks' = Append(after, r), list' = list PROVE CountInv'
    <3>1. r.kind = "fetch" /\ r.n = Cardinality(Fetches) + 1
      BY DEF Fetch
    <3>2. r \in Task
      <4>1. Cardinality(Fetches) + 1 \in 1..MaxFetches
        BY <1>1, <1>2, <2>1, RoomForSuggested
      <4>. QED  BY <4>1, CartAssumption DEF Fetch, Task, FetchTask
    <3>. HIDE DEF r
    <3>3. /\ n \notin DOMAIN tasks /\ DOMAIN tasks' = DOMAIN tasks \cup {n} /\ tasks'[n] = r
          /\ \A j \in DOMAIN tasks : tasks'[j] = after[j]
      <4>1. /\ tasks' \in Seq(Task) /\ Len(tasks') = Len(after) + 1 /\ tasks'[Len(after) + 1] = r
            /\ \A j \in 1..Len(after) : tasks'[j] = after[j]
        BY <2>4, <2>9, <3>2, AppendProperties
      <4>2. /\ Len(tasks) \in Nat /\ DOMAIN tasks = 1..Len(tasks) /\ DOMAIN tasks' = 1..Len(tasks')
        BY <2>4, <4>1, LenProperties
      <4>. QED  BY <2>4, <4>1, <4>2 DEF n
    <3>4. Fetches' = Fetches \cup {n} /\ n \notin Fetches
      BY <2>2, <2>3, <2>5, <3>1, <3>3 DEF Fetches
    <3>5. Purchases' = Purchases
      BY <2>2, <2>3, <2>5, <3>1, <3>3 DEF Purchases
    <3>6. Unreported' = Unreported \ {k}
      BY <1>1, <2>3, <3>3, <3>5 DEF Unreported
    <3>7. /\ Cardinality(Unreported)' = Cardinality(Unreported) - 1
          /\ Cardinality(Fetches)' = Cardinality(Fetches) + 1
      BY <2>2, <3>4, <3>6, TasksAreCounted, FS_RemoveElement, FS_AddElement
    <3>8. \A j \in Fetches : tasks'[j] = tasks[j] /\ tasks[j].n \in Int
      BY <2>3, <2>5, <3>3, TasksAreCounted DEF Fetches, Task, FetchTask, BuyTask
    <3>9. \A j \in Fetches' : tasks'[j].n <= Cardinality(Fetches) + 1
      BY <1>0, <1>1, <3>1, <3>3, <3>4, <3>8 DEF NumbersInv
    <3>10. list' = CartItself \/ list' \in 0..Cardinality(Fetches) + 1
      BY <1>0, <1>1, <2>9 DEF NumbersInv
    <3>11. Cardinality(Fetches)' + Cardinality(Unreported)' <= MaxFetches
      BY <1>0, <1>1, <3>7 DEF NumbersInv
    <3>12. NumbersInv'
      BY <3>7, <3>9, <3>10, <3>11 DEF NumbersInv
    <3>13. \A j \in 2..Len(ui) : Tells(ui[j]) => ui[j].k \in Purchases' /\ tasks'[ui[j].k].pc = "over"
      BY <1>0, <1>1, <2>3, <2>6, <3>3, <3>5 DEF ToldInv
    <3>14. ToldInv'
      BY <1>0, <1>1, <1>2, <3>7, <3>13, TellingOneLess
    <3>. QED  BY <3>12, <3>14 DEF CountInv
  <2>. QED  BY <2>7, <2>8, <2>9
<1>. QED  BY <1>4, <1>5 DEF MainThread

(* ... and the tasks.                                                      *)
LEMMA BackgroundCounts ==
  ASSUME ShapeInv, CountInv, NEW k \in DOMAIN tasks, Background(k)
  PROVE  CountInv'
<1>0. NumbersInv /\ ToldInv
  BY DEF CountInv
<1>1. /\ Cardinality(Fetches) \in Nat /\ MaxFetches \in Nat /\ tasks[k] \in Task
      /\ k \in Nat /\ \A j \in DOMAIN tasks : tasks[j] \in Task
  BY TasksAreCounted, CartAssumption
<1>2. ASSUME NEW r, tasks' = [tasks EXCEPT ![k] = r], r.kind = tasks[k].kind,
             tasks[k].kind = "fetch" => r.n = tasks[k].n,
             r.pc # "reported", tasks[k].pc # "reported", list' = list
      PROVE  /\ UNCHANGED <<Fetches, Purchases, Unreported>> /\ NumbersInv'
             /\ Cardinality(Fetches)' = Cardinality(Fetches)
  <2>1. /\ DOMAIN tasks' = DOMAIN tasks
        /\ \A j \in DOMAIN tasks : tasks'[j] = IF j = k THEN r ELSE tasks[j]
    BY <1>2
  <2>2. UNCHANGED <<Fetches, Purchases, Unreported>>
    BY <1>2, <2>1, SameTasks
  <2>3. \A j \in Fetches : tasks'[j].n = tasks[j].n
    BY <1>2, <2>1 DEF Fetches
  <2>4. NumbersInv'
    BY <1>0, <1>2, <2>2, <2>3, SameNumbers
  <2>. QED  BY <2>2, <2>4
<1>3. ASSUME NEW r, tasks' = [tasks EXCEPT ![k] = r], r.kind = tasks[k].kind,
             tasks[k].kind = "fetch" => r.n = tasks[k].n,
             r.pc # "reported", tasks[k].pc \notin {"reported", "over"}, list' = list,
             NEW cs \in Seq(Closure), ui' = ui \o cs,
             \A j \in 1..Len(cs) :
               /\ cs[j].what = "list" => cs[j].n <= Cardinality(Fetches)
               /\ Tells(cs[j]) => cs[j].k = k /\ r.kind = "buy" /\ r.pc = "over",
             \A i, j \in 1..Len(cs) : Tells(cs[i]) /\ Tells(cs[j]) => i = j
      PROVE  CountInv'
  <2>1. /\ UNCHANGED <<Fetches, Purchases, Unreported>> /\ NumbersInv'
        /\ Cardinality(Fetches)' = Cardinality(Fetches)
    BY <1>2, <1>3
  <2>2. \A j \in DOMAIN tasks : tasks'[j] = IF j = k THEN r ELSE tasks[j]
    BY <1>3
  <2>3. \A j \in 1..Len(ui) :
          Tells(ui[j]) => ui[j].k \in Purchases' /\ tasks'[ui[j].k].pc = "over"
    BY <1>0, <1>3, <2>1, <2>2 DEF ToldInv, Purchases
  <2>4. r.kind = "buy" => k \in Purchases'
    BY <1>3, <2>1 DEF Purchases
  <2>5. \A j \in 1..Len(cs) :
          /\ cs[j].what = "list" => cs[j].n <= Cardinality(Fetches)
          /\ Tells(cs[j]) => /\ cs[j].k \in Purchases' /\ tasks'[cs[j].k].pc = "over"
                             /\ tasks[cs[j].k].pc # "over"
    BY <1>3, <2>2, <2>4
  <2>6. ToldInv'
    BY <1>0, <1>3, <2>1, <2>3, <2>5, TellingMore
  <2>. QED  BY <2>1, <2>6 DEF CountInv
<1>4. ASSUME NEW r, tasks' = [tasks EXCEPT ![k] = r], r.kind = tasks[k].kind,
             tasks[k].kind = "fetch" => r.n = tasks[k].n,
             r.pc # "reported", tasks[k].pc \notin {"reported", "over"}, list' = list, ui' = ui
      PROVE  CountInv'
  <2>. DEFINE cs == << >>
  <2>1. cs \in Seq(Closure) /\ 1..Len(cs) = {} /\ ui' = ui \o cs
    BY <1>4, EmptySeq, ConcatEmptySeq DEF ShapeInv
  <2>. HIDE DEF cs
  <2>2. \A j \in 1..Len(cs) : FALSE
    BY <2>1
  <2>. QED  BY <1>3, <1>4, <2>1, <2>2
<1>5. ASSUME NEW cs \in Seq(Closure), Posts(cs) PROVE ui' = ui \o cs
  BY <1>5 DEF Posts
<1>6. ASSUME NEW pc, tasks' = [tasks EXCEPT ![k].pc = pc]
      PROVE  LET r == [tasks[k] EXCEPT !.pc = pc] IN
             /\ tasks' = [tasks EXCEPT ![k] = r] /\ r.kind = tasks[k].kind /\ r.pc = pc
             /\ tasks[k].kind = "fetch" => r.n = tasks[k].n
  BY <1>1, <1>6 DEF Task, FetchTask, BuyTask
<1>7. ASSUME NEW r, tasks' = [tasks EXCEPT ![k] = r], r.kind = tasks[k].kind,
              tasks[k].kind = "fetch" => r.n = tasks[k].n,
              r.pc # "reported", tasks[k].pc \notin {"reported", "over"}, list' = list,
              NEW c \in Closure, ui' = ui \o <<c>>, c.what # "list",
              Tells(c) => c.k = k /\ r.kind = "buy" /\ r.pc = "over"
       PROVE  CountInv'
  <2>. DEFINE cs == <<c>>
  <2>1. cs \in Seq(Closure) /\ \A j \in 1..Len(cs) : cs[j] = c /\ j = 1
    <3>. HIDE DEF Closure
    <3>. QED  OBVIOUS
  <2>2. ui' = ui \o cs
    BY <1>7
  <2>. HIDE DEF cs
  <2>3. \A i, j \in 1..Len(cs) : i = j
    BY <2>1
  <2>4. \A j \in 1..Len(cs) :
          /\ cs[j].what = "list" => cs[j].n <= Cardinality(Fetches)
          /\ Tells(cs[j]) => cs[j].k = k /\ r.kind = "buy" /\ r.pc = "over"
    BY <1>7, <2>1
  <2>. QED  BY <1>3, <1>7, <2>1, <2>2, <2>3, <2>4
<1>8. ASSUME GetsList(k) PROVE CountInv'
  <2>1. tasks[k].pc = "asks" /\ list' = list
    BY <1>8 DEF GetsList, Runs
  <2>2. CASE tasks' = [tasks EXCEPT ![k].pc = "copy"] /\ ui' = ui
    <3>. DEFINE r == [tasks[k] EXCEPT !.pc = "copy"]
    <3>1. /\ tasks' = [tasks EXCEPT ![k] = r] /\ r.kind = tasks[k].kind /\ r.pc = "copy"
          /\ tasks[k].kind = "fetch" => r.n = tasks[k].n
      BY <1>6, <2>2
    <3>. HIDE DEF r
    <3>. QED  BY <1>4, <2>1, <2>2, <3>1
  <2>3. CASE tasks' = [tasks EXCEPT ![k].pc = "over"] /\ Posts(<<[what |-> "show"]>>)
    <3>1. [what |-> "show"] \in Closure /\ ~Tells([what |-> "show"])
      BY DEF Closure, Tells
    <3>2. ui' = ui \o <<[what |-> "show"]>>
      BY <2>3 DEF Posts
    <3>. DEFINE r == [tasks[k] EXCEPT !.pc = "over"]
                c == [what |-> "show"]
    <3>3. /\ tasks' = [tasks EXCEPT ![k] = r] /\ r.kind = tasks[k].kind /\ r.pc = "over"
          /\ tasks[k].kind = "fetch" => r.n = tasks[k].n
      BY <1>6, <2>3
    <3>4. c \in Closure /\ ~Tells(c) /\ c.what # "list" /\ ui' = ui \o <<c>>
      BY <3>1, <3>2
    <3>. HIDE DEF r, c
    <3>. QED  BY <1>7, <2>1, <3>3, <3>4
  <2>. QED  BY <1>8, <2>2, <2>3 DEF GetsList
<1>9. ASSUME CopiesQuantities(k) PROVE CountInv'
  <2>. DEFINE a  == [what |-> "list", n |-> tasks[k].n, view |-> tasks[k].view]
              b  == [what |-> "show"]
              cs == <<a, b>>
  <2>1. /\ tasks[k].pc = "copy" /\ tasks[k].kind = "fetch" /\ list' = list
        /\ tasks' = [tasks EXCEPT ![k].pc = "over"] /\ ui' = ui \o cs
    BY <1>9 DEF CopiesQuantities, Runs, Posts
  <2>2. k \in Fetches /\ tasks[k] \in FetchTask
    BY <1>1, <2>1 DEF Fetches, Task, FetchTask, BuyTask
  <2>3. /\ a \in Closure /\ b \in Closure /\ a.what = "list" /\ b.what = "show"
        /\ a.n <= Cardinality(Fetches)
    BY <1>0, <2>2 DEF Closure, FetchTask, NumbersInv
  <2>. HIDE DEF a, b
  <2>4. cs \in Seq(Closure) /\ Len(cs) = 2 /\ cs[1] = a /\ cs[2] = b
    <3>. HIDE DEF Closure
    <3>. QED  BY <2>3
  <2>. HIDE DEF cs
  <2>5. \A j \in 1..Len(cs) :
          ~Tells(cs[j]) /\ (cs[j].what = "list" => cs[j].n <= Cardinality(Fetches))
    BY <2>3, <2>4 DEF Tells
  <2>. QED  BY <1>3, <1>6, <2>1, <2>4, <2>5
<1>10. ASSUME GetsAnswer(k) PROVE CountInv'
  <2>1. tasks[k].pc = "asks" /\ list' = list /\ tasks[k].kind = "buy" /\ tasks[k] \in BuyTask
    BY <1>1, <1>10 DEF GetsAnswer, Runs, Task, FetchTask, BuyTask
  <2>2. CASE tasks' = [tasks EXCEPT ![k].pc = "over"] /\ Posts(<<[what |-> "bought", k |-> k]>>)
    <3>. DEFINE c == [what |-> "bought", k |-> k]
    <3>1. c \in Closure /\ c.what = "bought" /\ c.k = k
      BY <1>1 DEF Closure
    <3>2. ui' = ui \o <<c>>
      BY <2>2 DEF Posts
    <3>. HIDE DEF c
    <3>3. LET r == [tasks[k] EXCEPT !.pc = "over"] IN
          tasks' = [tasks EXCEPT ![k] = r] /\ r.kind = "buy" /\ r.pc = "over"
      BY <1>6, <2>1, <2>2
    <3>. QED  BY <1>7, <2>1, <3>1, <3>2, <3>3
  <2>3. ASSUME NEW unbought,
               tasks' = [tasks EXCEPT ![k].pc = "walk", ![k].unbought = unbought,
                                      ![k].before = cart],
               ui' = ui
        PROVE  CountInv'
    <3>. DEFINE r == [tasks[k] EXCEPT !.pc = "walk", !.unbought = unbought, !.before = cart]
    <3>1. r.kind = "buy" /\ r.pc = "walk" /\ tasks' = [tasks EXCEPT ![k] = r]
      BY <2>1, <2>3 DEF BuyTask
    <3>. HIDE DEF r
    <3>. QED  BY <1>4, <2>1, <2>3, <3>1
  <2>. QED  BY <1>10, <2>2, <2>3 DEF GetsAnswer
<1>11. ASSUME ToastThrows(k) PROVE CountInv'
  <2>1. UNCHANGED <<tasks, list, ui>>
    BY <1>11 DEF ToastThrows
  <2>2. UNCHANGED <<Fetches, Purchases, Unreported>>
    BY <2>1, SameTasks
  <2>. QED  BY <1>0, <2>1, <2>2 DEF CountInv, NumbersInv, ToldInv, Tells
<1>12. ASSUME KeepsItem(k) \/ DropsItem(k) PROVE CountInv'
  <2>1. /\ tasks[k].pc = "walk" /\ tasks[k].kind = "buy" /\ tasks[k] \in BuyTask
        /\ UNCHANGED <<list, ui>>
    BY <1>1, <1>12 DEF KeepsItem, DropsItem, Runs, Task, FetchTask, BuyTask
  <2>2. \E r : tasks' = [tasks EXCEPT ![k] = r] /\ r.kind = "buy" /\ r.pc = "walk"
    <3>1. CASE KeepsItem(k)
      <4>. DEFINE r == [tasks[k] EXCEPT !.i = @ + 1, !.found = @ + 1,
                                        !.sum = @ + quantity[cart[tasks[k].i]]]
      <4>1. tasks' = [tasks EXCEPT ![k] = r] /\ r.kind = "buy" /\ r.pc = "walk"
        BY <2>1, <3>1 DEF KeepsItem, BuyTask
      <4>. QED  BY <4>1
    <3>2. CASE DropsItem(k)
      <4>. DEFINE r == [tasks[k] EXCEPT !.i = AfterRemoval(@)]
      <4>1. tasks' = [tasks EXCEPT ![k] = r] /\ r.kind = "buy" /\ r.pc = "walk"
        BY <2>1, <3>2 DEF DropsItem, BuyTask
      <4>. QED  BY <4>1
    <3>. QED  BY <1>12, <3>1, <3>2
  <2>. QED  BY <1>4, <2>1, <2>2
<1>13. ASSUME EndsWalk(k) PROVE CountInv'
  <2>. DEFINE r == [Buy(tasks[k].order) EXCEPT !.pc = "over"]
              c == [what |-> "unbought", k |-> k]
  <2>1. /\ tasks[k].pc = "walk" /\ tasks[k].kind = "buy" /\ list' = list
        /\ tasks' = [tasks EXCEPT ![k] = r] /\ ui' = ui \o <<c>>
    BY <1>13 DEF EndsWalk, Runs, Posts, Result
  <2>2. r.kind = "buy" /\ r.pc = "over"
    BY DEF Buy
  <2>3. c \in Closure /\ c.what = "unbought" /\ c.k = k
    BY <1>1 DEF Closure
  <2>. HIDE DEF r, c
  <2>. QED  BY <1>7, <2>1, <2>2, <2>3
<1>. QED  BY <1>8, <1>9, <1>10, <1>11, <1>12, <1>13 DEF Background

-----------------------------------------------------------------------------
(* The invariant                                                           *)

CartInv == ShapeInv /\ CountInv

(* At the start the first list is being fetched.                           *)
LEMMA CartInit == Init => CartInv
<1>. SUFFICES ASSUME Init PROVE CartInv
  OBVIOUS
<1>1. Fetch(1, FirstView) \in Task
  BY CartAssumption DEF Fetch, Task, FetchTask
<1>2. << >> \in Seq(Items) /\ << >> \in Seq(Closure) /\ Len(<< >>) = 0
  BY EmptySeq
<1>3. quantity \in [Items -> 0..MaxQuantity]
  <2>1. 0 \in 0..MaxQuantity
    BY CartAssumption
  <2>. QED  BY <2>1 DEF Init
<1>4. /\ tasks = <<Fetch(1, FirstView)>> /\ tasks \in Seq(Task) /\ DOMAIN tasks = {1}
      /\ tasks[1].kind = "fetch" /\ tasks[1].n = 1
  <2>1. Fetch(1, FirstView).kind = "fetch" /\ Fetch(1, FirstView).n = 1
    BY DEF Fetch
  <2>2. tasks = <<Fetch(1, FirstView)>>
    BY DEF Init
  <2>. QED  BY <1>1, <2>1, <2>2
<1>5. ShapeInv
  <2>1. [rows |-> FALSE, buy |-> FALSE] \in [rows : BOOLEAN, buy : BOOLEAN]
    OBVIOUS
  <2>2. OncePerProduct(<< >>)
    BY <1>2 DEF OncePerProduct
  <2>3. /\ died \in BOOLEAN /\ raced \in BOOLEAN /\ count \in Int
        /\ cart \in Seq(Items) /\ OncePerProduct(cart) /\ rows \in Seq(Items)
        /\ view \in DOMAIN Lists \cup {"cart"} /\ ui \in Seq(Closure)
        /\ visible \in [rows : BOOLEAN, buy : BOOLEAN]
    <3>1. /\ died = FALSE /\ raced = FALSE /\ count = 0 /\ cart = << >> /\ rows = << >>
          /\ view = FirstView /\ ui = << >> /\ visible = [rows |-> FALSE, buy |-> FALSE]
      BY DEF Init
    <3>2. cart \in Seq(Items) /\ OncePerProduct(cart) /\ rows \in Seq(Items) /\ ui \in Seq(Closure)
      BY <1>2, <2>2, <3>1, Zenon
    <3>3. visible \in [rows : BOOLEAN, buy : BOOLEAN]
      BY <2>1, <3>1
    <3>4. died \in BOOLEAN /\ raced \in BOOLEAN /\ count \in Int
      <4>1. count \in Int
        BY <3>1
      <4>2. died \in BOOLEAN /\ raced \in BOOLEAN
        BY <3>1, Zenon
      <4>. QED  BY <4>1, <4>2
    <3>5. view \in DOMAIN Lists \cup {"cart"}
      BY <3>1, CartAssumption
    <3>. QED  BY <3>2, <3>3, <3>4, <3>5
  <2>. QED  BY <1>3, <1>4, <2>3 DEF ShapeInv
<1>6. Fetches = {1} /\ Unreported = {}
  BY <1>4 DEF Fetches, Unreported, Purchases
<1>7. Cardinality(Fetches) = 1 /\ Cardinality(Unreported) = 0
  BY <1>6, FS_EmptySet, FS_Singleton
<1>8. CountInv
  BY <1>2, <1>4, <1>6, <1>7, CartAssumption DEF Init, CountInv, NumbersInv, ToldInv
<1>. QED  BY <1>5, <1>8 DEF CartInv

(* The two parts of the invariant carry each other.                        *)
LEMMA CartStep == CartInv /\ [Next]_vars => CartInv'
<1>. SUFFICES ASSUME CartInv, [Next]_vars PROVE CartInv'
  OBVIOUS
<1>0. ShapeInv /\ CountInv
  BY DEF CartInv
<1>1. CASE User \/ LaysOut
  BY <1>0, <1>1, UserKeepsShape, UserCounts DEF CartInv
<1>2. CASE MainThread
  BY <1>0, <1>2, MainThreadKeepsShape, MainThreadCounts DEF CartInv
<1>3. CASE Pool
  BY <1>0, <1>3, BackgroundKeepsShape, BackgroundCounts DEF CartInv, Pool
<1>4. CASE UNCHANGED vars
  <2>1. ShapeInv'
    BY <1>0, <1>4 DEF vars, ShapeInv
  <2>2. UNCHANGED <<Fetches, Purchases, Unreported>>
    BY <1>4, SameTasks DEF vars
  <2>3. CountInv'
    BY <1>0, <1>4, <2>2 DEF vars, CountInv, NumbersInv, ToldInv, Tells
  <2>. QED  BY <2>1, <2>3 DEF CartInv
<1>. QED  BY <1>1, <1>2, <1>3, <1>4 DEF Next, Stops

(* So the invariant holds.                                                 *)
LEMMA CartHolds == Spec => []CartInv
BY CartInit, CartStep, PTL DEF Spec

-----------------------------------------------------------------------------
(* The walk through the cart                                               *)

(* The places of the cart b that are left when its first p items have been *)
(* walked over, of which those of the products u stay.                     *)
Kept(b, u, p) == {j \in 1..Len(b) : j > p \/ Pid(b[j]) \in u}

(* How far the walk is: p items of b are behind it, c is the cart by now,  *)
(* i its index, g the places in b that the items of c come from, q the     *)
(* quantities.  When all of u are found the last one was just passed.      *)
Place(b, u, q, c, i, found, p, g) ==
  /\ p \in 0..Len(b) /\ Len(c) - (i - 1) = Len(b) - p /\ found = i - 1
  /\ g \in [1..Len(c) -> Kept(b, u, p)]
  /\ \A m, n \in 1..Len(c) : m < n => g[m] < g[n]
  /\ \A j \in Kept(b, u, p) : \E n \in 1..Len(c) : g[n] = j
  /\ \A n \in 1..Len(c) :
       c[n] = b[g[n]] /\ IF n < i THEN g[n] <= p ELSE g[n] = n - i + 1 + p
  /\ \A j \in 1..p : Pid(b[j]) \notin u => q[b[j]] = 0
  /\ found = Cardinality(u) => i > 1 /\ g[i - 1] = p

WalkedTo(t, c, q) == \E p, g : Place(t.before, t.unbought, q, c, t.i, t.found, p, g)

(* What is known of a purchase that walks, as long as nobody meets it, and *)
(* of one that will.                                                       *)
WalkInvOf(t) ==
  /\ IsFiniteSet(t.order)
  /\ t.pc = "asks" => t.i = 1 /\ t.found = 0
  /\ t.pc = "walk" =>
       /\ t.unbought \subseteq t.order /\ t.unbought # {}
       /\ OncePerProduct(t.before)
       /\ ~raced => WalkedTo(t, cart, quantity)

WalkInv == \A k \in Purchases : WalkInvOf(tasks[k])

(* The walk begins with all of the cart before it.                         *)
LEMMA WalkBegins ==
  ASSUME NEW b \in Seq(Items), NEW u, IsFiniteSet(u), u # {}, NEW q
  PROVE  Place(b, u, q, b, 1, 0, 0, [n \in 1..Len(b) |-> n])
<1>1. Len(b) \in Nat
  BY LenProperties
<1>2. Kept(b, u, 0) = 1..Len(b)
  BY <1>1 DEF Kept
<1>3. Cardinality(u) # 0
  BY FS_EmptySet
<1>. QED  BY <1>1, <1>2, <1>3 DEF Place

(* It passes an item that was not bought ...                               *)
LEMMA WalkPasses ==
  ASSUME NEW b \in Seq(Items), NEW c \in Seq(Items), NEW u, NEW q, NEW i \in Nat \ {0},
         NEW found, NEW p, NEW g, Place(b, u, q, c, i, found, p, g),
         i \in 1..Len(c), Pid(c[i]) \in u
  PROVE  Place(b, u, q, c, i + 1, found + 1, p + 1, g)
<1>1. Len(b) \in Nat /\ Len(c) \in Nat
  BY LenProperties
<1>2. /\ p \in 0..Len(b) /\ Len(c) - (i - 1) = Len(b) - p /\ found = i - 1
      /\ c[i] = b[g[i]] /\ g[i] = p + 1
  BY <1>1 DEF Place
<1>3. p + 1 \in 1..Len(b) /\ Len(c) - i = Len(b) - (p + 1)
  BY <1>1, <1>2
<1>4. Pid(b[p + 1]) \in u
  BY <1>2
<1>5. Kept(b, u, p + 1) = Kept(b, u, p)
  BY <1>1, <1>2, <1>4 DEF Kept
<1>6. ASSUME NEW n \in 1..Len(c)
      PROVE  c[n] = b[g[n]] /\ IF n < i + 1 THEN g[n] <= p + 1 ELSE g[n] = n - (i + 1) + 1 + (p + 1)
  <2>1. c[n] = b[g[n]] /\ IF n < i THEN g[n] <= p ELSE g[n] = n - i + 1 + p
    BY DEF Place
  <2>2. g[n] \in Int
    <3>1. g \in [1..Len(c) -> Kept(b, u, p)]
      BY DEF Place
    <3>. QED  BY <3>1 DEF Kept
  <2>. QED  BY <1>1, <1>2, <2>1, <2>2
<1>7. ASSUME NEW j \in 1..p + 1, Pid(b[j]) \notin u
      PROVE  q[b[j]] = 0
  <2>1. j # p + 1
    BY <1>4, <1>7
  <2>2. j \in 1..p
    BY <1>2, <2>1
  <2>. QED  BY <1>7, <2>2 DEF Place
<1>. QED  BY <1>1, <1>2, <1>3, <1>5, <1>6, <1>7 DEF Place

(* ... and drops any other.                                                *)
LEMMA WalkDrops ==
  ASSUME NEW b \in Seq(Items), NEW c \in Seq(Items), NEW u, NEW i \in Nat \ {0},
         NEW q, NEW r, \A x : x # c[i] => r[x] = q[x], r[c[i]] = 0,
         NEW found, NEW p, NEW g, Place(b, u, q, c, i, found, p, g),
         i \in 1..Len(c), Pid(c[i]) \notin u, found # Cardinality(u)
  PROVE  \E h : Place(b, u, r, RemoveAt(c, i), i, found, p + 1, h)
<1>. DEFINE d == RemoveAt(c, i)
            h == [n \in 1..Len(d) |-> IF n < i THEN g[n] ELSE g[n + 1]]
<1>1. Len(b) \in Nat /\ Len(c) \in Nat
  BY LenProperties
<1>2. /\ p \in 0..Len(b) /\ Len(c) - (i - 1) = Len(b) - p /\ found = i - 1
      /\ c[i] = b[g[i]] /\ g[i] = p + 1
  BY <1>1 DEF Place
<1>3. p + 1 \in 1..Len(b) /\ Pid(b[p + 1]) \notin u
  BY <1>1, <1>2
<1>4. \A j : j \in Kept(b, u, p + 1) <=> j \in Kept(b, u, p) /\ j # p + 1
  BY <1>1, <1>2, <1>3 DEF Kept
<1>5. /\ Len(d) = Len(c) - 1
      /\ \A n \in 1..Len(c) - 1 : d[n] = IF n < i THEN c[n] ELSE c[n + 1]
  <2>1. c \in Seq(Items) /\ i \in 1..Len(c)
    OBVIOUS
  <2>. HIDE DEF h
  <2>. QED  BY ONLY <2>1, RemoveAtElements
<1>. HIDE DEF d
<1>6. /\ \A n \in 1..Len(c) : g[n] \in Kept(b, u, p) /\ g[n] \in Int
      /\ \A m, n \in 1..Len(c) : m < n => g[m] < g[n]
      /\ \A j \in Kept(b, u, p) : \E n \in 1..Len(c) : g[n] = j
      /\ \A n \in 1..Len(c) :
           c[n] = b[g[n]] /\ IF n < i THEN g[n] <= p ELSE g[n] = n - i + 1 + p
  <2>1. /\ g \in [1..Len(c) -> Kept(b, u, p)] /\ \A j \in Kept(b, u, p) : j \in Int
    BY DEF Place, Kept
  <2>. QED  BY <2>1 DEF Place
<1>7. ASSUME NEW n \in 1..Len(d)
      PROVE  LET m == IF n < i THEN n ELSE n + 1 IN
             m \in 1..Len(c) /\ m # i /\ h[n] = g[m] /\ d[n] = c[m]
  BY <1>1, <1>5
<1>8. h \in [1..Len(d) -> Kept(b, u, p + 1)]
  <2>1. ASSUME NEW n \in 1..Len(d)
        PROVE  h[n] \in Kept(b, u, p + 1)
    <3>. DEFINE m == IF n < i THEN n ELSE n + 1
    <3>1. m \in 1..Len(c) /\ m # i /\ h[n] = g[m]
      BY <1>7
    <3>. HIDE DEF m, h
    <3>2. m < i \/ i < m
      BY <1>1, <3>1
    <3>3. g[m] # p + 1
      BY <1>2, <1>6, <3>1, <3>2
    <3>. QED  BY <1>4, <1>6, <3>1, <3>3
  <2>. QED  BY <2>1
<1>9. ASSUME NEW a \in 1..Len(d), NEW e \in 1..Len(d), a < e
      PROVE  h[a] < h[e]
  <2>. DEFINE m == IF a < i THEN a ELSE a + 1
              n == IF e < i THEN e ELSE e + 1
  <2>1. m \in 1..Len(c) /\ n \in 1..Len(c) /\ h[a] = g[m] /\ h[e] = g[n]
    BY <1>7
  <2>2. m < n
    BY <1>1, <1>5, <1>9
  <2>. HIDE DEF m, n, h
  <2>. QED  BY <1>6, <2>1, <2>2
<1>10. ASSUME NEW j \in Kept(b, u, p + 1)
       PROVE  \E n \in 1..Len(d) : h[n] = j
  <2>1. j \in Kept(b, u, p) /\ j # p + 1
    BY <1>4
  <2>2. PICK m \in 1..Len(c) : g[m] = j
    BY <1>6, <2>1
  <2>3. m # i
    BY <1>2, <2>1, <2>2
  <2>. DEFINE n == IF m < i THEN m ELSE m - 1
  <2>4. n \in 1..Len(d) /\ h[n] = g[m]
    BY <1>1, <1>5, <2>3
  <2>. QED  BY <2>2, <2>4
<1>11. ASSUME NEW n \in 1..Len(d)
       PROVE  d[n] = b[h[n]] /\ IF n < i THEN h[n] <= p + 1 ELSE h[n] = n - i + 1 + (p + 1)
  <2>. DEFINE m == IF n < i THEN n ELSE n + 1
  <2>1. m \in 1..Len(c) /\ h[n] = g[m] /\ d[n] = c[m]
    BY <1>7
  <2>2. c[m] = b[g[m]] /\ (IF m < i THEN g[m] <= p ELSE g[m] = m - i + 1 + p) /\ g[m] \in Int
    <3>. HIDE DEF m
    <3>. QED  BY <1>6, <2>1
  <2>3. IF n < i THEN g[m] <= p + 1 ELSE g[m] = n - i + 1 + (p + 1)
    BY <1>1, <1>2, <2>2
  <2>. HIDE DEF m, h
  <2>. QED  BY <2>1, <2>2, <2>3
<1>12. ASSUME NEW j \in 1..p + 1, Pid(b[j]) \notin u
       PROVE  r[b[j]] = 0
  <2>1. CASE b[j] = c[i]
    BY <2>1
  <2>2. CASE b[j] # c[i]
    <3>1. j # p + 1
      BY <1>2, <2>2
    <3>2. j \in 1..p
      BY <1>2, <3>1
    <3>3. q[b[j]] = 0
      BY <1>12, <3>2 DEF Place
    <3>. QED  BY <2>2, <3>3
  <2>. QED  BY <2>1, <2>2
<1>13. p + 1 \in 0..Len(b) /\ Len(d) - (i - 1) = Len(b) - (p + 1)
  BY <1>1, <1>2, <1>3, <1>5
<1>14. Place(b, u, r, d, i, found, p + 1, h)
  <2>. HIDE DEF h
  <2>. QED  BY <1>2, <1>8, <1>9, <1>10, <1>11, <1>12, <1>13 DEF Place
<1>. QED  BY <1>14 DEF d

(* As many values as there are places, if they are different.              *)
LEMMA DifferentValues ==
  ASSUME NEW n \in Nat, NEW f, \A i, j \in 1..n : f[i] = f[j] => i = j,
         NEW I, \A i \in 1..n : f[i] \in I, \A y \in I : \E i \in 1..n : f[i] = y
  PROVE  IsFiniteSet(I) /\ Cardinality(I) = n
<1>. DEFINE T == 1..n
            h == [i \in T |-> f[i]]
<1>1. IsFiniteSet(T) /\ Cardinality(T) = n
  BY FS_Interval
<1>2. \A i, j \in T : h[i] = h[j] => i = j
  OBVIOUS
<1>3. h \in [T -> I] /\ \A y \in I : \E i \in T : h[i] = y
  OBVIOUS
<1>4. h \in Bijection(T, I)
  <2>. HIDE DEF T, h
  <2>1. IsInjective(h)
    BY <1>2, <1>3 DEF IsInjective
  <2>. QED  BY <1>3, <2>1 DEF Bijection, Injection, Surjection
<1>5. ExistsBijection(T, I)
  BY <1>4 DEF ExistsBijection
<1>. HIDE DEF T, h
<1>. QED  BY <1>1, <1>5, FS_Bijection

(* When it is over, what is left is what should be, and what is not left   *)
(* has quantity 0.                                                         *)
LEMMA WalkEndsWell ==
  ASSUME NEW b \in Seq(Items), OncePerProduct(b), NEW c \in Seq(Items),
         NEW u, IsFiniteSet(u), NEW q, NEW i \in Nat \ {0}, NEW found, NEW p, NEW g,
         Place(b, u, q, c, i, found, p, g), i > Len(c) \/ found = Cardinality(u)
  PROVE  IsLeft(c, b, u) /\ \A x \in ToSet(b) \ ToSet(c) : q[x] = 0
<1>. DEFINE at == {j \in DOMAIN b : Pid(b[j]) \in u}
            K  == Kept(b, u, p)
            k  == i - 1
            S  == {g[n] : n \in 1..k}
<1>1. /\ Len(b) \in Nat /\ Len(c) \in Nat /\ DOMAIN b = 1..Len(b) /\ DOMAIN c = 1..Len(c)
  BY LenProperties
<1>2. /\ p \in 0..Len(b) /\ Len(c) - (i - 1) = Len(b) - p /\ found = i - 1
      /\ i - 1 \in Nat /\ i - 1 <= Len(c)
  BY <1>1 DEF Place
<1>3. /\ g \in [1..Len(c) -> K]
      /\ \A m, n \in 1..Len(c) : m < n => g[m] < g[n]
      /\ \A j \in K : \E n \in 1..Len(c) : g[n] = j
      /\ \A n \in 1..Len(c) :
           c[n] = b[g[n]] /\ IF n < i THEN g[n] <= p ELSE g[n] = n - i + 1 + p
      /\ \A j \in 1..p : Pid(b[j]) \notin u => q[b[j]] = 0
      /\ found = Cardinality(u) => i > 1 /\ g[i - 1] = p
  BY DEF Place
<1>4. \A j : j \in K <=> j \in 1..Len(b) /\ (j > p \/ j \in at)
  BY <1>1 DEF Kept
<1>5. \A n \in 1..Len(c) : g[n] \in K /\ g[n] \in 1..Len(b)
  <2>1. \A n \in 1..Len(c) : g[n] \in K
    <3>. HIDE DEF K
    <3>. QED  BY <1>3
  <2>. QED  BY <1>4, <2>1
<1>6. \A j : j \in at <=> j \in 1..Len(b) /\ Pid(b[j]) \in u
  BY <1>1
<1>. HIDE DEF K, at
<1>7. \A n \in 1..i - 1 : n \in 1..Len(c) /\ g[n] <= p /\ g[n] \in at /\ Pid(b[g[n]]) \in u
  <2>. SUFFICES ASSUME NEW n \in 1..i - 1
                PROVE  n \in 1..Len(c) /\ g[n] <= p /\ g[n] \in at /\ Pid(b[g[n]]) \in u
    OBVIOUS
  <2>1. n \in 1..Len(c) /\ n < i
    BY <1>1, <1>2
  <2>2. g[n] <= p /\ g[n] \in K /\ g[n] \in 1..Len(b)
    BY <1>3, <1>5, <2>1
  <2>3. ~(g[n] > p)
    BY <1>2, <2>2
  <2>4. g[n] \in at
    BY <1>4, <2>2, <2>3
  <2>. QED  BY <1>6, <2>1, <2>2, <2>4
<1>8. \A m, n \in 1..i - 1 : g[m] = g[n] => m = n
  <2>. SUFFICES ASSUME NEW m \in 1..i - 1, NEW n \in 1..i - 1, g[m] = g[n], m # n
                PROVE  FALSE
    OBVIOUS
  <2>1. m \in 1..Len(c) /\ n \in 1..Len(c) /\ g[m] \in Int /\ (m < n \/ n < m)
    BY <1>2, <1>5, <1>7
  <2>. QED  BY <1>3, <2>1
<1>9. Cardinality(S) = i - 1
  <2>1. /\ k \in Nat /\ \A m, n \in 1..k : g[m] = g[n] => m = n
        /\ (\A n \in 1..k : g[n] \in S) /\ \A y \in S : \E n \in 1..k : g[n] = y
    BY <1>2, <1>8
  <2>. HIDE DEF k, S
  <2>2. Cardinality(S) = k
    BY <2>1, DifferentValues, ZenonT(60)
  <2>. QED  BY <2>2 DEF k
<1>10. S \subseteq at
  BY <1>7
<1>11. ASSUME NEW j \in at, j <= p
       PROVE  j \in S
  <2>1. j \in K
    BY <1>4, <1>6
  <2>2. PICK n \in 1..Len(c) : g[n] = j
    BY <1>3, <2>1
  <2>3. n < i
    <3>. SUFFICES ASSUME ~(n < i) PROVE FALSE
      OBVIOUS
    <3>1. j = n - i + 1 + p
      BY <1>3, <2>2
    <3>. QED  BY <1>1, <1>2, <1>11, <3>1
  <2>4. n \in 1..i - 1
    BY <1>2, <2>3
  <2>. QED  BY <2>2, <2>4
<1>. HIDE DEF S
<1>. DEFINE Highest(j) == \A m \in at : m <= j
            stop == IF Cardinality(at) = Cardinality(u) THEN CHOOSE j \in at : Highest(j) ELSE Len(b)
<1>12. at \cup (stop + 1..Len(b)) = K
  <2>1. CASE found = Cardinality(u)
    <3>. DEFINE f == [n \in 1..i - 1 |-> Pid(b[g[n]])]
                R == {f[n] : n \in 1..k}
    <3>1. ASSUME NEW m \in 1..i - 1, NEW n \in 1..i - 1, f[m] = f[n]
          PROVE  m = n
      <4>1. g[m] \in 1..Len(b) /\ g[n] \in 1..Len(b) /\ Pid(b[g[m]]) = Pid(b[g[n]])
        BY <1>5, <1>7, <3>1
      <4>2. g[m] = g[n]
        BY <4>1 DEF OncePerProduct
      <4>. QED  BY <1>8, <4>2
    <3>2. R \subseteq u /\ \A x \in R : \E n \in 1..i - 1 : x = Pid(b[g[n]])
      BY <1>7
    <3>. HIDE DEF f
    <3>3. Cardinality(R) = i - 1
      <4>1. /\ k \in Nat /\ \A m, n \in 1..k : f[m] = f[n] => m = n
            /\ (\A n \in 1..k : f[n] \in R) /\ \A y \in R : \E n \in 1..k : f[n] = y
        BY <1>2, <3>1
      <4>. HIDE DEF k, R
      <4>2. Cardinality(R) = k
        BY <4>1, DifferentValues, ZenonT(60)
      <4>. QED  BY <4>2 DEF k
    <3>. HIDE DEF R
    <3>4. R = u
      BY <1>2, <2>1, <3>2, <3>3, FS_Subset
    <3>5. ASSUME NEW j \in at
          PROVE  j <= p
      <4>1. j \in 1..Len(b) /\ Pid(b[j]) \in R
        BY <1>6, <3>4
      <4>2. PICK n \in 1..i - 1 : Pid(b[j]) = Pid(b[g[n]])
        BY <3>2, <4>1
      <4>3. g[n] \in 1..Len(b) /\ g[n] <= p
        BY <1>5, <1>7
      <4>4. j = g[n]
        BY <4>1, <4>2, <4>3 DEF OncePerProduct
      <4>. QED  BY <4>3, <4>4
    <3>6. at = S
      BY <1>10, <1>11, <3>5
    <3>7. i - 1 \in 1..i - 1
      BY <1>2, <1>3, <2>1
    <3>8. p \in at
      BY <1>3, <1>7, <2>1, <3>7
    <3>9. Highest(p) /\ \A j \in at : Highest(j) => j = p
      <4>1. \A j \in at : j \in Int /\ p \in Int
        BY <1>2, <1>6
      <4>. QED  BY <3>5, <3>8, <4>1
    <3>10. (CHOOSE j \in at : Highest(j)) = p
      <4>. HIDE DEF Highest
      <4>. QED  BY <3>8, <3>9
    <3>11. stop = p
      BY <1>2, <1>9, <2>1, <3>6, <3>10
    <3>. HIDE DEF stop
    <3>12. \A j : j \in p + 1..Len(b) <=> j \in 1..Len(b) /\ j > p
      BY <1>1, <1>2
    <3>. QED  BY <1>4, <1>6, <3>11, <3>12
  <2>2. CASE found # Cardinality(u)
    <3>1. p = Len(b)
      <4>1. i > Len(c) /\ i \in Int
        BY <2>2
      <4>2. i - 1 = Len(c)
        BY ONLY <1>1, <1>2, <4>1
      <4>3. Len(b) \in Int /\ p \in Int /\ Len(b) - p = Len(c) - (i - 1) /\ Len(c) \in Int
        BY <1>1, <1>2
      <4>. QED  BY ONLY <4>2, <4>3
    <3>2. at = S
      <4>1. \A j \in at : j <= p
        BY <1>6, <3>1
      <4>. QED  BY <1>10, <1>11, <4>1
    <3>3. stop = Len(b)
      BY <1>2, <1>9, <2>2, <3>2
    <3>. HIDE DEF stop
    <3>4. \A j : j \notin Len(b) + 1..Len(b) /\ ~(j \in 1..Len(b) /\ j > p)
      BY <1>1, <3>1
    <3>. QED  BY <1>4, <1>6, <3>3, <3>4
  <2>. QED  BY <2>1, <2>2
<1>13. AtPlaces(c, b, K)
  <2>1. g \in [DOMAIN c -> K]
    BY <1>1, <1>3
  <2>2. /\ \A m, n \in DOMAIN c : m < n => g[m] < g[n]
        /\ \A j \in K : \E n \in DOMAIN c : g[n] = j
        /\ \A n \in DOMAIN c : c[n] = b[g[n]]
    BY <1>1, <1>3
  <2>. QED  BY <2>1, <2>2, Zenon DEF AtPlaces
<1>14. IsLeft(c, b, u)
  BY <1>12, <1>13 DEF IsLeft, at
<1>15. ASSUME NEW x \in ToSet(b) \ ToSet(c)
       PROVE  q[x] = 0
  <2>1. PICK j \in 1..Len(b) : x = b[j]
    BY <1>1 DEF ToSet
  <2>2. j \notin K
    <3>. SUFFICES ASSUME j \in K PROVE FALSE
      OBVIOUS
    <3>1. PICK n \in 1..Len(c) : g[n] = j
      BY <1>3
    <3>2. c[n] = x
      BY <1>3, <2>1, <3>1
    <3>. QED  BY <1>1, <3>2 DEF ToSet
  <2>3. j \in 1..p /\ Pid(b[j]) \notin u
    BY <1>2, <1>4, <1>6, <2>2
  <2>. QED  BY <1>3, <2>1, <2>3
<1>. QED  BY <1>14, <1>15

-----------------------------------------------------------------------------
(* What a step does to the purchases                                       *)

Untouched == cart' = cart /\ quantity' = quantity

(* It leaves one alone, and the cart as well, unless it meets its walk ... *)
Spared(k) == k \in DOMAIN tasks /\ tasks'[k] = tasks[k] /\ (Walks(k) => raced' \/ Untouched)

(* ... ends one that does not walk, or reports it ...                      *)
Ended(k) ==
  /\ k \in Purchases /\ ~Walks(k)
  /\ tasks'[k].order = tasks[k].order /\ tasks'[k].pc \in {"over", "reported"}

(* ... or begins one.  Fetches are no purchases.                           *)
Begun(k)   == k \notin Purchases /\ \E order : IsFiniteSet(order) /\ tasks'[k] = Buy(order)
NoBuyer(k) == k \notin Purchases /\ tasks'[k].kind = "fetch"

GetsPart(k) == GetsAnswer(k) /\ tasks'[k].pc = "walk"

(* Who meets a walk races with it.                                         *)
LEMMA MeetingRaces ==
  ASSUME NEW me, NEW changes, Meets(me, changes), NEW k \in DOMAIN tasks, k # me, Walks(k)
  PROVE  raced'
BY DEF Meets

(* A task more.                                                            *)
LEMMA AppendedTask ==
  ASSUME NEW ts \in Seq(Task), NEW r \in Task
  PROVE  /\ DOMAIN ts \subseteq DOMAIN Append(ts, r)
         /\ \A k \in DOMAIN ts : Append(ts, r)[k] = ts[k]
         /\ \A k \in DOMAIN Append(ts, r) : k \in DOMAIN ts \/ Append(ts, r)[k] = r
<1>1. /\ Append(ts, r) \in Seq(Task) /\ Len(Append(ts, r)) = Len(ts) + 1
      /\ Append(ts, r)[Len(ts) + 1] = r
      /\ \A k \in 1..Len(ts) : Append(ts, r)[k] = ts[k]
  BY AppendProperties
<1>2. Len(ts) \in Nat /\ DOMAIN ts = 1..Len(ts) /\ DOMAIN Append(ts, r) = 1..Len(ts) + 1
  BY <1>1, LenProperties
<1>. QED  BY <1>1, <1>2

(* An order is finite.                                                     *)
LEMMA OrdersAreFinite ==
  ASSUME ShapeInv, NEW order, order = {Pid(x) : x \in {y \in ToSet(cart) : quantity[y] > 0}}
  PROVE  IsFiniteSet(order)
<1>1. Len(cart) \in Nat /\ DOMAIN cart = 1..Len(cart)
  BY LenProperties DEF ShapeInv
<1>2. IsFiniteSet({Pid(cart[i]) : i \in 1..Len(cart)})
  <2>. DEFINE n == Len(cart)
              T == 1..n
              h == [i \in T |-> Pid(cart[i])]
  <2>1. IsFiniteSet(T)
    BY <1>1, FS_Interval
  <2>2. h \in Surjection(T, {Pid(cart[i]) : i \in T})
    <3>. HIDE DEF T
    <3>. QED  BY DEF Surjection
  <2>. HIDE DEF h, T
  <2>3. IsFiniteSet({Pid(cart[i]) : i \in T})
    BY <2>1, <2>2, FS_Surjection
  <2>. QED  BY <2>3 DEF T
<1>3. order \subseteq {Pid(cart[i]) : i \in 1..Len(cart)}
  BY <1>1 DEF ToSet
<1>. QED  BY <1>2, <1>3, FS_Subset

(* A result that is told.                                                  *)
LEMMA ReportingSteps ==
  ASSUME ShapeInv, NEW j \in Purchases, tasks[j].pc = "over"
  PROVE  /\ Reported(j) \in Seq(Task) /\ DOMAIN Reported(j) = DOMAIN tasks
         /\ Reported(j)[j].order = tasks[j].order /\ Reported(j)[j].pc = "reported"
         /\ \A k \in DOMAIN tasks \ {j} : Reported(j)[k] = tasks[k]
         /\ ~Walks(j)
<1>1. Reported(j) \in Seq(Task)
  BY PurchaseGoesOn DEF Reported
<1>2. j \in DOMAIN tasks /\ tasks[j] \in BuyTask
  BY TasksAreCounted DEF Purchases, Task, FetchTask, BuyTask
<1>. QED  BY <1>1, <1>2 DEF Reported, Walks, BuyTask

(* The user and the main thread.                                           *)
LEMMA MainSteps ==
  ASSUME CartInv, User \/ LaysOut \/ MainThread
  PROVE  /\ DOMAIN tasks \subseteq DOMAIN tasks'
         /\ \A k \in DOMAIN tasks' : Spared(k) \/ Ended(k) \/ Begun(k) \/ NoBuyer(k)
<1>0. ShapeInv /\ CountInv /\ tasks \in Seq(Task) /\ 0 \notin DOMAIN tasks
  BY TasksAreCounted DEF CartInv, ShapeInv
<1>1. ASSUME tasks' = tasks, Untouched \/ \E changes : Meets(0, changes)
      PROVE  /\ DOMAIN tasks \subseteq DOMAIN tasks'
             /\ \A k \in DOMAIN tasks' : Spared(k)
  BY <1>0, <1>1, MeetingRaces DEF Spared
<1>2. ASSUME NEW ts \in Seq(Task), NEW r \in Task, tasks' = Append(ts, r),
             DOMAIN ts = DOMAIN tasks, \A k \in DOMAIN ts : ts[k] = tasks[k],
             Untouched, r.kind = "fetch" \/ \E order : IsFiniteSet(order) /\ r = Buy(order)
      PROVE  /\ DOMAIN tasks \subseteq DOMAIN tasks'
             /\ \A k \in DOMAIN tasks' : Spared(k) \/ Begun(k) \/ NoBuyer(k)
  BY <1>2, AppendedTask DEF Spared, Begun, NoBuyer, Purchases
<1>3. ASSUME NEW v \in DOMAIN Lists \cup {"cart"}, Selects(v)
      PROVE  /\ DOMAIN tasks \subseteq DOMAIN tasks'
             /\ \A k \in DOMAIN tasks' : Spared(k) \/ Begun(k) \/ NoBuyer(k)
  <2>1. Untouched
    BY <1>3 DEF Selects, Untouched
  <2>2. CASE v = "cart"
    BY <1>1, <1>3, <2>1, <2>2 DEF Selects, SwitchState
  <2>3. CASE v # "cart"
    <3>1. tasks' = Append(tasks, Fetch(Cardinality(Fetches) + 1, v))
      BY <1>3, <2>3 DEF Selects, SwitchState
    <3>2. Cardinality(Fetches) < MaxFetches
      <4>1. Cardinality(Fetches) + Cardinality(Unreported) < MaxFetches
        BY <1>3, <2>3 DEF Selects, Room, Unreported
      <4>. QED  BY <1>0, <4>1, TasksAreCounted, CartAssumption
    <3>3. Fetch(Cardinality(Fetches) + 1, v) \in Task /\ Fetch(Cardinality(Fetches) + 1, v).kind = "fetch"
      <4>1. Cardinality(Fetches) + 1 \in 1..MaxFetches
        BY <1>0, <3>2, TasksAreCounted, CartAssumption
      <4>. QED  BY <1>3, <2>3, <4>1 DEF Fetch, Task, FetchTask
    <3>. QED  BY <1>0, <1>2, <2>1, <3>1, <3>3
  <2>. QED  BY <2>2, <2>3
<1>4. ASSUME NEW x \in Items, Increases(x) \/ Decreases(x)
      PROVE  /\ DOMAIN tasks \subseteq DOMAIN tasks'
             /\ \A k \in DOMAIN tasks' : Spared(k)
  <2>1. tasks' = tasks /\ \E changes : Meets(0, changes)
    BY <1>4 DEF Increases, Decreases, OnChange
  <2>. QED  BY <1>1, <2>1
<1>5. ASSUME Buys
      PROVE  /\ DOMAIN tasks \subseteq DOMAIN tasks'
             /\ \A k \in DOMAIN tasks' : Spared(k) \/ Begun(k) \/ NoBuyer(k)
  <2>. DEFINE order == {Pid(x) : x \in {y \in ToSet(cart) : quantity[y] > 0}}
  <2>1. tasks' = Append(tasks, Buy(order)) /\ Untouched
    BY <1>5 DEF Buys, Untouched
  <2>2. IsFiniteSet(order)
    BY <1>0, OrdersAreFinite
  <2>3. order \in SUBSET Products
    <3>1. ToSet(cart) \subseteq Items
      BY <1>0, LenProperties, ElementOfSeq DEF ShapeInv, ToSet
    <3>. QED  BY <3>1 DEF Items, Pid
  <2>. HIDE DEF order
  <2>4. Buy(order) \in Task
    BY <2>3, BuyIsTask DEF Task
  <2>. QED  BY <1>0, <1>2, <2>1, <2>2, <2>4
<1>6. ASSUME LaysOut \/ SetsList \/ ShowsList
      PROVE  /\ DOMAIN tasks \subseteq DOMAIN tasks'
             /\ \A k \in DOMAIN tasks' : Spared(k)
  <2>1. tasks' = tasks /\ Untouched
    BY <1>6 DEF LaysOut, SetsList, ShowsList, Untouched
  <2>. QED  BY <1>1, <2>1
<1>7. ASSUME EmptiesCart \/ TellsUnbought
      PROVE  /\ DOMAIN tasks \subseteq DOMAIN tasks'
             /\ \A k \in DOMAIN tasks' : Spared(k) \/ Ended(k) \/ NoBuyer(k)
  <2>. DEFINE j == Head(ui).k
  <2>1. j \in Purchases /\ tasks[j].pc = "over" /\ Cardinality(Fetches) + 1 <= MaxFetches
    <3>1. ui # << >> /\ Tells(Head(ui))
      BY <1>7 DEF EmptiesCart, TellsUnbought, IsNext, Tells
    <3>. QED  BY <1>0, <3>1, RoomForSuggested
  <2>. HIDE DEF j
  <2>2. /\ Reported(j) \in Seq(Task) /\ DOMAIN Reported(j) = DOMAIN tasks
        /\ Reported(j)[j].order = tasks[j].order /\ Reported(j)[j].pc = "reported"
        /\ \A k \in DOMAIN tasks \ {j} : Reported(j)[k] = tasks[k]
        /\ ~Walks(j)
    BY <1>0, <2>1, ReportingSteps
  <2>3. Untouched \/ Meets(0, TRUE)
    BY <1>7 DEF EmptiesCart, TellsUnbought, Untouched
  <2>4. \A k \in DOMAIN tasks : Walks(k) => raced' \/ Untouched
    BY <1>0, <2>3, MeetingRaces
  <2>5. CASE tasks' = Reported(j)
    BY <2>1, <2>2, <2>4, <2>5 DEF Spared, Ended
  <2>6. CASE tasks' = Append(Reported(j), Fetch(Cardinality(Fetches) + 1, Suggested))
    <3>. DEFINE r == Fetch(Cardinality(Fetches) + 1, Suggested)
    <3>1. r \in Task /\ r.kind = "fetch"
      <4>1. Cardinality(Fetches) + 1 \in 1..MaxFetches
        BY <1>0, <2>1, TasksAreCounted, CartAssumption
      <4>. QED  BY <4>1, CartAssumption DEF Fetch, Task, FetchTask
    <3>. HIDE DEF r
    <3>2. /\ DOMAIN tasks \subseteq DOMAIN tasks'
          /\ \A k \in DOMAIN tasks : tasks'[k] = Reported(j)[k]
          /\ \A k \in DOMAIN tasks' : k \in DOMAIN tasks \/ tasks'[k] = r
      BY <2>2, <2>6, <3>1, AppendedTask DEF r
    <3>. QED  BY <2>1, <2>2, <2>4, <3>1, <3>2 DEF Spared, Ended, NoBuyer, Purchases
  <2>7. tasks' = Reported(j) \/ tasks' = Append(Reported(j), Fetch(Cardinality(Fetches) + 1, Suggested))
    BY <1>7, CartAssumption DEF EmptiesCart, TellsUnbought, SwitchState, j
  <2>. QED  BY <2>5, <2>6, <2>7
<1>. QED  BY <1>3, <1>4, <1>5, <1>6, <1>7 DEF User, MainThread

(* The tasks.                                                              *)
LEMMA TaskSteps ==
  ASSUME CartInv, NEW j \in DOMAIN tasks, Background(j)
  PROVE  /\ DOMAIN tasks' = DOMAIN tasks
         /\ \A k \in DOMAIN tasks :
              \/ Spared(k) \/ Ended(k) \/ NoBuyer(k)
              \/ k = j /\ (GetsPart(k) \/ KeepsItem(k) \/ DropsItem(k) \/ EndsWalk(k))
<1>1. DOMAIN tasks' = DOMAIN tasks /\ \A k \in DOMAIN tasks \ {j} : tasks'[k] = tasks[k]
  BY DEF Background, GetsList, CopiesQuantities, GetsAnswer, ToastThrows, KeepsItem, DropsItem, EndsWalk
<1>2. Untouched \/ \E changes : Meets(j, changes)
  BY DEF Background, GetsList, CopiesQuantities, GetsAnswer, ToastThrows, KeepsItem, DropsItem, EndsWalk,
         Untouched
<1>3. \A k \in DOMAIN tasks \ {j} : Spared(k)
  BY <1>1, <1>2, MeetingRaces DEF Spared
<1>4. ASSUME GetsList(j) \/ CopiesQuantities(j) PROVE NoBuyer(j)
  <2>1. tasks[j].kind = "fetch" /\ \E pc : tasks' = [tasks EXCEPT ![j].pc = pc]
    BY <1>4 DEF GetsList, CopiesQuantities, Runs
  <2>2. tasks[j] \in FetchTask
    BY <2>1, TasksAreCounted DEF CartInv, Task, FetchTask, BuyTask
  <2>3. tasks'[j].kind = "fetch"
    BY <2>1, <2>2 DEF FetchTask
  <2>. QED  BY <2>1, <2>3 DEF NoBuyer, Purchases
<1>5. ASSUME GetsAnswer(j) PROVE Ended(j) \/ GetsPart(j)
  <2>1. j \in Purchases /\ ~Walks(j) /\ tasks[j].pc = "asks"
    BY <1>5 DEF GetsAnswer, Runs, Purchases, Walks
  <2>2. CASE tasks' = [tasks EXCEPT ![j].pc = "over"]
    <3>1. tasks'[j] = [tasks[j] EXCEPT !.pc = "over"] /\ tasks[j] \in BuyTask
      BY <2>1, <2>2, TasksAreCounted DEF CartInv, Purchases, Task, FetchTask, BuyTask
    <3>. QED  BY <2>1, <3>1 DEF Ended, BuyTask
  <2>3. ASSUME NEW u, tasks' = [tasks EXCEPT ![j].pc = "walk", ![j].unbought = u, ![j].before = cart]
        PROVE  GetsPart(j)
    <3>1. /\ tasks'[j] = [tasks[j] EXCEPT !.pc = "walk", !.unbought = u, !.before = cart]
          /\ tasks[j] \in BuyTask
      BY <2>1, <2>3, TasksAreCounted DEF CartInv, Purchases, Task, FetchTask, BuyTask
    <3>. QED  BY <1>5, <3>1 DEF GetsPart, BuyTask
  <2>. QED  BY <1>5, <2>2, <2>3 DEF GetsAnswer
<1>6. ASSUME ToastThrows(j) PROVE Spared(j)
  BY <1>6 DEF ToastThrows, Spared, Untouched
<1>. QED  BY <1>1, <1>3, <1>4, <1>5, <1>6 DEF Background

-----------------------------------------------------------------------------
(* The walk is where it should be                                          *)

(* At the start nobody walks.                                              *)
LEMMA WalkInit == Init => WalkInv
<1>1. Init => Purchases = {}
  <2>. SUFFICES ASSUME Init PROVE Purchases = {}
    OBVIOUS
  <2>1. tasks = <<Fetch(1, FirstView)>> /\ Fetch(1, FirstView).kind = "fetch"
    BY DEF Init, Fetch
  <2>. QED  BY <2>1 DEF Purchases
<1>. QED  BY <1>1 DEF WalkInv

(* Where a walk is in its cart.                                            *)
LEMMA WalkFacts ==
  ASSUME CartInv, WalkInv, NEW k \in DOMAIN tasks, Works, Walks(k)
  PROVE  LET t == tasks[k] IN
         /\ k \in Purchases /\ t \in BuyTask /\ t.i \in Nat \ {0}
         /\ t.before \in Seq(Items) /\ OncePerProduct(t.before)
         /\ cart \in Seq(Items) /\ Len(cart) \in Nat /\ OncePerProduct(cart)
         /\ IsFiniteSet(t.order) /\ IsFiniteSet(t.unbought)
         /\ t.unbought \subseteq t.order /\ t.unbought # {}
         /\ WalkedTo(t, cart, quantity)
<1>1. k \in Purchases /\ tasks[k].pc = "walk"
  BY DEF Walks, Purchases
<1>2. tasks[k] \in BuyTask
  BY <1>1, TasksAreCounted DEF CartInv, Purchases, Task, FetchTask, BuyTask
<1>3. cart \in Seq(Items) /\ OncePerProduct(cart) /\ Len(cart) \in Nat
  BY LenProperties DEF CartInv, ShapeInv
<1>4. /\ IsFiniteSet(tasks[k].order) /\ OncePerProduct(tasks[k].before)
      /\ tasks[k].unbought \subseteq tasks[k].order /\ tasks[k].unbought # {}
      /\ WalkedTo(tasks[k], cart, quantity)
  BY <1>1 DEF WalkInv, WalkInvOf, Works
<1>5. IsFiniteSet(tasks[k].unbought)
  BY <1>4, FS_Subset
<1>. QED  BY <1>1, <1>2, <1>3, <1>4, <1>5 DEF BuyTask

(* A step of the walk takes it to the next place.                          *)
LEMMA WalkGoesOn ==
  ASSUME CartInv, WalkInv, NEW k \in DOMAIN tasks, KeepsItem(k) \/ DropsItem(k)
  PROVE  k \in Purchases /\ WalkInvOf(tasks[k])' /\ tasks'[k].pc = "walk"
<1>. DEFINE t == tasks[k]
            q == quantity
            x == cart[t.i]
<1>1. /\ Works /\ Walks(k) /\ ~WalkIsOver(t)
  BY DEF KeepsItem, DropsItem, Runs, Walks
<1>2. /\ k \in Purchases /\ t \in BuyTask /\ t.i \in Nat \ {0}
      /\ t.before \in Seq(Items) /\ OncePerProduct(t.before)
      /\ cart \in Seq(Items) /\ Len(cart) \in Nat
      /\ IsFiniteSet(t.order) /\ t.unbought \subseteq t.order /\ t.unbought # {}
      /\ WalkedTo(t, cart, q)
  BY <1>1, WalkFacts
<1>3. t.i \in 1..Len(cart) /\ t.found # Cardinality(t.unbought) /\ x \in Items
  <2>1. t.i \in 1..Len(cart) /\ t.found # Cardinality(t.unbought)
    BY <1>1, <1>2 DEF WalkIsOver
  <2>. QED  BY <1>2, <2>1, ElementOfSeq
<1>4. PICK p, g : Place(t.before, t.unbought, q, cart, t.i, t.found, p, g)
  BY <1>2 DEF WalkedTo
<1>5. /\ t.pc = "walk" /\ t.found \in Nat
  BY <1>1, <1>2 DEF Walks, BuyTask
<1>6. CASE KeepsItem(k)
  <2>1. /\ tasks' = [tasks EXCEPT ![k].i = @ + 1, ![k].found = @ + 1, ![k].sum = @ + q[x]]
        /\ cart' = cart /\ quantity' = quantity /\ Pid(x) \in t.unbought
    BY <1>6 DEF KeepsItem
  <2>2. tasks'[k] = [t EXCEPT !.i = @ + 1, !.found = @ + 1, !.sum = @ + q[x]]
    BY <2>1
  <2>3. /\ tasks'[k].before = t.before /\ tasks'[k].unbought = t.unbought /\ tasks'[k].order = t.order
        /\ tasks'[k].i = t.i + 1 /\ tasks'[k].found = t.found + 1 /\ tasks'[k].pc = "walk"
    BY <1>2, <1>5, <2>2 DEF BuyTask
  <2>4. Place(t.before, t.unbought, q, cart, t.i + 1, t.found + 1, p + 1, g)
    BY <1>2, <1>3, <1>4, <2>1, WalkPasses
  <2>5. WalkedTo(tasks'[k], cart', quantity')
    BY <2>1, <2>3, <2>4 DEF WalkedTo
  <2>. HIDE DEF t
  <2>. QED  BY <1>2, <2>3, <2>5 DEF WalkInvOf
<1>7. CASE DropsItem(k)
  <2>1. /\ tasks' = [tasks EXCEPT ![k].i = AfterRemoval(@)]
        /\ cart' = RemoveAt(cart, t.i) /\ quantity' = [quantity EXCEPT ![x] = 0]
        /\ Pid(x) \notin t.unbought
    BY <1>7 DEF DropsItem
  <2>2. tasks'[k] = t
    BY <1>2, <2>1 DEF AfterRemoval, BuyTask
  <2>3. (\A y : y # x => quantity'[y] = q[y]) /\ quantity'[x] = 0
    <3>1. quantity \in [Items -> 0..MaxQuantity]
      BY DEF CartInv, ShapeInv
    <3>. QED  BY <1>3, <2>1, <3>1
  <2>4. PICK h : Place(t.before, t.unbought, quantity', RemoveAt(cart, t.i), t.i, t.found, p + 1, h)
    BY <1>2, <1>3, <1>4, <2>1, <2>3, WalkDrops
  <2>5. WalkedTo(tasks'[k], cart', quantity')
    BY <2>1, <2>2, <2>4 DEF WalkedTo
  <2>. QED  BY <1>2, <1>5, <2>2, <2>5 DEF WalkInvOf
<1>. QED  BY <1>6, <1>7

(* An answer that not everything was bought begins one.                    *)
LEMMA WalkSetsOut ==
  ASSUME CartInv, WalkInv, NEW k \in DOMAIN tasks, GetsPart(k)
  PROVE  k \in Purchases /\ WalkInvOf(tasks[k])'
<1>1. k \in Purchases /\ tasks[k].pc = "asks" /\ cart' = cart /\ quantity' = quantity
  BY DEF GetsPart, GetsAnswer, Runs, Purchases
<1>2. tasks[k] \in BuyTask
  BY <1>1, TasksAreCounted DEF CartInv, Purchases, Task, FetchTask, BuyTask
<1>3. IsFiniteSet(tasks[k].order) /\ tasks[k].i = 1 /\ tasks[k].found = 0
  BY <1>1 DEF WalkInv, WalkInvOf
<1>4. PICK u : /\ u \subseteq tasks[k].order /\ u # {}
               /\ tasks' = [tasks EXCEPT ![k].pc = "walk", ![k].unbought = u, ![k].before = cart]
  <2>1. tasks' # [tasks EXCEPT ![k].pc = "over"]
    <3>. SUFFICES ASSUME tasks' = [tasks EXCEPT ![k].pc = "over"] PROVE FALSE
      OBVIOUS
    <3>1. tasks'[k] = [tasks[k] EXCEPT !.pc = "over"]
      OBVIOUS
    <3>2. tasks'[k].pc = "over"
      BY <1>2, <3>1 DEF BuyTask
    <3>. QED  BY <3>2 DEF GetsPart
  <2>2. PICK u \in (SUBSET tasks[k].order) \ {{}, tasks[k].order} :
              tasks' = [tasks EXCEPT ![k].pc = "walk", ![k].unbought = u, ![k].before = cart]
    <3>. USE <2>1
    <3>. QED  BY ZenonT(30) DEF GetsPart, GetsAnswer
  <2>3. u \subseteq tasks[k].order /\ u # {}
    BY <2>2
  <2>. QED  BY <2>2, <2>3
<1>5. tasks'[k] = [tasks[k] EXCEPT !.pc = "walk", !.unbought = u, !.before = cart]
  BY <1>4
<1>6. /\ tasks'[k].before = cart /\ tasks'[k].unbought = u /\ tasks'[k].order = tasks[k].order
      /\ tasks'[k].i = 1 /\ tasks'[k].found = 0 /\ tasks'[k].pc = "walk"
  BY <1>2, <1>3, <1>5 DEF BuyTask
<1>7. cart \in Seq(Items) /\ OncePerProduct(cart)
  BY DEF CartInv, ShapeInv
<1>8. Place(cart, u, quantity, cart, 1, 0, 0, [n \in 1..Len(cart) |-> n])
  BY <1>3, <1>4, <1>7, FS_Subset, WalkBegins
<1>9. WalkedTo(tasks'[k], cart', quantity')
  BY <1>1, <1>6, <1>8 DEF WalkedTo
<1>. QED  BY <1>1, <1>3, <1>4, <1>6, <1>7, <1>9 DEF WalkInvOf

(* A purchase that is left alone or over, or a new one.                    *)
LEMMA OthersKeepWalk ==
  ASSUME WalkInv, ~raced, NEW k, tasks'[k].kind = "buy",
         Spared(k) \/ Ended(k) \/ Begun(k) \/ NoBuyer(k)
  PROVE  WalkInvOf(tasks[k])'
<1>1. CASE Spared(k)
  <2>1. k \in Purchases /\ tasks'[k] = tasks[k]
    BY <1>1 DEF Spared, Purchases
  <2>2. WalkInvOf(tasks[k])
    BY <2>1 DEF WalkInv
  <2>3. Walks(k) <=> tasks[k].pc = "walk"
    BY <2>1 DEF Walks, Purchases
  <2>4. tasks[k].pc = "walk" /\ ~raced' => WalkedTo(tasks'[k], cart', quantity')
    BY <1>1, <2>1, <2>2, <2>3 DEF Spared, Untouched, WalkInvOf
  <2>. QED  BY <2>1, <2>2, <2>4 DEF WalkInvOf
<1>2. CASE Ended(k)
  BY <1>2 DEF Ended, WalkInv, WalkInvOf
<1>3. CASE Begun(k)
  BY <1>3 DEF Begun, Buy, WalkInvOf
<1>4. CASE NoBuyer(k)
  BY <1>4 DEF NoBuyer
<1>. QED  BY <1>1, <1>2, <1>3, <1>4

(* So every step keeps what is known of walks.                             *)
LEMMA WalkStep == CartInv /\ WalkInv /\ [Next]_vars => WalkInv'
<1>. SUFFICES ASSUME CartInv, WalkInv, [Next]_vars PROVE WalkInv'
  OBVIOUS
<1>1. CASE User \/ LaysOut \/ MainThread
  <2>1. ~raced
    BY <1>1 DEF User, LaysOut, MainThread, Selects, Increases, Decreases, Buys, SetsList, ShowsList,
                EmptiesCart, TellsUnbought, IsNext, Works
  <2>. QED  BY <1>1, <2>1, MainSteps, OthersKeepWalk DEF WalkInv, Purchases
<1>2. ASSUME NEW j \in DOMAIN tasks, Background(j) PROVE WalkInv'
  <2>1. ~raced
    BY <1>2 DEF Background, GetsList, CopiesQuantities, GetsAnswer, ToastThrows, KeepsItem, DropsItem,
                EndsWalk, Runs, Works
  <2>2. ASSUME NEW k \in DOMAIN tasks, tasks'[k].kind = "buy" PROVE WalkInvOf(tasks[k])'
    <3>1. CASE Spared(k) \/ Ended(k) \/ NoBuyer(k)
      BY <2>1, <2>2, <3>1, OthersKeepWalk
    <3>2. CASE GetsPart(k)
      BY <3>2, WalkSetsOut
    <3>3. CASE KeepsItem(k) \/ DropsItem(k)
      BY <3>3, WalkGoesOn
    <3>4. CASE EndsWalk(k)
      <4>1. k \in Purchases /\ tasks'[k] = [Buy(tasks[k].order) EXCEPT !.pc = "over"]
        BY <3>4 DEF EndsWalk, Runs, Purchases
      <4>2. tasks'[k].order = tasks[k].order /\ tasks'[k].pc = "over"
        BY <4>1 DEF Buy
      <4>. QED  BY <4>1, <4>2 DEF WalkInv, WalkInvOf
    <3>. QED  BY <1>2, <3>1, <3>2, <3>3, <3>4, TaskSteps
  <2>3. DOMAIN tasks' = DOMAIN tasks
    BY <1>2, TaskSteps
  <2>. QED  BY <2>2, <2>3 DEF WalkInv, Purchases
<1>3. CASE UNCHANGED vars
  <2>1. /\ UNCHANGED <<raced, quantity, cart, tasks>> /\ Purchases' = Purchases
    BY <1>3 DEF vars, Purchases
  <2>. QED  BY <2>1 DEF WalkInv, WalkInvOf
<1>. QED  BY <1>1, <1>2, <1>3 DEF Next, Stops, Pool

(* Only the end of a walk is its end.                                      *)
LEMMA OnlyEndsEnd ==
  ASSUME CartInv, [Next]_vars, NEW k \in DOMAIN tasks, Walks(k), tasks'[k].pc = "over"
  PROVE  EndsWalk(k)
<1>1. k \in Purchases /\ tasks[k].pc = "walk"
  BY DEF Walks, Purchases
<1>2. ~Spared(k) /\ ~Ended(k) /\ ~Begun(k) /\ ~NoBuyer(k) /\ ~GetsPart(k)
  BY <1>1 DEF Spared, Ended, Begun, NoBuyer, GetsPart
<1>3. ~(User \/ LaysOut \/ MainThread)
  BY <1>2, MainSteps
<1>4. ~UNCHANGED vars
  BY <1>1 DEF vars
<1>5. PICK j \in DOMAIN tasks : Background(j)
  BY <1>3, <1>4 DEF Next, Stops, Pool
<1>6. KeepsItem(k) \/ DropsItem(k) \/ EndsWalk(k)
  BY <1>2, <1>5, TaskSteps
<1>7. tasks[k] \in BuyTask
  BY <1>1, TasksAreCounted DEF CartInv, Purchases, Task, FetchTask, BuyTask
<1>8. ASSUME KeepsItem(k) \/ DropsItem(k) PROVE FALSE
  <2>1. \/ tasks'[k] = [tasks[k] EXCEPT !.i = @ + 1, !.found = @ + 1, !.sum = @ + quantity[cart[tasks[k].i]]]
        \/ tasks'[k] = [tasks[k] EXCEPT !.i = AfterRemoval(@)]
    BY <1>8 DEF KeepsItem, DropsItem
  <2>2. tasks'[k].pc = "walk"
    BY <1>1, <1>7, <2>1 DEF BuyTask
  <2>. QED  BY <2>2
<1>. QED  BY <1>6, <1>8
-----------------------------------------------------------------------------
(* The theorems                                                            *)

(* The cart never has two items of a product, however many lists are       *)
(* fetched and whatever rows of removed items stay on the screen           *)
(* (ControllerHome 235-251), as long as no two threads have met in it.     *)
THEOREM CartHasOnePerProduct == Spec => []OnePerProduct
<1>1. CartInv => OnePerProduct
  BY ZenonT(40), LenProperties DEF CartInv, ShapeInv, OnePerProduct, OncePerProduct
<1>. QED  BY <1>1, CartHolds, PTL

(* No quantity becomes negative, the adapter's list is one that was        *)
(* fetched, and every closure tells of a purchase that was made.           *)
THEOREM CartTypeCorrect == Spec => []TypeOK
<1>1. CartInv => TypeOK
  <2>. SUFFICES ASSUME CartInv PROVE TypeOK
    OBVIOUS
  <2>1. ShapeInv /\ NumbersInv /\ ToldInv
    BY DEF CartInv, CountInv
  <2>2. Cardinality(Fetches) \in Nat /\ Cardinality(Unreported) \in Nat
    BY <2>1, TasksAreCounted
  <2>3. Cardinality(Fetches) <= MaxFetches
    BY <2>1, <2>2, CartAssumption DEF NumbersInv
  <2>4. DOMAIN ui = 1..Len(ui)
    BY <2>1, LenProperties DEF ShapeInv
  <2>5. \A j \in DOMAIN ui : ui[j].what \in {"bought", "unbought"} => ui[j].k \in Purchases
    BY <2>1, <2>4 DEF ToldInv, Tells
  <2>. QED  BY <2>1, <2>3, <2>5 DEF TypeOK, ShapeInv, NumbersInv
<1>. QED  BY <1>1, CartHolds, PTL

(* Applying a partial purchase to the cart, item by item while the list    *)
(* shrinks under the index, leaves the unbought, in their order, and what  *)
(* stands behind the last of them, and nothing of what it took out keeps a *)
(* quantity (165-186): for any cart and any answer.                        *)
THEOREM WalkLeavesWhatItShould == Spec => WalkIsExact
<1>1. CartInv /\ WalkInv /\ [Next]_vars =>
        [\A k \in DOMAIN tasks :
           Walks(k) /\ tasks'[k].pc = "over" =>
             /\ IsLeft(cart', tasks[k].before, tasks[k].unbought)
             /\ \A x \in ToSet(tasks[k].before) \ ToSet(cart') : quantity'[x] = 0]_vars
  <2>. SUFFICES ASSUME CartInv, WalkInv, [Next]_vars, NEW k \in DOMAIN tasks,
                       Walks(k), tasks'[k].pc = "over"
                PROVE  /\ IsLeft(cart', tasks[k].before, tasks[k].unbought)
                       /\ \A x \in ToSet(tasks[k].before) \ ToSet(cart') : quantity'[x] = 0
    OBVIOUS
  <2>. DEFINE t == tasks[k]
  <2>1. EndsWalk(k)
    BY OnlyEndsEnd
  <2>2. Works /\ WalkIsOver(t) /\ cart' = cart /\ quantity' = quantity
    BY <2>1 DEF EndsWalk, Runs
  <2>3. /\ t.before \in Seq(Items) /\ OncePerProduct(t.before) /\ cart \in Seq(Items)
        /\ t.i \in Nat \ {0} /\ IsFiniteSet(t.unbought) /\ WalkedTo(t, cart, quantity)
    BY <2>2, WalkFacts
  <2>4. PICK p, g : Place(t.before, t.unbought, quantity, cart, t.i, t.found, p, g)
    BY <2>3 DEF WalkedTo
  <2>5. t.i > Len(cart) \/ t.found = Cardinality(t.unbought)
    BY <2>2 DEF WalkIsOver
  <2>. HIDE DEF t
  <2>6. /\ IsLeft(cart, t.before, t.unbought)
        /\ \A x \in ToSet(t.before) \ ToSet(cart) : quantity[x] = 0
    BY <2>3, <2>4, <2>5, WalkEndsWell, SMTT(60)
  <2>. QED  BY <2>2, <2>6 DEF t
<1>. QED  BY <1>1, CartInit, CartStep, WalkInit, WalkStep, PTL DEF Spec, WalkIsExact

=============================================================================
