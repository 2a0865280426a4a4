-------------------------------- MODULE Cart --------------------------------
(***************************************************************************)
(* The home screen of the client: its lists of drinks, its cart and the    *)
(* purchase (ControllerHome.java, FeedItemAdapter.java, GetDrinkRunner).   *)
(*                                                                         *)
(* The main thread runs the user's events and the closures that background *)
(* tasks leave for it (runOnUiThread) one at a time.  Tasks run in a pool  *)
(* of PoolSize threads and read and change the cart without a lock, item   *)
(* by item.  When another thread changes or reads the cart in the middle   *)
(* of that, an exception or a wrong cart may follow: the model stops there *)
(* (`raced'), and promises nothing.  It stops, too, where the client dies. *)
(*                                                                         *)
(* A FeedItem is <<n, p>>: the object that fetch n made for product p.     *)
(* Prices, pictures and texts are left out; so is a quantity that is typed *)
(* into its field, which is a change by several at once.                   *)
(***************************************************************************)
EXTENDS Integers, Sequences, FiniteSets, SequencesExt

CONSTANTS
  Lists,         \* the list the server has for each view: a sequence of products
  FirstView,     \* the view at the start
  Suggested,     \* the view after a purchase
  PoolSize,      \* threads of the executor
  MaxFetches,    \* bound: lists fetched
  MaxPurchases,  \* bound: times the user buys
  MaxQuantity    \* bound: what the user asks of one drink

ASSUME CartAssumption ==
  /\ FirstView \in DOMAIN Lists /\ Suggested \in DOMAIN Lists
  /\ "cart" \notin DOMAIN Lists
  /\ \A v \in DOMAIN Lists : Lists[v] \in Seq(Nat)
  /\ PoolSize \in Nat \ {0} /\ MaxFetches \in Nat \ {0} /\ MaxPurchases \in Nat
  /\ MaxQuantity \in Nat

VARIABLES
  died,      \* an uncaught exception has ended the client
  raced,     \* two threads have met in the cart
  quantity,  \* FeedItem.quantity
  cart,      \* cartFeedItems
  count,     \* numberOfItemsInCart
  view,      \* currentHomeState
  list,      \* feedItems of the adapter: the number of a fetch, or CartItself
  rows,      \* the items whose rows are on the screen
  visible,   \* recyclerViewDrink and btnBuy, as far as they are visible
  tasks,     \* what was given to the executor, in order
  ui         \* closures for the main thread

vars == <<died, raced, quantity, cart, count, view, list, rows, visible, tasks, ui>>

Products == UNION {ToSet(Lists[v]) : v \in DOMAIN Lists}
Items    == (1..MaxFetches) \X Products
Pid(x)   == x[2]

(* What fetch n made.  The adapter's list is 0 before the first fetch.     *)
CartItself == -1

Fetched(n, v) == [i \in DOMAIN Lists[v] |-> <<n, Lists[v][i]>>]

Fetch(n, v) == [kind |-> "fetch", n |-> n, view |-> v, pc |-> "asks"]

Buy(order) ==
  [kind |-> "buy", order |-> order, pc |-> "asks",
   unbought |-> {},      \* unpurchasedProducts
   i |-> 1, found |-> 0, \* i, counted from 1, and nFound
   sum |-> 0,            \* finalCartSize
   before |-> << >>]     \* the cart when the answer came, for the properties

Fetches   == {k \in DOMAIN tasks : tasks[k].kind = "fetch"}
Purchases == {k \in DOMAIN tasks : tasks[k].kind = "buy"}
Over(k)   == tasks[k].pc \in {"over", "reported"}

Init ==
  /\ died = FALSE /\ raced = FALSE
  /\ quantity = [x \in Items |-> 0]
  /\ cart = << >> /\ count = 0
  /\ view = FirstView /\ list = 0 /\ rows = << >>
  /\ visible = [rows |-> FALSE, buy |-> FALSE]
  /\ tasks = <<Fetch(1, FirstView)>>
  /\ ui = << >>

-----------------------------------------------------------------------------
(* Threads that meet                                                       *)

Works == ~died /\ ~raced

Walks(k)  == tasks[k].kind = "buy" /\ tasks[k].pc = "walk"
Copies(k) == tasks[k].kind = "fetch" /\ tasks[k].pc = "copy"

(* A step of task `me', or of the main thread (0), that reads the cart, and *)
(* perhaps changes it, while others are in the middle of it.               *)
Meets(me, changes) ==
  raced' = \E k \in (DOMAIN tasks) \ {me} : Walks(k) \/ (Copies(k) /\ changes)

-----------------------------------------------------------------------------
(* The main thread                                                         *)

(* switchState (305-368).  A view that is a list is fetched first.         *)
SwitchState(v, cnt, crt, tsks) ==
  IF v = view THEN UNCHANGED <<view, list, rows, visible>> /\ tasks' = tsks
  ELSE /\ view' = v
       /\ IF v = "cart"
          THEN /\ list' = CartItself /\ rows' = crt
               /\ visible' = [rows |-> TRUE, buy |-> cnt # 0]
               /\ tasks' = tsks
          ELSE /\ visible' = [rows |-> FALSE, buy |-> FALSE]
               /\ tasks' = Append(tsks, Fetch(Cardinality(Fetches) + 1, v))
               /\ UNCHANGED <<list, rows>>

(* Room for the fetches of the purchases that are not yet reported.        *)
Room == Cardinality(Fetches)
          + Cardinality({k \in Purchases : tasks[k].pc # "reported"}) < MaxFetches

Selects(v) ==
  /\ Works /\ v # view
  /\ v = "cart" \/ Room
  /\ SwitchState(v, count, cart, tasks)
  /\ IF v = "cart" THEN Meets(0, FALSE) ELSE UNCHANGED raced
  /\ UNCHANGED <<died, quantity, cart, count, ui>>

(* Mutant: the cart is searched for the object.                            *)
SameItem_Object(x, y) == x = y

SameItem(x, y) == Pid(x) = Pid(y)

(* onChange (226-258): x was changed by d, and quantity q is what the      *)
(* items have now.                                                         *)
OnChange(x, d, q) ==
  LET at == {i \in DOMAIN cart : SameItem(x, cart[i])}
      i  == CHOOSE j \in at : \A k \in at : j <= k
  IN /\ count' = count + d
     /\ cart' = IF at = {} /\ d > 0 THEN Append(cart, x)
                ELSE IF at # {} /\ d < 0 /\ q[cart[i]] = 0 /\ view # "cart"
                THEN RemoveAt(cart, i)
                ELSE cart
     /\ visible' = IF view = "cart" THEN [visible EXCEPT !.buy = count' # 0] ELSE visible
     /\ Meets(0, cart' # cart)

OnScreen == IF visible.rows THEN ToSet(rows) ELSE {}

(* The buttons of a row (140-162).                                         *)
Increases(x) ==
  /\ Works /\ x \in OnScreen /\ quantity[x] < MaxQuantity
  /\ quantity' = [quantity EXCEPT ![x] = @ + 1]
  /\ OnChange(x, 1, quantity')
  /\ UNCHANGED <<died, view, list, rows, tasks, ui>>

(* Mutant: a quantity of 0 is decreased.                                   *)
MayDecrease_Always(x) == TRUE

MayDecrease(x) == quantity[x] # 0

Decreases(x) ==
  /\ Works /\ x \in OnScreen /\ MayDecrease(x)
  /\ quantity' = [quantity EXCEPT ![x] = @ - 1]
  /\ OnChange(x, -1, quantity')
  /\ UNCHANGED <<died, view, list, rows, tasks, ui>>

(* The list is laid out again.  It is the cart, and nobody has told the    *)
(* view that its items changed: it shows them, or throws.                  *)
LaysOut ==
  /\ Works /\ visible.rows /\ list = CartItself /\ rows # cart
  /\ Meets(0, FALSE)
  /\ \/ rows' = cart /\ UNCHANGED died
     \/ Len(rows) # Len(cart) /\ died' = TRUE /\ UNCHANGED rows
  /\ UNCHANGED <<quantity, cart, count, view, list, visible, tasks, ui>>

(* The button that buys (128-133) with convertCartToDTO (388-395): enabled *)
(* while another purchase is pending.                                      *)
Buys ==
  LET order == {Pid(x) : x \in {y \in ToSet(cart) : quantity[y] > 0}} IN
  /\ Works /\ visible.buy /\ Room
  /\ Cardinality(Purchases) < MaxPurchases
  /\ order # {}
  /\ tasks' = Append(tasks, Buy(order))
  /\ Meets(0, FALSE)
  /\ UNCHANGED <<died, quantity, cart, count, view, list, rows, visible, ui>>

-----------------------------------------------------------------------------
(* Closures on the main thread                                             *)

IsNext(what) == Works /\ ui # << >> /\ Head(ui).what = what

(* 345: whatever the view is by now.                                       *)
SetsList ==
  /\ IsNext("list")
  /\ LET c == Head(ui) IN list' = c.n /\ rows' = Fetched(c.n, c.view)
  /\ ui' = Tail(ui)
  /\ UNCHANGED <<died, raced, quantity, cart, count, view, visible, tasks>>

(* 356-359, after a list or after the message that there is none (350).    *)
ShowsList ==
  /\ IsNext("show")
  /\ visible' = [visible EXCEPT !.rows = TRUE]
  /\ ui' = Tail(ui)
  /\ UNCHANGED <<died, raced, quantity, cart, count, view, list, rows, tasks>>

Reported(k) == [tasks EXCEPT ![k].pc = "reported"]

(* 138-153: everything was bought.  The whole cart goes, what was put into *)
(* it since then as well.                                                  *)
EmptiesCart ==
  /\ IsNext("bought")
  /\ quantity' = [x \in Items |-> IF x \in ToSet(cart) THEN 0 ELSE quantity[x]]
  /\ cart' = << >> /\ count' = 0
  /\ IF view = Suggested
     THEN UNCHANGED <<view, list, rows>> /\ visible' = [visible EXCEPT !.buy = FALSE]
            /\ tasks' = Reported(Head(ui).k)
     ELSE SwitchState(Suggested, 0, << >>, Reported(Head(ui).k))
  /\ Meets(0, TRUE)
  /\ ui' = Tail(ui)
  /\ UNCHANGED died

(* 190-196: something was not.                                             *)
TellsUnbought ==
  /\ IsNext("unbought")
  /\ tasks' = Reported(Head(ui).k)
  /\ ui' = Tail(ui)
  /\ UNCHANGED <<died, raced, quantity, cart, count, view, list, rows, visible>>

-----------------------------------------------------------------------------
(* Background tasks                                                        *)

(* Task k has a thread, and stands at pc.                                  *)
Runs(k, kind, pc) ==
  /\ Works /\ tasks[k].kind = kind /\ tasks[k].pc = pc
  /\ Cardinality({j \in 1..k - 1 : ~Over(j)}) < PoolSize

Posts(closures) == ui' = ui \o closures

(* makeDrinkRequest (GetDrinkRunner 53-80): a list, or an error.           *)
GetsList(k) ==
  /\ Runs(k, "fetch", "asks")
  /\ \/ tasks' = [tasks EXCEPT ![k].pc = "copy"] /\ UNCHANGED ui
     \/ tasks' = [tasks EXCEPT ![k].pc = "over"] /\ Posts(<<[what |-> "show"]>>)
  /\ UNCHANGED <<died, raced, quantity, cart, count, view, list, rows, visible>>

(* 335-345: the new items take the quantities of those in the cart.        *)
CopiesQuantities(k) ==
  LET t == tasks[k]
      InCart(x) == {y \in ToSet(cart) : Pid(y) = Pid(x)}
  IN /\ Runs(k, "fetch", "copy")
     /\ quantity' = [x \in Items |->
                       IF x \in ToSet(Fetched(t.n, t.view)) /\ InCart(x) # {}
                       THEN quantity[CHOOSE y \in InCart(x) : TRUE] ELSE quantity[x]]
     /\ Meets(k, FALSE)
     /\ tasks' = [tasks EXCEPT ![k].pc = "over"]
     /\ Posts(<<[what |-> "list", n |-> t.n, view |-> t.view], [what |-> "show"]>>)
     /\ UNCHANGED <<died, cart, count, view, list, rows, visible>>

(* The answer to the purchase (135-137, 155-164).                          *)
GetsAnswer(k) ==
  /\ Runs(k, "buy", "asks")
  /\ \/ /\ tasks' = [tasks EXCEPT ![k].pc = "over"]
        /\ Posts(<<[what |-> "bought", k |-> k]>>)
     \/ \E unbought \in (SUBSET tasks[k].order) \ {{}, tasks[k].order} :
          /\ tasks' = [tasks EXCEPT ![k].pc = "walk", ![k].unbought = unbought,
                                    ![k].before = cart]
          /\ UNCHANGED ui
  /\ UNCHANGED <<died, raced, quantity, cart, count, view, list, rows, visible>>

(* The purchase failed (198-201).  The message is shown by this thread,    *)
(* which has no Looper: Toast throws, and nobody catches it.               *)
ToastThrows(k) ==
  /\ Runs(k, "buy", "asks")
  /\ died' = TRUE
  /\ UNCHANGED <<raced, quantity, cart, count, view, list, rows, visible, tasks, ui>>

WalkIsOver(t) == t.i > Len(cart) \/ t.found = Cardinality(t.unbought)

(* 166-178, for an item that was not bought: it stays.                     *)
KeepsItem(k) ==
  LET t == tasks[k] IN
  /\ Runs(k, "buy", "walk") /\ ~WalkIsOver(t)
  /\ Pid(cart[t.i]) \in t.unbought
  /\ tasks' = [tasks EXCEPT ![k].i = @ + 1, ![k].found = @ + 1,
                            ![k].sum = @ + quantity[cart[t.i]]]
  /\ Meets(k, FALSE)
  /\ UNCHANGED <<died, quantity, cart, count, view, list, rows, visible, ui>>

(* Mutant: i-- is missing.                                                 *)
AfterRemoval_Next(i) == i + 1

(* The loop's i++ and the i-- of 183.                                      *)
AfterRemoval(i) == i

(* 179-184, for any other: it was bought, or put into the cart since then. *)
(* One item less is counted, whatever its quantity.                        *)
DropsItem(k) ==
  LET t == tasks[k] IN
  /\ Runs(k, "buy", "walk") /\ ~WalkIsOver(t)
  /\ Pid(cart[t.i]) \notin t.unbought
  /\ quantity' = [quantity EXCEPT ![cart[t.i]] = 0]
  /\ cart' = RemoveAt(cart, t.i)
  /\ count' = count - 1
  /\ tasks' = [tasks EXCEPT ![k].i = AfterRemoval(@)]
  /\ Meets(k, TRUE)
  /\ UNCHANGED <<died, view, list, rows, visible, ui>>

(* Mutant: nothing is told when nothing is left.                           *)
Result_IfAny(k, t) == IF t.sum = 0 THEN << >> ELSE <<[what |-> "unbought", k |-> k]>>

Result(k, t) == <<[what |-> "unbought", k |-> k]>>

(* 185-196.                                                                *)
EndsWalk(k) ==
  LET t == tasks[k] IN
  /\ Runs(k, "buy", "walk") /\ WalkIsOver(t)
  /\ tasks' = [tasks EXCEPT ![k] = [Buy(t.order) EXCEPT !.pc = "over"]]
  /\ Posts(Result(k, t))
  /\ UNCHANGED <<died, raced, quantity, cart, count, view, list, rows, visible>>

-----------------------------------------------------------------------------
User ==
  \/ \E v \in DOMAIN Lists \cup {"cart"} : Selects(v)
  \/ \E x \in Items : Increases(x) \/ Decreases(x)
  \/ Buys

MainThread == SetsList \/ ShowsList \/ EmptiesCart \/ TellsUnbought

Background(k) ==
  \/ GetsList(k) \/ CopiesQuantities(k) \/ GetsAnswer(k) \/ ToastThrows(k)
  \/ KeepsItem(k) \/ DropsItem(k) \/ EndsWalk(k)

Pool == \E k \in DOMAIN tasks : Background(k)

(* The client has died, or waits for the user.                             *)
Stops ==
  /\ died \/ raced \/ (ui = << >> /\ \A k \in DOMAIN tasks : Over(k))
  /\ UNCHANGED vars

Next ==
  \/ User \/ LaysOut \/ MainThread \/ Stops
  \/ Pool

(* The main thread handles its messages, and the threads of the pool run:  *)
(* the HTTP client's calls time out.                                       *)
Spec == Init /\ [][Next]_vars /\ WF_vars(MainThread) /\ WF_vars(Pool)

-----------------------------------------------------------------------------
(* Properties                                                              *)

(* No quantity is negative, and the cart, the rows and the closures hold   *)
(* what was fetched.  The count may be anything (140-145, 182, 231).       *)
TypeOK ==
  /\ died \in BOOLEAN /\ raced \in BOOLEAN
  /\ quantity \in [Items -> 0..MaxQuantity]
  /\ cart \in Seq(Items) /\ rows \in Seq(Items) /\ count \in Int
  /\ view \in DOMAIN Lists \cup {"cart"}
  /\ list = CartItself \/ list \in 0..Cardinality(Fetches)
  /\ visible \in [rows : BOOLEAN, buy : BOOLEAN]
  /\ Cardinality(Fetches) <= MaxFetches
  /\ \A j \in DOMAIN ui : ui[j].what \in {"bought", "unbought"} => ui[j].k \in Purchases

(* The cart never has two items of a product, although each fetch makes    *)
(* new ones and rows of removed items stay on the screen: a purchase asks  *)
(* for a product once (235-251, 388-395).                                  *)
OnePerProduct ==
  ~raced => \A i, j \in DOMAIN cart : Pid(cart[i]) = Pid(cart[j]) => i = j

(* after is what stands at some places of before, in the same order.       *)
AtPlaces(after, before, places) ==
  \E f \in [DOMAIN after -> places] :
    /\ \A m, n \in DOMAIN after : m < n => f[m] < f[n]
    /\ \A i \in places : \E n \in DOMAIN after : f[n] = i
    /\ \A n \in DOMAIN after : after[n] = before[f[n]]

(* What is left of a cart of which a part was not bought: the unbought, in *)
(* their order, and all that stands behind the last of them.  With one of  *)
(* them gone from the cart meanwhile, nothing else is left.                *)
IsLeft(after, before, unbought) ==
  LET at == {i \in DOMAIN before : Pid(before[i]) \in unbought}
      stop == IF Cardinality(at) = Cardinality(unbought)
              THEN CHOOSE i \in at : \A j \in at : j <= i ELSE Len(before)
  IN AtPlaces(after, before, at \cup (stop + 1..Len(before)))

(* Applying a partial purchase to the cart, item by item while the list    *)
(* shrinks under the index, leaves just that, and nothing of what it took  *)
(* out can be ordered again by mistake: it has quantity 0 (165-186).       *)
WalkIsExact ==
  [][\A k \in DOMAIN tasks :
       Walks(k) /\ tasks'[k].pc = "over" =>
         /\ IsLeft(cart', tasks[k].before, tasks[k].unbought)
         /\ \A x \in ToSet(tasks[k].before) \ ToSet(cart') : quantity'[x] = 0]_vars

(* The user learns of every purchase what became of it, and its result is  *)
(* applied, unless the client dies, as it does when the purchase fails.    *)
PurchaseIsReported ==
  \A k \in 1..MaxFetches + MaxPurchases :
    (k \in Purchases) ~> (died \/ raced \/ k \in {j \in Purchases : tasks[j].pc = "reported"})

=============================================================================
