-------------------------------- MODULE Sales --------------------------------
(***************************************************************************)
(* Purchases in the database (db/main.pgsql): the procedure upsert_sale    *)
(* with the trigger of the table Sale and the functions it calls, run by   *)
(* several backends at once.                                               *)
(*                                                                         *)
(* A call is one transaction, at READ COMMITTED.  What it writes is its    *)
(* own until it commits; the rows of Ingredient it reads are locked FOR NO *)
(* KEY UPDATE one at a time, as a cursor yields them, and stay locked to   *)
(* the end.  A row that waited for its lock is read as it is then.         *)
(*                                                                         *)
(* INSERT ... ON CONFLICT DO UPDATE fires the INSERT trigger before it     *)
(* looks for a conflict, and the UPDATE trigger as well if there is one.   *)
(*                                                                         *)
(* Left out: lastTimeBought; the locks on IngredientInProduct, which only  *)
(* calls for the same product share and take with the ingredient's; the    *)
(* rounding of floats (quantities are whole here).                         *)
(***************************************************************************)
EXTENDS Integers, Sequences, Folds

CONSTANTS Backends,      \* database sessions, one per purchase handler
          Users,         \* the names in requests
          Accounts,      \* those that have a row in Account
          Products, Ingredients,
          Recipe,        \* Recipe[p]: the ingredients of p, in the order in
                         \* which the cursors yield them
          Need,          \* quantityNeededInRecipe
          InitialStock,
          Calls,         \* what requests ask for
          MaxInt,        \* the largest integer of the database
          Nobody, Null

ASSUME SalesAssumption ==
  /\ Accounts \subseteq Users
  /\ Recipe \in [Products -> Seq(Ingredients)]
  /\ \A p \in Products : \A m, n \in DOMAIN Recipe[p] :
       Recipe[p][m] = Recipe[p][n] => m = n
  /\ \A p \in Products, i \in Ingredients :
       Need[p][i] = 0 \/ \E n \in DOMAIN Recipe[p] : Recipe[p][n] = i
  /\ Need \in [Products -> [Ingredients -> Nat]]
  /\ InitialStock \in [Ingredients -> Nat]
  /\ Calls \subseteq [user : Users, pid : Products, quantity : Int]
  /\ MaxInt \in Nat
  /\ Nobody \notin Backends /\ Null \notin Int \cup Calls

VARIABLES
  stock,     \* Ingredient.quantity, as committed
  sale,      \* Sale: the quantity of each row (of <<user, product>>)
  lockedBy,  \* whose transaction has locked an ingredient's row
  at,        \* where a backend is
  call,      \* the call it executes, or Null
  op,        \* TG_OP
  row,       \* the cursor's position
  least,     \* minimumNumberOfPossibleUsages
  taken,     \* what its transaction has taken from each ingredient
  outcome    \* PQresultStatus of the last call

vars == <<stock, sale, lockedBy, at, call, op, row, least, taken, outcome>>

tables      == <<stock, sale>>
transaction == <<call, op, taken>>

Init ==
  /\ stock = InitialStock
  /\ sale = << >>
  /\ lockedBy = [i \in Ingredients |-> Nobody]
  /\ at = [b \in Backends |-> "idle"]
  /\ call = [b \in Backends |-> Null]
  /\ op = [b \in Backends |-> "INSERT"]
  /\ row = [b \in Backends |-> 1]
  /\ least = [b \in Backends |-> Null]
  /\ taken = [b \in Backends |-> [i \in Ingredients |-> 0]]
  /\ outcome = [b \in Backends |-> "none"]

-----------------------------------------------------------------------------
Goes(b, place) == at' = [at EXCEPT ![b] = place]

Pid(b)      == call[b].pid
Quantity(b) == call[b].quantity
Key(b)      == <<call[b].user, call[b].pid>>

AtRow(b)      == at[b] \in {"count", "take"} /\ row[b] <= Len(Recipe[Pid(b)])
Ingredient(b) == Recipe[Pid(b)][row[b]]
NeedOf(b)     == Need[Pid(b)][Ingredient(b)]
Available(b)  == stock[Ingredient(b)] - taken[b][Ingredient(b)]

(* Mutant: the cursor does not lock what it reads.                         *)
Locks_Not(b) == UNCHANGED lockedBy

Locks(b) ==
  /\ lockedBy[Ingredient(b)] \in {Nobody, b}
  /\ lockedBy' = [lockedBy EXCEPT ![Ingredient(b)] = b]

Release(b) ==
  lockedBy' = [i \in Ingredients |-> IF lockedBy[i] = b THEN Nobody ELSE lockedBy[i]]

Scans(b, place) ==
  /\ Goes(b, place)
  /\ row' = [row EXCEPT ![b] = 1]

(* The transaction ends: its locks go, and the variables of the functions. *)
Ends(b, result) ==
  /\ Goes(b, "idle")
  /\ outcome' = [outcome EXCEPT ![b] = result]
  /\ Release(b)
  /\ taken' = [taken EXCEPT ![b] = [i \in Ingredients |-> 0]]
  /\ call' = [call EXCEPT ![b] = Null]
  /\ op' = [op EXCEPT ![b] = "INSERT"]
  /\ row' = [row EXCEPT ![b] = 1]
  /\ least' = [least EXCEPT ![b] = Null]

RollBack(b) == Ends(b, "refused") /\ UNCHANGED tables

(* CALL upsert_sale(user, pid, quantity): main.pgsql:112-121               *)
UpsertSale(b, c) ==
  /\ at[b] = "idle"
  /\ Scans(b, "count")
  /\ call' = [call EXCEPT ![b] = c]
  /\ outcome' = [outcome EXCEPT ![b] = "none"]
  /\ UNCHANGED <<tables, lockedBy, op, least, taken>>

-----------------------------------------------------------------------------
(* get_how_many_products_can_be_made, main.pgsql:123-154                   *)

(* One turn of the loop: the row is locked, then counted.                  *)
CountRow(b) ==
  /\ at[b] = "count" /\ AtRow(b)
  /\ NeedOf(b) > 0
  /\ Locks(b)
  /\ LET usages == Available(b) \div NeedOf(b) IN
       IF usages <= 0
       THEN /\ least' = [least EXCEPT ![b] = 0]
            /\ Goes(b, "decide")
            /\ UNCHANGED row
       ELSE /\ least' = [least EXCEPT ![b] =
                           IF @ = Null \/ @ > usages THEN usages ELSE @]
            /\ row' = [row EXCEPT ![b] = @ + 1]
            /\ UNCHANGED at
  /\ UNCHANGED <<tables, transaction, outcome>>

(* A recipe may ask for nothing of an ingredient; a division may not.      *)
DivisionByZero(b) ==
  /\ at[b] = "count" /\ AtRow(b)
  /\ NeedOf(b) = 0
  /\ RollBack(b)

CountEnds(b) ==
  /\ at[b] = "count" /\ ~AtRow(b)
  /\ Goes(b, "decide")
  /\ UNCHANGED <<tables, lockedBy, transaction, row, least, outcome>>

-----------------------------------------------------------------------------
(* update_product_stock_quantity_and_register_sale, main.pgsql:185-212.    *)
(* No ingredient, no number: a comparison with NULL is not true.           *)
(* Mutants: off by one, either way.                                        *)
Enough_Strictly(b) == least[b] # Null /\ least[b] > Quantity(b)
Enough_OneMore(b) == least[b] # Null /\ least[b] + 1 >= Quantity(b)
Enough(b) == least[b] # Null /\ least[b] >= Quantity(b)

Sells(b) ==
  /\ at[b] = "decide" /\ Enough(b)
  /\ Scans(b, "take")
  /\ UNCHANGED <<tables, lockedBy, transaction, least, outcome>>

CannotSell(b) ==
  /\ at[b] = "decide" /\ ~Enough(b)
  /\ RollBack(b)

(* RETURN 0 (142) leaves the cursor open, and 166 opens one of that name:  *)
(* the name is that of the portal, too, before PostgreSQL 16.              *)
CursorInUse(b) ==
  /\ at[b] = "decide" /\ Enough(b) /\ least[b] = 0
  /\ RollBack(b)

(* Mutant: cquantity is forgotten.                                         *)
Takes_OneUnit(b) == NeedOf(b)
Takes(b) == Quantity(b) * NeedOf(b)

(* update_ingredients_quantity, main.pgsql:156-176, row by row, with the   *)
(* CHECK of Ingredient.                                                    *)
TakeIngredient(b) ==
  /\ at[b] = "take" /\ AtRow(b)
  /\ IF Available(b) < Takes(b)
     THEN lockedBy[Ingredient(b)] \in {Nobody, b} /\ RollBack(b)
     ELSE /\ Locks(b)
          /\ taken' = [taken EXCEPT ![b][Ingredient(b)] = @ + Takes(b)]
          /\ row' = [row EXCEPT ![b] = @ + 1]
          /\ UNCHANGED <<tables, at, call, op, least, outcome>>

-----------------------------------------------------------------------------
(* The rest of upsert_sale, when a trigger has let the row pass            *)

Passed(b) == at[b] = "take" /\ ~AtRow(b)

(* CHECK (quantity >= 0) of the row to insert, then the addition of DO     *)
(* UPDATE SET.                                                             *)
SaleCheckFails(b) ==
  /\ Passed(b) /\ op[b] = "INSERT"
  /\ \/ Quantity(b) < 0
     \/ Key(b) \in DOMAIN sale /\ sale[Key(b)] + Quantity(b) > MaxInt
  /\ RollBack(b)

Conflict(b) ==
  /\ Passed(b) /\ op[b] = "INSERT"
  /\ Quantity(b) >= 0
  /\ Key(b) \in DOMAIN sale /\ sale[Key(b)] + Quantity(b) <= MaxInt
  /\ op' = [op EXCEPT ![b] = "UPDATE"]
  /\ IF Quantity(b) <= 0          \* the trigger returns at once
     THEN Goes(b, "write") /\ UNCHANGED <<row, least>>
     ELSE Scans(b, "count") /\ least' = [least EXCEPT ![b] = Null]
  /\ UNCHANGED <<tables, lockedBy, call, taken, outcome>>

NoConflict(b) ==
  /\ Passed(b)
  /\ op[b] = "INSERT" => Quantity(b) >= 0 /\ Key(b) \notin DOMAIN sale
  /\ Goes(b, "write")
  /\ UNCHANGED <<tables, lockedBy, transaction, row, least, outcome>>

(* The foreign key on Account is checked at the end of the statement.      *)
UnknownUser(b) ==
  /\ at[b] = "write" /\ call[b].user \notin Accounts
  /\ RollBack(b)

Commit(b) ==
  /\ at[b] = "write" /\ call[b].user \in Accounts
  /\ stock' = [i \in Ingredients |-> stock[i] - taken[b][i]]
  /\ sale' = [s \in DOMAIN sale \cup {Key(b)} |->
                (IF s \in DOMAIN sale THEN sale[s] ELSE 0)
                  + (IF s = Key(b) THEN Quantity(b) ELSE 0)]
  /\ Ends(b, "sold")

-----------------------------------------------------------------------------
(* The deadlock detector rolls back a backend that waits for itself.       *)

Waits(b) == /\ AtRow(b) /\ (at[b] = "count" => NeedOf(b) > 0)
            /\ lockedBy[Ingredient(b)] \notin {Nobody, b}

(* Mutant: no deadlock detection.                                          *)
InCycle_Never(b) == FALSE

InCycle(b) ==
  \E cycle \in SUBSET Backends :
    /\ b \in cycle
    /\ \A c \in cycle : Waits(c)
    /\ {lockedBy[Ingredient(c)] : c \in cycle} = cycle

Deadlock(b) == InCycle(b) /\ RollBack(b)

(* The connection or the server is lost: a transaction that has not        *)
(* committed is rolled back.                                               *)
Lost(b) == at[b] # "idle" /\ RollBack(b)

Step(b) ==
  \/ CountRow(b) \/ DivisionByZero(b) \/ CountEnds(b)
  \/ Sells(b) \/ CannotSell(b) \/ CursorInUse(b) \/ TakeIngredient(b)
  \/ SaleCheckFails(b) \/ Conflict(b) \/ NoConflict(b)
  \/ UnknownUser(b) \/ Commit(b) \/ Deadlock(b)

Next == \E b \in Backends : \/ \E c \in Calls : UpsertSale(b, c)
                            \/ Step(b) \/ Lost(b)

(* Backends run, and the queue of a row's lock is served in turn.          *)
Spec == /\ Init /\ [][Next]_vars
        /\ \A b \in Backends : SF_vars(Step(b))

-----------------------------------------------------------------------------
(* Properties                                                              *)

Places == {"idle", "count", "decide", "take", "write"}

TypeOK ==
  /\ stock \in [Ingredients -> Nat]
  /\ DOMAIN sale \subseteq Users \X Products
  /\ \A s \in DOMAIN sale : sale[s] \in Nat
  /\ lockedBy \in [Ingredients -> Backends \cup {Nobody}]
  /\ at \in [Backends -> Places]
  /\ call \in [Backends -> Calls \cup {Null}]
  /\ \A b \in Backends : call[b] = Null <=> at[b] = "idle"
  /\ op \in [Backends -> {"INSERT", "UPDATE"}]
  /\ row \in [Backends -> Nat \ {0}]
  /\ least \in [Backends -> Nat \cup {Null}]
  /\ taken \in [Backends -> [Ingredients -> Int]]
  /\ outcome \in [Backends -> {"none", "sold", "refused"}]

(* The CHECK of Ingredient never has to fire: what the trigger counted is  *)
(* still there when update_ingredients_quantity takes it, whatever other   *)
(* calls do in between (201-204).                                          *)
CheckNeverFires ==
  \A b \in Backends : at[b] = "take" /\ AtRow(b) => Takes(b) <= Available(b)

(* When a row is written, what upsert_sale found in Sale still holds: no   *)
(* other call has inserted the row in the meantime (112-121).              *)
InsertsNewRows ==
  \A b \in Backends : at[b] = "write" /\ op[b] = "INSERT" => Key(b) \notin DOMAIN sale

(* A first purchase is refused by the trigger only if the stock of that    *)
(* moment does not allow it (or the product has no recipe).                *)
RefusalIsJustified ==
  [][\A b \in Backends :
       CannotSell(b) /\ op[b] = "INSERT" /\ Recipe[Pid(b)] # << >> =>
         \E i \in Ingredients : Quantity(b) * Need[Pid(b)][i] > stock[i]]_vars

(* Every unit ever sold was taken from the stock that there was at first.  *)
UsedBySales(i) ==
  MapThenFoldSet(LAMBDA x, y : x + y, 0, LAMBDA s : sale[s] * Need[s[2]][i],
                 LAMBDA S : CHOOSE s \in S : TRUE, DOMAIN sale)

NeverOversold == \A i \in Ingredients : UsedBySales(i) + stock[i] <= InitialStock[i]

(* "Funzione trigger che riflette gli aggiornamenti/inserzioni sulla       *)
(* tabella Sale sulle quantita'" (178): the stock is what the sales left.  *)
StockReflectsSales ==
  \A i \in Ingredients : UsedBySales(i) + stock[i] = InitialStock[i]

(* Every call ends, with deadlocks among calls that lock the ingredients   *)
(* in different orders and backends that are lost.                         *)
EveryCallEnds == \A b \in Backends : at[b] # "idle" ~> at[b] = "idle"

(* Calls that run at once act as if each were one step.                    *)
Ledger == INSTANCE SalesLedger
ImplementsLedger == Ledger!Spec

=============================================================================
