----------------------------- MODULE SalesLedger -----------------------------
(***************************************************************************)
(* What the Sale table and its triggers promise whoever calls upsert_sale, *)
(* however many calls run at once: a call either changes nothing or sells, *)
(* in one step, what the stock of that moment allows.                      *)
(*                                                                         *)
(* A sale to a user who bought the product before takes twice what it      *)
(* gives: both triggers of the upsert take from the stock.                 *)
(***************************************************************************)
EXTENDS Integers

CONSTANTS Ingredients,
          Calls,        \* what may be asked for: [user, pid, quantity]
          Need,         \* Need[p][i]: what one unit of p takes of ingredient i
          InitialStock

VARIABLES stock,  \* Ingredient.quantity
          sale    \* Sale: the quantity of each row

Charge(u, p, quantity) ==
  IF <<u, p>> \in DOMAIN sale THEN 2 * quantity ELSE quantity

Init == stock = InitialStock /\ sale = << >>

Allows(u, p, quantity) ==
  /\ quantity >= 0
  /\ \A i \in Ingredients : Charge(u, p, quantity) * Need[p][i] <= stock[i]

Sell(u, p, quantity) ==
  /\ Allows(u, p, quantity)
  /\ stock' = [i \in Ingredients |-> stock[i] - Charge(u, p, quantity) * Need[p][i]]
  /\ sale' = [s \in DOMAIN sale \cup {<<u, p>>} |->
                (IF s \in DOMAIN sale THEN sale[s] ELSE 0)
                  + (IF s = <<u, p>> THEN quantity ELSE 0)]

Next == \E c \in Calls : Sell(c.user, c.pid, c.quantity)

Spec == Init /\ [][Next]_<<stock, sale>>

=============================================================================
