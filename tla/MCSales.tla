------------------------------- MODULE MCSales -------------------------------
(* A small bar: two drinks that share two ingredients, cursors that yield  *)
(* them in different orders, a recipe with a zero, and one without rows.   *)
EXTENDS Sales, TLC

CONSTANTS b1, b2, ann, bob, eve, mojito, daiquiri, shake, water, rum, lime

TwoBackends    == {b1, b2}
AllUsers       == {ann, bob, eve}
Registered     == {ann, bob}
AllProducts    == {mojito, daiquiri, shake, water}
AllIngredients == {rum, lime}

Rows == mojito :> <<rum, lime>> @@ daiquiri :> <<lime, rum>>
          @@ shake :> <<lime>> @@ water :> << >>

Amounts == mojito   :> (rum :> 1 @@ lime :> 1)
        @@ daiquiri :> (rum :> 2 @@ lime :> 1)
        @@ shake    :> (rum :> 0 @@ lime :> 0)
        @@ water    :> (rum :> 0 @@ lime :> 0)

Bottles == rum :> 5 @@ lime :> 4

Ask(u, p, q) == [user |-> u, pid |-> p, quantity |-> q]
Orders == {Ask(ann, mojito, 1), Ask(bob, mojito, 2), Ask(ann, daiquiri, 1),
           Ask(bob, daiquiri, 1), Ask(eve, mojito, 1), Ask(ann, mojito, 0),
           Ask(bob, mojito, -1), Ask(ann, shake, 1), Ask(ann, water, 1)}

Symmetry == Permutations(Backends)

=============================================================================
