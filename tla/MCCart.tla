------------------------------- MODULE MCCart -------------------------------
(* Three drinks: all of them in one list, one of them suggested.           *)
EXTENDS Cart, TLC

Drinks == "cocktail" :> <<1, 2, 3>> @@ "suggested" :> <<1>>

=============================================================================
