------------------------- MODULE MCRequestHandlers -------------------------
(* Two handlers, a few users and two drinks that share an ingredient.      *)
EXTENDS RequestHandlers, TLC

CONSTANTS h1, h2, ann, bob, eve, good, weak, rum, lime

Two            == {h1, h2}
AllIngredients == {rum, lime}
Drinks         == {1, 2}
Amounts        == 1 :> (rum :> 1 @@ lime :> 1) @@ 2 :> (rum :> 1 @@ lime :> 0)
Bottles        == rum :> 3 @@ lime :> 1
Known          == ann :> good
Strong         == {<<ann, good>>, <<bob, good>>, <<bob, weak>>}

Plain(route, u, pw) ==
  [route |-> route, user |-> u, password |-> pw, type |-> "none", items |-> << >>]
List(type, u) == [Plain("products", u, Nobody) EXCEPT !.type = type]
Buy(u, items) == [Plain("purchase", u, Nobody) EXCEPT !.items = items]
Of(p, q)      == [pid |-> p, quantity |-> q]

Orders == {Buy(ann, <<Of(2, 1), Of(1, 1)>>), Buy(ann, <<Of(1, 1), Of(1, 1)>>),
           Buy(bob, <<Of(2, 1)>>), Buy(ann, <<Of(Nobody, 1), Of(1 + Span, -2)>>),
           Buy(Nobody, << >>), Buy(ann, NotAnArray)}
Others == {Plain("register", bob, good), Plain("register", bob, weak),
           Plain("register", eve, weak), Plain("login", bob, good),
           List("suggested", ann), Plain("continue", Nobody, Nobody)}
All == Orders \cup Others

=============================================================================
