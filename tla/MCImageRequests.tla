-------------------------- MODULE MCImageRequests --------------------------
(* Two connections that ask for images, or for something else.             *)
(* Words: 1 imagename, 2 size, 3 small, 4 medium, 5 a name with a dot,     *)
(* 6 one without, 7 to 9 routes.  Dates are hours; the server is three     *)
(* west of UTC, on it, or one east.                                        *)
EXTENDS ImageRequests, TLC

CONSTANTS t1, t2

Two         == {t1, t2}
AllRoutes   == <<9, 8, 7>>
SizeWords   == 3 :> "small" @@ 4 :> "medium"
WithDot     == {5}
Offsets     == {-3, 0, 1}
Versions    ==
  <<<<5, "medium">> :> [mtime |-> 5, length |-> 2] @@ <<5, "small">> :> [mtime |-> 5, length |-> 1]
      @@ <<6, "medium">> :> [mtime |-> 5, length |-> 0],
    <<5, "medium">> :> [mtime |-> 8, length |-> 1] @@ <<5, "small">> :> [mtime |-> 8, length |-> 3]>>

Args(words)   == <<7, Quest>> \o words \o <<Nul>>
Plain(text)   == [text |-> text, date |-> None, since |-> FALSE]
Name(n)       == <<1, Eq, n>>
Size(s)       == <<2, Eq, s>>
Both(a, b)    == a \o <<Amp>> \o b
Requests ==
  {Plain(Args(Both(Size(3), Name(5)))), Plain(Args(Both(Name(6), Name(5)))),
   Plain(Args(Both(Name(6), Size(3)))), Plain(Args(<<1>>)), Plain(Args(<<Eq>>)),
   Plain(<<5, Nul>>), Plain(<<7, Quest, Nul>>),
   Plain(<<Quest, Nul>>), Plain(<<Quest, 7, Nul>>), Plain(<<Quest, 7>> \o Args(Name(5))),
   Plain(<<7, Quest>> \o Args(<<>>)), Plain(<<7, Quest, 1, Eq, 5, Quest, Nul>>),
   [text |-> Args(Name(5)), date |-> 6, since |-> TRUE],
   [text |-> Args(Name(5)), date |-> 6, since |-> FALSE]}
Others == {Plain(<<8, Quest, 2, Eq, 1, Nul>>), Plain(Args(Both(Size(3), Name(5))))}
Asked  == t1 :> Requests @@ t2 :> Others

=============================================================================
