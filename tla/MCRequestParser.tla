--------------------------- MODULE MCRequestParser ---------------------------
(* What clients send in the runs on RequestParser.                         *)
EXTENDS RequestParser

U(is)    == [is |-> is, n |-> 0]
Sized(n) == [is |-> "length", n |-> n]
Body     == U("body")

Get    == <<U("get"), U("host"), U("blank")>>
Get10  == <<U("get10"), U("blank")>>
Last   == <<U("get"), U("host"), U("close"), U("blank")>>
Post   == <<U("post"), U("host"), Sized(1), U("blank"), Body>>
Long(n) == <<U("post"), Sized(n), U("host"), U("blank")>> \o [i \in 1..n |-> Body]
Expect == <<U("post"), U("host"), U("expect"), Sized(1), U("blank"), Body>>
Chunked(n) == <<U("post"), U("host"), U("chunked"), U("blank")>>
                \o [i \in 1..n |-> U("chunk")] \o <<U("lastchunk"), U("blank")>>
NoHost == <<U("get"), U("header"), U("blank")>>
Bad    == <<U("bad"), U("host"), U("blank")>>
Colonless == <<U("get"), U("bad"), U("host"), U("blank")>>
Unsized   == <<U("post"), U("host"), U("blank")>>
Negative(n) == <<U("post"), U("host"), Sized(n), U("blank")>>
Ignored     == <<U("get"), U("host"), Sized(-1), U("blank")>>

Good == {Get, Get10, Post, Long(2), Expect, Chunked(0)}

(* Two good requests and one more, the last one perhaps closing.           *)
GoodScripts  == {<<a, b, c>> : a, b \in Good, c \in {Get, Post, Last}}
MixedScripts == {<<a, b>> : a \in Good \cup {Chunked(1), Ignored},
                            b \in {Get, Long(5), Last, Expect, Chunked(2), Bad,
                                   NoHost, Colonless, Unsized,
                                   Negative(-1), Negative(-6), Ignored}}
GetScripts   == {<<Get, Get>>}
NoScripts    == {}

ASSUME FramedAssumption == ClientsFrame /\ PatientFit

=============================================================================
