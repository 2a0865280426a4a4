----------------------- MODULE RequestHandlers_proofs -----------------------
(***************************************************************************)
(* Theorems about RequestHandlers for any number of handlers, any requests *)
(* and any failures.                                                       *)
(*                                                                         *)
(* What a handler keeps to by itself, Sound, is inductive for each handler *)
(* alone: no step of one changes another.  Only the accounts are shared.   *)
(***************************************************************************)
EXTENDS RequestHandlers, SequenceTheorems, FiniteSetTheorems, FunctionTheorems, TLAPS

(* Where a handler may be, and what a response is made of.                 *)
Places == {"idle", "parse", "connect", "query", "buy", "compose", "write", "end", "gone"}
Pieces == {"status", "header", "body"}

ItemType == [pid : Int \cup {Nobody}, quantity : Int]

ThreadType ==
  [pc : Places, req : Requests \cup {[route |-> "none"]}, conn : {"none", "open", "dead"},
   code : Codes, todo : Seq(ItemType), unsold : Seq(Int \cup {Nobody}), any : BOOLEAN,
   body : {"none", "products", "unsold"}, header : BOOLEAN, left : 0..3,
   out : Seq(Pieces), sold : Seq(Products), met : SUBSET Faults]

(* A session is held only where it is used; one that stays is a purchase's *)
(* that was malformed or found no memory.                                  *)
SessionKept(t) ==
  /\ t.pc \in {"idle", "parse", "connect"} => t.conn = "none"
  /\ t.pc \in {"compose", "write", "end", "gone"} /\ t.conn # "none" =>
       /\ t.req.route = "purchase"
       /\ \/ t.req.user = Nobody \/ t.req.items = NotAnArray \/ "memory" \in t.met

(* From its composition to the end of the thread, what is written and what *)
(* is left are together as long as the answer.                             *)
AnswerKept(t) ==
  /\ t.pc \notin {"idle", "gone", "write", "end"} => t.out = << >>
  /\ t.pc = "compose" => t.code # "UNDEFINED"
  /\ t.pc = "write" =>
       /\ Len(t.out) + t.left = Len(Response(t))
       /\ t.left > 0
       /\ "network" \notin t.met => t.out = << >>
       /\ "memory" \notin t.met => t.header
       /\ t.code # "UNDEFINED"
  /\ t.pc = "end" /\ "memory" \notin t.met =>
       /\ t.left = 0 => Len(t.out) = Len(Response(t))
       /\ "network" \notin t.met => t.out = Response(t) /\ t.header /\ t.code # "UNDEFINED"

(* What a handler keeps to, whatever the others do.                        *)
Sound(t) ==
  /\ t \in ThreadType
  /\ t.pc # "idle" => t.req \in Requests
  /\ SessionKept(t)
  /\ AnswerKept(t)

(* A piece, or nothing, is a sequence of pieces.                           *)
LEMMA PieceIsSequence ==
  ASSUME NEW x \in Pieces, NEW b \in BOOLEAN,
         NEW s, s = IF b THEN <<x>> ELSE << >>
  PROVE  s \in Seq(Pieces) /\ Len(s) \in 0..1
<1>1. CASE b
  <2>1. s = <<x>>
    BY <1>1
  <2>. QED  BY <1>1, <2>1
<1>2. CASE ~b
  <2>1. s = << >>
    BY <1>2
  <2>. QED  BY <1>2, <2>1
<1>. QED  BY <1>1, <1>2

(* A response has one to three pieces.                                     *)
LEMMA ResponseIsShort ==
  ASSUME NEW t \in ThreadType
  PROVE  /\ Response(t) \in Seq(Pieces)
         /\ Len(Response(t)) \in 1..3
<1>. DEFINE header == IF t.header THEN <<"header">> ELSE << >>
            body   == IF t.body # "none" THEN <<"body">> ELSE << >>
            status == <<"status">>
<1>0. t.header \in BOOLEAN /\ (t.body # "none") \in BOOLEAN
  BY DEF ThreadType
<1>1. header \in Seq(Pieces) /\ Len(header) \in 0..1
  BY <1>0, PieceIsSequence, Zenon DEF Pieces
<1>2. body \in Seq(Pieces) /\ Len(body) \in 0..1
  BY <1>0, PieceIsSequence, Zenon DEF Pieces
<1>3. status \in Seq(Pieces) /\ Len(status) = 1
  BY DEF Pieces
<1>4. Response(t) = status \o header \o body
  BY DEF Response
<1>. HIDE DEF header, body, status
<1>5. status \o header \in Seq(Pieces) /\ Len(status \o header) = 1 + Len(header)
  <2>1. status \o header \in Seq(Pieces) /\ Len(status \o header) = Len(status) + Len(header)
    BY ZenonT(40), <1>1, <1>3, ConcatProperties
  <2>. QED  BY <1>3, <2>1
<1>6. (status \o header) \o body \in Seq(Pieces)
        /\ Len((status \o header) \o body) = 1 + Len(header) + Len(body)
  BY <1>2, <1>5, ConcatProperties
<1>. QED  BY <1>1, <1>2, <1>4, <1>6

-----------------------------------------------------------------------------
(***************************************************************************)
(* What the helpers make of a handler.                                     *)
(***************************************************************************)

(* But for its faults, v is as t is.                                       *)
Alike(v, t) ==
  /\ v.pc = t.pc /\ v.req = t.req /\ v.conn = t.conn /\ v.code = t.code
  /\ v.out = t.out /\ v.left = t.left /\ v.header = t.header
  /\ t.met \subseteq v.met

(* A handler that runs into a fault notes it, and nothing else changes.    *)
LEMMA MeetsNotes ==
  ASSUME NEW h, NEW t \in ThreadType, NEW f, NEW v, v \in Meets(h, t, f)
  PROVE  v \in ThreadType /\ Alike(v, t) /\ v.met = t.met \cup {f}
<1>1. v = [t EXCEPT !.met = @ \cup {f}] /\ f \in Faults
  BY DEF Meets
<1>. QED  BY <1>1 DEF ThreadType, Alike

(* A thread that is dispatched, idle or gone.                              *)
LEMMA NewThreadIsTyped ==
  ASSUME NEW r \in Requests \cup {[route |-> "none"]}
  PROVE  NewThread(r) \in ThreadType
BY DEF NewThread, ThreadType, Places, Codes

(* An answer keeps all but its code and its place.                         *)
LEMMA AnswerIsTyped ==
  ASSUME NEW t \in ThreadType, NEW code \in Codes
  PROVE  /\ Answer(t, code) \in ThreadType
         /\ Answer(t, code).pc = "compose" /\ Answer(t, code).code = code
         /\ Answer(t, code).conn = t.conn /\ Answer(t, code).req = t.req
         /\ Answer(t, code).met = t.met /\ Answer(t, code).out = t.out
BY DEF Answer, ThreadType, Places, Codes

(* It may go to its answer: nothing written, and no session that it should *)
(* have given back.                                                        *)
Ready(t) ==
  /\ t \in ThreadType /\ t.req \in Requests /\ t.out = << >>
  /\ t.conn # "none" =>
       /\ t.req.route = "purchase"
       /\ \/ t.req.user = Nobody \/ t.req.items = NotAnArray \/ "memory" \in t.met

(* h becomes something sound.                                              *)
Stays(h) == \E u : Sound(u) /\ thread' = [thread EXCEPT ![h] = u]

(* Going on to the answer is sound for whoever is ready for it.            *)
LEMMA AnswerIsSound ==
  ASSUME NEW t, Ready(t), NEW code \in Codes \ {"UNDEFINED"}
  PROVE  Sound(Answer(t, code))
BY AnswerIsTyped DEF Ready, Sound, SessionKept, AnswerKept

(* With PQfinish before it, wherever the routine was.                      *)
LEMMA FinishIsSound ==
  ASSUME NEW t \in ThreadType, t.req \in Requests, t.out = << >>,
         NEW code \in Codes \ {"UNDEFINED"}
  PROVE  Sound(Finishes(t, code))
<1>. DEFINE u == [t EXCEPT !.conn = "none"]
<1>1. Ready(u)
  BY DEF Ready, ThreadType
<1>. QED  BY <1>1, AnswerIsSound DEF Finishes

(* Composing a body changes nothing else.                                  *)
LEMMA BodyIsSound ==
  ASSUME NEW t, Sound(t), t.pc = "compose", NEW b \in {"none", "products", "unsold"}
  PROVE  Sound([t EXCEPT !.body = b])
BY DEF Sound, SessionKept, AnswerKept, ThreadType

(* Whoever has no session is ready, as soon as nothing is written.         *)
LEMMA NoSessionKept ==
  ASSUME NEW t \in ThreadType, t.req \in Requests, t.out = << >>, t.conn = "none"
  PROVE  Ready(t)
BY DEF Ready

(* A session, or the error that the routine answers with.                  *)
LEMMA ConnectionIsSound ==
  ASSUME NEW h, Sound(thread[h]), thread[h].pc = "connect",
         NEW code \in Codes \ {"UNDEFINED"}, GetsConnection(h, code)
  PROVE  Stays(h)
<1>. DEFINE t == thread[h]
<1>0. t.conn = "none"
  BY DEF Sound, SessionKept
<1>1. Ready(t)
  BY DEF Sound, SessionKept, AnswerKept, Ready
<1>2. ASSUME Becomes(h, [t EXCEPT !.conn = "open", !.pc = "query"]) PROVE Stays(h)
  <2>1. Sound([t EXCEPT !.conn = "open", !.pc = "query"])
    BY <1>1 DEF Ready, Sound, SessionKept, AnswerKept, ThreadType, Places
  <2>. QED  BY <1>2, <2>1 DEF Becomes, Stays
<1>3. ASSUME Becomes(h, Answer(t, code)) PROVE Stays(h)
  BY <1>1, <1>3, AnswerIsSound DEF Becomes, Stays
<1>4. ASSUME NEW f \in {"database", "memory"}, NEW v, v \in Meets(h, t, f), Becomes(h, Answer(v, code))
      PROVE  Stays(h)
  <2>0. v \in ThreadType /\ v.req = t.req /\ v.out = t.out /\ v.conn = t.conn
    <3>1. t \in ThreadType
      BY <1>1 DEF Ready
    <3>2. v \in ThreadType /\ Alike(v, t)
      BY <1>4, <3>1, MeetsNotes, Zenon
    <3>. QED  BY <3>2 DEF Alike
  <2>1. Ready(v)
    BY <1>0, <1>1, <2>0, NoSessionKept DEF Ready
  <2>. QED  BY <1>4, <2>1, AnswerIsSound DEF Becomes, Stays
<1>. QED  BY <1>2, <1>3, <1>4 DEF GetsConnection

(* A statement that fails gives the session back.                          *)
LEMMA FailureIsSound ==
  ASSUME NEW h, Sound(thread[h]), thread[h].pc = "query", StatementFails(h)
  PROVE  Stays(h)
<1>. DEFINE t == [thread[h] EXCEPT !.conn = "none"]
<1>1. t \in ThreadType /\ t.req \in Requests /\ t.out = << >> /\ t.conn = "none"
  BY DEF Sound, AnswerKept, ThreadType
<1>2. PICK v : v \in Meets(h, t, "database") /\
        (Becomes(h, Answer(v, "BAD_REQUEST")) \/ Becomes(h, Answer(v, "INTERNAL_SERVER_ERROR")))
  BY DEF StatementFails
<1>3. Ready(v)
  <2>1. v \in ThreadType /\ Alike(v, t)
    BY <1>1, <1>2, MeetsNotes, Zenon
  <2>2. v.req = t.req /\ v.out = t.out /\ v.conn = t.conn
    BY <2>1 DEF Alike
  <2>. QED  BY <1>1, <2>1, <2>2, NoSessionKept
<1>4. {"BAD_REQUEST", "INTERNAL_SERVER_ERROR"} \subseteq Codes \ {"UNDEFINED"}
  BY DEF Codes
<1>. QED  BY <1>2, <1>3, <1>4, AnswerIsSound DEF Becomes, Stays

(* form_response: from here on the answer's length is known.               *)
LEMMA WritesIsSound ==
  ASSUME NEW h, NEW t, Ready(t), t.code # "UNDEFINED", "memory" \notin t.met => t.header,
         Writes(h, t)
  PROVE  Stays(h)
<1>0. t \in ThreadType
  BY DEF Ready
<1>1. Len(Response(t)) \in 1..3
  BY <1>0, ResponseIsShort
<1>2. ASSUME Becomes(h, [t EXCEPT !.left = Len(Response(t)), !.pc = "write"]) PROVE Stays(h)
  <2>. DEFINE u == [t EXCEPT !.left = Len(Response(t)), !.pc = "write"]
  <2>1. u \in ThreadType
    <3>1. Len(Response(t)) \in 0..3
      BY <1>1
    <3>. HIDE DEF Response
    <3>. DEFINE n == Len(Response(t))
    <3>. HIDE DEF n
    <3>2. [t EXCEPT !.left = n, !.pc = "write"] \in ThreadType
      BY <1>0, <3>1 DEF ThreadType, Places, n
    <3>. QED  BY <3>2 DEF n
  <2>2. Response(u) = Response(t)
    BY <1>0 DEF Response, ThreadType
  <2>3. u.pc = "write" /\ u.left = Len(Response(t)) /\ u.out = << >> /\ u.req = t.req
          /\ u.conn = t.conn /\ u.met = t.met /\ u.code = t.code /\ u.header = t.header
    BY <1>0 DEF Ready, ThreadType
  <2>. HIDE DEF u
  <2>4. AnswerKept(u)
    <3>1. Len(u.out) = 0
      BY <2>3
    <3>2. u.left = Len(Response(u)) /\ u.left \in 1..3
      BY <1>1, <2>2, <2>3, Zenon
    <3>3. u.left > 0 /\ u.left + 0 = u.left /\ 0 + u.left = u.left
      <4>1. \A n \in 1..3 : n > 0 /\ n + 0 = n /\ 0 + n = n
        OBVIOUS
      <4>. QED  BY <3>2, <4>1, Zenon
    <3>4. Len(u.out) + u.left = Len(Response(u)) /\ u.left > 0
      BY <3>1, <3>2, <3>3, Zenon
    <3>. QED  BY <2>3, <3>4 DEF AnswerKept, Ready
  <2>5. SessionKept(u)
    BY <2>3 DEF SessionKept, Ready
  <2>6. Sound(u)
    BY <2>1, <2>3, <2>4, <2>5 DEF Sound, Ready
  <2>. QED  BY <1>2, <2>6 DEF Becomes, Stays, u
<1>3. ASSUME NEW v, v \in Meets(h, t, "memory"), Becomes(h, [v EXCEPT !.pc = "end"]) PROVE Stays(h)
  <2>1. v \in ThreadType /\ Alike(v, t)
    BY <1>0, <1>3, MeetsNotes, Zenon
  <2>2. "memory" \in v.met
    BY <1>0, <1>3 DEF Meets, ThreadType
  <2>3. Sound([v EXCEPT !.pc = "end"])
    BY <2>1, <2>2 DEF Alike, Ready, Sound, SessionKept, AnswerKept, ThreadType, Places
  <2>. QED  BY <1>3, <2>3 DEF Becomes, Stays
<1>. QED  BY <1>2, <1>3 DEF Writes

-----------------------------------------------------------------------------
(***************************************************************************)
(* Every routine leaves its handler sound.                                 *)
(***************************************************************************)

(* The routines that read credentials, and the choice of the list.         *)
LEMMA ParsingIsSound ==
  ASSUME NEW h, Sound(thread[h]),
         \/ LacksErrBuf(h) \/ ProductsParses(h) \/ LoginParses(h)
         \/ RegisterParses(h) \/ PurchaseParses(h)
  PROVE  Stays(h)
<1>. DEFINE t == thread[h]
<1>1. t.pc = "parse" /\ t \in ThreadType /\ Ready(t) /\ t.conn = "none"
  BY DEF LacksErrBuf, ProductsParses, LoginParses, RegisterParses, PurchaseParses, At,
         Sound, SessionKept, AnswerKept, Ready
<1>2. ASSUME Becomes(h, [t EXCEPT !.pc = "connect"]) PROVE Stays(h)
  <2>1. Sound([t EXCEPT !.pc = "connect"])
    BY <1>1 DEF Ready, Sound, SessionKept, AnswerKept, ThreadType, Places
  <2>. QED  BY <1>2, <2>1 DEF Becomes, Stays
<1>3. ASSUME Becomes(h, Answer(t, "BAD_REQUEST")) PROVE Stays(h)
  <2>1. "BAD_REQUEST" \in Codes \ {"UNDEFINED"}
    BY DEF Codes
  <2>. QED  BY <1>1, <1>3, <2>1, AnswerIsSound DEF Becomes, Stays
<1>4. ASSUME NEW v, v \in Meets(h, t, "memory")
      PROVE  Ready(v) /\ v.conn = "none" /\ "memory" \in v.met
  <2>1. v \in ThreadType /\ Alike(v, t)
    BY <1>1, <1>4, MeetsNotes, Zenon
  <2>2. "memory" \in v.met
    BY <1>1, <1>4 DEF Meets, ThreadType
  <2>. QED  BY <1>1, <2>1, <2>2 DEF Alike, Ready
<1>5. CASE LacksErrBuf(h)
  <2>1. PICK v \in Meets(h, t, "memory") : Becomes(h, [v EXCEPT !.pc = "end"])
    BY <1>5 DEF LacksErrBuf
  <2>2. Ready(v) /\ v.conn = "none" /\ "memory" \in v.met
    BY <1>4, <2>1
  <2>3. Sound([v EXCEPT !.pc = "end"])
    BY <2>2 DEF Ready, Sound, SessionKept, AnswerKept, ThreadType, Places
  <2>. QED  BY <2>1, <2>3 DEF Becomes, Stays
<1>6. CASE ProductsParses(h)
  <2>1. Becomes(h, [t EXCEPT !.pc = "connect"]) \/ Becomes(h, Answer(t, "BAD_REQUEST"))
    BY <1>6 DEF ProductsParses
  <2>. QED  BY <1>2, <1>3, <2>1
<1>7. ASSUME ReadsCredentials(h) PROVE Stays(h)
  <2>1. CASE \E v \in Meets(h, t, "memory") : Becomes(h, Answer(v, "BAD_REQUEST"))
    <3>1. PICK v \in Meets(h, t, "memory") : Becomes(h, Answer(v, "BAD_REQUEST"))
      BY <2>1
    <3>2. "BAD_REQUEST" \in Codes \ {"UNDEFINED"}
      BY DEF Codes
    <3>. QED  BY <1>4, <3>1, <3>2, AnswerIsSound DEF Becomes, Stays
  <2>2. CASE Becomes(h, [t EXCEPT !.pc = "connect"]) \/ Becomes(h, Answer(t, "BAD_REQUEST"))
    BY <1>2, <1>3, <2>2
  <2>. QED  BY <1>7, <2>1, <2>2 DEF ReadsCredentials
<1>. QED  BY <1>2, <1>5, <1>6, <1>7 DEF LoginParses, RegisterParses, PurchaseParses

(* The sessions.                                                           *)
LEMMA ConnectingIsSound ==
  ASSUME NEW h, Sound(thread[h]),
         \/ ProductsConnects(h) \/ LoginConnects(h)
         \/ RegisterConnects(h) \/ PurchaseConnects(h)
  PROVE  Stays(h)
<1>1. {"INTERNAL_SERVER_ERROR", "SERVICE_UNAVAILABLE", "BAD_REQUEST"} \subseteq Codes \ {"UNDEFINED"}
  BY DEF Codes
<1>2. PICK code \in {"INTERNAL_SERVER_ERROR", "SERVICE_UNAVAILABLE", "BAD_REQUEST"} :
        GetsConnection(h, code)
  BY DEF ProductsConnects, LoginConnects, RegisterConnects, PurchaseConnects
<1>3. thread[h].pc = "connect"
  BY DEF ProductsConnects, LoginConnects, RegisterConnects, PurchaseConnects, At
<1>. QED  BY <1>1, <1>2, <1>3, ConnectionIsSound

(* The statements of the routines but the purchase's.                      *)
LEMMA QueriesAreSound ==
  ASSUME NEW h, Sound(thread[h]),
         ProductsQueries(h) \/ LoginQueries(h) \/ RegisterInserts(h) \/ RegisterRefused(h)
  PROVE  Stays(h)
<1>. DEFINE t == thread[h]
<1>1. t.pc = "query" /\ t \in ThreadType /\ t.req \in Requests /\ t.out = << >>
  BY DEF ProductsQueries, LoginQueries, RegisterInserts, RegisterRefused, At, Sound, AnswerKept
<1>2. {"OK", "BAD_REQUEST", "UNAUTHORIZED"} \subseteq Codes \ {"UNDEFINED"}
  BY DEF Codes
<1>3. ASSUME NEW code \in {"OK", "BAD_REQUEST", "UNAUTHORIZED"}, Becomes(h, Finishes(t, code))
      PROVE  Stays(h)
  BY <1>1, <1>2, <1>3, FinishIsSound DEF Becomes, Stays
<1>4. ASSUME NEW f, NEW v, v \in Meets(h, t, f), Becomes(h, Finishes(v, "BAD_REQUEST"))
      PROVE  Stays(h)
  <2>1. v \in ThreadType /\ Alike(v, t)
    BY <1>1, <1>4, MeetsNotes, Zenon
  <2>2. v.req \in Requests /\ v.out = << >>
    BY <1>1, <2>1 DEF Alike
  <2>. QED  BY <1>2, <1>4, <2>1, <2>2, FinishIsSound DEF Becomes, Stays
<1>5. ASSUME Becomes(h, [Finishes(t, "OK") EXCEPT !.body = "products"]) PROVE Stays(h)
  <2>1. Sound(Finishes(t, "OK"))
    BY <1>1, <1>2, FinishIsSound
  <2>2. Finishes(t, "OK").pc = "compose"
    BY <1>1 DEF Finishes, Answer, ThreadType
  <2>. QED  BY <1>5, <2>1, <2>2, BodyIsSound DEF Becomes, Stays
<1>6. StatementFails(h) => Stays(h)
  BY <1>1, FailureIsSound
<1>7. CASE ProductsQueries(h)
  BY <1>4, <1>5, <1>6, <1>7 DEF ProductsQueries
<1>8. CASE LoginQueries(h)
  BY <1>3, <1>6, <1>8 DEF LoginQueries
<1>9. CASE RegisterInserts(h)
  BY <1>3, <1>4, <1>9 DEF RegisterInserts
<1>10. CASE RegisterRefused(h)
  BY <1>3, <1>6, <1>10 DEF RegisterRefused
<1>. QED  BY <1>7, <1>8, <1>9, <1>10

(* An int is an integer, whatever is cut off.                              *)
LEMMA ToIntIsInt ==
  ASSUME NEW n \in Int
  PROVE  ToInt(n) \in Int
<1>1. Span \in Nat \ {0}
  BY HandlersAssumption
<1>. DEFINE a == n + Span \div 2
<1>2. Span \div 2 \in Int
  BY <1>1
<1>3. a \in Int
  BY <1>2
<1>. HIDE DEF a
<1>4. a % Span \in Int
  BY <1>1, <1>3
<1>. QED  BY <1>2, <1>4 DEF ToInt, a

(* A purchase begins to buy.                                               *)
LEMMA BeginningIsSound ==
  ASSUME NEW h, Sound(thread[h]), PurchaseBegins(h)
  PROVE  Stays(h)
<1>. DEFINE t == thread[h]
<1>1. t.pc = "query" /\ t \in ThreadType /\ t.req \in Requests /\ t.out = << >>
  BY DEF PurchaseBegins, At, Sound, AnswerKept
<1>2. t.req.items \in Seq(ItemType)
  BY <1>1, HandlersAssumption DEF PurchaseBegins, ItemType
<1>. DEFINE items == t.req.items
<1>. HIDE DEF items
<1>3. Sound([t EXCEPT !.todo = items, !.pc = "buy"])
  BY <1>1, <1>2 DEF Sound, SessionKept, AnswerKept, ThreadType, Places, items
<1>. QED  BY <1>3 DEF PurchaseBegins, Becomes, Stays, items

(* A malformed purchase keeps its session, and is the only one to do so.   *)
LEMMA MalformedIsSound ==
  ASSUME NEW h, Sound(thread[h]), PurchaseIsMalformed(h)
  PROVE  Stays(h)
<1>. DEFINE t == thread[h]
<1>1. t.pc = "query" /\ t \in ThreadType /\ t.req \in Requests /\ t.out = << >>
        /\ t.req.route = "purchase"
  BY DEF PurchaseIsMalformed, At, Sound, AnswerKept
<1>2. "BAD_REQUEST" \in Codes \ {"UNDEFINED"}
  BY DEF Codes
<1>3. CASE t.req.user = Nobody /\ Becomes(h, Answer(t, "BAD_REQUEST"))
  <2>1. Ready(t)
    BY <1>1, <1>3 DEF Ready
  <2>. QED  BY <1>2, <1>3, <2>1, AnswerIsSound DEF Becomes, Stays
<1>4. CASE t.req.items = NotAnArray
             /\ Becomes(h, [Answer(t, "BAD_REQUEST") EXCEPT !.body = "unsold"])
  <2>1. Ready(t)
    BY <1>1, <1>4 DEF Ready
  <2>2. Sound(Answer(t, "BAD_REQUEST"))
    BY <1>2, <2>1, AnswerIsSound
  <2>3. Answer(t, "BAD_REQUEST").pc = "compose"
    BY <1>1, <1>2, AnswerIsTyped
  <2>. QED  BY <1>4, <2>2, <2>3, BodyIsSound DEF Becomes, Stays
<1>5. ASSUME NEW v, v \in Meets(h, t, "memory"), Becomes(h, Answer(v, "BAD_REQUEST"))
      PROVE  Stays(h)
  <2>1. v \in ThreadType /\ Alike(v, t)
    BY <1>1, <1>5, MeetsNotes, Zenon
  <2>2. "memory" \in v.met
    BY <1>1, <1>5 DEF Meets, ThreadType
  <2>3. Ready(v)
    BY <1>1, <2>1, <2>2 DEF Alike, Ready
  <2>. QED  BY <1>2, <1>5, <2>3, AnswerIsSound DEF Becomes, Stays
<1>. QED  BY <1>3, <1>4, <1>5 DEF PurchaseIsMalformed

(* The state of the loop over the products.                                *)
InLoop(t) == t \in ThreadType /\ t.pc = "buy" /\ t.req \in Requests /\ t.out = << >>

(* In the loop nothing has been written, and a session is in use.          *)
LEMMA InLoopIsSound ==
  ASSUME NEW t, InLoop(t)
  PROVE  Sound(t)
BY DEF InLoop, Sound, SessionKept, AnswerKept

(* The loop goes on to the next product.                                   *)
LEMMA NextItemStays ==
  ASSUME NEW t, InLoop(t), t.todo # << >>
  PROVE  InLoop(NextItem(t))
<1>1. t.todo \in Seq(ItemType)
  BY DEF InLoop, ThreadType
<1>2. Tail(t.todo) \in Seq(ItemType)
  BY <1>1, HeadTailProperties
<1>. DEFINE rest == Tail(t.todo)
<1>. HIDE DEF rest
<1>3. InLoop([t EXCEPT !.todo = rest])
  BY <1>2 DEF InLoop, ThreadType, rest
<1>. QED  BY <1>3 DEF NextItem, rest

(* A fault that is noted leaves the products to buy.                       *)
LEMMA MeetingStays ==
  ASSUME NEW t, InLoop(t), NEW h, NEW f, NEW v, v \in Meets(h, t, f)
  PROVE  InLoop(v) /\ v.todo = t.todo
<1>1. t \in ThreadType
  BY DEF InLoop
<1>2. v \in ThreadType /\ Alike(v, t)
  BY <1>1, MeetsNotes, Zenon
<1>3. v = [t EXCEPT !.met = @ \cup {f}]
  BY DEF Meets
<1>4. v.todo = t.todo
  BY <1>1, <1>3 DEF ThreadType
<1>. QED  BY <1>2, <1>4 DEF InLoop, Alike

(* So does a product that joins the list of the unpurchased.               *)
LEMMA UnsoldStays ==
  ASSUME NEW t, InLoop(t), NEW p \in Int \cup {Nobody}
  PROVE  InLoop([t EXCEPT !.unsold = Append(@, p)])
           /\ [t EXCEPT !.unsold = Append(@, p)].todo = t.todo
<1>1. Append(t.unsold, p) \in Seq(Int \cup {Nobody})
  BY AppendProperties DEF InLoop, ThreadType
<1>. DEFINE s == Append(t.unsold, p)
<1>. HIDE DEF s
<1>2. InLoop([t EXCEPT !.unsold = s]) /\ [t EXCEPT !.unsold = s].todo = t.todo
  BY <1>1 DEF InLoop, ThreadType, s
<1>. QED  BY <1>2 DEF s

(* A product is noted as unsold, as far as there is memory.                *)
LEMMA NotedStays ==
  ASSUME NEW t, InLoop(t), t.todo # << >>, NEW h, NEW p \in Int \cup {Nobody},
         NEW v, v \in Noted(h, t, p)
  PROVE  InLoop(v)
<1>1. ASSUME NEW q \in Int \cup {Nobody}
      PROVE  InLoop(NextItem([t EXCEPT !.unsold = Append(@, q)]))
  <2>. DEFINE u == [t EXCEPT !.unsold = Append(@, q)]
  <2>1. InLoop(u) /\ u.todo = t.todo
    BY UnsoldStays
  <2>. HIDE DEF u
  <2>2. InLoop(NextItem(u))
    BY <2>1, NextItemStays
  <2>. QED  BY <2>2 DEF u
<1>2. CASE v = NextItem([t EXCEPT !.unsold = Append(@, p)])
  BY <1>1, <1>2
<1>3. CASE v \in Meets(h, [t EXCEPT !.code = "SERVICE_UNAVAILABLE"], "memory")
  <2>1. InLoop([t EXCEPT !.code = "SERVICE_UNAVAILABLE"])
    BY DEF InLoop, ThreadType, Codes
  <2>. QED  BY <1>3, <2>1, MeetingStays
<1>4. CASE v \in Meets(h, NextItem([t EXCEPT !.unsold = Append(@, Nobody)]), "memory")
  BY <1>1, <1>4, MeetingStays
<1>. QED  BY <1>2, <1>3, <1>4 DEF Noted

(* One product after the other.                                            *)
LEMMA BuyingIsSound ==
  ASSUME NEW h, Sound(thread[h]),
         \/ PurchaseSkips(h) \/ PurchaseSells(h) \/ PurchaseRefused(h)
         \/ PurchaseStatusUnknown(h)
  PROVE  Stays(h)
<1>. DEFINE t == thread[h]
<1>1. InLoop(t) /\ t.todo # << >>
  BY DEF PurchaseSkips, PurchaseSells, PurchaseRefused, PurchaseStatusUnknown, Buying, At,
         Sound, AnswerKept, InLoop
<1>2. Item(h) \in ItemType
  <2>1. t.todo \in Seq(ItemType)
    BY <1>1 DEF InLoop, ThreadType
  <2>. QED  BY <1>1, <2>1, HeadTailProperties DEF Item
<1>3. Item(h).pid # Nobody => Pid(Item(h)) \in Int
  BY <1>2, ToIntIsInt DEF ItemType, Pid
<1>4. ASSUME NEW u, InLoop(u), Becomes(h, u) PROVE Stays(h)
  BY <1>4, InLoopIsSound DEF Becomes, Stays
<1>5. CASE PurchaseSkips(h)
  BY <1>1, <1>4, <1>5, NextItemStays DEF PurchaseSkips
<1>6. CASE PurchaseSells(h)
  <2>. DEFINE pid  == Pid(Item(h))
              sold == [t EXCEPT !.sold = Append(@, pid)]
  <2>1. pid \in Products /\ pid \in Int
    BY <1>3, <1>6 DEF PurchaseSells, Sells
  <2>2. Append(t.sold, pid) \in Seq(Products)
    BY <1>1, <2>1, AppendProperties DEF InLoop, ThreadType
  <2>. DEFINE s == Append(t.sold, pid)
  <2>. HIDE DEF s, pid
  <2>3. /\ InLoop([[t EXCEPT !.sold = s] EXCEPT !.any = TRUE])
        /\ [[t EXCEPT !.sold = s] EXCEPT !.any = TRUE].todo = t.todo
        /\ InLoop([[t EXCEPT !.sold = s] EXCEPT !.conn = "dead"])
        /\ [[t EXCEPT !.sold = s] EXCEPT !.conn = "dead"].todo = t.todo
    BY <1>1, <2>2 DEF InLoop, ThreadType, s
  <2>4. \/ Becomes(h, NextItem([[t EXCEPT !.sold = s] EXCEPT !.any = TRUE]))
        \/ \E broken \in Meets(h, [[t EXCEPT !.sold = s] EXCEPT !.conn = "dead"], "lost") :
             \E u \in Noted(h, broken, pid) : Becomes(h, u)
    BY <1>6 DEF PurchaseSells, s, pid
  <2>5. CASE Becomes(h, NextItem([[t EXCEPT !.sold = s] EXCEPT !.any = TRUE]))
    BY <1>1, <1>4, <2>3, <2>5, NextItemStays
  <2>6. ASSUME NEW broken, broken \in Meets(h, [[t EXCEPT !.sold = s] EXCEPT !.conn = "dead"], "lost"),
               NEW u, u \in Noted(h, broken, pid), Becomes(h, u)
        PROVE  Stays(h)
    <3>. DEFINE dead == [[t EXCEPT !.sold = s] EXCEPT !.conn = "dead"]
    <3>0. InLoop(dead) /\ dead.todo # << >> /\ broken \in Meets(h, dead, "lost")
      BY <1>1, <2>3, <2>6
    <3>. HIDE DEF dead
    <3>1. InLoop(broken) /\ broken.todo # << >>
      BY <3>0, MeetingStays
    <3>2. InLoop(u)
      BY <2>1, <2>6, <3>1, NotedStays
    <3>. QED  BY <1>4, <2>6, <3>2
  <2>. QED  BY <2>4, <2>5, <2>6
<1>7. CASE PurchaseRefused(h)
  <2>1. Pid(Item(h)) \in Int \cup {Nobody}
    BY <1>3, <1>7 DEF PurchaseRefused
  <2>2. ASSUME NEW u, u \in Noted(h, t, Pid(Item(h))), Becomes(h, u) PROVE Stays(h)
    <3>1. InLoop(u)
      BY <1>1, <2>1, <2>2, NotedStays
    <3>. QED  BY <1>4, <2>2, <3>1
  <2>3. ASSUME NEW v, v \in Meets(h, t, "database"),
               NEW u, u \in Noted(h, v, Pid(Item(h))), Becomes(h, u)
        PROVE  Stays(h)
    <3>1. InLoop(v) /\ v.todo # << >>
      BY <1>1, <2>3, MeetingStays
    <3>2. InLoop(u)
      BY <2>1, <2>3, <3>1, NotedStays
    <3>. QED  BY <1>4, <2>3, <3>2
  <2>. QED  BY <1>7, <2>2, <2>3 DEF PurchaseRefused
<1>8. CASE PurchaseStatusUnknown(h)
  <2>1. PICK v : v \in Meets(h, t, "database")
                   /\ Becomes(h, [v EXCEPT !.code = "INTERNAL_SERVER_ERROR"])
    BY <1>8 DEF PurchaseStatusUnknown
  <2>2. InLoop(v)
    BY <1>1, <2>1, MeetingStays
  <2>3. InLoop([v EXCEPT !.code = "INTERNAL_SERVER_ERROR"])
    BY <2>2 DEF InLoop, ThreadType, Codes
  <2>. QED  BY <1>4, <2>1, <2>3
<1>. QED  BY <1>5, <1>6, <1>7, <1>8

(* The end of the loop, and PQfinish.                                      *)
LEMMA PurchaseEndIsSound ==
  ASSUME NEW h, Sound(thread[h]), PurchaseEnds(h)
  PROVE  Stays(h)
<1>. DEFINE t == thread[h]
            u == Finishes(t, PurchaseCode(t))
<1>1. t.pc = "buy" /\ t \in ThreadType /\ t.req \in Requests /\ t.out = << >>
  BY DEF PurchaseEnds, At, Sound, AnswerKept
<1>2. PurchaseCode(t) \in Codes \ {"UNDEFINED"}
  BY <1>1 DEF PurchaseCode, ThreadType, Codes
<1>3. Sound(u)
  BY <1>1, <1>2, FinishIsSound
<1>4. u.pc = "compose" /\ u.conn = "none"
  BY <1>1 DEF Finishes, Answer, ThreadType
<1>5. Becomes(h, [u EXCEPT !.body = "unsold"]) \/ \E v \in Meets(h, u, "memory") : Becomes(h, v)
  BY DEF PurchaseEnds
<1>. HIDE DEF u
<1>6. CASE Becomes(h, [u EXCEPT !.body = "unsold"])
  BY <1>3, <1>4, <1>6, BodyIsSound DEF Becomes, Stays
<1>7. ASSUME NEW v, v \in Meets(h, u, "memory"), Becomes(h, v) PROVE Stays(h)
  <2>1. v \in ThreadType /\ Alike(v, u)
    BY <1>3, <1>7, MeetsNotes, Zenon DEF Sound
  <2>2. Sound(v)
    BY <1>3, <1>4, <2>1 DEF Sound, SessionKept, AnswerKept, Alike
  <2>. QED  BY <1>7, <2>2 DEF Becomes, Stays
<1>. QED  BY <1>5, <1>6, <1>7

-----------------------------------------------------------------------------
(***************************************************************************)
(* The answer.                                                             *)
(***************************************************************************)

(* The interim response has its header at once.                            *)
LEMMA ContinueIsSound ==
  ASSUME NEW h, Sound(thread[h]), SendsContinue(h)
  PROVE  Stays(h)
<1>. DEFINE t == [thread[h] EXCEPT !.code = "CONTINUE", !.header = TRUE]
<1>1. Ready(t) /\ t.code # "UNDEFINED" /\ t.header
  BY DEF SendsContinue, At, Sound, SessionKept, AnswerKept, Ready, ThreadType, Codes
<1>2. Writes(h, t)
  BY DEF SendsContinue
<1>. HIDE DEF t
<1>. QED  BY <1>1, <1>2, WritesIsSound

(* An answer without a header has met a lack of memory.                    *)
LEMMA ComposingIsSound ==
  ASSUME NEW h, Sound(thread[h]), Composes(h)
  PROVE  Stays(h)
<1>. DEFINE t == thread[h]
<1>1. Ready(t) /\ t.code # "UNDEFINED"
  BY DEF Composes, At, Sound, SessionKept, AnswerKept, Ready
<1>2. CASE Writes(h, [t EXCEPT !.header = TRUE])
  <2>. DEFINE u == [t EXCEPT !.header = TRUE]
  <2>1. Ready(u) /\ u.code # "UNDEFINED" /\ u.header
    BY <1>1 DEF Ready, ThreadType
  <2>2. Writes(h, u)
    BY <1>2
  <2>. HIDE DEF u
  <2>. QED  BY <2>1, <2>2, WritesIsSound
<1>3. ASSUME NEW v, v \in Meets(h, t, "memory"),
             Writes(h, [v EXCEPT !.code = "SERVICE_UNAVAILABLE"])
      PROVE  Stays(h)
  <2>. DEFINE u == [v EXCEPT !.code = "SERVICE_UNAVAILABLE"]
  <2>1. v \in ThreadType /\ Alike(v, t)
    BY <1>1, <1>3, MeetsNotes, Zenon DEF Ready
  <2>2. "memory" \in v.met
    BY <1>1, <1>3 DEF Meets, Ready, ThreadType
  <2>3. Ready(u) /\ u.code # "UNDEFINED" /\ "memory" \in u.met
    BY <1>1, <2>1, <2>2 DEF Ready, Alike, ThreadType, Codes
  <2>4. Writes(h, u)
    BY <1>3
  <2>. HIDE DEF u
  <2>. QED  BY <2>3, <2>4, WritesIsSound
<1>. QED  BY <1>2, <1>3 DEF Composes

(* write_response.  Its count of what is left goes with the length of what *)
(* has been written, though not with its contents.                         *)
LEMMA WritingIsSound ==
  ASSUME NEW h, Sound(thread[h]), WritesSome(h)
  PROVE  Stays(h)
<1>. DEFINE w == thread[h]
            r == Response(w)
<1>1. w.pc = "write" /\ w \in ThreadType /\ w.req \in Requests
  BY DEF WritesSome, At, Sound
<1>2. r \in Seq(Pieces) /\ Len(r) \in 1..3 /\ w.out \in Seq(Pieces) /\ w.left \in 0..3
  BY <1>1, ResponseIsShort DEF ThreadType
<1>3. Len(w.out) + w.left = Len(r) /\ Len(w.out) \in Nat
  BY <1>1, <1>2, LenProperties DEF Sound, AnswerKept
<1>4. PICK n \in 1..w.left :
        \E t \in IF n = w.left THEN {w} ELSE Meets(h, w, "network") :
          Becomes(h, [t EXCEPT !.out  = @ \o SubSeq(Response(w), 1, n),
                               !.left = Remaining(w, n),
                               !.pc   = IF Remaining(w, n) = 0 THEN "end" ELSE "write"])
  BY DEF WritesSome
<1>5. PICK t \in IF n = w.left THEN {w} ELSE Meets(h, w, "network") :
        Becomes(h, [t EXCEPT !.out  = @ \o SubSeq(Response(w), 1, n),
                             !.left = Remaining(w, n),
                             !.pc   = IF Remaining(w, n) = 0 THEN "end" ELSE "write"])
  BY <1>4
<1>6. t \in ThreadType /\ Alike(t, w) /\ (n = w.left => t = w) /\ (n # w.left => "network" \in t.met)
  <2>1. CASE n = w.left
    BY <1>1, <1>5, <2>1 DEF Alike
  <2>2. CASE n # w.left
    <3>1. t \in Meets(h, w, "network")
      BY <1>5, <2>2
    <3>2. t \in ThreadType /\ Alike(t, w)
      BY <1>1, <3>1, MeetsNotes, Zenon
    <3>3. "network" \in t.met
      BY <1>1, <3>1 DEF Meets, ThreadType
    <3>. QED  BY <2>2, <3>2, <3>3
  <2>. QED  BY <2>1, <2>2
<1>7. n \in 1..Len(r) /\ n \in Nat
  BY <1>2, <1>3
<1>. DEFINE now  == t.out \o SubSeq(r, 1, n)
            left == w.left - n
            u    == [t EXCEPT !.out = now, !.left = left,
                              !.pc = IF left = 0 THEN "end" ELSE "write"]
<1>8. SubSeq(r, 1, n) \in Seq(Pieces) /\ Len(SubSeq(r, 1, n)) = n
  <2>1. \A i \in 1..n : r[i] \in Pieces
    BY <1>2, <1>7, ElementOfSeq
  <2>. HIDE DEF r
  <2>. QED  BY <1>7, <2>1, SubSeqProperties
<1>9. now \in Seq(Pieces) /\ Len(now) = Len(t.out) + n
  BY <1>2, <1>6, <1>8, ConcatProperties DEF Alike
<1>10. left \in 0..3 /\ Len(now) + left = Len(r)
  <2>1. Len(now) = Len(w.out) + n
    BY <1>6, <1>9 DEF Alike
  <2>2. \A a \in Nat, l \in 0..3 : \A k \in 1..l : l - k \in 0..3 /\ (a + k) + (l - k) = a + l
    OBVIOUS
  <2>3. left \in 0..3 /\ (Len(w.out) + n) + left = Len(w.out) + w.left
    BY <1>2, <1>3, <2>2
  <2>. HIDE DEF now, left, r
  <2>. QED  BY <1>3, <2>1, <2>3
<1>11. "network" \notin t.met => n = w.left /\ w.out = << >> /\ now = r
  <2>1. SUFFICES ASSUME "network" \notin t.met PROVE n = w.left /\ w.out = << >> /\ now = r
    OBVIOUS
  <2>2. n = w.left /\ t = w
    BY <1>6, <2>1
  <2>3. w.out = << >>
    BY <1>1, <2>1, <2>2 DEF Sound, AnswerKept
  <2>4. n = Len(r)
    BY <1>2, <1>3, <2>2, <2>3
  <2>5. SubSeq(r, 1, n) = r
    BY <1>2, <2>4, SubSeqFull
  <2>6. << >> \o r = r
    BY <1>2, ConcatEmptySeq
  <2>. QED  BY <2>2, <2>3, <2>5, <2>6
<1>12. Becomes(h, u)
  BY <1>5 DEF Remaining
<1>13. Response(u) = r
  <2>1. Response(t) = Response(w)
    BY <1>4, <1>5, <1>1 DEF Response, Meets, ThreadType
  <2>2. u.header = t.header /\ u.body = t.body
    BY <1>6 DEF ThreadType
  <2>. QED  BY <2>1, <2>2 DEF Response
<1>. HIDE DEF now, left, r
<1>14. /\ u \in ThreadType /\ u.req = w.req /\ u.conn = w.conn /\ u.met = t.met /\ u.code = w.code
       /\ u.header = w.header /\ u.left = left /\ u.out = now
       /\ u.pc = IF left = 0 THEN "end" ELSE "write"
  BY <1>6, <1>9, <1>10 DEF ThreadType, Alike, Places
<1>. HIDE DEF u
<1>15. SessionKept(u)
  BY <1>1, <1>6, <1>14 DEF Sound, SessionKept, Alike
<1>16. u.code # "UNDEFINED" /\ ("memory" \notin u.met => u.header)
  BY <1>1, <1>6, <1>14 DEF Sound, AnswerKept, Alike
<1>17. CASE left = 0
  <2>1. u.pc = "end"
    BY <1>14, <1>17
  <2>2. Len(u.out) = Len(Response(u))
    <3>1. Len(now) + 0 = Len(now)
      BY <1>9, LenProperties
    <3>. QED  BY <1>10, <1>13, <1>14, <1>17, <3>1
  <2>3. AnswerKept(u)
    BY <1>11, <1>13, <1>14, <1>16, <2>1, <2>2 DEF AnswerKept
  <2>. QED  BY <1>1, <1>12, <1>14, <1>15, <2>1, <2>3 DEF Sound, Becomes, Stays
<1>18. CASE left # 0
  <2>1. u.pc = "write" /\ u.left > 0 /\ "network" \in t.met
    BY <1>4, <1>10, <1>11, <1>14, <1>18 DEF left
  <2>2. Len(u.out) + u.left = Len(Response(u))
    BY <1>10, <1>13, <1>14
  <2>3. AnswerKept(u)
    BY <1>14, <1>16, <2>1, <2>2 DEF AnswerKept
  <2>. QED  BY <1>1, <1>12, <1>14, <1>15, <2>1, <2>3 DEF Sound, Becomes, Stays
<1>. QED  BY <1>17, <1>18

(* The write that fails.  What is left is not zero then.                   *)
LEMMA WriteFailureIsSound ==
  ASSUME NEW h, Sound(thread[h]), WriteFails(h)
  PROVE  Stays(h)
<1>. DEFINE w == thread[h]
<1>1. w.pc = "write" /\ w \in ThreadType
  BY DEF WriteFails, At, Sound
<1>2. PICK t : t \in Meets(h, w, "network") /\ Becomes(h, [t EXCEPT !.pc = "end"])
  BY DEF WriteFails
<1>3. t \in ThreadType /\ Alike(t, w)
  BY <1>1, <1>2, MeetsNotes, Zenon
<1>4. "network" \in t.met
  BY <1>1, <1>2 DEF Meets, ThreadType
<1>5. t.left > 0 /\ t.left # 0
  BY <1>1, <1>3 DEF Sound, AnswerKept, Alike, ThreadType
<1>6. Sound([t EXCEPT !.pc = "end"])
  BY <1>1, <1>3, <1>4, <1>5 DEF Sound, SessionKept, AnswerKept, Alike, ThreadType, Places
<1>. QED  BY <1>2, <1>6 DEF Becomes, Stays

(* The end of the thread.                                                  *)
LEMMA EndIsSound ==
  ASSUME NEW h, Sound(thread[h]), Ends(h)
  PROVE  Stays(h)
<1>. DEFINE t == thread[h]
            u == [NewThread(t.req) EXCEPT !.pc = "gone", !.code = t.code, !.conn = t.conn,
                                          !.met = t.met]
<1>1. t.pc = "end" /\ t \in ThreadType /\ t.req \in Requests
  BY DEF Ends, Sound
<1>2. NewThread(t.req) \in ThreadType
  BY <1>1, NewThreadIsTyped
<1>3. /\ u \in ThreadType /\ u.pc = "gone" /\ u.req = t.req /\ u.conn = t.conn /\ u.met = t.met
  BY <1>1, <1>2 DEF ThreadType, NewThread, Places
<1>4. Becomes(h, u)
  BY DEF Ends
<1>. HIDE DEF u
<1>5. Sound(u)
  BY <1>1, <1>3 DEF Sound, SessionKept, AnswerKept
<1>. QED  BY <1>4, <1>5 DEF Becomes, Stays

-----------------------------------------------------------------------------
(***************************************************************************)
(* The invariant of all handlers, and the theorems.                        *)
(***************************************************************************)

(* A crash leaves everything as it is.                                     *)
LEMMA CrashesLeaveAll ==
  ASSUME NEW h, Crashes(h)
  PROVE  UNCHANGED <<database, thread>> /\ up' = FALSE
BY DEF Crashes, TagIsWild, BufferIsShort, NumberIsLong, DateIsNull, Crash

(* All steps of a thread that runs.                                        *)
LEMMA RunningIsSound ==
  ASSUME NEW h, Sound(thread[h]), Runs(h)
  PROVE  Stays(h) \/ UNCHANGED thread
<1>1. CASE Purchases(h)
  BY <1>1, ParsingIsSound, ConnectingIsSound, MalformedIsSound, BeginningIsSound,
     BuyingIsSound, PurchaseEndIsSound DEF Purchases
<1>. QED  BY <1>1, ParsingIsSound, ConnectingIsSound, QueriesAreSound, ContinueIsSound,
             ComposingIsSound, WritingIsSound, WriteFailureIsSound, EndIsSound DEF Runs

(* A thread with a request to serve.                                       *)
LEMMA DispatchIsSound ==
  ASSUME NEW h, Dispatch(h)
  PROVE  Stays(h)
<1>1. PICK r \in Requests : Becomes(h, NewThread(r))
  BY DEF Dispatch
<1>2. NewThread(r) \in ThreadType
  BY NewThreadIsTyped
<1>3. Sound(NewThread(r))
  BY <1>2 DEF Sound, SessionKept, AnswerKept, NewThread
<1>. QED  BY <1>1, <1>3 DEF Becomes, Stays

(* The inductive invariant: all handlers are sound.                        *)
HandlersSound ==
  /\ DOMAIN thread = Handlers
  /\ \A h \in Handlers : Sound(thread[h])

(* At the start all handlers are idle.                                     *)
LEMMA HandlersBeginSound == Init => HandlersSound
<1>. SUFFICES ASSUME Init PROVE HandlersSound
  OBVIOUS
<1>1. NewThread([route |-> "none"]) \in ThreadType
  BY NewThreadIsTyped
<1>2. Idle \in ThreadType /\ Idle.pc = "idle" /\ Idle.conn = "none"
  BY <1>1 DEF Idle, ThreadType, NewThread, Places
<1>3. Sound(Idle)
  BY <1>2 DEF Sound, SessionKept, AnswerKept
<1>. QED  BY <1>3 DEF Init, HandlersSound

(* A step changes one handler, which stays sound by itself.                *)
LEMMA HandlersStaySound == HandlersSound /\ [Next]_vars => HandlersSound'
<1>. SUFFICES ASSUME HandlersSound, [Next]_vars PROVE HandlersSound'
  OBVIOUS
<1>1. ASSUME NEW h \in Handlers, Stays(h) PROVE HandlersSound'
  <2>1. PICK u : Sound(u) /\ thread' = [thread EXCEPT ![h] = u]
    BY <1>1 DEF Stays
  <2>2. \A g \in Handlers : thread'[g] = IF g = h THEN u ELSE thread[g]
    BY <2>1 DEF HandlersSound
  <2>3. DOMAIN thread' = Handlers
    BY <2>1 DEF HandlersSound
  <2>4. \A g \in Handlers : Sound(thread'[g])
    BY <2>1, <2>2 DEF HandlersSound
  <2>. QED  BY <2>3, <2>4 DEF HandlersSound, Sound
<1>2. CASE UNCHANGED thread
  BY <1>2 DEF HandlersSound
<1>3. CASE UNCHANGED vars
  BY <1>2, <1>3 DEF vars
<1>4. CASE Finished
  BY <1>2, <1>4 DEF Finished, vars
<1>6. CASE \E h \in Handlers : Crashes(h)
  BY <1>2, <1>6, CrashesLeaveAll
<1>5. CASE \E h \in Handlers : Dispatch(h) \/ Runs(h)
  <2>1. PICK h \in Handlers : Dispatch(h) \/ Runs(h)
    BY <1>5
  <2>2. Sound(thread[h])
    BY DEF HandlersSound
  <2>. QED  BY <1>1, <1>2, <2>1, <2>2, DispatchIsSound, RunningIsSound
<1>. QED  BY <1>3, <1>4, <1>5, <1>6 DEF Next

(* Whatever the database, the network and the memory do, each handler is   *)
(* sound at every moment.                                                  *)
THEOREM HandlersAreSound == Spec => []HandlersSound
<1>. QED  BY HandlersBeginSound, HandlersStaySound, PTL DEF Spec

(* For any number of handlers and sessions and any requests, a session     *)
(* comes back before the answer goes out, but for the malformed purchases  *)
(* of threadroutines.c:443-444 and those that found no memory.             *)
THEOREM EverySessionIsReturned == Spec => []SessionsAreReturned
<1>1. HandlersSound => SessionsAreReturned
  BY DEF HandlersSound, Sound, SessionKept, SessionsAreReturned
<1>. QED  BY <1>1, HandlersAreSound, PTL

(* However a response is cut into writes, what is on the wire when the     *)
(* thread ends is as long as the response, and it is the response, with a  *)
(* header, if no write was short: httphelper.c:186-200 and 217-244.        *)
THEOREM WireAlwaysHoldsAnswer == Spec => []WireHoldsAnswer
<1>1. HandlersSound => WireHoldsAnswer
  BY DEF HandlersSound, Sound, AnswerKept, WireHoldsAnswer
<1>. QED  BY <1>1, HandlersAreSound, PTL
-----------------------------------------------------------------------------
(***************************************************************************)
(* The accounts, which the handlers share.                                 *)
(***************************************************************************)

(* The routes that tell a client of an account, and those who told so.     *)
Accounts == {"register", "login"}

Claims(t) == t.code = "OK" /\ t.req.route \in Accounts

(* t's user is in the table a, with t's password.                          *)
Holds(a, t) == t.req.user \in DOMAIN a /\ a[t.req.user] = t.req.password

(* u has the request of t, and no success that t had not, unless it sells. *)
Modest(u, t) ==
  u.req = t.req /\ (u.code = "OK" => t.code = "OK" \/ t.req.route \notin Accounts)

(* A step of h that promises nothing new to a client.                      *)
Quiet(h) == \E u : Modest(u, thread[h]) /\ thread' = [thread EXCEPT ![h] = u]

(* A fault that is noted promises nothing.                                 *)
LEMMA MeetsIsModest ==
  ASSUME NEW h, NEW t \in ThreadType, NEW f, NEW v, v \in Meets(h, t, f)
  PROVE  v \in ThreadType /\ v.code = t.code /\ v.req = t.req
<1>1. v \in ThreadType /\ Alike(v, t)
  BY MeetsNotes, Zenon
<1>. QED  BY <1>1 DEF Alike

(* Nor does an answer other than 200.                                      *)
LEMMA AnswerIsModest ==
  ASSUME NEW t \in ThreadType, NEW v \in ThreadType, NEW code \in Codes \ {"OK"},
         v.req = t.req, v.code = t.code
  PROVE  Modest(Answer(v, code), t) /\ Modest(Finishes(v, code), t)
BY DEF Modest, Answer, Finishes, ThreadType

(* Nor does a request that is read, or refused at once.                    *)
LEMMA ParsingIsQuiet ==
  ASSUME NEW h, thread[h] \in ThreadType,
         \/ LacksErrBuf(h) \/ ProductsParses(h) \/ LoginParses(h)
         \/ RegisterParses(h) \/ PurchaseParses(h)
  PROVE  Quiet(h)
<1>. DEFINE t == thread[h]
<1>1. ASSUME Becomes(h, [t EXCEPT !.pc = "connect"]) PROVE Quiet(h)
  <2>1. Modest([t EXCEPT !.pc = "connect"], t)
    BY DEF Modest, ThreadType
  <2>. QED  BY <1>1, <2>1 DEF Becomes, Quiet
<1>2. ASSUME NEW v \in ThreadType, v.req = t.req, v.code = t.code,
             Becomes(h, Answer(v, "BAD_REQUEST")) \/ Becomes(h, [v EXCEPT !.pc = "end"])
      PROVE  Quiet(h)
  <2>1. Modest(Answer(v, "BAD_REQUEST"), t)
    BY <1>2, AnswerIsModest DEF Codes
  <2>2. Modest([v EXCEPT !.pc = "end"], t)
    BY <1>2 DEF Modest, ThreadType
  <2>. QED  BY <1>2, <2>1, <2>2 DEF Becomes, Quiet
<1>3. \/ Becomes(h, [t EXCEPT !.pc = "connect"])
      \/ Becomes(h, Answer(t, "BAD_REQUEST"))
      \/ \E v \in Meets(h, t, "memory") :
           Becomes(h, Answer(v, "BAD_REQUEST")) \/ Becomes(h, [v EXCEPT !.pc = "end"])
  BY DEF LacksErrBuf, ProductsParses, LoginParses, RegisterParses, PurchaseParses,
         ReadsCredentials
<1>4. ASSUME NEW v, v \in Meets(h, t, "memory"),
             Becomes(h, Answer(v, "BAD_REQUEST")) \/ Becomes(h, [v EXCEPT !.pc = "end"])
      PROVE  Quiet(h)
  <2>1. v \in ThreadType /\ v.code = t.code /\ v.req = t.req
    BY <1>4, MeetsIsModest
  <2>. QED  BY <1>2, <1>4, <2>1
<1>. QED  BY <1>1, <1>2, <1>3, <1>4

(* The error that a connection or a statement ends with is no success.     *)
LEMMA FailingIsQuiet ==
  ASSUME NEW h, thread[h] \in ThreadType,
         \/ ProductsConnects(h) \/ LoginConnects(h) \/ RegisterConnects(h)
         \/ PurchaseConnects(h) \/ StatementFails(h)
  PROVE  Quiet(h)
<1>. DEFINE t    == thread[h]
            Bad  == {"BAD_REQUEST", "INTERNAL_SERVER_ERROR", "SERVICE_UNAVAILABLE"}
            none == [t EXCEPT !.conn = "none"]
<1>0. Bad \subseteq Codes \ {"OK"}
  BY DEF Codes
<1>1. ASSUME NEW v \in ThreadType, v.req = t.req, v.code = t.code, NEW code \in Bad,
             Becomes(h, Answer(v, code))
      PROVE  Quiet(h)
  <2>1. Modest(Answer(v, code), t)
    BY <1>0, <1>1, AnswerIsModest
  <2>. QED  BY <1>1, <2>1 DEF Becomes, Quiet
<1>2. none \in ThreadType /\ none.req = t.req /\ none.code = t.code
  BY DEF ThreadType
<1>3. CASE Becomes(h, [t EXCEPT !.conn = "open", !.pc = "query"])
  <2>1. Modest([t EXCEPT !.conn = "open", !.pc = "query"], t)
    BY DEF Modest, ThreadType
  <2>. QED  BY <1>3, <2>1 DEF Becomes, Quiet
<1>4. ASSUME NEW f, NEW s \in ThreadType, s.req = t.req, s.code = t.code,
             NEW v, v \in Meets(h, s, f), NEW code \in Bad, Becomes(h, Answer(v, code))
      PROVE  Quiet(h)
  <2>1. v \in ThreadType /\ v.code = s.code /\ v.req = s.req
    BY <1>4, MeetsIsModest
  <2>. QED  BY <1>1, <1>4, <2>1
<1>5. CASE StatementFails(h)
  <2>1. PICK v : v \in Meets(h, none, "database") /\
          (Becomes(h, Answer(v, "BAD_REQUEST")) \/ Becomes(h, Answer(v, "INTERNAL_SERVER_ERROR")))
    BY <1>5 DEF StatementFails
  <2>. HIDE DEF none
  <2>. QED  BY <1>2, <1>4, <2>1
<1>6. CASE \E code \in Bad : GetsConnection(h, code)
  BY <1>1, <1>3, <1>4, <1>6 DEF GetsConnection
<1>. QED  BY <1>5, <1>6 DEF ProductsConnects, LoginConnects, RegisterConnects, PurchaseConnects

(* A query that does not touch an account, and what it answers.            *)
LEMMA ProductsAreQuiet ==
  ASSUME NEW h, thread[h] \in ThreadType, ProductsQueries(h)
  PROVE  Quiet(h)
<1>. DEFINE t == thread[h]
<1>1. t.req.route = "products"
  BY DEF ProductsQueries, At
<1>2. CASE Becomes(h, [Finishes(t, "OK") EXCEPT !.body = "products"])
  <2>1. Modest([Finishes(t, "OK") EXCEPT !.body = "products"], t)
    BY <1>1 DEF Modest, Finishes, Answer, ThreadType, Accounts
  <2>. QED  BY <1>2, <2>1 DEF Becomes, Quiet
<1>3. ASSUME NEW v, v \in Meets(h, t, "memory"), Becomes(h, Finishes(v, "BAD_REQUEST"))
      PROVE  Quiet(h)
  <2>1. v \in ThreadType /\ v.code = t.code /\ v.req = t.req
    BY <1>3, MeetsIsModest
  <2>2. Modest(Finishes(v, "BAD_REQUEST"), t)
    BY <2>1, AnswerIsModest DEF Codes
  <2>. QED  BY <1>3, <2>2 DEF Becomes, Quiet
<1>. QED  BY <1>2, <1>3, FailingIsQuiet DEF ProductsQueries

(* Nothing a purchase does is about an account.                            *)
LEMMA NotedKeepsRequest ==
  ASSUME NEW h, NEW t \in ThreadType, NEW p, NEW v, v \in Noted(h, t, p)
  PROVE  v.req = t.req
<1>1. ASSUME NEW q PROVE NextItem([t EXCEPT !.unsold = Append(@, q)]).req = t.req
  BY DEF NextItem, ThreadType
<1>2. [t EXCEPT !.code = "SERVICE_UNAVAILABLE"].req = t.req
  BY DEF ThreadType
<1>3. ASSUME NEW u, v \in Meets(h, u, "memory"), u.req = t.req, "req" \in DOMAIN u PROVE v.req = t.req
  <2>1. v = [u EXCEPT !.met = @ \cup {"memory"}]
    BY <1>3 DEF Meets
  <2>. QED  BY <1>3, <2>1
<1>4. "req" \in DOMAIN [t EXCEPT !.code = "SERVICE_UNAVAILABLE"]
  BY DEF ThreadType
<1>5. "req" \in DOMAIN NextItem([t EXCEPT !.unsold = Append(@, Nobody)])
  BY DEF NextItem, ThreadType
<1>. QED  BY <1>1, <1>2, <1>3, <1>4, <1>5 DEF Noted

(* A purchase keeps its request, and its route is no promise of an account. *)
LEMMA PurchasesAreQuiet ==
  ASSUME NEW h, thread[h] \in ThreadType, Purchases(h)
  PROVE  Quiet(h)
<1>. DEFINE t == thread[h]
<1>1. t.req.route = "purchase"
  BY DEF Purchases, PurchaseParses, PurchaseConnects, PurchaseIsMalformed, PurchaseBegins,
         PurchaseSkips, PurchaseSells, PurchaseRefused, PurchaseStatusUnknown, PurchaseEnds,
         Buying, At
<1>2. ASSUME NEW u, u.req = t.req, Becomes(h, u) PROVE Quiet(h)
  <2>1. Modest(u, t)
    BY <1>1, <1>2 DEF Modest, Accounts
  <2>. QED  BY <1>2, <2>1 DEF Becomes, Quiet
<1>3. ASSUME NEW f, NEW v, v \in Meets(h, t, f) PROVE v \in ThreadType /\ v.req = t.req
  BY <1>3, MeetsIsModest
<1>4. CASE PurchaseIsMalformed(h)
  <2>1. /\ Answer(t, "BAD_REQUEST").req = t.req
        /\ [Answer(t, "BAD_REQUEST") EXCEPT !.body = "unsold"].req = t.req
    BY DEF Answer, ThreadType
  <2>2. ASSUME NEW v, v \in Meets(h, t, "memory"), Becomes(h, Answer(v, "BAD_REQUEST"))
        PROVE  Quiet(h)
    <3>1. v \in ThreadType /\ v.req = t.req
      BY <1>3, <2>2
    <3>2. Answer(v, "BAD_REQUEST").req = t.req
      BY <3>1 DEF Answer, ThreadType
    <3>. QED  BY <1>2, <2>2, <3>2
  <2>. QED  BY <1>2, <1>4, <2>1, <2>2 DEF PurchaseIsMalformed
<1>5. CASE PurchaseBegins(h)
  <2>1. [t EXCEPT !.todo = t.req.items, !.pc = "buy"].req = t.req
    BY DEF ThreadType
  <2>. QED  BY <1>2, <1>5, <2>1 DEF PurchaseBegins
<1>6. CASE PurchaseSkips(h)
  <2>1. NextItem(t).req = t.req
    BY DEF NextItem, ThreadType
  <2>. QED  BY <1>2, <1>6, <2>1 DEF PurchaseSkips
<1>7. CASE PurchaseStatusUnknown(h)
  <2>1. PICK v : v \in Meets(h, t, "database")
                   /\ Becomes(h, [v EXCEPT !.code = "INTERNAL_SERVER_ERROR"])
    BY <1>7 DEF PurchaseStatusUnknown
  <2>2. v \in ThreadType /\ v.req = t.req
    BY <1>3, <2>1
  <2>3. [v EXCEPT !.code = "INTERNAL_SERVER_ERROR"].req = t.req
    BY <2>2 DEF ThreadType
  <2>. QED  BY <1>2, <2>1, <2>3
<1>8. CASE PurchaseRefused(h)
  <2>1. ASSUME NEW v \in ThreadType, v.req = t.req,
               \E u \in Noted(h, v, Pid(Item(h))) : Becomes(h, u)
        PROVE  Quiet(h)
    <3>1. PICK u : u \in Noted(h, v, Pid(Item(h))) /\ Becomes(h, u)
      BY <2>1
    <3>2. u.req = t.req
      BY <2>1, <3>1, NotedKeepsRequest
    <3>. QED  BY <1>2, <3>1, <3>2
  <2>. QED  BY <1>3, <1>8, <2>1 DEF PurchaseRefused
<1>9. CASE PurchaseSells(h)
  <2>. DEFINE p    == Pid(Item(h))
              s    == Append(t.sold, p)
              sold == [t EXCEPT !.sold = s]
              dead == [sold EXCEPT !.conn = "dead"]
  <2>1. NextItem([sold EXCEPT !.any = TRUE]).req = t.req
    BY DEF NextItem, ThreadType
  <2>2. \/ Becomes(h, NextItem([sold EXCEPT !.any = TRUE]))
        \/ \E broken \in Meets(h, dead, "lost") : \E u \in Noted(h, broken, p) : Becomes(h, u)
    BY <1>9 DEF PurchaseSells
  <2>3. ASSUME NEW broken, broken \in Meets(h, dead, "lost"),
               NEW u, u \in Noted(h, broken, p), Becomes(h, u)
        PROVE  Quiet(h)
    <3>0. p \in Products /\ s \in Seq(Products)
      <4>1. p \in Products
        BY <1>9 DEF PurchaseSells, Sells
      <4>. QED  BY <4>1, AppendProperties DEF ThreadType
    <3>. HIDE DEF s, p
    <3>1. dead \in ThreadType /\ dead.req = t.req
      BY <3>0 DEF ThreadType
    <3>. HIDE DEF dead
    <3>2. broken \in ThreadType /\ broken.req = t.req
      BY <2>3, <3>1, MeetsIsModest
    <3>3. u.req = t.req
      BY <2>3, <3>2, NotedKeepsRequest
    <3>. QED  BY <1>2, <2>3, <3>3
  <2>. QED  BY <1>2, <2>1, <2>2, <2>3
<1>10. CASE PurchaseEnds(h)
  <2>. DEFINE u == Finishes(t, PurchaseCode(t))
  <2>1. u.req = t.req /\ [u EXCEPT !.body = "unsold"].req = t.req
    BY DEF Finishes, Answer, ThreadType
  <2>2. ASSUME NEW v, v \in Meets(h, u, "memory") PROVE v.req = t.req
    <3>1. v = [u EXCEPT !.met = @ \cup {"memory"}]
      BY <2>2 DEF Meets
    <3>. QED  BY <3>1 DEF Finishes, Answer, ThreadType
  <2>3. Becomes(h, [u EXCEPT !.body = "unsold"]) \/ \E v \in Meets(h, u, "memory") : Becomes(h, v)
    BY <1>10 DEF PurchaseEnds
  <2>. HIDE DEF u
  <2>. QED  BY <1>2, <2>1, <2>2, <2>3
<1>. QED  BY <1>4, <1>5, <1>6, <1>7, <1>8, <1>9, <1>10, ParsingIsQuiet, FailingIsQuiet
          DEF Purchases

(* What is sent is what was decided.                                       *)
LEMMA AnsweringIsQuiet ==
  ASSUME NEW h, thread[h] \in ThreadType,
         \/ SendsContinue(h) \/ Composes(h) \/ WritesSome(h) \/ WriteFails(h) \/ Ends(h)
  PROVE  Quiet(h)
<1>. DEFINE t == thread[h]
<1>1. ASSUME NEW u, u.req = t.req, u.code \in {t.code, "CONTINUE", "SERVICE_UNAVAILABLE"},
             Becomes(h, u)
      PROVE  Quiet(h)
  <2>1. Modest(u, t)
    BY <1>1 DEF Modest
  <2>. QED  BY <1>1, <2>1 DEF Becomes, Quiet
<1>2. ASSUME NEW u \in ThreadType, u.req = t.req,
             u.code \in {t.code, "CONTINUE", "SERVICE_UNAVAILABLE"}, Writes(h, u)
      PROVE  Quiet(h)
  <2>. DEFINE n == Len(Response(u))
  <2>. HIDE DEF n
  <2>1. CASE Becomes(h, [u EXCEPT !.left = n, !.pc = "write"])
    <3>1. /\ [u EXCEPT !.left = n, !.pc = "write"].req = u.req
          /\ [u EXCEPT !.left = n, !.pc = "write"].code = u.code
      BY <1>2 DEF ThreadType
    <3>. QED  BY <1>1, <1>2, <2>1, <3>1
  <2>2. ASSUME NEW v, v \in Meets(h, u, "memory"), Becomes(h, [v EXCEPT !.pc = "end"])
        PROVE  Quiet(h)
    <3>1. v \in ThreadType /\ v.code = u.code /\ v.req = u.req
      BY <1>2, <2>2, MeetsIsModest
    <3>2. [v EXCEPT !.pc = "end"].req = u.req /\ [v EXCEPT !.pc = "end"].code = u.code
      BY <3>1 DEF ThreadType
    <3>. QED  BY <1>1, <1>2, <2>2, <3>2
  <2>. QED  BY <1>2, <2>1, <2>2 DEF Writes, n
<1>3. ASSUME NEW f, NEW v, v \in Meets(h, t, f)
      PROVE  v \in ThreadType /\ v.code = t.code /\ v.req = t.req
  BY <1>3, MeetsIsModest
<1>4. CASE SendsContinue(h)
  <2>. DEFINE u == [t EXCEPT !.code = "CONTINUE", !.header = TRUE]
  <2>1. u \in ThreadType /\ u.req = t.req /\ u.code = "CONTINUE"
    BY DEF ThreadType, Codes
  <2>2. Writes(h, u)
    BY <1>4 DEF SendsContinue
  <2>. HIDE DEF u
  <2>. QED  BY <1>2, <2>1, <2>2
<1>5. CASE Composes(h)
  <2>1. CASE Writes(h, [t EXCEPT !.header = TRUE])
    <3>. DEFINE u == [t EXCEPT !.header = TRUE]
    <3>1. u \in ThreadType /\ u.req = t.req /\ u.code = t.code
      BY DEF ThreadType
    <3>2. Writes(h, u)
      BY <2>1
    <3>. HIDE DEF u
    <3>. QED  BY <1>2, <3>1, <3>2
  <2>2. ASSUME NEW v, v \in Meets(h, t, "memory"),
               Writes(h, [v EXCEPT !.code = "SERVICE_UNAVAILABLE"])
        PROVE  Quiet(h)
    <3>. DEFINE u == [v EXCEPT !.code = "SERVICE_UNAVAILABLE"]
    <3>0. v \in ThreadType /\ v.req = t.req
      BY <1>3, <2>2
    <3>1. u \in ThreadType /\ u.req = t.req /\ u.code = "SERVICE_UNAVAILABLE"
      BY <3>0 DEF ThreadType, Codes
    <3>2. Writes(h, u)
      BY <2>2
    <3>. HIDE DEF u
    <3>. QED  BY <1>2, <3>1, <3>2
  <2>. QED  BY <1>5, <2>1, <2>2 DEF Composes
<1>6. CASE WritesSome(h)
  <2>0. PICK n \in 1..t.left :
          \E v \in IF n = t.left THEN {t} ELSE Meets(h, t, "network") :
            Becomes(h, [v EXCEPT !.out  = @ \o SubSeq(Response(t), 1, n),
                                 !.left = Remaining(t, n),
                                 !.pc   = IF Remaining(t, n) = 0 THEN "end" ELSE "write"])
    BY <1>6 DEF WritesSome
  <2>1. PICK v \in IF n = t.left THEN {t} ELSE Meets(h, t, "network") :
          Becomes(h, [v EXCEPT !.out  = @ \o SubSeq(Response(t), 1, n),
                               !.left = Remaining(t, n),
                               !.pc   = IF Remaining(t, n) = 0 THEN "end" ELSE "write"])
    BY <2>0
  <2>2. v \in ThreadType /\ v.code = t.code /\ v.req = t.req
    <3>1. v = t \/ v \in Meets(h, t, "network")
      BY <2>1
    <3>. QED  BY <1>3, <3>1
  <2>. DEFINE now  == v.out \o SubSeq(Response(t), 1, n)
              left == Remaining(t, n)
              u    == [v EXCEPT !.out = now, !.left = left,
                                !.pc = IF left = 0 THEN "end" ELSE "write"]
  <2>3. Becomes(h, u)
    BY <2>1
  <2>. HIDE DEF now, left
  <2>4. u.req = t.req /\ u.code = t.code
    BY <2>2 DEF ThreadType
  <2>. HIDE DEF u
  <2>. QED  BY <1>1, <2>3, <2>4
<1>7. CASE WriteFails(h)
  <2>1. PICK v : v \in Meets(h, t, "network") /\ Becomes(h, [v EXCEPT !.pc = "end"])
    BY <1>7 DEF WriteFails
  <2>2. v \in ThreadType /\ v.code = t.code /\ v.req = t.req
    BY <1>3, <2>1
  <2>3. [v EXCEPT !.pc = "end"].req = t.req /\ [v EXCEPT !.pc = "end"].code = t.code
    BY <2>2 DEF ThreadType
  <2>. QED  BY <1>1, <2>1, <2>3
<1>8. CASE Ends(h)
  <2>. DEFINE u == [NewThread(t.req) EXCEPT !.pc = "gone", !.code = t.code, !.conn = t.conn,
                                            !.met = t.met]
  <2>1. u.req = t.req /\ u.code = t.code
    BY DEF NewThread
  <2>2. Becomes(h, u)
    BY <1>8 DEF Ends
  <2>. HIDE DEF u
  <2>. QED  BY <1>1, <2>1, <2>2
<1>. QED  BY <1>4, <1>5, <1>6, <1>7, <1>8

-----------------------------------------------------------------------------
(* Each promise is kept by the table, and no name is promised twice.       *)
AccountsKept ==
  /\ \A h \in Handlers : Claims(thread[h]) => Holds(account, thread[h])
  /\ \A g, h \in Handlers :
       /\ Claims(thread[g]) /\ Claims(thread[h])
       /\ thread[g].req.route = "register" /\ thread[h].req.route = "register"
       /\ thread[g].req.user = thread[h].req.user
       => g = h

(* At the start nothing is promised.                                       *)
LEMMA AccountsBeginKept == Init => AccountsKept
BY DEF Init, AccountsKept, Claims, Idle, NewThread

(* A new success of a login or a registration is for an account that is    *)
(* there, and a registration's was not there before.                       *)
Opens(h) ==
  \E u : /\ thread' = [thread EXCEPT ![h] = u]
         /\ u.req = thread[h].req
         /\ Claims(u) => /\ Holds(account', u)
                         /\ u.req.route = "register" => u.req.user \notin DOMAIN account
         /\ \A n \in DOMAIN account : n \in DOMAIN account' /\ account'[n] = account[n]

(* A login finds the account, or promises nothing.                         *)
LEMMA LoginOpens ==
  ASSUME NEW h, thread[h] \in ThreadType, LoginQueries(h)
  PROVE  Opens(h) \/ (Quiet(h) /\ account' = account)
<1>. DEFINE t == thread[h]
            u == Finishes(t, IF LoginFinds(t.req) THEN "OK" ELSE "UNAUTHORIZED")
<1>1. t.req.route = "login" /\ account' = account
  BY DEF LoginQueries, At, database
<1>2. CASE Becomes(h, u)
  <2>1. u.req = t.req /\ (u.code = "OK" => LoginFinds(t.req))
    BY DEF Finishes, Answer, ThreadType
  <2>. HIDE DEF u
  <2>2. thread' = [thread EXCEPT ![h] = u]
    BY <1>2 DEF Becomes
  <2>3. Claims(u) => Holds(account', u)
    BY <1>1, <2>1 DEF Claims, Holds, LoginFinds
  <2>. QED  BY <1>1, <2>1, <2>2, <2>3 DEF Opens
<1>3. CASE StatementFails(h)
  BY <1>1, <1>3, FailingIsQuiet
<1>. QED  BY <1>2, <1>3 DEF LoginQueries

(* A registration inserts the account, and was its first.                  *)
LEMMA RegisterOpens ==
  ASSUME NEW h, thread[h] \in ThreadType, RegisterInserts(h)
  PROVE  Opens(h)
<1>. DEFINE t == thread[h]
            r == t.req
<1>1. /\ r.user \notin DOMAIN account
      /\ account' = [n \in DOMAIN account \cup {r.user} |->
                       IF n = r.user THEN r.password ELSE account[n]]
  BY DEF RegisterInserts, AccountAccepts
<1>2. \A n \in DOMAIN account : n \in DOMAIN account' /\ account'[n] = account[n]
  BY <1>1
<1>3. r.user \in DOMAIN account' /\ account'[r.user] = r.password
  BY <1>1
<1>4. ASSUME NEW u, u.req = r, Becomes(h, u) PROVE Opens(h)
  <2>1. Claims(u) => Holds(account', u)
    BY <1>3, <1>4 DEF Claims, Holds
  <2>. QED  BY <1>1, <1>2, <1>4, <2>1 DEF Opens, Becomes
<1>5. CASE Becomes(h, Finishes(t, "OK"))
  <2>1. Finishes(t, "OK").req = r
    BY DEF Finishes, Answer, ThreadType
  <2>. QED  BY <1>4, <1>5, <2>1
<1>6. ASSUME NEW v, v \in Meets(h, t, "lost"), Becomes(h, Finishes(v, "BAD_REQUEST"))
      PROVE  Opens(h)
  <2>1. v \in ThreadType /\ v.req = r
    BY <1>6, MeetsIsModest
  <2>2. Finishes(v, "BAD_REQUEST").req = r
    BY <2>1 DEF Finishes, Answer, ThreadType
  <2>. QED  BY <1>4, <1>6, <2>2
<1>. QED  BY <1>5, <1>6 DEF RegisterInserts

(* Every other step of a handler.                                          *)
LEMMA RefusedIsQuiet ==
  ASSUME NEW h, thread[h] \in ThreadType, RegisterRefused(h)
  PROVE  Quiet(h)
<1>1. CASE Becomes(h, Finishes(thread[h], "BAD_REQUEST"))
  <2>1. Modest(Finishes(thread[h], "BAD_REQUEST"), thread[h])
    BY AnswerIsModest DEF Codes
  <2>. QED  BY <1>1, <2>1 DEF Becomes, Quiet
<1>. QED  BY <1>1, FailingIsQuiet DEF RegisterRefused

(* Only RegisterInserts writes to Account.                                 *)
LEMMA AccountIsLeftAlone ==
  ASSUME NEW h, Runs(h), ~RegisterInserts(h)
  PROVE  account' = account
BY DEF Runs, Purchases, LacksErrBuf, ProductsParses, ProductsConnects, ProductsQueries,
       LoginParses, LoginConnects, LoginQueries, RegisterParses, RegisterConnects,
       RegisterRefused, PurchaseParses, PurchaseConnects, PurchaseIsMalformed, PurchaseBegins,
       PurchaseSkips, PurchaseSells, PurchaseRefused, PurchaseStatusUnknown, PurchaseEnds,
       Sells, SendsContinue, Composes, WritesSome, WriteFails, Ends, database

(* Every step either opens an account to its client or is quiet.           *)
LEMMA RunningKeepsAccounts ==
  ASSUME NEW h, thread[h] \in ThreadType, Runs(h)
  PROVE  Opens(h) \/ ((Quiet(h) \/ UNCHANGED thread) /\ account' = account)
<1>1. CASE RegisterInserts(h)
  BY <1>1, RegisterOpens
<1>2. CASE LoginQueries(h)
  BY <1>2, LoginOpens
<1>3. CASE ~RegisterInserts(h) /\ ~LoginQueries(h)
  <2>1. account' = account
    BY <1>3, AccountIsLeftAlone
  <2>. QED  BY <1>3, <2>1, ParsingIsQuiet, FailingIsQuiet, ProductsAreQuiet, RefusedIsQuiet,
               PurchasesAreQuiet, AnsweringIsQuiet DEF Runs
<1>. QED  BY <1>1, <1>2, <1>3

(* A thread that is dispatched has promised nothing.                       *)
LEMMA DispatchIsQuiet ==
  ASSUME NEW h, Dispatch(h)
  PROVE  account' = account /\ \E u : ~Claims(u) /\ thread' = [thread EXCEPT ![h] = u]
<1>1. PICK r \in Requests : Becomes(h, NewThread(r))
  BY DEF Dispatch
<1>2. ~Claims(NewThread(r))
  BY DEF Claims, NewThread
<1>3. account' = account
  BY DEF Dispatch, database
<1>. QED  BY <1>1, <1>2, <1>3 DEF Becomes

(* Accounts are never removed or changed, so that old promises stay true.  *)
LEMMA AccountsStayKept ==
  HandlersSound /\ AccountsKept /\ [Next]_vars => AccountsKept'
<1>. SUFFICES ASSUME HandlersSound, AccountsKept, [Next]_vars PROVE AccountsKept'
  OBVIOUS
<1>1. ASSUME UNCHANGED <<thread, account>> PROVE AccountsKept'
  BY <1>1 DEF AccountsKept, Claims, Holds
<1>2. ASSUME NEW h \in Handlers, NEW u, thread' = [thread EXCEPT ![h] = u], account' = account,
             Claims(u) => Claims(thread[h]) /\ u.req = thread[h].req
      PROVE  AccountsKept'
  <2>1. \A g \in Handlers : thread'[g] = IF g = h THEN u ELSE thread[g]
    BY <1>2 DEF HandlersSound
  <2>2. \A g \in Handlers :
          Claims(thread'[g]) => Claims(thread[g]) /\ thread'[g].req = thread[g].req
    BY <1>2, <2>1
  <2>3. \A g \in Handlers : Claims(thread'[g]) => Holds(account', thread'[g])
    BY <1>2, <2>2 DEF AccountsKept, Holds
  <2>. QED  BY <2>2, <2>3 DEF AccountsKept, Claims, Holds
<1>3. ASSUME NEW h \in Handlers, Opens(h) PROVE AccountsKept'
  <2>1. PICK u : /\ thread' = [thread EXCEPT ![h] = u]
                 /\ u.req = thread[h].req
                 /\ Claims(u) => /\ Holds(account', u)
                                 /\ u.req.route = "register" => u.req.user \notin DOMAIN account
                 /\ \A n \in DOMAIN account : n \in DOMAIN account' /\ account'[n] = account[n]
    BY <1>3 DEF Opens
  <2>2. \A g \in Handlers : thread'[g] = IF g = h THEN u ELSE thread[g]
    BY <2>1 DEF HandlersSound
  <2>3. \A g \in Handlers \ {h} : Claims(thread[g]) => Holds(account, thread[g]) /\ Holds(account', thread[g])
    BY <2>1, <2>2 DEF AccountsKept, Holds
  <2>4. \A g \in Handlers : Claims(thread'[g]) => Holds(account', thread'[g])
    BY <2>1, <2>2, <2>3 DEF Holds
  <2>5. \A g \in Handlers \ {h} :
          /\ Claims(thread[g]) /\ Claims(u)
          /\ u.req.route = "register"
          => thread[g].req.user # u.req.user
    BY <2>1, <2>3 DEF Holds
  <2>6. \A f, g \in Handlers :
          /\ Claims(thread'[f]) /\ Claims(thread'[g])
          /\ thread'[f].req.route = "register" /\ thread'[g].req.route = "register"
          /\ thread'[f].req.user = thread'[g].req.user
          => f = g
    BY <2>2, <2>5 DEF AccountsKept
  <2>. QED  BY <2>4, <2>6 DEF AccountsKept, Claims, Holds
<1>4. CASE \E h \in Handlers : Dispatch(h) \/ Runs(h)
  <2>1. PICK h \in Handlers : Dispatch(h) \/ Runs(h)
    BY <1>4
  <2>2. CASE Dispatch(h)
    BY <1>2, <2>2, DispatchIsQuiet
  <2>3. CASE Runs(h)
    <3>1. thread[h] \in ThreadType
      BY DEF HandlersSound, Sound
    <3>2. Opens(h) \/ ((Quiet(h) \/ UNCHANGED thread) /\ account' = account)
      BY <2>3, <3>1, RunningKeepsAccounts
    <3>3. ASSUME Quiet(h), account' = account PROVE AccountsKept'
      <4>1. PICK u : Modest(u, thread[h]) /\ thread' = [thread EXCEPT ![h] = u]
        BY <3>3 DEF Quiet
      <4>2. Claims(u) => Claims(thread[h]) /\ u.req = thread[h].req
        BY <4>1 DEF Modest, Claims, Accounts
      <4>. QED  BY <1>2, <3>3, <4>1, <4>2
    <3>. QED  BY <1>1, <1>3, <3>2, <3>3
  <2>. QED  BY <2>1, <2>2, <2>3
<1>5. CASE Finished \/ UNCHANGED vars
  BY <1>1, <1>5 DEF Finished, vars
<1>6. CASE \E h \in Handlers : Crashes(h)
  BY <1>1, <1>6, CrashesLeaveAll DEF database
<1>. QED  BY <1>4, <1>5, <1>6 DEF Next

(* Whatever clients register and log in with at once, whoever was told 200 *)
(* has the account, with that password, and a name is given out once:      *)
(* threadroutines.c:298-307 and 539-546 over the key of Account.           *)
THEOREM AccountsAreAlwaysOwned == Spec => []AccountsAreOwned
<1>1. AccountsKept => AccountsAreOwned
  <2>1. SUFFICES ASSUME AccountsKept, NEW h \in Handlers, Claims(thread[h])
                 PROVE  /\ Holds(account, thread[h])
                        /\ thread[h].req.route = "register" =>
                             \A g \in Handlers \ {h} :
                               ~(/\ thread[g].code = "OK" /\ thread[g].req.route = "register"
                                 /\ thread[g].req.user = thread[h].req.user)
    BY DEF AccountsAreOwned, Claims, Holds, Accounts
  <2>2. \A g \in Handlers : thread[g].code = "OK" /\ thread[g].req.route = "register" =>
          Claims(thread[g])
    BY DEF Claims, Accounts
  <2>. QED  BY <2>1, <2>2 DEF AccountsKept
<1>2. Spec => []AccountsKept
  BY AccountsBeginKept, AccountsStayKept, HandlersAreSound, PTL DEF Spec
<1>. QED  BY <1>1, <1>2, PTL

-----------------------------------------------------------------------------
(* The stock and the sales.                                                *)
LedgerTyped ==
  /\ up \in BOOLEAN
  /\ stock \in [Ingredients -> Nat]
  /\ \A s \in DOMAIN sale : sale[s] \in Nat

(* A sale takes no more than there is.                                     *)
LEMMA SellingKeepsTypes ==
  ASSUME LedgerTyped, NEW u, NEW p \in Products, NEW q \in Int, Ledger!Sell(u, p, q)
  PROVE  /\ stock' \in [Ingredients -> Nat]
         /\ \A s \in DOMAIN sale' : sale'[s] \in Nat
<1>1. q \in Nat
  BY DEF Ledger!Sell, Ledger!Allows
<1>. DEFINE charge == Ledger!Charge(u, p, q)
<1>2. charge \in Nat
  BY <1>1 DEF Ledger!Charge
<1>3. \A i \in Ingredients : charge * Need[p][i] <= stock[i]
  BY DEF Ledger!Sell, Ledger!Allows
<1>4. stock' = [i \in Ingredients |-> stock[i] - charge * Need[p][i]]
  BY DEF Ledger!Sell
<1>. HIDE DEF charge
<1>5. \A i \in Ingredients : stock[i] - charge * Need[p][i] \in Nat
  <2>1. TAKE i \in Ingredients
  <2>2. stock[i] \in Nat
    BY DEF LedgerTyped
  <2>3. Need[p][i] \in Nat
    BY HandlersAssumption
  <2>. DEFINE taken == charge * Need[p][i]
  <2>4. taken \in Nat
    BY <1>2, <2>3
  <2>5. taken <= stock[i]
    BY <1>3
  <2>. HIDE DEF taken
  <2>6. stock[i] - taken \in Nat
    BY <2>2, <2>4, <2>5
  <2>. QED  BY <2>6 DEF taken
<1>6. \A s \in DOMAIN sale' : sale'[s] \in Nat
  <2>1. sale' = [s \in DOMAIN sale \cup {<<u, p>>} |->
                  (IF s \in DOMAIN sale THEN sale[s] ELSE 0) + (IF s = <<u, p>> THEN q ELSE 0)]
    BY DEF Ledger!Sell
  <2>2. TAKE s \in DOMAIN sale'
  <2>3. sale'[s] = (IF s \in DOMAIN sale THEN sale[s] ELSE 0) + (IF s = <<u, p>> THEN q ELSE 0)
    BY <2>1, <2>2
  <2>4. (IF s \in DOMAIN sale THEN sale[s] ELSE 0) \in Nat
    BY DEF LedgerTyped
  <2>. QED  BY <1>1, <2>3, <2>4
<1>. QED  BY <1>4, <1>5, <1>6

(* Sales alone change the ledger.                                          *)
LEMMA LedgerStaysTyped ==
  HandlersSound /\ LedgerTyped /\ [Next]_vars => LedgerTyped'
<1>. SUFFICES ASSUME HandlersSound, LedgerTyped, [Next]_vars PROVE LedgerTyped'
  OBVIOUS
<1>1. ASSUME UNCHANGED <<up, stock, sale>> PROVE LedgerTyped'
  BY <1>1 DEF LedgerTyped
<1>2. ASSUME NEW h \in Handlers, Dispatch(h) PROVE LedgerTyped'
  BY <1>1, <1>2 DEF Dispatch, Becomes, database
<1>3. ASSUME NEW h \in Handlers, PurchaseSells(h) PROVE LedgerTyped'
  <2>. DEFINE t == thread[h]
  <2>1. /\ Item(h).pid # Nobody
        /\ Pid(Item(h)) \in Products
        /\ Ledger!Sell(t.req.user, Pid(Item(h)), ToInt(Item(h).quantity))
        /\ t.todo # << >>
    BY <1>3 DEF PurchaseSells, Sells, Buying
  <2>2. t.todo \in Seq(ItemType)
    BY DEF HandlersSound, Sound, ThreadType
  <2>3. Item(h) \in ItemType
    BY <2>1, <2>2, HeadTailProperties DEF Item
  <2>4. ToInt(Item(h).quantity) \in Int
    BY <2>3, ToIntIsInt DEF ItemType
  <2>5. up' = up
    BY <1>3 DEF PurchaseSells, Becomes
  <2>6. /\ stock' \in [Ingredients -> Nat]
        /\ \A s \in DOMAIN sale' : sale'[s] \in Nat
    BY <2>1, <2>4, SellingKeepsTypes
  <2>. QED  BY <2>5, <2>6 DEF LedgerTyped
<1>4. ASSUME NEW h \in Handlers, Crashes(h) PROVE LedgerTyped'
  BY <1>4, CrashesLeaveAll DEF database, LedgerTyped
<1>5. ASSUME NEW h \in Handlers, Runs(h), ~PurchaseSells(h) PROVE LedgerTyped'
  <2>1. UNCHANGED <<stock, sale>>
    BY <1>5 DEF Runs, Purchases, LacksErrBuf, ProductsParses, ProductsConnects, ProductsQueries,
       LoginParses, LoginConnects, LoginQueries, RegisterParses, RegisterConnects,
       RegisterInserts, RegisterRefused, PurchaseParses, PurchaseConnects,
       PurchaseIsMalformed, PurchaseBegins, PurchaseSkips, PurchaseRefused,
       PurchaseStatusUnknown, PurchaseEnds, SendsContinue, Composes, WritesSome,
       WriteFails, Ends, database
  <2>2. UNCHANGED up
    BY <1>5 DEF Runs, Purchases, LacksErrBuf, ProductsParses, ProductsConnects, ProductsQueries,
       LoginParses, LoginConnects, LoginQueries, RegisterParses, RegisterConnects,
       RegisterInserts, RegisterRefused, PurchaseParses, PurchaseConnects,
       PurchaseIsMalformed, PurchaseBegins, PurchaseSkips, PurchaseRefused,
       PurchaseStatusUnknown, PurchaseEnds, SendsContinue, Composes, WritesSome,
       WriteFails, Ends, Becomes, GetsConnection, ReadsCredentials, StatementFails, Writes
  <2>. QED  BY <1>1, <2>1, <2>2
<1>6. CASE Finished \/ UNCHANGED vars
  BY <1>1, <1>6 DEF Finished, vars
<1>. QED  BY <1>2, <1>3, <1>4, <1>5, <1>6 DEF Next

(* The handlers' records, the stock and the sales keep their types,        *)
(* whatever is asked for: no sale leaves less than nothing of an           *)
(* ingredient, quantities of the wrong sign included.                      *)
THEOREM HandlersTypeCorrect == Spec => []TypeOK
<1>1. HandlersSound /\ LedgerTyped => TypeOK
  BY DEF HandlersSound, LedgerTyped, Sound, ThreadType, Places, TypeOK
<1>2. Init => LedgerTyped
  BY HandlersAssumption DEF Init, Ledger!Init, LedgerTyped
<1>3. Spec => []LedgerTyped
  BY <1>2, LedgerStaysTyped, HandlersAreSound, PTL DEF Spec
<1>. QED  BY <1>1, <1>3, HandlersAreSound, PTL

-----------------------------------------------------------------------------
(* Purchases.  What one sells is what was asked for, once each, and what   *)
(* it answers is what it sold.  The products still to buy, those sold and  *)
(* those noted as unsold are counted against the request.  The counts are  *)
(* cardinalities; how they grow and shrink with a sequence is proved first. *)

(* How often a list of items asks for p.                                   *)
Wants(items, p) ==
  Cardinality({i \in DOMAIN items : items[i].pid # Nobody /\ ToInt(items[i].pid) = p})

(* A purchase with a list.                                                 *)
Purchase(t) == t.pc # "idle" /\ t.req.route = "purchase" /\ t.req.items # NotAnArray

(* Before the loop.                                                        *)
Fresh(t) ==
  /\ t.sold = << >> /\ t.unsold = << >> /\ ~t.any
  /\ t.code = "UNDEFINED" /\ t.body = "none"

(* What is neither unsold nor still to buy was sold, and only that, unless *)
(* a session broke; nothing was if no sale was successful.                 *)
Tallied(t) ==
  \A p \in Products :
    LET told == Asked(t, p) - Occurrences(t.unsold, p) - Wants(t.todo, p)
    IN /\ told <= Occurrences(t.sold, p)
       /\ "lost" \notin t.met => told = Occurrences(t.sold, p)
       /\ ~t.any => told = 0

Buys(t) ==
  /\ t.body = "none"
  /\ t.code \in {"UNDEFINED", "INTERNAL_SERVER_ERROR", "SERVICE_UNAVAILABLE"}
  /\ t.code = "UNDEFINED" =>
       /\ \A p \in Products : Occurrences(t.sold, p) + Wants(t.todo, p) <= Asked(t, p)
       /\ "memory" \notin t.met => Tallied(t)

(* What AnswerMatchesSales says of an answer.                              *)
Told(t) ==
  t.body = "unsold" /\ t.code \in {"OK", "BAD_REQUEST"} /\ "memory" \notin t.met =>
    \A p \in Products :
      LET told == Asked(t, p) - Occurrences(t.unsold, p)
      IN /\ told <= Occurrences(t.sold, p)
         /\ "lost" \notin t.met => told = Occurrences(t.sold, p)
         /\ t.code = "BAD_REQUEST" => told = 0

Counted(t) ==
  Purchase(t) =>
    /\ t.pc \in {"parse", "connect", "query"} => Fresh(t)
    /\ t.pc = "buy" => Buys(t)
    /\ t.pc \in {"compose", "write", "end"} => Told(t)
    /\ \A p \in Products : Occurrences(t.sold, p) <= Asked(t, p)

HandlersCounted == \A h \in Handlers : Counted(thread[h])

-----------------------------------------------------------------------------
(* Counting in sequences                                                   *)

(* Places that are moved by one are as many as before.                     *)
LEMMA MovedIsAsMany ==
  ASSUME NEW T, IsFiniteSet(T), T \subseteq Int, NEW U, U = {i \in Int : i - 1 \in T}
  PROVE  IsFiniteSet(U) /\ Cardinality(U) = Cardinality(T)
<1>. DEFINE f == [i \in T |-> i + 1]
<1>1. f \in [T -> U] /\ \A i \in T : f[i] = i + 1
  OBVIOUS
<1>2. \A a, b \in T : f[a] = f[b] => a = b
  OBVIOUS
<1>3. \A u \in U : \E i \in T : f[i] = u
  <2>1. \A u \in U : u - 1 \in T /\ f[u - 1] = u
    OBVIOUS
  <2>. QED  BY <2>1
<1>. HIDE DEF f
<1>4. f \in Bijection(T, U)
  BY <1>1, <1>2, <1>3, Fun_IsBij
<1>5. ExistsBijection(T, U)
  BY <1>4 DEF ExistsBijection
<1>. QED  BY <1>5, FS_Bijection

(* Any places of a sequence are finitely many.                             *)
LEMMA PlacesAreFinite ==
  ASSUME NEW n \in Nat, NEW T, T \subseteq 1..n
  PROVE  IsFiniteSet(T) /\ Cardinality(T) \in Nat
<1>1. IsFiniteSet(1..n)
  BY FS_Interval
<1>2. IsFiniteSet(T)
  BY <1>1, FS_Subset
<1>. QED  BY <1>2, FS_CardinalityType

(* A list holds a value some number of times.                              *)
LEMMA OccurrencesIsNat ==
  ASSUME NEW S, NEW s \in Seq(S), NEW x
  PROVE  Occurrences(s, x) \in Nat
<1>1. Len(s) \in Nat /\ DOMAIN s = 1..Len(s)
  BY LenProperties
<1>2. Cardinality({i \in DOMAIN s : s[i] = x}) \in Nat
  BY <1>1, PlacesAreFinite
<1>3. QED
  BY <1>2 DEF Occurrences

(* An occurrence more, if it is of x.                                      *)
LEMMA OccurrencesOfAppend ==
  ASSUME NEW S, NEW s \in Seq(S), NEW y \in S, NEW x
  PROVE  /\ Occurrences(s, x) \in Nat
         /\ Occurrences(Append(s, y), x) = Occurrences(s, x) + (IF y = x THEN 1 ELSE 0)
<1>. DEFINE n == Len(s)
            A == {i \in DOMAIN s : s[i] = x}
            B == {i \in DOMAIN Append(s, y) : Append(s, y)[i] = x}
<1>1. n \in Nat /\ DOMAIN s = 1..n /\ DOMAIN Append(s, y) = 1..(n + 1)
  BY LenProperties, AppendProperties
<1>2. /\ \A i \in 1..n : Append(s, y)[i] = s[i]
      /\ Append(s, y)[n + 1] = y
  BY AppendProperties
<1>3. A \subseteq 1..n /\ IsFiniteSet(A) /\ Cardinality(A) \in Nat
  BY <1>1, PlacesAreFinite
<1>4. n + 1 \notin A
  BY <1>1, <1>3
<1>5. CASE y = x
  <2>1. B = A \cup {n + 1}
    BY <1>1, <1>2, <1>5
  <2>. HIDE DEF A, B
  <2>2. Cardinality(B) = Cardinality(A) + 1
    BY <1>3, <1>4, <2>1, FS_AddElement
  <2>. QED  BY <1>3, <1>5, <2>2 DEF Occurrences, A, B
<1>6. CASE y # x
  <2>1. B = A
    BY <1>1, <1>2, <1>6
  <2>. HIDE DEF A, B
  <2>2. Cardinality(B) = Cardinality(A) + 0
    BY <1>3, <2>1
  <2>. QED  BY <1>3, <1>6, <2>2 DEF Occurrences, A, B
<1>. QED  BY <1>5, <1>6

(* Nothing occurs in nothing.                                              *)
LEMMA NothingIsCounted ==
  ASSUME NEW x
  PROVE  Occurrences(<< >>, x) = 0 /\ Wants(<< >>, x) = 0
<1>1. \A i : i \notin DOMAIN << >>
  OBVIOUS
<1>2. {i \in DOMAIN << >> : << >>[i] = x} = {}
  BY <1>1
<1>3. {i \in DOMAIN << >> : << >>[i].pid # Nobody /\ ToInt(<< >>[i].pid) = x} = {}
  BY <1>1
<1>. QED  BY <1>2, <1>3, FS_EmptySet DEF Occurrences, Wants

(* One item less to buy, if it asks for p.                                 *)
LEMMA WantsOfTail ==
  ASSUME NEW s \in Seq(ItemType), s # << >>, NEW p
  PROVE  /\ Wants(s, p) \in Nat /\ Wants(Tail(s), p) \in Nat
         /\ Wants(s, p) = Wants(Tail(s), p)
              + (IF Head(s).pid # Nobody /\ ToInt(Head(s).pid) = p THEN 1 ELSE 0)
<1>. DEFINE Asks(item) == item.pid # Nobody /\ ToInt(item.pid) = p
            n == Len(Tail(s))
            A == {i \in DOMAIN s : Asks(s[i])}
            B == {i \in DOMAIN Tail(s) : Asks(Tail(s)[i])}
            C == {i \in Int : i - 1 \in B}
<1>1. /\ Tail(s) \in Seq(ItemType) /\ n \in Nat /\ DOMAIN Tail(s) = 1..n
      /\ DOMAIN s = 1..(n + 1) /\ Head(s) = s[1]
      /\ \A i \in 1..n : Tail(s)[i] = s[i + 1]
  BY HeadTailProperties, LenProperties
<1>. HIDE DEF Asks, n
<1>2. \A i \in 2..(n + 1) : i \in A <=> i \in C
  <2>1. TAKE i \in 2..(n + 1)
  <2>2. i - 1 \in 1..n /\ (i - 1) + 1 = i /\ i \in 1..(n + 1)
    BY <1>1
  <2>3. Tail(s)[i - 1] = s[i]
    BY <1>1, <2>2
  <2>. QED  BY <1>1, <2>2, <2>3
<1>3. C \subseteq 2..(n + 1) /\ A \subseteq 1..(n + 1) /\ B \subseteq 1..n
  BY <1>1
<1>4. 1 \in A <=> Asks(Head(s))
  BY <1>1
<1>5. /\ IsFiniteSet(A) /\ Cardinality(A) \in Nat
      /\ IsFiniteSet(B) /\ Cardinality(B) \in Nat
  <2>1. n + 1 \in Nat
    BY <1>1
  <2>. HIDE DEF A, B
  <2>. QED  BY <1>1, <1>3, <2>1, PlacesAreFinite
<1>6. IsFiniteSet(C) /\ Cardinality(C) = Cardinality(B)
  <2>1. B \subseteq Int
    BY <1>3
  <2>. HIDE DEF B
  <2>. QED  BY <1>5, <2>1, MovedIsAsMany
<1>7. Wants(s, p) = Cardinality(A) /\ Wants(Tail(s), p) = Cardinality(B)
  BY DEF Wants, Asks
<1>8. 1 \notin C
  BY <1>3
<1>9. \A i : (i \in A /\ i # 1) <=> i \in C
  <2>1. \A i \in 1..(n + 1) : i # 1 => i \in 2..(n + 1)
    BY <1>1
  <2>2. \A i \in 2..(n + 1) : i # 1
    BY <1>1
  <2>. HIDE DEF A, C
  <2>. QED  BY <1>2, <1>3, <2>1, <2>2, Zenon
<1>10. CASE Asks(Head(s))
  <2>1. A = C \cup {1}
    <3>. HIDE DEF A, C
    <3>. QED  BY <1>4, <1>8, <1>10, <1>9
  <2>. HIDE DEF A, C
  <2>2. Cardinality(A) = Cardinality(C) + 1
    BY <1>6, <1>8, <2>1, FS_AddElement
  <2>. QED  BY <1>5, <1>6, <1>7, <1>10, <2>2 DEF Asks
<1>11. CASE ~Asks(Head(s))
  <2>1. A = C
    <3>. HIDE DEF A, C
    <3>. QED  BY <1>4, <1>8, <1>11, <1>9
  <2>. HIDE DEF A, B, C
  <2>2. Cardinality(A) = Cardinality(B) + 0
    BY <1>5, <1>6, <2>1
  <2>. QED  BY <1>5, <1>7, <1>11, <2>2 DEF Asks
<1>. QED  BY <1>10, <1>11

(* A request asks for a product some number of times.                      *)
LEMMA AskedIsNat ==
  ASSUME NEW t, t.req \in Requests, t.req.items # NotAnArray, NEW p
  PROVE  Asked(t, p) \in Nat
<1>. DEFINE items == t.req.items
            A == {i \in DOMAIN items : items[i].pid # Nobody /\ ToInt(items[i].pid) = p}
<1>1. items \in Seq(ItemType)
  BY HandlersAssumption DEF ItemType
<1>2. Len(items) \in Nat /\ DOMAIN items = 1..Len(items)
  BY <1>1, LenProperties
<1>3. A \subseteq 1..Len(items)
  BY <1>2
<1>. HIDE DEF items
<1>4. Cardinality(A) \in Nat
  <2>. HIDE DEF A
  <2>. QED  BY <1>2, <1>3, PlacesAreFinite
<1>. QED  BY <1>4 DEF Asked, items

-----------------------------------------------------------------------------
(* The loop                                                                *)

(* What the thread t holds of the product it is at.                        *)
First(t) == Head(t.todo)
FirstPid(t) == ToInt(First(t).pid)

(* u has done with a product of t: it was bought, noted as unsold, or      *)
(* both, for a session that broke; or it is not a product at all.          *)
PassedOn(t, u, bought, noted) ==
  /\ u \in ThreadType /\ u.req = t.req /\ u.pc = "buy" /\ u.body = "none"
  /\ u.code = "UNDEFINED" /\ t.met \subseteq u.met /\ u.todo = Tail(t.todo)
  /\ u.sold = (IF bought THEN Append(t.sold, FirstPid(t)) ELSE t.sold)
  /\ \/ "memory" \in u.met
     \/ u.unsold = (IF noted THEN Append(t.unsold, FirstPid(t)) ELSE t.unsold)
  /\ bought => FirstPid(t) \in Products
  /\ (First(t).pid # Nobody) <=> (bought \/ noted)
  /\ bought /\ noted => "lost" \in u.met
  /\ bought /\ ~noted => u.any
  /\ ~u.any => ~t.any

(* The counts stay right when a product is passed on.                      *)
LEMMA PassingOnCounts ==
  ASSUME NEW t \in ThreadType, t.req \in Requests, Purchase(t), t.todo # << >>,
         t.code = "UNDEFINED", Buys(t),
         NEW bought \in BOOLEAN, NEW noted \in BOOLEAN, NEW u, PassedOn(t, u, bought, noted)
  PROVE  Counted(u)
<1>. DEFINE pid == FirstPid(t)
<1>1. /\ t.todo \in Seq(ItemType) /\ First(t) \in ItemType
      /\ t.sold \in Seq(Products) /\ t.unsold \in Seq(Int \cup {Nobody})
  <2>1. /\ t.todo \in Seq(ItemType)
        /\ t.sold \in Seq(Products) /\ t.unsold \in Seq(Int \cup {Nobody})
    BY DEF ThreadType
  <2>. QED  BY <2>1, HeadTailProperties DEF First
<1>2. noted => pid \in Int
  <2>1. First(t).pid # Nobody => First(t).pid \in Int
    BY <1>1 DEF ItemType
  <2>. QED  BY <2>1, ToIntIsInt DEF PassedOn, FirstPid
<1>3. ASSUME NEW p \in Products
      PROVE  /\ Occurrences(u.sold, p) + Wants(u.todo, p) <= Asked(u, p)
             /\ Occurrences(u.sold, p) <= Asked(u, p)
             /\ "memory" \notin u.met =>
                  LET told == Asked(u, p) - Occurrences(u.unsold, p) - Wants(u.todo, p)
                  IN /\ told <= Occurrences(u.sold, p)
                     /\ "lost" \notin u.met => told = Occurrences(u.sold, p)
                     /\ ~u.any => told = 0
  <2>. DEFINE sold   == Occurrences(t.sold, p)
              unsold == Occurrences(t.unsold, p)
              wants  == Wants(t.todo, p)
              asked  == Asked(t, p)
              isFirst == First(t).pid # Nobody /\ pid = p
  <2>1. Asked(u, p) = asked /\ asked \in Nat
    BY AskedIsNat DEF PassedOn, Asked, Purchase
  <2>2. /\ wants \in Nat /\ Wants(u.todo, p) \in Nat
        /\ wants = Wants(u.todo, p) + (IF isFirst THEN 1 ELSE 0)
    BY <1>1, WantsOfTail DEF PassedOn, FirstPid, First
  <2>3. /\ sold \in Nat
        /\ Occurrences(u.sold, p) = sold + (IF bought /\ pid = p THEN 1 ELSE 0)
    <3>1. sold \in Nat
      BY <1>1, OccurrencesIsNat
    <3>2. CASE bought
      <4>1. pid \in Products /\ u.sold = Append(t.sold, pid)
        BY <3>2 DEF PassedOn
      <4>. HIDE DEF pid
      <4>. QED  BY <1>1, <3>2, <4>1, OccurrencesOfAppend
    <3>3. CASE ~bought
      <4>1. u.sold = t.sold
        BY <3>3 DEF PassedOn
      <4>. QED  BY <3>1, <3>3, <4>1
    <3>. QED  BY <3>1, <3>2, <3>3
  <2>4. /\ unsold \in Nat
        /\ "memory" \notin u.met =>
             Occurrences(u.unsold, p) = unsold + (IF noted /\ pid = p THEN 1 ELSE 0)
    <3>1. unsold \in Nat
      BY <1>1, OccurrencesIsNat
    <3>2. CASE noted /\ "memory" \notin u.met
      <4>. DEFINE Noting == Int \cup {Nobody}
      <4>1. pid \in Noting /\ t.unsold \in Seq(Noting) /\ u.unsold = Append(t.unsold, pid)
        BY <1>1, <1>2, <3>2 DEF PassedOn
      <4>. HIDE DEF pid, Noting
      <4>2. Occurrences(u.unsold, p) = unsold + (IF pid = p THEN 1 ELSE 0)
        BY <4>1, OccurrencesOfAppend
      <4>. QED  BY <3>1, <3>2, <4>2
    <3>3. CASE ~noted /\ "memory" \notin u.met
      <4>1. u.unsold = t.unsold
        BY <3>3 DEF PassedOn
      <4>. QED  BY <3>1, <3>3, <4>1
    <3>. QED  BY <3>1, <3>2, <3>3
  <2>5. /\ sold + wants <= asked
        /\ "memory" \notin u.met =>
             /\ asked - unsold - wants <= sold
             /\ "lost" \notin u.met => asked - unsold - wants = sold
             /\ ~u.any => asked - unsold - wants = 0
    BY DEF Buys, Tallied, PassedOn
  <2>6. /\ First(t).pid # Nobody <=> (bought \/ noted)
        /\ bought /\ noted => "lost" \in u.met
        /\ bought /\ ~noted => u.any
    BY DEF PassedOn
  <2>7. PICK sold2, unsold2, wants2 :
          /\ sold2 = Occurrences(u.sold, p) /\ unsold2 = Occurrences(u.unsold, p)
          /\ wants2 = Wants(u.todo, p)
    OBVIOUS
  <2>. HIDE DEF sold, unsold, wants, asked, pid
  <2>8. sold2 + wants2 <= asked /\ sold2 <= asked
    BY <2>1, <2>2, <2>3, <2>5, <2>6, <2>7
  <2>9. "memory" \notin u.met =>
          /\ asked - unsold2 - wants2 <= sold2
          /\ "lost" \notin u.met => asked - unsold2 - wants2 = sold2
          /\ ~u.any => asked - unsold2 - wants2 = 0
    <3>. SUFFICES ASSUME "memory" \notin u.met
                  PROVE  /\ asked - unsold2 - wants2 <= sold2
                         /\ "lost" \notin u.met => asked - unsold2 - wants2 = sold2
                         /\ ~u.any => asked - unsold2 - wants2 = 0
      OBVIOUS
    <3>1. /\ wants = wants2 + (IF isFirst THEN 1 ELSE 0)
          /\ sold2 = sold + (IF bought /\ isFirst THEN 1 ELSE 0)
          /\ unsold2 = unsold + (IF noted /\ isFirst THEN 1 ELSE 0)
          /\ wants2 \in Nat /\ wants \in Nat
      BY <2>2, <2>3, <2>4, <2>6, <2>7
    <3>2. CASE isFirst
      <4>1. CASE bought /\ noted
        BY <2>1, <2>3, <2>4, <2>5, <2>6, <3>1, <3>2, <4>1
      <4>2. CASE bought /\ ~noted
        BY <2>1, <2>3, <2>4, <2>5, <2>6, <3>1, <3>2, <4>2
      <4>3. CASE ~bought /\ noted
        BY <2>1, <2>3, <2>4, <2>5, <2>6, <3>1, <3>2, <4>3
      <4>. QED  BY <2>6, <3>2, <4>1, <4>2, <4>3
    <3>3. CASE ~isFirst
      BY <2>1, <2>3, <2>4, <2>5, <3>1, <3>3
    <3>. QED  BY <3>2, <3>3
  <2>. QED  BY <2>1, <2>7, <2>8, <2>9
<1>. QED  BY <1>3 DEF Counted, Buys, Tallied, PassedOn

(* u breaks the loop of t, with the product bought or not.                 *)
BreaksOff(t, u, bought) ==
  /\ u.req = t.req /\ u.pc = "buy" /\ u.body = "none" /\ Breaks(u)
  /\ u.sold = (IF bought THEN Append(t.sold, FirstPid(t)) ELSE t.sold)
  /\ bought => FirstPid(t) \in Products /\ First(t).pid # Nobody

(* A loop that breaks off has sold no more than was asked for.             *)
LEMMA BreakingOffCounts ==
  ASSUME NEW t \in ThreadType, t.req \in Requests, Purchase(t), t.todo # << >>,
         t.code = "UNDEFINED", Buys(t),
         NEW bought \in BOOLEAN, NEW u, BreaksOff(t, u, bought)
  PROVE  Counted(u)
<1>1. t.todo \in Seq(ItemType) /\ t.sold \in Seq(Products)
  BY DEF ThreadType
<1>2. ASSUME NEW p \in Products PROVE Occurrences(u.sold, p) <= Asked(u, p)
  <2>. DEFINE pid    == FirstPid(t)
              sold   == Occurrences(t.sold, p)
              wants  == Wants(t.todo, p)
              asked  == Asked(t, p)
  <2>1. Asked(u, p) = asked /\ asked \in Nat
    BY AskedIsNat DEF BreaksOff, Asked, Purchase
  <2>2. /\ wants \in Nat /\ sold \in Nat
        /\ bought /\ pid = p => wants >= 1
    BY <1>1, WantsOfTail, OccurrencesOfAppend DEF BreaksOff, FirstPid, First
  <2>3. sold + wants <= asked
    BY DEF Buys
  <2>4. CASE bought
    <3>1. pid \in Products /\ u.sold = Append(t.sold, pid)
      BY <2>4 DEF BreaksOff
    <3>2. Occurrences(u.sold, p) = sold + (IF pid = p THEN 1 ELSE 0)
      <4>. HIDE DEF pid
      <4>. QED  BY <1>1, <3>1, OccurrencesOfAppend
    <3>. HIDE DEF pid, sold, wants, asked
    <3>. QED  BY <2>1, <2>2, <2>3, <2>4, <3>2
  <2>5. CASE ~bought
    <3>1. u.sold = t.sold
      BY <2>5 DEF BreaksOff
    <3>. QED  BY <2>1, <2>2, <2>3, <3>1
  <2>. QED  BY <2>4, <2>5
<1>. QED  BY <1>2 DEF Counted, Buys, BreaksOff, Breaks

(* What becomes of v when a product joins the list of the unpurchased.     *)
LEMMA NotedIsPassedOn ==
  ASSUME NEW t \in ThreadType, NEW v, InLoop(v), v.todo # << >>,
         v.todo = t.todo, v.req = t.req, v.body = "none", v.code = "UNDEFINED",
         v.unsold = t.unsold, v.any = t.any, t.met \subseteq v.met,
         NEW bought \in BOOLEAN,
         v.sold = (IF bought THEN Append(t.sold, FirstPid(t)) ELSE t.sold),
         bought => FirstPid(t) \in Products /\ "lost" \in v.met,
         First(t).pid # Nobody, FirstPid(t) \in Int,
         NEW h, NEW u, u \in Noted(h, v, FirstPid(t))
  PROVE  PassedOn(t, u, bought, TRUE) \/ BreaksOff(t, u, bought)
<1>. DEFINE pid == FirstPid(t)
<1>1. InLoop(u)
  BY NotedStays
<1>2. v \in ThreadType /\ v.pc = "buy"
  BY DEF InLoop
<1>3. ASSUME NEW q, NEW w, w = NextItem([v EXCEPT !.unsold = Append(@, q)])
      PROVE  /\ w.req = v.req /\ w.pc = v.pc /\ w.body = v.body /\ w.code = v.code
             /\ w.met = v.met /\ w.sold = v.sold /\ w.any = v.any
             /\ w.todo = Tail(v.todo) /\ w.unsold = Append(v.unsold, q)
             /\ DOMAIN w = DOMAIN v
  BY <1>2, <1>3 DEF NextItem, ThreadType
<1>4. CASE u = NextItem([v EXCEPT !.unsold = Append(@, pid)])
  <2>. HIDE DEF pid
  <2>1. /\ u.req = v.req /\ u.pc = v.pc /\ u.body = v.body /\ u.code = v.code
        /\ u.met = v.met /\ u.sold = v.sold /\ u.any = v.any
        /\ u.todo = Tail(v.todo) /\ u.unsold = Append(v.unsold, pid)
    BY <1>3, <1>4
  <2>2. PassedOn(t, u, bought, TRUE)
    BY <1>1, <1>2, <2>1 DEF PassedOn, InLoop, pid
  <2>. QED  BY <2>2
<1>5. CASE u \in Meets(h, NextItem([v EXCEPT !.unsold = Append(@, Nobody)]), "memory")
  <2>1. PICK w : w = NextItem([v EXCEPT !.unsold = Append(@, Nobody)])
    OBVIOUS
  <2>2. /\ w.req = v.req /\ w.pc = v.pc /\ w.body = v.body /\ w.code = v.code
        /\ w.met = v.met /\ w.sold = v.sold /\ w.any = v.any
        /\ w.todo = Tail(v.todo) /\ DOMAIN w = DOMAIN v
    BY <1>3, <2>1
  <2>3. u = [w EXCEPT !.met = @ \cup {"memory"}]
    BY <1>5, <2>1 DEF Meets
  <2>4. /\ u.req = v.req /\ u.pc = v.pc /\ u.body = v.body /\ u.code = v.code
        /\ u.met = v.met \cup {"memory"} /\ u.sold = v.sold /\ u.any = v.any
        /\ u.todo = Tail(v.todo)
    BY <1>2, <2>2, <2>3 DEF ThreadType
  <2>5. PassedOn(t, u, bought, TRUE)
    BY <1>1, <1>2, <2>4 DEF PassedOn, InLoop
  <2>. QED  BY <2>5
<1>6. CASE u \in Meets(h, [v EXCEPT !.code = "SERVICE_UNAVAILABLE"], "memory")
  <2>1. u = [[v EXCEPT !.code = "SERVICE_UNAVAILABLE"] EXCEPT !.met = @ \cup {"memory"}]
    BY <1>6 DEF Meets
  <2>2. /\ u.req = v.req /\ u.pc = v.pc /\ u.body = v.body /\ u.sold = v.sold
        /\ u.code = "SERVICE_UNAVAILABLE"
    BY <1>2, <2>1 DEF ThreadType
  <2>3. BreaksOff(t, u, bought)
    BY <1>2, <2>2 DEF BreaksOff, Breaks
  <2>. QED  BY <2>3
<1>. QED  BY <1>4, <1>5, <1>6 DEF Noted

(* h becomes something whose counts are right.                             *)
Counts(h) == \E u : Counted(u) /\ thread' = [thread EXCEPT ![h] = u]

(* Every turn of the loop (401-442) keeps the counts.                      *)
LEMMA BuyingCounts ==
  ASSUME NEW h, Sound(thread[h]), Counted(thread[h]), thread[h].req.items # NotAnArray,
         \/ PurchaseSkips(h) \/ PurchaseSells(h) \/ PurchaseRefused(h)
         \/ PurchaseStatusUnknown(h)
  PROVE  Counts(h)
<1>. DEFINE t == thread[h]
<1>1. /\ InLoop(t) /\ t.todo # << >> /\ Purchase(t) /\ ~Breaks(t)
  BY DEF PurchaseSkips, PurchaseSells, PurchaseRefused, PurchaseStatusUnknown, Buying, At,
         Sound, AnswerKept, InLoop, Purchase
<1>2. Buys(t) /\ t.code = "UNDEFINED" /\ t \in ThreadType /\ t.req \in Requests
        /\ t.body = "none" /\ t.pc = "buy"
  BY <1>1 DEF Counted, Buys, InLoop, Breaks
<1>3. Item(h) = First(t) /\ Pid(Item(h)) = FirstPid(t)
  BY DEF Item, First, Pid, FirstPid
<1>4. First(t).pid # Nobody => FirstPid(t) \in Int
  <2>1. t.todo \in Seq(ItemType)
    BY <1>2 DEF ThreadType
  <2>2. First(t) \in ItemType
    BY <1>1, <2>1, HeadTailProperties DEF First
  <2>. QED  BY <2>2, ToIntIsInt DEF ItemType, FirstPid
<1>5. ASSUME NEW u, Becomes(h, u), NEW bought \in BOOLEAN, NEW noted \in BOOLEAN,
             PassedOn(t, u, bought, noted) \/ BreaksOff(t, u, bought)
      PROVE  Counts(h)
  <2>1. Counted(u)
    BY <1>1, <1>2, <1>5, PassingOnCounts, BreakingOffCounts
  <2>. QED  BY <1>5, <2>1 DEF Becomes, Counts
<1>6. CASE PurchaseSkips(h)
  <2>1. InLoop(NextItem(t))
    BY <1>1, NextItemStays
  <2>2. First(t).pid = Nobody /\ Becomes(h, NextItem(t))
    BY <1>3, <1>6 DEF PurchaseSkips
  <2>3. PassedOn(t, NextItem(t), FALSE, FALSE)
    <3>1. /\ NextItem(t).req = t.req /\ NextItem(t).body = t.body /\ NextItem(t).code = t.code
          /\ NextItem(t).met = t.met /\ NextItem(t).sold = t.sold /\ NextItem(t).any = t.any
          /\ NextItem(t).todo = Tail(t.todo) /\ NextItem(t).unsold = t.unsold
      BY <1>2 DEF NextItem, ThreadType
    <3>. QED  BY <1>2, <2>1, <2>2, <3>1 DEF PassedOn, InLoop
  <2>. QED  BY <1>5, <2>2, <2>3
<1>7. CASE PurchaseSells(h)
  <2>. DEFINE pid  == FirstPid(t)
              s    == Append(t.sold, pid)
              sold == [t EXCEPT !.sold = s]
              good == [sold EXCEPT !.any = TRUE]
              dead == [sold EXCEPT !.conn = "dead"]
  <2>1. pid \in Products /\ First(t).pid # Nobody /\ pid \in Int
    BY <1>3, <1>4, <1>7 DEF PurchaseSells, Sells
  <2>2. s \in Seq(Products)
    BY <1>2, <2>1, AppendProperties DEF ThreadType
  <2>3. \/ Becomes(h, NextItem(good))
        \/ \E broken \in Meets(h, dead, "lost") : \E u \in Noted(h, broken, pid) : Becomes(h, u)
    BY <1>3, <1>7 DEF PurchaseSells
  <2>. HIDE DEF s, pid
  <2>4. /\ InLoop(good) /\ good.todo = t.todo /\ good.sold = s /\ good.any = TRUE
        /\ good.req = t.req /\ good.body = t.body /\ good.code = t.code
        /\ good.met = t.met /\ good.unsold = t.unsold
    BY <1>1, <2>2 DEF InLoop, ThreadType
  <2>5. /\ InLoop(dead) /\ dead.todo = t.todo /\ dead.sold = s /\ dead.any = t.any
        /\ dead.req = t.req /\ dead.body = t.body /\ dead.code = t.code
        /\ dead.met = t.met /\ dead.unsold = t.unsold
    BY <1>1, <2>2 DEF InLoop, ThreadType
  <2>. HIDE DEF good, dead
  <2>6. CASE Becomes(h, NextItem(good))
    <3>1. InLoop(NextItem(good))
      BY <1>1, <2>4, NextItemStays
    <3>2. LET n == NextItem(good) IN
          /\ n.req = t.req /\ n.body = t.body /\ n.code = t.code /\ n.met = t.met
          /\ n.sold = s /\ n.any = TRUE /\ n.todo = Tail(t.todo) /\ n.unsold = t.unsold
      BY <2>4 DEF NextItem, ThreadType, InLoop
    <3>3. PassedOn(t, NextItem(good), TRUE, FALSE)
      BY <1>2, <2>1, <3>1, <3>2 DEF PassedOn, InLoop, s, pid
    <3>. QED  BY <1>5, <2>6, <3>3
  <2>7. ASSUME NEW broken, broken \in Meets(h, dead, "lost"),
               NEW u, u \in Noted(h, broken, pid), Becomes(h, u)
        PROVE  Counts(h)
    <3>1. InLoop(broken) /\ broken.todo = t.todo
      BY <2>5, <2>7, MeetingStays
    <3>2. broken = [dead EXCEPT !.met = @ \cup {"lost"}]
      BY <2>7 DEF Meets
    <3>3. /\ broken.req = t.req /\ broken.body = "none" /\ broken.code = "UNDEFINED"
          /\ broken.unsold = t.unsold /\ broken.any = t.any /\ t.met \subseteq broken.met
          /\ broken.sold = s /\ "lost" \in broken.met
      BY <1>2, <2>5, <3>2 DEF InLoop, ThreadType
    <3>4. PassedOn(t, u, TRUE, TRUE) \/ BreaksOff(t, u, TRUE)
      BY <1>1, <1>2, <2>1, <2>7, <3>1, <3>3, NotedIsPassedOn DEF s, pid
    <3>. QED  BY <1>5, <2>7, <3>4
  <2>. QED  BY <2>3, <2>6, <2>7
<1>8. ASSUME NEW f, NEW v, v = t \/ v \in Meets(h, t, f), First(t).pid # Nobody,
             NEW u, u \in Noted(h, v, FirstPid(t)), Becomes(h, u)
      PROVE  Counts(h)
  <2>1. InLoop(v) /\ v.todo = t.todo
    BY <1>1, <1>8, MeetingStays
  <2>2. v = t \/ v = [t EXCEPT !.met = @ \cup {f}]
    BY <1>8 DEF Meets
  <2>3. /\ v.req = t.req /\ v.body = "none" /\ v.code = "UNDEFINED"
        /\ v.unsold = t.unsold /\ v.any = t.any /\ t.met \subseteq v.met
        /\ v.sold = t.sold
    BY <1>2, <2>2 DEF ThreadType
  <2>4. PassedOn(t, u, FALSE, TRUE) \/ BreaksOff(t, u, FALSE)
    BY <1>1, <1>2, <1>4, <1>8, <2>1, <2>3, NotedIsPassedOn
  <2>. QED  BY <1>5, <1>8, <2>4
<1>9. CASE PurchaseRefused(h)
  <2>1. First(t).pid # Nobody
    BY <1>3, <1>9 DEF PurchaseRefused
  <2>2. \/ \E u \in Noted(h, t, FirstPid(t)) : Becomes(h, u)
        \/ \E v \in Meets(h, t, "database") : \E u \in Noted(h, v, FirstPid(t)) : Becomes(h, u)
    BY <1>3, <1>9 DEF PurchaseRefused
  <2>. QED  BY <1>8, <2>1, <2>2
<1>10. CASE PurchaseStatusUnknown(h)
  <2>1. PICK v : v \in Meets(h, t, "database")
                   /\ Becomes(h, [v EXCEPT !.code = "INTERNAL_SERVER_ERROR"])
    BY <1>10 DEF PurchaseStatusUnknown
  <2>2. v = [t EXCEPT !.met = @ \cup {"database"}]
    BY <2>1 DEF Meets
  <2>3. BreaksOff(t, [v EXCEPT !.code = "INTERNAL_SERVER_ERROR"], FALSE)
    BY <1>2, <2>2 DEF BreaksOff, Breaks, ThreadType
  <2>. QED  BY <1>5, <2>1, <2>3
<1>. QED  BY <1>6, <1>7, <1>9, <1>10

-----------------------------------------------------------------------------
(* Before and after the loop                                               *)

(* v has the request, the code, the body and the lists of t, and has met   *)
(* what t had.                                                             *)
Keeps(v, t) ==
  /\ v \in ThreadType /\ v.req = t.req /\ v.code = t.code /\ v.body = t.body /\ v.any = t.any
  /\ v.sold = t.sold /\ v.unsold = t.unsold /\ t.met \subseteq v.met

(* Who runs into a fault keeps all that.                                   *)
LEMMA MeetingKeeps ==
  ASSUME NEW h, NEW t \in ThreadType, NEW f, NEW v, v \in Meets(h, t, f)
  PROVE  Keeps(v, t)
<1>1. v = [t EXCEPT !.met = @ \cup {f}] /\ f \in Faults
  BY DEF Meets
<1>. QED  BY <1>1 DEF ThreadType, Keeps

(* Who has sold nothing and does not claim to have counts right.           *)
LEMMA EmptyHandedCounts ==
  ASSUME NEW u, u.req \in Requests, u.sold = << >>, u.body = "none", u.pc # "buy",
         u.pc \in {"parse", "connect", "query"} => Fresh(u)
  PROVE  Counted(u)
<1>1. ASSUME Purchase(u), NEW p \in Products PROVE Occurrences(u.sold, p) <= Asked(u, p)
  <2>1. Asked(u, p) \in Nat
    BY <1>1, AskedIsNat DEF Purchase
  <2>2. Occurrences(u.sold, p) = 0
    BY NothingIsCounted
  <2>. HIDE DEF Occurrences, Asked
  <2>. QED  BY <2>1, <2>2
<1>. QED  BY <1>1 DEF Counted, Told

(* A purchase that is being read, connected or refused.                    *)
LEMMA StartingCounts ==
  ASSUME NEW h, Sound(thread[h]), Counted(thread[h]), Purchase(thread[h]),
         \/ LacksErrBuf(h) \/ PurchaseParses(h) \/ PurchaseConnects(h)
         \/ PurchaseIsMalformed(h)
  PROVE  Counts(h)
<1>. DEFINE t == thread[h]
<1>1. /\ t.pc \in {"parse", "connect", "query"} /\ t \in ThreadType /\ t.req \in Requests
      /\ t.req.items # NotAnArray
  BY DEF LacksErrBuf, PurchaseParses, PurchaseConnects, PurchaseIsMalformed, At, Sound, Purchase
<1>2. Fresh(t)
  BY <1>1 DEF Counted
<1>3. ASSUME NEW u, u.req = t.req, u.sold = t.sold, u.unsold = t.unsold, u.any = t.any,
             u.body = t.body, u.pc \in {"connect", "query", "compose", "end"},
             u.pc \in {"connect", "query"} => u.code = t.code,
             Becomes(h, u)
      PROVE  Counts(h)
  <2>1. Counted(u)
    BY <1>1, <1>2, <1>3, EmptyHandedCounts DEF Fresh
  <2>. QED  BY <1>3, <2>1 DEF Becomes, Counts
<1>4. ASSUME NEW v, v = t \/ \E f : v \in Meets(h, t, f)
      PROVE  Keeps(v, t)
  <2>1. Keeps(t, t)
    BY <1>1 DEF Keeps
  <2>2. ASSUME NEW f, v \in Meets(h, t, f) PROVE Keeps(v, t)
    BY <1>1, <2>2, MeetingKeeps
  <2>. QED  BY <1>4, <2>1, <2>2
<1>5. ASSUME NEW v, v = t \/ \E f : v \in Meets(h, t, f), NEW code,
             Becomes(h, Answer(v, code)) \/ Becomes(h, [v EXCEPT !.pc = "end"])
      PROVE  Counts(h)
  <2>1. Keeps(v, t)
    BY <1>4, <1>5
  <2>2. CASE Becomes(h, Answer(v, code))
    <3>. DEFINE u == Answer(v, code)
    <3>1. /\ u.req = t.req /\ u.sold = t.sold /\ u.unsold = t.unsold /\ u.any = t.any
          /\ u.body = t.body /\ u.pc = "compose"
      BY <2>1 DEF Answer, Keeps, ThreadType
    <3>. HIDE DEF u
    <3>. QED  BY <1>3, <2>2, <3>1 DEF u
  <2>3. CASE Becomes(h, [v EXCEPT !.pc = "end"])
    <3>. DEFINE u == [v EXCEPT !.pc = "end"]
    <3>1. /\ u.req = t.req /\ u.sold = t.sold /\ u.unsold = t.unsold /\ u.any = t.any
          /\ u.body = t.body /\ u.pc = "end"
      BY <2>1 DEF Keeps, ThreadType
    <3>. HIDE DEF u
    <3>. QED  BY <1>3, <2>3, <3>1 DEF u
  <2>. QED  BY <1>5, <2>2, <2>3
<1>6. CASE LacksErrBuf(h)
  BY <1>5, <1>6 DEF LacksErrBuf
<1>7. CASE PurchaseParses(h)
  <2>. DEFINE u == [t EXCEPT !.pc = "connect"]
  <2>1. /\ u.req = t.req /\ u.sold = t.sold /\ u.unsold = t.unsold /\ u.any = t.any
        /\ u.body = t.body /\ u.pc = "connect" /\ u.code = t.code
    BY <1>1 DEF ThreadType
  <2>2. Becomes(h, u)
    BY <1>7 DEF PurchaseParses
  <2>. HIDE DEF u
  <2>. QED  BY <1>3, <2>1, <2>2
<1>8. CASE PurchaseConnects(h)
  <2>. DEFINE u == [t EXCEPT !.conn = "open", !.pc = "query"]
  <2>1. /\ u.req = t.req /\ u.sold = t.sold /\ u.unsold = t.unsold /\ u.any = t.any
        /\ u.body = t.body /\ u.pc = "query" /\ u.code = t.code
    BY <1>1 DEF ThreadType
  <2>2. \/ Becomes(h, u)
        \/ Becomes(h, Answer(t, "BAD_REQUEST"))
        \/ \E f : \E v \in Meets(h, t, f) : Becomes(h, Answer(v, "BAD_REQUEST"))
    BY <1>8 DEF PurchaseConnects, GetsConnection
  <2>. HIDE DEF u
  <2>. QED  BY <1>3, <1>5, <2>1, <2>2
<1>9. CASE PurchaseIsMalformed(h)
  BY <1>1, <1>5, <1>9 DEF PurchaseIsMalformed
<1>. QED  BY <1>6, <1>7, <1>8, <1>9

(* At the start of the loop everything is still to buy.                    *)
LEMMA BeginningCounts ==
  ASSUME NEW h, Sound(thread[h]), Counted(thread[h]), PurchaseBegins(h)
  PROVE  Counts(h)
<1>. DEFINE t     == thread[h]
            items == t.req.items
            u     == [t EXCEPT !.todo = items, !.pc = "buy"]
<1>1. /\ t.pc = "query" /\ t \in ThreadType /\ t.req \in Requests /\ t.req.route = "purchase"
      /\ t.req.items # NotAnArray
  BY DEF PurchaseBegins, At, Sound
<1>2. Fresh(t)
  BY <1>1 DEF Counted, Purchase
<1>3. Becomes(h, u)
  BY DEF PurchaseBegins
<1>4. ASSUME NEW p PROVE Wants(items, p) = Asked(t, p) /\ Asked(t, p) \in Nat
  BY <1>1, AskedIsNat DEF Wants, Asked
<1>. HIDE DEF items
<1>5. /\ u.req = t.req /\ u.todo = items /\ u.sold = << >> /\ u.unsold = << >>
      /\ u.body = "none" /\ u.code = "UNDEFINED" /\ ~u.any /\ u.pc = "buy"
  BY <1>1, <1>2 DEF ThreadType, Fresh
<1>. HIDE DEF u
<1>6. ASSUME NEW p \in Products
      PROVE  LET asked == Asked(u, p) IN
             /\ asked \in Nat /\ Wants(u.todo, p) = asked
             /\ Occurrences(u.sold, p) = 0 /\ Occurrences(u.unsold, p) = 0
  <2>1. Asked(u, p) = Asked(t, p)
    BY <1>5 DEF Asked
  <2>. QED  BY <1>4, <1>5, <2>1, NothingIsCounted
<1>7. ASSUME NEW p \in Products
      PROVE  /\ Occurrences(u.sold, p) + Wants(u.todo, p) <= Asked(u, p)
             /\ Occurrences(u.sold, p) <= Asked(u, p)
             /\ LET told == Asked(u, p) - Occurrences(u.unsold, p) - Wants(u.todo, p)
                IN told = 0 /\ told <= Occurrences(u.sold, p) /\ told = Occurrences(u.sold, p)
  <2>1. PICK asked : asked = Asked(u, p)
    OBVIOUS
  <2>2. /\ asked \in Nat /\ Wants(u.todo, p) = asked
        /\ Occurrences(u.sold, p) = 0 /\ Occurrences(u.unsold, p) = 0
    BY <1>6, <2>1
  <2>3. 0 + asked <= asked /\ 0 <= asked /\ asked - 0 - asked = 0 /\ 0 <= 0
    BY <2>2
  <2>. HIDE DEF Asked, Wants, Occurrences
  <2>. QED  BY <2>1, <2>2, <2>3
<1>8. Buys(u)
  BY <1>5, <1>7 DEF Buys, Tallied
<1>9. Counted(u)
  BY <1>5, <1>7, <1>8 DEF Counted
<1>. QED  BY <1>3, <1>9 DEF Becomes, Counts

(* What the loop leaves is what the answer tells.                          *)
LEMMA EndingCounts ==
  ASSUME NEW h, Sound(thread[h]), Counted(thread[h]), Purchase(thread[h]), PurchaseEnds(h)
  PROVE  Counts(h)
<1>. DEFINE t == thread[h]
            w == Finishes(t, PurchaseCode(t))
            b == [w EXCEPT !.body = "unsold"]
<1>1. /\ t.pc = "buy" /\ t \in ThreadType
      /\ t.todo = << >> \/ Breaks(t)
      /\ t.req \in Requests /\ t.req.items # NotAnArray
  BY DEF PurchaseEnds, At, Sound, Purchase
<1>2. Buys(t) /\ \A p \in Products : Occurrences(t.sold, p) <= Asked(t, p)
  BY <1>1 DEF Counted
<1>3. /\ w.pc = "compose" /\ w.req = t.req /\ w.sold = t.sold /\ w.unsold = t.unsold
      /\ w.body = t.body /\ w.met = t.met /\ w.code = PurchaseCode(t) /\ DOMAIN w = DOMAIN t
  BY <1>1 DEF Finishes, Answer, ThreadType
<1>4. ASSUME NEW u, u.req = t.req, u.sold = t.sold, u.pc = "compose", Told(u), Becomes(h, u)
      PROVE  Counts(h)
  <2>1. Asked(u, t) = Asked(t, t) /\ \A p : Asked(u, p) = Asked(t, p)
    BY <1>4 DEF Asked
  <2>2. Counted(u)
    BY <1>2, <1>4, <2>1 DEF Counted
  <2>. QED  BY <1>4, <2>2 DEF Becomes, Counts
<1>5. Becomes(h, b) \/ \E v \in Meets(h, w, "memory") : Becomes(h, v)
  BY DEF PurchaseEnds
<1>6. /\ b.pc = "compose" /\ b.req = t.req /\ b.sold = t.sold /\ b.unsold = t.unsold
      /\ b.met = t.met /\ b.code = PurchaseCode(t)
  BY <1>1, <1>3 DEF ThreadType
<1>. HIDE DEF w, b
<1>7. Told(b)
  <2>. SUFFICES ASSUME b.code \in {"OK", "BAD_REQUEST"}, "memory" \notin b.met, NEW p \in Products
                PROVE  LET told == Asked(b, p) - Occurrences(b.unsold, p)
                       IN /\ told <= Occurrences(b.sold, p)
                          /\ "lost" \notin b.met => told = Occurrences(b.sold, p)
                          /\ b.code = "BAD_REQUEST" => told = 0
    BY DEF Told
  <2>1. t.code = "UNDEFINED" /\ (b.code = "BAD_REQUEST" => ~t.any)
    BY <1>2, <1>6 DEF Buys, PurchaseCode
  <2>2. t.todo = << >>
    BY <1>1, <2>1 DEF Breaks
  <2>3. Wants(t.todo, p) = 0
    BY <2>2, NothingIsCounted
  <2>4. Asked(b, p) = Asked(t, p) /\ Asked(t, p) \in Nat
    <3>1. Asked(b, p) = Asked(t, p)
      BY <1>6 DEF Asked
    <3>2. Asked(t, p) \in Nat
      BY <1>1, AskedIsNat
    <3>. QED  BY <3>1, <3>2
  <2>5. Occurrences(t.unsold, p) \in Nat
    <3>2. t.unsold \in Seq(Int \cup {Nobody})
      BY <1>1 DEF ThreadType
    <3>. DEFINE Noting == Int \cup {Nobody}
    <3>3. Nobody \in Noting /\ t.unsold \in Seq(Noting)
      BY <3>2
    <3>. HIDE DEF Noting
    <3>. QED  BY <3>2, OccurrencesOfAppend
  <2>6. LET told == Asked(t, p) - Occurrences(t.unsold, p) - Wants(t.todo, p)
        IN /\ told <= Occurrences(t.sold, p)
           /\ "lost" \notin t.met => told = Occurrences(t.sold, p)
           /\ ~t.any => told = 0
    BY <1>2, <1>6, <2>1 DEF Buys, Tallied
  <2>7. PICK asked, unsold, sold :
          asked = Asked(t, p) /\ unsold = Occurrences(t.unsold, p) /\ sold = Occurrences(t.sold, p)
    OBVIOUS
  <2>8. asked - unsold - 0 = asked - unsold
    BY <2>4, <2>5, <2>7
  <2>. HIDE DEF Asked, Occurrences, Wants
  <2>. QED  BY <1>6, <2>1, <2>3, <2>4, <2>6, <2>7, <2>8
<1>8. CASE Becomes(h, b)
  BY <1>4, <1>6, <1>7, <1>8
<1>9. ASSUME NEW v, v \in Meets(h, w, "memory"), Becomes(h, v) PROVE Counts(h)
  <2>1. v = [w EXCEPT !.met = @ \cup {"memory"}]
    BY <1>9 DEF Meets
  <2>2. /\ v.pc = "compose" /\ v.req = t.req /\ v.sold = t.sold /\ v.body = "none"
    BY <1>1, <1>2, <1>3, <2>1 DEF ThreadType, Buys
  <2>3. Told(v)
    BY <2>2 DEF Told
  <2>. QED  BY <1>4, <1>9, <2>2, <2>3
<1>. QED  BY <1>5, <1>8, <1>9

(* u has the lists and the body of t, and its code or 503.                 *)
PassesOn(t, u) ==
  /\ u.pc \in {"write", "end"} /\ u.req = t.req /\ u.sold = t.sold /\ u.unsold = t.unsold
  /\ u.body = t.body /\ u.code \in {t.code, "SERVICE_UNAVAILABLE"} /\ t.met \subseteq u.met

(* What is sent tells what was composed.                                   *)
LEMMA SendingCounts ==
  ASSUME NEW h, Sound(thread[h]), Counted(thread[h]), Purchase(thread[h]),
         Composes(h) \/ WritesSome(h) \/ WriteFails(h)
  PROVE  Counts(h)
<1>. DEFINE t == thread[h]
<1>1. t \in ThreadType /\ t.pc \in {"compose", "write"}
  BY DEF Composes, WritesSome, WriteFails, At, Sound
<1>2. Told(t) /\ \A p \in Products : Occurrences(t.sold, p) <= Asked(t, p)
  BY <1>1 DEF Counted
<1>3. ASSUME NEW u, PassesOn(t, u), Becomes(h, u) PROVE Counts(h)
  <2>1. \A p : Asked(u, p) = Asked(t, p)
    BY <1>3 DEF Asked, PassesOn
  <2>2. u.code \in {"OK", "BAD_REQUEST"} => u.code = t.code
    BY <1>3 DEF PassesOn
  <2>3. Told(u)
    BY <1>2, <1>3, <2>1, <2>2 DEF Told, PassesOn
  <2>4. Counted(u)
    BY <1>2, <1>3, <2>1, <2>3 DEF Counted, PassesOn
  <2>. QED  BY <1>3, <2>4 DEF Becomes, Counts
<1>4. ASSUME NEW f, NEW v, v \in Meets(h, t, f) PROVE Keeps(v, t)
  BY <1>1, <1>4, MeetingKeeps
<1>5. ASSUME NEW w \in ThreadType, w.req = t.req, w.sold = t.sold, w.unsold = t.unsold,
             w.body = t.body, w.code \in {t.code, "SERVICE_UNAVAILABLE"}, t.met \subseteq w.met,
             Writes(h, w)
      PROVE  Counts(h)
  <2>. DEFINE n == Len(Response(w))
  <2>. HIDE DEF n
  <2>1. CASE Becomes(h, [w EXCEPT !.left = n, !.pc = "write"])
    <3>1. PassesOn(t, [w EXCEPT !.left = n, !.pc = "write"])
      BY <1>5 DEF PassesOn, ThreadType
    <3>. QED  BY <1>3, <2>1, <3>1
  <2>2. ASSUME NEW v, v \in Meets(h, w, "memory"), Becomes(h, [v EXCEPT !.pc = "end"])
        PROVE  Counts(h)
    <3>1. Keeps(v, w)
      BY <1>5, <2>2, MeetingKeeps
    <3>2. PassesOn(t, [v EXCEPT !.pc = "end"])
      BY <1>5, <3>1 DEF PassesOn, Keeps, ThreadType
    <3>. QED  BY <1>3, <2>2, <3>2
  <2>. QED  BY <1>5, <2>1, <2>2 DEF Writes, n
<1>6. CASE Composes(h)
  <2>1. CASE Writes(h, [t EXCEPT !.header = TRUE])
    <3>. DEFINE w == [t EXCEPT !.header = TRUE]
    <3>1. /\ w \in ThreadType /\ w.req = t.req /\ w.sold = t.sold /\ w.unsold = t.unsold
          /\ w.body = t.body /\ w.code = t.code /\ w.met = t.met
      BY <1>1 DEF ThreadType
    <3>2. Writes(h, w)
      BY <2>1
    <3>. HIDE DEF w
    <3>. QED  BY <1>5, <3>1, <3>2
  <2>2. ASSUME NEW v, v \in Meets(h, t, "memory"),
               Writes(h, [v EXCEPT !.code = "SERVICE_UNAVAILABLE"])
        PROVE  Counts(h)
    <3>. DEFINE w == [v EXCEPT !.code = "SERVICE_UNAVAILABLE"]
    <3>1. Keeps(v, t)
      BY <1>4, <2>2
    <3>2. /\ w \in ThreadType /\ w.req = t.req /\ w.sold = t.sold /\ w.unsold = t.unsold
          /\ w.body = t.body /\ w.code = "SERVICE_UNAVAILABLE" /\ t.met \subseteq w.met
      BY <3>1 DEF Keeps, ThreadType, Codes
    <3>3. Writes(h, w)
      BY <2>2
    <3>. HIDE DEF w
    <3>. QED  BY <1>5, <3>2, <3>3
  <2>. QED  BY <1>6, <2>1, <2>2 DEF Composes
<1>7. CASE WritesSome(h)
  <2>1. PICK n \in 1..t.left :
          \E v \in IF n = t.left THEN {t} ELSE Meets(h, t, "network") :
            Becomes(h, [v EXCEPT !.out  = @ \o SubSeq(Response(t), 1, n),
                                 !.left = Remaining(t, n),
                                 !.pc   = IF Remaining(t, n) = 0 THEN "end" ELSE "write"])
    BY <1>7 DEF WritesSome
  <2>2. PICK v \in IF n = t.left THEN {t} ELSE Meets(h, t, "network") :
          Becomes(h, [v EXCEPT !.out  = @ \o SubSeq(Response(t), 1, n),
                               !.left = Remaining(t, n),
                               !.pc   = IF Remaining(t, n) = 0 THEN "end" ELSE "write"])
    BY <2>1
  <2>3. Keeps(v, t)
    <3>1. v = t \/ v \in Meets(h, t, "network")
      BY <2>2
    <3>2. Keeps(t, t)
      BY <1>1 DEF Keeps
    <3>. QED  BY <1>4, <3>1, <3>2
  <2>. DEFINE now  == v.out \o SubSeq(Response(t), 1, n)
              left == Remaining(t, n)
              u    == [v EXCEPT !.out = now, !.left = left,
                                !.pc = IF left = 0 THEN "end" ELSE "write"]
  <2>4. Becomes(h, u)
    BY <2>2
  <2>. HIDE DEF now, left
  <2>5. PassesOn(t, u)
    BY <1>1, <2>3 DEF PassesOn, Keeps, ThreadType
  <2>. HIDE DEF u
  <2>. QED  BY <1>3, <2>4, <2>5
<1>8. CASE WriteFails(h)
  <2>1. PICK v : v \in Meets(h, t, "network") /\ Becomes(h, [v EXCEPT !.pc = "end"])
    BY <1>8 DEF WriteFails
  <2>2. Keeps(v, t)
    BY <1>4, <2>1
  <2>3. PassesOn(t, [v EXCEPT !.pc = "end"])
    BY <1>1, <2>2 DEF PassesOn, Keeps, ThreadType
  <2>. QED  BY <1>3, <2>1, <2>3
<1>. QED  BY <1>6, <1>7, <1>8

(* The thread is gone, and what it sold with it.                           *)
LEMMA GoneCounts ==
  ASSUME NEW h, Sound(thread[h]), Ends(h)
  PROVE  Counts(h)
<1>. DEFINE t == thread[h]
            u == [NewThread(t.req) EXCEPT !.pc = "gone", !.code = t.code, !.conn = t.conn,
                                          !.met = t.met]
<1>1. Becomes(h, u) /\ t.req \in Requests
  BY DEF Ends, Sound
<1>2. u.req = t.req /\ u.sold = << >> /\ u.body = "none" /\ u.pc = "gone"
  BY DEF NewThread
<1>. HIDE DEF u
<1>3. Counted(u)
  BY <1>1, <1>2, EmptyHandedCounts
<1>. QED  BY <1>1, <1>3 DEF Becomes, Counts

-----------------------------------------------------------------------------
(* All steps                                                               *)

(* A thread that is dispatched.                                            *)
LEMMA DispatchCounts ==
  ASSUME NEW h, Dispatch(h)
  PROVE  Counts(h)
<1>1. PICK r \in Requests : Becomes(h, NewThread(r))
  BY DEF Dispatch
<1>. DEFINE u == NewThread(r)
<1>2. u.req \in Requests /\ Fresh(u) /\ u.pc = "parse"
  BY DEF NewThread, Fresh
<1>. HIDE DEF u
<1>3. Counted(u)
  BY <1>2, EmptyHandedCounts DEF Fresh
<1>. QED  BY <1>1, <1>3 DEF Becomes, Counts, u

(* A thread that runs.                                                     *)
LEMMA RunningCounts ==
  ASSUME NEW h, Sound(thread[h]), Counted(thread[h]), Runs(h)
  PROVE  Counts(h) \/ UNCHANGED thread
<1>. DEFINE t == thread[h]
<1>2. CASE t.req.route = "purchase" /\ t.req.items # NotAnArray
  <2>1. \/ LacksErrBuf(h) \/ Purchases(h) \/ Composes(h) \/ WritesSome(h) \/ WriteFails(h)
        \/ Ends(h)
    BY <1>2 DEF Runs, ProductsParses, ProductsConnects, ProductsQueries, LoginParses,
       LoginConnects, LoginQueries, RegisterParses, RegisterConnects, RegisterInserts,
       RegisterRefused, SendsContinue, At
  <2>2. t.pc # "idle"
    BY <2>1 DEF LacksErrBuf, Purchases, PurchaseParses, PurchaseConnects, PurchaseIsMalformed,
       PurchaseBegins, PurchaseSkips, PurchaseSells, PurchaseRefused, PurchaseStatusUnknown,
       PurchaseEnds, Buying, Composes, WritesSome, WriteFails, Ends, At
  <2>3. Purchase(t)
    BY <1>2, <2>2 DEF Purchase
  <2>. QED  BY <1>2, <2>1, <2>3, StartingCounts, BeginningCounts, BuyingCounts, EndingCounts,
               SendingCounts, GoneCounts DEF Purchases
<1>3. CASE ~(t.req.route = "purchase" /\ t.req.items # NotAnArray)
  <2>1. Opens(h) \/ Quiet(h) \/ UNCHANGED thread
    BY RunningKeepsAccounts DEF Sound
  <2>2. ASSUME NEW u, u.req = t.req, thread' = [thread EXCEPT ![h] = u] PROVE Counts(h)
    <3>1. Counted(u)
      BY <1>3, <2>2 DEF Counted, Purchase
    <3>. QED  BY <2>2, <3>1 DEF Counts
  <2>. QED  BY <2>1, <2>2 DEF Opens, Quiet, Modest
<1>. QED  BY <1>2, <1>3

(* At the start nobody buys.                                               *)
LEMMA HandlersBeginCounted == Init => HandlersCounted
<1>1. Idle.pc = "idle"
  BY DEF Idle, NewThread
<1>. QED  BY <1>1 DEF Init, HandlersCounted, Counted, Purchase

(* A step changes the counts of one handler.                               *)
LEMMA HandlersStayCounted ==
  HandlersSound /\ HandlersCounted /\ [Next]_vars => HandlersCounted'
<1>. SUFFICES ASSUME HandlersSound, HandlersCounted, [Next]_vars PROVE HandlersCounted'
  OBVIOUS
<1>1. ASSUME NEW h \in Handlers, Counts(h) PROVE HandlersCounted'
  <2>1. PICK u : Counted(u) /\ thread' = [thread EXCEPT ![h] = u]
    BY <1>1 DEF Counts
  <2>2. \A g \in Handlers : thread'[g] = IF g = h THEN u ELSE thread[g]
    BY <2>1 DEF HandlersSound
  <2>3. \A g \in Handlers : Counted(thread'[g])
    BY <2>1, <2>2 DEF HandlersCounted
  <2>. QED  BY <2>3 DEF HandlersCounted, Counted, Purchase, Fresh, Buys, Tallied, Told
<1>2. CASE UNCHANGED thread
  BY <1>2 DEF HandlersCounted
<1>3. CASE Finished \/ UNCHANGED vars
  BY <1>2, <1>3 DEF Finished, vars
<1>4. CASE \E h \in Handlers : Dispatch(h) \/ Runs(h)
  <2>1. PICK h \in Handlers : Dispatch(h) \/ Runs(h)
    BY <1>4
  <2>2. Sound(thread[h]) /\ Counted(thread[h])
    BY DEF HandlersSound, HandlersCounted
  <2>. QED  BY <1>1, <1>2, <2>1, <2>2, DispatchCounts, RunningCounts
<1>5. CASE \E h \in Handlers : Crashes(h)
  BY <1>2, <1>5, CrashesLeaveAll
<1>. QED  BY <1>3, <1>4, <1>5 DEF Next

(* The counts of every handler are right at every moment.                  *)
THEOREM HandlersAreCounted == Spec => []HandlersCounted
<1>. QED  BY HandlersBeginCounted, HandlersStayCounted, HandlersAreSound, PTL DEF Spec

(* However the database, the network and the memory fail, a product of a   *)
(* request is never sold more often than the request asks for it: no turn  *)
(* of the loop of threadroutines.c:401-442 is done twice.                  *)
THEOREM NothingIsSoldTwice == Spec => []NeverSoldTwice
<1>1. HandlersCounted => NeverSoldTwice
  BY DEF HandlersCounted, Counted, Purchase, NeverSoldTwice, Bought
<1>. QED  BY <1>1, HandlersAreCounted, PTL

(* What an answer 200 or 400 leaves out of its list was sold for this      *)
(* request, and nothing else was, unless a session broke after a           *)
(* statement; with 400 it leaves out nothing: threadroutines.c:423-448.    *)
THEOREM AnswersMatchSales == Spec => []AnswerMatchesSales
<1>1. HandlersCounted => AnswerMatchesSales
  <2>. SUFFICES ASSUME HandlersCounted, NEW h \in Handlers,
                       thread[h].pc \in {"compose", "write", "end"}, Bought(h),
                       thread[h].body = "unsold", thread[h].code \in {"OK", "BAD_REQUEST"},
                       "memory" \notin thread[h].met, NEW p \in Products
                PROVE  LET t    == thread[h]
                           told == Asked(t, p) - Occurrences(t.unsold, p)
                       IN /\ told <= Occurrences(t.sold, p)
                          /\ "lost" \notin t.met => told = Occurrences(t.sold, p)
                          /\ t.code = "BAD_REQUEST" => told = 0
    BY DEF AnswerMatchesSales
  <2>1. Counted(thread[h]) /\ Purchase(thread[h])
    BY DEF HandlersCounted, Bought, Purchase
  <2>2. Told(thread[h])
    BY <2>1 DEF Counted
  <2>. QED  BY <2>2 DEF Told
<1>. QED  BY <1>1, HandlersAreCounted, PTL

=============================================================================
