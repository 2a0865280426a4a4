--------------------------- MODULE RequestHandlers ---------------------------
(***************************************************************************)
(* What the handler threads do with a request once it is dispatched: the   *)
(* routines of threadroutines.c:106-582 that register, log in, list the    *)
(* products and sell, each with a database session of its own (dbconn.c),  *)
(* and the composition and writing of their answers (httphelper.c).        *)
(*                                                                         *)
(* A handler is a record in `thread'.  The database is the table Account   *)
(* and the SalesLedger; every statement commits by itself.  The images     *)
(* routine is ImageRequests' subject, the descriptor, the mutexes and the  *)
(* list of threads are ServerThreads'.                                     *)
(*                                                                         *)
(* Things fail as Faults says:                                             *)
(*   "memory"    malloc, or a library's allocation, returns NULL           *)
(*   "database"  no connection is obtained, or a statement is not executed *)
(*   "lost"      a statement commits and the session breaks before its     *)
(*               result arrives; libpq reports a fatal error, as for every *)
(*               later statement of that session                           *)
(*   "network"   the socket takes a part of what is written, or times out  *)
(* `met' remembers which of them a handler has run into: it is there for   *)
(* the properties only, as is `sold'.                                      *)
(*                                                                         *)
(* The reference that the purchase routine drops once too often (449-450)  *)
(* is to memory already freed: glibc keeps it, and the count does not      *)
(* reach zero, so that nothing happens.                                    *)
(***************************************************************************)
EXTENDS Integers, Sequences, FiniteSets

CONSTANTS
  Handlers,         \* handler threads, one request each
  Requests,         \* what may be dispatched: [route, user, password, type, items]
  Nobody,           \* a user, password or pid that the request does not have
  NotAnArray,       \* items of a purchase whose "products" is no array
  InitialAccounts,  \* Account at the start: a password for each user
  Acceptable,       \* the <<user, password>> that the CHECKs of Account accept
  Products, Ingredients, Need, InitialStock,
  MaxSessions,      \* max_connections of the database
  Span,             \* how many integers an int distinguishes
  TenDigits,        \* the smallest number that has ten digits
  Faults,           \* the failures that may occur
  MaxFaults         \* bound: the kinds of failure that the handlers meet

ASSUME HandlersAssumption ==
  /\ \A r \in Requests :
       /\ r.route \in {"register", "login", "products", "purchase", "continue"}
       /\ \/ r.items = NotAnArray
          \/ r.items \in Seq([pid : Int \cup {Nobody}, quantity : Int])
  /\ NotAnArray \notin Seq([pid : Int \cup {Nobody}, quantity : Int])
  /\ Span \in Nat \ {0} /\ TenDigits \in Nat
  /\ Products \subseteq Int
  /\ \A p \in Products, i \in Ingredients : Need[p][i] \in Nat
  /\ InitialStock \in [Ingredients -> Nat]
  /\ MaxSessions \in Nat /\ MaxFaults \in Nat
  /\ Faults \subseteq {"memory", "database", "lost", "network"}

VARIABLES
  up,       \* does the process run?
  account,  \* Account: the password of each user
  stock,    \* Ingredient.quantity
  sale,     \* Sale: the quantity of each row
  thread    \* the handlers

vars     == <<up, account, stock, sale, thread>>
database == <<account, stock, sale>>

Ledger == INSTANCE SalesLedger WITH Calls <- {}

NewThread(r) ==
  [pc     |-> "parse",      \* where it is
   req    |-> r,            \* hri
   conn   |-> "none",       \* its PGconn: none, open, or dead (the server is gone)
   code   |-> "UNDEFINED",  \* statusCode
   todo   |-> << >>,        \* the products still to buy
   unsold |-> << >>,        \* jsonUnpurchasedArray
   any    |-> FALSE,        \* wasAtleastOnePurchaseSuccessful
   body   |-> "none",       \* the body of the answer
   header |-> FALSE,        \* was there memory for the header?
   left   |-> 0,            \* len of write_response
   out    |-> << >>,        \* what it has written
   sold   |-> << >>,        \* the products sold for it, in order
   met    |-> {}]           \* the faults it ran into

Idle == [NewThread([route |-> "none"]) EXCEPT !.pc = "idle"]

Init ==
  /\ up = TRUE
  /\ account = InitialAccounts
  /\ Ledger!Init
  /\ thread = [h \in Handlers |-> Idle]

-----------------------------------------------------------------------------
(* Helpers                                                                 *)

Answering == {"register", "login", "products", "purchase"}
AnyRoute  == Answering \cup {"continue"}

At(h, pc, routes) == up /\ thread[h].pc = pc /\ thread[h].req.route \in routes

Becomes(h, t) == thread' = [thread EXCEPT ![h] = t] /\ UNCHANGED up

(* h becomes t and has run into fault f, when f may happen at all.         *)
Meets(h, t, f) ==
  LET u == [t EXCEPT !.met = @ \cup {f}]
      others == UNION {{<<g, x>> : x \in thread[g].met} : g \in Handlers \ {h}}
  IN {v \in {u} : f \in Faults /\ Cardinality(others) + Cardinality(u.met) <= MaxFaults}

(* It goes on to its answer.                                               *)
Answer(t, code) == [t EXCEPT !.code = code, !.pc = "compose"]

OpenSessions == {h \in Handlers : thread[h].conn = "open"}

(* json_integer_value is 64 bits wide, pid and quantity are int (407-408). *)
ToInt(n) == ((n + Span \div 2) % Span) - Span \div 2

-----------------------------------------------------------------------------
(* The request and its routine (main.c:40-48).                             *)
Dispatch(h) ==
  /\ up /\ thread[h].pc = "idle"
  /\ \E r \in Requests : Becomes(h, NewThread(r))
  /\ UNCHANGED database

(* No memory for errBuf: the thread ends without an answer.                *)
LacksErrBuf(h) ==
  /\ At(h, "parse", Answering)
  /\ \E t \in Meets(h, thread[h], "memory") : Becomes(h, [t EXCEPT !.pc = "end"])
  /\ UNCHANGED database

(* Mutant: the routine waits until a session is free.                      *)
GetsConnection_Waits(h, code) ==
  \/ /\ Cardinality(OpenSessions) < MaxSessions
     /\ Becomes(h, [thread[h] EXCEPT !.conn = "open", !.pc = "query"])
  \/ \E t \in Meets(h, thread[h], "database") \cup Meets(h, thread[h], "memory") :
       Becomes(h, Answer(t, code))

(* dbconn.c:10-36.  A session, or the error the routine answers with.      *)
GetsConnection(h, code) ==
  \/ /\ Cardinality(OpenSessions) < MaxSessions
     /\ Becomes(h, [thread[h] EXCEPT !.conn = "open", !.pc = "query"])
  \/ /\ Cardinality(OpenSessions) >= MaxSessions
     /\ Becomes(h, Answer(thread[h], code))
  \/ \E t \in Meets(h, thread[h], "database") \cup Meets(h, thread[h], "memory") :
       Becomes(h, Answer(t, code))

(* The statement failed: PQresultStatus is an error, or something else.    *)
StatementFails(h) ==
  \E t \in Meets(h, [thread[h] EXCEPT !.conn = "none"], "database") :
    Becomes(h, Answer(t, "BAD_REQUEST")) \/ Becomes(h, Answer(t, "INTERNAL_SERVER_ERROR"))

(* Mutant: PQfinish is forgotten.                                          *)
Finishes_Keeps(t, code) == Answer(t, code)

(* PQfinish, and the answer.                                               *)
Finishes(t, code) == Answer([t EXCEPT !.conn = "none"], code)

-----------------------------------------------------------------------------
(* GET /products (106-225)                                                 *)

ProductsParses(h) ==
  /\ At(h, "parse", {"products"})
  /\ LET r == thread[h].req IN
       Becomes(h, IF \/ r.type \in {"cocktail", "frullato"}
                     \/ r.type = "suggested" /\ r.user # Nobody
                  THEN [thread[h] EXCEPT !.pc = "connect"]
                  ELSE Answer(thread[h], "BAD_REQUEST"))
  /\ UNCHANGED database

ProductsConnects(h) ==
  At(h, "connect", {"products"}) /\ GetsConnection(h, "INTERNAL_SERVER_ERROR")
    /\ UNCHANGED database

(* The rows, as JSON; without memory for it the answer is 400.             *)
ProductsQueries(h) ==
  /\ At(h, "query", {"products"})
  /\ \/ Becomes(h, [Finishes(thread[h], "OK") EXCEPT !.body = "products"])
     \/ \E t \in Meets(h, thread[h], "memory") : Becomes(h, Finishes(t, "BAD_REQUEST"))
     \/ StatementFails(h)
  /\ UNCHANGED database

-----------------------------------------------------------------------------
(* POST /login (227-326)                                                   *)

HasCredentials(r) == r.user # Nobody /\ r.password # Nobody

(* 250-269, 488-509.  Without memory for the JSON nothing is read.         *)
ReadsCredentials(h) ==
  \/ Becomes(h, IF HasCredentials(thread[h].req)
                THEN [thread[h] EXCEPT !.pc = "connect"]
                ELSE Answer(thread[h], "BAD_REQUEST"))
  \/ \E t \in Meets(h, thread[h], "memory") : Becomes(h, Answer(t, "BAD_REQUEST"))

LoginParses(h) ==
  At(h, "parse", {"login"}) /\ ReadsCredentials(h) /\ UNCHANGED database

LoginConnects(h) ==
  At(h, "connect", {"login"}) /\ GetsConnection(h, "INTERNAL_SERVER_ERROR")
    /\ UNCHANGED database

(* SELECT * FROM Account WHERE username = $1 AND password = $2.            *)
LoginFinds(r) == r.user \in DOMAIN account /\ account[r.user] = r.password

LoginQueries(h) ==
  /\ At(h, "query", {"login"})
  /\ \/ Becomes(h, Finishes(thread[h], IF LoginFinds(thread[h].req)
                                       THEN "OK" ELSE "UNAUTHORIZED"))
     \/ StatementFails(h)
  /\ UNCHANGED database

-----------------------------------------------------------------------------
(* POST /register (468-564)                                                *)

RegisterParses(h) ==
  At(h, "parse", {"register"}) /\ ReadsCredentials(h) /\ UNCHANGED database

RegisterConnects(h) ==
  At(h, "connect", {"register"}) /\ GetsConnection(h, "SERVICE_UNAVAILABLE")
    /\ UNCHANGED database

(* Mutant: a name may be registered again.                                 *)
AccountAccepts_Again(r) == <<r.user, r.password>> \in Acceptable

(* The key and the CHECKs of Account.                                      *)
AccountAccepts(r) ==
  r.user \notin DOMAIN account /\ <<r.user, r.password>> \in Acceptable

(* INSERT INTO Account VALUES($1, $2).                                     *)
RegisterInserts(h) ==
  LET r == thread[h].req IN
  /\ At(h, "query", {"register"})
  /\ AccountAccepts(r)
  /\ account' = [u \in DOMAIN account \cup {r.user} |->
                   IF u = r.user THEN r.password ELSE account[u]]
  /\ \/ Becomes(h, Finishes(thread[h], "OK"))
     \/ \E t \in Meets(h, thread[h], "lost") : Becomes(h, Finishes(t, "BAD_REQUEST"))
  /\ UNCHANGED <<stock, sale>>

RegisterRefused(h) ==
  /\ At(h, "query", {"register"})
  /\ \/ /\ ~AccountAccepts(thread[h].req)
        /\ Becomes(h, Finishes(thread[h], "BAD_REQUEST"))
     \/ StatementFails(h)
  /\ UNCHANGED database

-----------------------------------------------------------------------------
(* POST /products/purchase (328-466)                                       *)

PurchaseParses(h) ==
  /\ At(h, "parse", {"purchase"})
  /\ Becomes(h, [thread[h] EXCEPT !.pc = "connect"])
  /\ UNCHANGED database

(* The 503 that 376 sets is overwritten with 400 at 444.                   *)
PurchaseConnects(h) ==
  At(h, "connect", {"purchase"}) /\ GetsConnection(h, "BAD_REQUEST")
    /\ UNCHANGED database

(* The request names nobody, or nothing to buy: the routine answers 400    *)
(* and keeps the session, for PQfinish is in the other branch (443-444).   *)
PurchaseIsMalformed(h) ==
  LET r == thread[h].req IN
  /\ At(h, "query", {"purchase"})
  /\ \/ /\ r.user = Nobody
        /\ Becomes(h, Answer(thread[h], "BAD_REQUEST"))
     \/ /\ r.user # Nobody /\ r.items = NotAnArray
        /\ Becomes(h, [Answer(thread[h], "BAD_REQUEST") EXCEPT !.body = "unsold"])
     \/ /\ r.user # Nobody
        /\ \E t \in Meets(h, thread[h], "memory") : Becomes(h, Answer(t, "BAD_REQUEST"))
  /\ UNCHANGED database

PurchaseBegins(h) ==
  LET r == thread[h].req IN
  /\ At(h, "query", {"purchase"})
  /\ r.user # Nobody /\ r.items # NotAnArray
  /\ Becomes(h, [thread[h] EXCEPT !.todo = r.items, !.pc = "buy"])
  /\ UNCHANGED database

(* The loop is over for t.                                                 *)
Breaks(t) == t.code \in {"INTERNAL_SERVER_ERROR", "SERVICE_UNAVAILABLE"}

Buying(h) == At(h, "buy", {"purchase"}) /\ thread[h].todo # << >> /\ ~Breaks(thread[h])
Item(h)   == Head(thread[h].todo)
Pid(item) == ToInt(item.pid)

(* Mutant: the loop comes back to a product that was not sold.             *)
NextItem_Retries(t) == t

NextItem(t) == [t EXCEPT !.todo = Tail(@)]

(* Not an object, or its fields no integers: passed over in silence.       *)
PurchaseSkips(h) ==
  /\ Buying(h) /\ Item(h).pid = Nobody
  /\ Becomes(h, NextItem(thread[h]))
  /\ UNCHANGED database

(* Mutant: the product is not noted.                                       *)
Noted_Not(h, t, pid) == {NextItem(t)}

(* {"pid": ...} goes into the list of the unpurchased (423-431).  Without  *)
(* memory for the object the loop ends with 503; without memory for the    *)
(* number, {} goes into the list.                                          *)
Noted(h, t, pid) ==
  {NextItem([t EXCEPT !.unsold = Append(@, pid)])}
    \cup Meets(h, [t EXCEPT !.code = "SERVICE_UNAVAILABLE"], "memory")
    \cup Meets(h, NextItem([t EXCEPT !.unsold = Append(@, Nobody)]), "memory")

Sells(h) ==
  /\ Item(h).pid # Nobody
  /\ thread[h].conn = "open"
  /\ thread[h].req.user \in DOMAIN account
  /\ Pid(Item(h)) \in Products
  /\ Ledger!Sell(thread[h].req.user, Pid(Item(h)), ToInt(Item(h).quantity))
  /\ UNCHANGED account

Allowed(h) ==
  /\ thread[h].req.user \in DOMAIN account
  /\ Pid(Item(h)) \in Products
  /\ Ledger!Allows(thread[h].req.user, Pid(Item(h)), ToInt(Item(h).quantity))

(* CALL upsert_sale: PGRES_COMMAND_OK, or the session breaks after it.     *)
PurchaseSells(h) ==
  LET pid == Pid(Item(h))
      sold == [thread[h] EXCEPT !.sold = Append(@, pid)]
  IN /\ Buying(h) /\ Sells(h)
     /\ \/ Becomes(h, NextItem([sold EXCEPT !.any = TRUE]))
        \/ \E broken \in Meets(h, [sold EXCEPT !.conn = "dead"], "lost") :
             \E t \in Noted(h, broken, pid) : Becomes(h, t)

(* An error of the procedure, or no session to execute it in.              *)
PurchaseRefused(h) ==
  /\ Buying(h) /\ Item(h).pid # Nobody
  /\ \/ /\ thread[h].conn = "dead" \/ ~Allowed(h)
        /\ \E t \in Noted(h, thread[h], Pid(Item(h))) : Becomes(h, t)
     \/ \E u \in Meets(h, thread[h], "database") :
          \E t \in Noted(h, u, Pid(Item(h))) : Becomes(h, t)
  /\ UNCHANGED database

(* Neither success nor an error: the loop ends with 500.                   *)
PurchaseStatusUnknown(h) ==
  /\ Buying(h) /\ Item(h).pid # Nobody
  /\ \E t \in Meets(h, thread[h], "database") :
       Becomes(h, [t EXCEPT !.code = "INTERNAL_SERVER_ERROR"])
  /\ UNCHANGED database

(* One product bought is a success; none is a bad request (445-448).       *)
PurchaseCode(t) ==
  IF t.code # "UNDEFINED" THEN t.code ELSE IF t.any THEN "OK" ELSE "BAD_REQUEST"

PurchaseEnds(h) ==
  /\ At(h, "buy", {"purchase"})
  /\ thread[h].todo = << >> \/ Breaks(thread[h])
  /\ LET t == Finishes(thread[h], PurchaseCode(thread[h])) IN
       \/ Becomes(h, [t EXCEPT !.body = "unsold"])
       \/ \E u \in Meets(h, t, "memory") : Becomes(h, u)
  /\ UNCHANGED database

-----------------------------------------------------------------------------
(* The answer                                                              *)

(* httphelper.c:217-244.  A response is a status line, the header lines    *)
(* with the empty line, and the body: one piece each.                      *)
Response(t) ==
  <<"status">> \o (IF t.header THEN <<"header">> ELSE << >>)
               \o (IF t.body # "none" THEN <<"body">> ELSE << >>)

(* Without memory form_response leaves len unset: write(2) is given a null  *)
(* pointer and fails, or len is not positive and nothing is written.       *)
Writes(h, t) ==
  \/ Becomes(h, [t EXCEPT !.left = Len(Response(t)), !.pc = "write"])
  \/ \E u \in Meets(h, t, "memory") : Becomes(h, [u EXCEPT !.pc = "end"])

(* 566-581: no header but the empty line, and no request to look at.       *)
SendsContinue(h) ==
  /\ At(h, "parse", {"continue"})
  /\ Writes(h, [thread[h] EXCEPT !.code = "CONTINUE", !.header = TRUE])
  /\ UNCHANGED database

(* 212-220 and the same lines of the other routines, with httphelper.c:    *)
(* 287-311.  Without a header the code becomes 503 and the rest is sent.   *)
Composes(h) ==
  /\ At(h, "compose", Answering)
  /\ \/ Writes(h, [thread[h] EXCEPT !.header = TRUE])
     \/ \E t \in Meets(h, thread[h], "memory") :
          Writes(h, [t EXCEPT !.code = "SERVICE_UNAVAILABLE"])
  /\ UNCHANGED database

(* Mutant: what is left is forgotten after a short write.                  *)
Remaining_None(t, n) == 0

(* Mutant: the terminating zero is counted.                                *)
Remaining_OneLess(t, n) == t.left - n - 1

Remaining(t, n) == t.left - n

(* httphelper.c:186-200.  totalWrittenBytes stays 0: each write starts at  *)
(* the beginning of the response.                                          *)
WritesSome(h) ==
  LET w == thread[h] IN
  /\ At(h, "write", AnyRoute)
  /\ \E n \in 1..w.left :
       \E t \in IF n = w.left THEN {w} ELSE Meets(h, w, "network") :
         Becomes(h, [t EXCEPT !.out  = @ \o SubSeq(Response(w), 1, n),
                              !.left = Remaining(w, n),
                              !.pc   = IF Remaining(w, n) = 0 THEN "end" ELSE "write"])
  /\ UNCHANGED database

(* write(2) fails or times out: the rest is not tried (192).               *)
WriteFails(h) ==
  /\ At(h, "write", AnyRoute)
  /\ \E t \in Meets(h, thread[h], "network") : Becomes(h, [t EXCEPT !.pc = "end"])
  /\ UNCHANGED database

(* Its stack is gone; a session it did not finish is not.                  *)
Ends(h) ==
  /\ up /\ thread[h].pc = "end"
  /\ LET t == thread[h] IN
       Becomes(h, [NewThread(t.req) EXCEPT !.pc = "gone", !.code = t.code, !.conn = t.conn,
                                           !.met = t.met])
  /\ UNCHANGED database

-----------------------------------------------------------------------------
(* Where the code leaves its memory the process may end.  It need not, for *)
(* what lies there decides.                                                *)
Crash == up' = FALSE /\ UNCHANGED <<database, thread>>

(* 566-581: tag has no value when attempt_response prints it.              *)
TagIsWild(h) == At(h, "end", {"continue"}) /\ Crash

(* dbconn.c:20: two bytes are missing for the connection string.           *)
BufferIsShort(h) == At(h, "connect", Answering) /\ Crash

(* 397-410: eleven bytes hold no sign, ten digits and the terminating zero.*)
NumberIsLong(h) ==
  /\ Buying(h) /\ Item(h).pid # Nobody
  /\ Pid(Item(h)) <= -TenDigits \/ ToInt(Item(h).quantity) <= -TenDigits
  /\ Crash

(* httphelper.c:282-283: strftime is given what malloc returned.           *)
DateIsNull(h) ==
  At(h, "compose", Answering) /\ Meets(h, thread[h], "memory") # {} /\ Crash

Crashes(h) == TagIsWild(h) \/ BufferIsShort(h) \/ NumberIsLong(h) \/ DateIsNull(h)

-----------------------------------------------------------------------------
Purchases(h) ==
  \/ PurchaseParses(h) \/ PurchaseConnects(h) \/ PurchaseIsMalformed(h)
  \/ PurchaseBegins(h) \/ PurchaseSkips(h) \/ PurchaseSells(h) \/ PurchaseRefused(h)
  \/ PurchaseStatusUnknown(h) \/ PurchaseEnds(h)

Runs(h) ==
  \/ LacksErrBuf(h)
  \/ ProductsParses(h) \/ ProductsConnects(h) \/ ProductsQueries(h)
  \/ LoginParses(h) \/ LoginConnects(h) \/ LoginQueries(h)
  \/ RegisterParses(h) \/ RegisterConnects(h) \/ RegisterInserts(h) \/ RegisterRefused(h)
  \/ Purchases(h)
  \/ SendsContinue(h) \/ Composes(h) \/ WritesSome(h) \/ WriteFails(h)
  \/ Ends(h)

Finished ==
  /\ ~up \/ \A h \in Handlers : thread[h].pc = "gone"
  /\ UNCHANGED vars

Next == (\E h \in Handlers : Dispatch(h) \/ Runs(h) \/ Crashes(h)) \/ Finished

(* Threads run, and the sockets time out; nothing makes the process crash. *)
Spec == Init /\ [][Next]_vars /\ \A h \in Handlers : WF_vars(Runs(h))

-----------------------------------------------------------------------------
(* Properties                                                              *)

Codes == {"UNDEFINED", "CONTINUE", "OK", "BAD_REQUEST", "UNAUTHORIZED",
          "INTERNAL_SERVER_ERROR", "SERVICE_UNAVAILABLE"}

(* Handlers have their types: a thread's session, code and lists are such  *)
(* as the routines make them, and stock and sales are never negative.      *)
TypeOK ==
  /\ up \in BOOLEAN
  /\ \A s \in DOMAIN sale : sale[s] \in Nat
  /\ stock \in [Ingredients -> Nat]
  /\ \A h \in Handlers :
       LET t == thread[h] IN
       /\ t.pc \in {"idle", "parse", "connect", "query", "buy", "compose", "write",
                    "end", "gone"}
       /\ t.pc # "idle" => t.req \in Requests
       /\ t.conn \in {"none", "open", "dead"}
       /\ t.code \in Codes
       /\ t.body \in {"none", "products", "unsold"}
       /\ t.left \in 0..3
       /\ t.any \in BOOLEAN /\ t.header \in BOOLEAN
       /\ t.unsold \in Seq(Int \cup {Nobody}) /\ t.sold \in Seq(Products)
       /\ t.met \subseteq Faults

Occurrences(seq, x) == Cardinality({i \in DOMAIN seq : seq[i] = x})

(* How often the request of t asks for product p, p read as an int.        *)
Asked(t, p) ==
  Cardinality({i \in DOMAIN t.req.items :
                 t.req.items[i].pid # Nobody /\ ToInt(t.req.items[i].pid) = p})

Bought(h) == thread[h].req.route = "purchase" /\ thread[h].req.items # NotAnArray

(* A product of a request is sold at most as often as the request asks for *)
(* it, whatever fails: no statement is sent twice (401-442).               *)
NeverSoldTwice ==
  \A h \in Handlers : \A p \in Products :
    thread[h].pc # "idle" /\ Bought(h) => Occurrences(thread[h].sold, p) <= Asked(thread[h], p)

(* What an answer with code 200 or 400 does not list as unpurchased, the   *)
(* client takes for bought.  It has been sold, and unless a session broke  *)
(* after a statement, nothing else has: the list and the code (423-448)    *)
(* follow the commits of this request, and not those of others.            *)
AnswerMatchesSales ==
  \A h \in Handlers :
    LET t == thread[h] IN
    /\ t.pc \in {"compose", "write", "end"} /\ Bought(h)
    /\ t.body = "unsold" /\ t.code \in {"OK", "BAD_REQUEST"} /\ "memory" \notin t.met
    => \A p \in Products :
         LET told == Asked(t, p) - Occurrences(t.unsold, p)
         IN /\ told <= Occurrences(t.sold, p)
            /\ "lost" \notin t.met => told = Occurrences(t.sold, p)
            /\ t.code = "BAD_REQUEST" => told = 0

(* Registration and login keep to the table: an account that a client was  *)
(* told it has is there with that password, and two clients are never told *)
(* that the same name is theirs (register: 539-546, login: 298-307).       *)
AccountsAreOwned ==
  \A h \in Handlers :
    LET t == thread[h] IN
    t.code = "OK" /\ t.req.route \in {"register", "login"} =>
      /\ t.req.user \in DOMAIN account /\ account[t.req.user] = t.req.password
      /\ t.req.route = "register" =>
           \A g \in Handlers \ {h} :
             ~(/\ thread[g].code = "OK" /\ thread[g].req.route = "register"
               /\ thread[g].req.user = t.req.user)

(* A handler gives its database session back before it answers, whatever   *)
(* failed, except a purchase that names nobody or holds no array.  Such a  *)
(* session stays taken until the server ends, and MaxSessions of them end  *)
(* the service for everybody (443-444).                                    *)
SessionsAreReturned ==
  \A h \in Handlers :
    LET t == thread[h] IN
    t.pc \in {"compose", "write", "end", "gone"} /\ t.conn # "none" =>
      /\ t.req.route = "purchase"
      /\ \/ t.req.user = Nobody \/ t.req.items = NotAnArray \/ "memory" \in t.met

(* What a handler leaves on the wire is as long as its answer, unless the  *)
(* write failed, so that the next response starts where the client expects *)
(* it.  After a short write the bytes are not the answer's (196), for each *)
(* write starts over; without one they are, header and all.                *)
WireHoldsAnswer ==
  \A h \in Handlers :
    LET t == thread[h] IN
    /\ t.pc = "end" /\ t.left = 0 /\ "memory" \notin t.met =>
         Len(t.out) = Len(Response(t))
    /\ t.pc = "end" /\ t.met \cap {"memory", "network"} = {} =>
         t.out = Response(t) /\ t.header /\ t.code # "UNDEFINED"

(* Every request that is dispatched ends its handler thread, however the   *)
(* database and the network fail, unless the process dies.                 *)
EveryHandlerEnds ==
  \A h \in Handlers : thread[h].pc # "idle" ~> (thread[h].pc = "gone" \/ ~up)

=============================================================================
