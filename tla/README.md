# lso1-proj: a verification development

The repository is a drinks shop: an HTTP/1.1 server in C with one thread per
connection and one per request (`src/server/`), a PostgreSQL schema whose
triggers and procedures hold the selling logic (`src/db/`), and an Android
client in Java (`src/client/`). This directory holds TLA+ models of it, the
configurations with which TLC checks them, and theorems checked by TLAPS.

1. [Inventory](#1-inventory)
2. [Modules and the code they model](#2-modules-and-the-code-they-model)
3. [Runs](#3-runs)
4. [Fairness](#4-fairness)
5. [Proofs](#5-proofs)
6. [Disagreements between code and documentation](#6-disagreements-between-code-and-documentation)
7. [What is not modelled](#7-what-is-not-modelled)
8. [Plan](#8-plan)

## 1. Inventory

| component | state | operations | interacts with | hard behaviour | what makes it correct |
|---|---|---|---|---|---|
| accept loop (`main.c`) | listening socket, `stv` under construction | accept, set timeouts, start a parent thread, refuse | parent threads (pthread_create) | descriptors run out; resources fail half-way | a descriptor it opened is closed by somebody |
| parent thread (`threadroutines.c:584-1023`) | buffer and offsets, request status, `stv` (descriptor number, active list, two mutexes) | read, parse, dispatch, answer errors, drain, release | handlers, through `stv` | handlers run on while it leaves; descriptor numbers are reused | nothing is released under a running handler; everything is released in the end |
| handler life cycle (`threadroutines.c:1035-1127`) | `stv`, its entry in the list | start, lock, write, close, unlist | parent (list, mutex), database | close the parent's descriptor, fail half-way | responses do not mix; each leaves the list |
| active list (`linkedlist.c`) | nodes and `pthread_t` cells | add at the head, remove by value | parent and handlers, under `activeThreadsMutex` | removal of deep or absent nodes | removal takes one node |
| request parser (`threadroutines.c:661-1000`) | offsets into one buffer, flags per request | request line, headers, body, chunks, trailers, pipelining | socket, handlers | requests split over reads, bodies that come late, state carried over | a handler gets its request, whole, and nothing else |
| request handlers (`threadroutines.c:21-582`) | one request each, a database session, the JSON of what was not bought | register, login, products, purchase, images, 100 continue | database, socket | one step of several fails; sessions are few; results get lost | the answer tells what was done; the session is returned |
| response composition (`httphelper.c`) | a response and how much is left to write | compose headers, write | socket | short and failing writes, no memory | what is on the wire is as long as the response |
| header and argument trees (`bstnode.c`, `httphelper.c`) | a tree per request, and strtok's pointer, one for the process | add, search, validate, split arguments | parser, handlers | parents that split at the same time; names without values | a handler gets its own client's arguments |
| image loader (`mimage.c`) | a file | find the path, compare dates, stat, read | images routine | files that change between stat and read; results of several meanings in one integer | a whole image, or a true "not modified" |
| database (`db/main.pgsql`) | Account, Product, Ingredient, IngredientInProduct, Sale | upsert_sale, triggers, suggestion score, product insertion | handlers | concurrent sales, triggers firing twice, lock order | stock is never oversold; calls act as one step |
| database access (`dbconn.c`) | a connection per handler | connect, JSON | database | connections run out | an answer or an error |
| client session (Java) | stored user, login state | register, login, logout | server | results after logout | the session is that of the last login |
| client cart and feed (Java) | cart, count, list, rows, tasks of a thread pool | fetch, add, remove, buy | server, main thread and background threads | stale lists, a cart that changes while a purchase is pending | one item per product; what was bought leaves the cart; the user is told |
| client HTTP access | | build requests, turn answers into results | server | timeouts | its outcomes are choices of `Cart`'s tasks |
| configuration, logging, helpers, mock data, value classes, layouts | read once, or none | | | | no property relates to them |

`PROJECT.json` lists every component with its status, and under `hazards`
each place where this code is hard to test, with the properties that watch it.

## 2. Modules and the code they model

| module | models | refines / composes |
|---|---|---|
| `LinkedList` | the active list as a sequence: `RemoveLinkedListNode` is what the code *does* (linkedlist.c:19-52), third node and deeper included | used by `ServerThreads` |
| `LinkedListHeap` | the same functions pointer by pointer, with `malloc` and `free`; the recursive removal is a recursive function over the nodes | step by step equal to `LinkedList` (`ComputesSequence`) |
| `ServerThreads` | accept loop, parents, handlers, the descriptor table | implements `ConnectionProtocol` |
| `ConnectionProtocol` | the promise of threadroutines.h:40-48: a socket is closed once, after its last handler | abstract |
| `RequestParser` | read loop and parse loop against a client and a network | |
| `Sales` | `upsert_sale` with its triggers, cursor by cursor, in concurrent sessions | implements `SalesLedger` |
| `SalesLedger` | the same as one atomic step per sale | abstract |
| `RequestHandlers` | the routines for register, login, products, purchase and 100 continue, from dispatch to the last byte written | composes with `SalesLedger` as the database's side of a purchase |
| `ArgumentTrees` | `strtok`, the check of the arguments, the binary tree: pure operators | used by `ImageRequests` |
| `ImageRequests` | a request line's way to path and arguments in several parents at once; the images routine and the loader over changing files | |
| `Cart` | the client's home screen: lists, cart and purchase, main thread and thread pool | |
| `MC*` | values for the runs | |
| `*_proofs` | theorems about the module of that name | |

Operators named `Something_Variant` are deliberately wrong variants of
`Something` (a dropped guard, an off-by-one, a missing reset). No specification
uses them. Each shows that a property would notice that bug.

### Threads

`parent[c]` is the parent's program counter (a loop of reads, then `shutdown`,
`drain`, `closing`, `freeing`), `handler[t]` a handler's. Atomic steps end
where another thread can see the difference: at each lock and unlock, at each
system call on the descriptor, at `pthread_create`, and at the list operations
(atomic because of `activeThreadsMutex`).

Two things are kept as they are in the code because errors hide there:

* **descriptors are numbers.** `socketOf` is the kernel's table, and `fd[c]`
  what `stv->fd` holds. After a close, the number may name another
  connection's socket, and the model lets it.
* **the list drops nodes.** Removing the fourth node or a deeper one, or an
  absent one, unlinks others. `ServerThreads` uses that operator, not an ideal set.

A request is its *kind* here: "plain", "close", "other" (a Connection header
the two tests of the code read differently), "expect", "bad".
When freed memory is used, either it still holds its old contents or the
process dies (`TouchFreedStv`).

### Parser

The stream is a sequence of units: a line with its CRLF, a piece of body, a
chunk. A read delivers a run of units, and possibly the front of one more line
(`cut`). One action is one turn of the loop for one state of `requestStatus`.
The unsigned difference of line 670, the NULL that is decremented at 788, and
the scan functions that read past the end of a line are modelled by what they
do to control: the thread crashes, searches from address 0, or accepts a
header that is not there. A Content-Length may be negative, as `atoi` returns
it: the end of the message then lies in front of where it was read, and the
request is refused or takes the process with it (`NegativeBody`). `answers` records what was handed to which routine and
what was refused, in order; `continues` is apart from it, since being told to go on
is no answer to a request.

Some properties of the parser hold for clients that frame their requests: `ClientsFrame`
says that every request ends where its own header lines say it does, and
`PatientFit` that a patient client's requests fit the buffer. The theorems have
these as hypotheses; `MCRequestParser` asserts them of its scripts
(`FramedAssumption`), so that TLC evaluates them. What the parser does to bytes
that nobody framed has no specification to be held against, beyond `TypeOK`,
which holds for all.

### Sales

A backend is a session, which executes one call at a time as one transaction
at READ COMMITTED. A cursor locks one row of Ingredient per step (FOR NO KEY
UPDATE), and the locks last until the transaction ends. `INSERT ... ON CONFLICT
DO UPDATE` runs the INSERT trigger *before* it looks for a conflict, then the
UPDATE trigger if there is one; `op` is TG_OP. PostgreSQL's own part (locks,
deadlock detection, rollback) is modelled from its documented behaviour and
marked external. Amounts are whole numbers.

`SalesLedger` says what a caller may rely on. It charges the stock twice for a
product the user has bought before, because that is what the triggers do;
whether it should be so is the subject of the run `sales_twice`. `Sales` is
shown to implement it (`ImplementsLedger`), and `RequestHandlers` sells through
it: one `Sell` per item of a purchase, each committed by itself.

### Handlers

`thread[h]` is a record: `pc` (parse, connect, query, buy, compose, write, end),
the request, and the routine's variables under names of their own (`code` is
statusCode, `unsold` jsonUnpurchasedArray, `any` wasAtleastOnePurchaseSuccessful,
`left` the `len` of write_response). A statement is one step, because each
commits by itself. Failures are named in `Faults`: "memory" (any allocation),
"database" (no connection, or a statement not executed), "lost" (a statement
commits and the session breaks before its result arrives), "network" (a short
or failing write). `met` and `sold` record history for the properties only. A
response is a status line, a header and a body, one piece each, which is
enough to tell a short write from a whole one. Credentials, pid and quantity
have values; a 64-bit integer is cut to `Span` values as `int` cuts it.

Where the code writes past a buffer or uses a pointer that has no value,
the process may go on or die. `Crashes` has these places: the pointer `100
continue` logs through (`TagIsWild`), the connection string two bytes short
(`BufferIsShort`, dbconn.c:20), an int of more digits than `strPid` and
`strQuantity` hold (`NumberIsLong`, 397-410) and a date without memory
(`DateIsNull`, httphelper.c:279-284). So properties about the end of things have
`~up` in them.

### Images

One thread stands for the parent and the handler it starts. Strings are
sequences of units (words, `?`, `=`, `&`, the final zero) because the question
is who writes a zero into whose string: `saved` is strtok's hidden pointer, and
whoever calls `strtok` next goes on from there. `mixed` collects the threads
whose splitting another one interrupted; the code promises nothing to those, and
the properties say that everybody else is served right. `Disk` is the sequence
of states the image files go through; stat and fread may see different ones.
An image is its length. A value that was never assigned is every value
(`Lengths`), and freeing an unassigned pointer may end the process.

### Cart

Events of the user and closures posted by background tasks run one at a time on
the main thread (`ui` is its queue); `tasks` is what was given to the executor,
of which the first `PoolSize` that are not over have a thread. A background task
that walks the cart does so item by item; if another thread touches the cart
meanwhile (`Meets`), Java promises nothing and the model stops there (`raced`).
`died` is an uncaught exception. The model keeps items as objects
`<<fetch, product>>`, since the code compares objects in some places and
products in others.

## 3. Runs

| run | instance | distinct states | shows |
|---|---|---|---|
| `st_keepalive` | 2 connections, 3 handlers, 2 descriptors, keep-alive requests and 100-continue | 25 k | with clients that keep the connection alive: a closed connection has no handler left, `stv->fd` always names its own socket, two responses are never written to a socket at once, and the protocol is implemented |
| `st_hostile` | the same with every kind of request and failing allocations | 1.4 M | with errors and handlers that close a reused number: no handler outlives its `stv`, and only a parent that gets no buffers (654-658) leaks its descriptor |
| `st_release` | 1 connection, 4 handlers listed, failures | 158 k | a list longer than the removal handles: what is listed is alive, and a parent that has left its read loop releases its connection |
| `st_list_of_four` | 1 connection, 4 handlers | violation | section 6 |
| `ll_heap` | 5 nodes, 4 cells | 9 k | nothing freed is reached, no cycle, and the operators of `LinkedList` are right |
| `rp_streams` | a patient client with three well-formed requests of six kinds; a hasty one with two requests, good or bad, pipelined and cut anywhere; buffer of 6 units | 28 k | the patient client has every request handled, on one connection; whatever is dispatched is a request of the stream, in its order and with its boundaries |
| `rp_split` | 2 GETs, any cut | violation | section 6 |
| `sales_bar` | 2 sessions, 3 users (one unknown), 4 products over 2 shared ingredients | 34 k | calls act as single steps; no oversale, no unjustified refusal, no lost or endless call |
| `sales_twice` | the same | violation | section 6 |
| `requests` | 2 handlers, 12 requests, one database session, any one kind of failure | 205 k | answers tell what was sold and who is registered; nothing is sold twice; sessions are returned; the wire keeps its framing; every handler ends |
| `images` | 2 connections, 14 and 2 requests, 2 states of the files, a server in UTC, east or west of it | 324 k | arguments are the client's own; good requests do not end the server; images are whole; "not modified" is true by the date as the server reads it |
| `cart` | 3 drinks, 2 fetches, 1 purchase, pool of 2 | 205 k | one item per product; a partial purchase leaves in the cart what it should; every purchase is reported |

Why these bounds are enough. *Threads*: two connections are needed to confuse
descriptors, and two numbers make reuse certain when one is closed early. Three
handlers make two concurrent ones on one connection plus one on the other; the
list's behaviour changes at the fourth node, so the runs stop at three or reach
four, and the theorems cover every other number. `MaxInFlight` bounds the
handlers listed per connection (the code has no bound). *List*: five
nodes and four cells give every removal position, and an address that is used
again. *Parser*: the buffer holds one request and the start of the next, so that
growth, overflow and movement of the leftover all occur; the state carried
from a request can only matter to the next, which three requests cover.
*Sales*: two sessions with recipes in opposite order make the shortest
deadlock; a recipe with a zero, one without rows, a quantity of zero, a
negative one and an unknown user give every refusal. `MaxInt` = 2 stands for
the largest integer so that the addition of DO UPDATE overflows; what a sale
adds is bounded by the stock otherwise. *Handlers*: they share the database only, so two
of them make every conflict (a name registered twice, the last bottle, the
one session); `MaxFaults` = 1 lets the two meet one kind of failure each at
most, any number of times for a lasting one; the orders have two items, which is
enough for a first that is committed and a second that fails; `Span` = 8 makes a pid
that is cut to another product's. The theorems cover every other number.
*Images*: two threads mix strtok's pointer; two states of the files put a
change before, between and after stat and read; `Shifts` = {-3, 0, 1} is a server
west of UTC (by more than lies between any two dates), in UTC, and east of it; `MaxInt` = 2 is a file too long for the answer. *Cart*: two
fetches make a stale list; three drinks are the fewest of which an
unpurchased one can stand between two purchased ones; a pool of two lets a
fetch and a purchase meet. With one purchase at most, two pending at once are outside
this run's bounds.

Deadlock is checked in every run. A process that has died, a thread that is
gone, and a client that waits for its user stutter explicitly (`Stopped`,
`Finished`, `Stops`); `LinkedListHeap` has `Exhausted`.

## 4. Fairness

* `ServerThreads`: weak fairness of each parent's and each handler's steps. The
  sockets have receive and send timeouts of 60 s (main.c:29-32, 107-108), so no
  system call blocks for ever, and the scheduler runs every thread.
  No fairness of `Accept`: clients need not come. Fairness does
  not make a parent leave its read loop; `ConnectionIsReleased` starts after it.
  Every critical section is finite and nothing else is waited for, which is why
  weak fairness is enough for the mutex in the instances checked. Where
  allocations may fail (`st_release`), a handler that waits for the mutex may also
  end by `HandlerQuits`, which is always possible there: the property then says
  that the drain ends, and nothing of the mutex being handed on. A process that
  died (a failing accept, a SIGPIPE, freed memory) has released nothing by
  itself, and the property ends with it.
* `RequestParser`: weak fairness of the thread. `ServesEveryRequest` has the
  hypothesis in its configuration: requests arrive whole, one at a time.
* `Sales`: strong fairness of each backend. A row's lock may be taken and
  released many times while a backend waits; PostgreSQL queues the waiters of
  a row, so none waits for ever while others are served. `Lost` is not fair:
  no property relies on sessions failing.
* `RequestHandlers`: weak fairness of each handler, whose threads run and whose
  sockets time out. A handler that finds no session does not wait for one. Dispatch
  and `Crashes` are not fair. `EveryHandlerEnds` supposes that the calls of libpq
  return: the code gives them no timeout.
* `Cart`: weak fairness of the main thread's closures and of the pool; the HTTP
  client's calls time out. The user is not fair.
* `ImageRequests`, `LinkedListHeap`: none, their properties are safety.

## 5. Proofs

Every safety property of the passing runs is a theorem as well: the run shows it
on one instance, the theorem for every value of the constants.

| theorem | module | statement |
|---|---|---|
| `TypeCorrect` | `ServerThreads_proofs` | `Spec => []TypeOK`, any connections, handlers, descriptors |
| `ListsAreSound` | | `Spec => []ListsInv` |
| `ListedThreadsAreLive` | | `Spec => []ListedAreLive`: however long the list grows, it names live handlers, each once |
| `NoHandlerOutlivesDrain` | | `MaxInFlight <= 3 => (Spec => []DrainedMeansQuiet)` |
| `MutexExcludes` | | `Spec => []MutexInv`: one thread of a connection at a time between lock and unlock |
| `DescriptorsLeakOnlyAtStart` | | `Spec => []LeaksOnlyAtStart`: whoever closes which number, an open socket is one that its connection has still to close, or was leaked by a parent without buffers |
| `DescriptorStaysOwn`, `OneResponseAtATime` | | `Orderly => (Spec => []DescriptorIsOwn)`, and the same for `ResponsesDoNotInterleave` |
| `KeepsTheProtocol` | | `Orderly => (Spec => ImplementsProtocol)`: the refinement of `ConnectionProtocol` |
| `RemoveShrinks`, `RemoveIsExact` | `LinkedList_proofs` | what a removal leaves, in a list of any length; that it takes one node only when there are at most three |
| `HeapHoldsList` | `LinkedListHeap_proofs` | `Spec => []HeapInv` |
| `ListIsSafe` | | `Spec => []NothingFreedIsReached` |
| `PointersComputeSequence` | | `Spec => ComputesSequence`: the pointer code computes the operators of `LinkedList` |
| `ParserTypeCorrect` | `RequestParser_proofs` | `Spec => []TypeOK`, any scripts (with any Content-Length, negative or not), cuts and buffer size |
| `AnswersFollowStream` | | `Spec => []DispatchFollowsStream`, assuming `ClientsFrame` |
| `HandlersGetWholeRequests` | | `Spec => FramesAreExact`, assuming `ClientsFrame` |
| `PatientClientsKeepItUp` | | `Spec => []StaysUp`, assuming `ClientsFrame` and `PatientFit` |
| `SalesTypeCorrect` | `Sales_proofs` | `Spec => []TypeOK`: no stock and no sale is ever negative |
| `CountedIsThere` | | `Spec => []CheckNeverFires` |
| `RowsAreNew` | | `Spec => []InsertsNewRows` |
| `CallsActAsSteps` | | `Spec => ImplementsLedger`: the refinement of `SalesLedger` |
| `RefusalsAreJustified` | | `Spec => RefusalIsJustified` |
| `NeverSellsWhatIsNot` | | `Spec => []NeverOversold` |
| `HandlersTypeCorrect` | `RequestHandlers_proofs` | `Spec => []TypeOK`, any handlers, requests, recipes and failures |
| `HandlersAreSound` | | `Spec => []HandlersSound` |
| `EverySessionIsReturned` | | `Spec => []SessionsAreReturned` |
| `WireAlwaysHoldsAnswer` | | `Spec => []WireHoldsAnswer` |
| `AccountsAreAlwaysOwned` | | `Spec => []AccountsAreOwned` |
| `HandlersAreCounted` | | `Spec => []HandlersCounted` |
| `NothingIsSoldTwice`, `AnswersMatchSales` | | `Spec => []NeverSoldTwice`, `Spec => []AnswerMatchesSales` |
| `ImagesTypeCorrect` | `ImageRequests_proofs` | `Spec => []TypeOK`: no pointer into a string leaves it |
| `HandlersGetTheirArguments` | | `Spec => []OwnArguments` |
| `GoodRequestsDoNoHarm` | | `Spec => []GoodRequestsAreHarmless` |
| `ImagesAreWhole`, `NotModifiedAnswersAreTrue` | | `Spec => []ImageIsWhole`, `Spec => []NotModifiedIsTrue`: by the date as the server reads it, whatever its offset from UTC |
| `CopiesAreCurrentEastOfUTC` | | `Spec => []CurrentCopiesAreCurrent` if no offset is negative: a 304 is true of the date that the client gave |
| `CartTypeCorrect` | `Cart_proofs` | `Spec => []TypeOK` |
| `CartHasOnePerProduct` | | `Spec => []OnePerProduct`, as long as no two threads have met in the cart |
| `WalkLeavesWhatItShould` | | `Spec => WalkIsExact` |

**Threads.** `DrainedMeansQuiet` is not inductive: it says nothing while the
parent still serves. `ListsInv` adds that the list holds only live handlers of
its connection, each once (so that a removal shrinks it and the parent's
emptiness test means something), that it is empty when the parent is not
serving, and, *if* at most three are listed, that every live handler is in the
list of its connection. The last part is where `RemoveIsExact` is needed, and
why the theorem has `MaxInFlight <= 3` as hypothesis: with four,
`st_list_of_four` refutes it. `IInv` adds types and that a live handler has a
connection. Each action either leaves the lists alone (`QuietStep`), adds
(`AddStep`) or removes (`RemoveStep`).

`MutexInv` says who is between lock and unlock: one handler of a connection, or
its parent answering an error, but not the error handlers that were started
without the mutex, which the code does not lock either. It needs no hypothesis.
Neither does `SocketsKnown` (an open socket is that of a connection whose own
number it has and which has still to close it, or has leaked it). That no other
parent leaks follows with one more fact: the state `leaked` is entered only where
allocations fail (`Scarce`).

That a number names the *own* socket is false in general, and `st_hostile` shows it
reused under other threads. `Orderly` is the hypothesis that excludes just that:
no request makes its handler close the descriptor, none is answered by the
parent as an error, and the list is never longer than its removal handles. Then
`OrderInv` is inductive (nobody but the parent ever closes), and with it and the list
theorem the responses exclude each other, and every step maps to a step of
`ConnectionProtocol` or to none: the parent's close is the protocol's close, and it
happens with no live handler.

**Heap.** `HeapInv` says that some sequence of nodes, each once, all allocated,
leads from the root to NULL, and that each holds an allocated cell of its own. The
recursive removal is a recursive function on the nodes, and its equation has to
have a solution before it can be used, on every heap: off the list one might
walk in a circle. `Reach`, the nodes that the calls from
a node on are made at, gives one explicitly; on a list its value is then determined,
by the smallest node at which it would be wrong. There is then one lemma per depth of the
removed node: the head, the second, and deeper, where the code unlinks more
than it should and still leaves no dangling pointer.

**Parser.** `TypeInv` is `TypeOK` with the ranges that the arithmetic of the
offsets needs. The order and framing theorems rest on `StreamInv`: what is in the
buffer followed by what is on the wire is the clients' stream from the request in
front on (`Stream`), and the parser's place in that request is what its status
says (`ParseInv`). Reading moves units from one part to the other, sending adds a
request at the end (`StreamGrows`), and a dispatch drops one request from the front,
since the parser's end is the request's own (`StreamDrops`), for which
`ClientsFrame` is needed. `PatientInv` adds that a patient client's request is in the buffer whole before it is
looked at, which is why NULL is never decremented.

**Sales.** `CheckNeverFires` talks of the moment of taking, but the reason lies
in the counting: the invariant has to say, for each phase, which rows are
locked and what they allow. `CountIsSound`: the rows counted so far are locked,
and each allows `least` units. `DecisionIsSound`: all rows do. `TakeIsSound`:
the rows still to take allow the quantity asked for. `LocksProtect`: what was
taken is locked, so that no other commit lowers that stock. The arithmetic is in
`QuotientFits` and `LessFits`. `RowsAreNew` needs a different argument: whoever writes
a row has locked the first ingredient of its product (`FirstRowIsLocked`), so
nobody else can write a row of that product in between; the lock is held even
when the count stopped early or the trigger returned at once. The proof goes
backend by backend: `OthersKeepTheirInvariant` says that a step within `Frame`
leaves the other backends' invariants alone; one lemma per action says that the
step is in its frame and keeps its own backend's. All rollbacks are one lemma
(`RollingBackKeeps`), as is the end of every transaction (`EndingKeeps`).

The refinement needs the exact amounts: `Charged` says what a running call has
taken of each ingredient so far, `UpdatesOldRow` when the second trigger runs, and
`LeastIsAttained` that the number counted is what one of the locked rows really
allows. A commit is then a `Sell` of the ledger with just these amounts,
and a refusal of a first purchase is justified by the row that attains the minimum.
`NeverOversold` adds over the rows of Sale. Each sale changes one
term of the sum, and that a fold over a finite set changes by that
term is shown with the smallest subset for which it would not (`UsedIsSum`).

**Handlers.** Most of what the routines promise they keep alone: `Sound(t)` says
of one handler's record that it is typed, that a session is held only between
connecting and answering (`SessionKept`), and that what is written and what is left are
together as long as the response (`AnswerKept`). A step of one handler changes no
other's record, so `HandlersSound` needs one lemma per action and no frame
argument; `EverySessionIsReturned` and `WireAlwaysHoldsAnswer` follow at once.
`AccountsAreOwned` relates handlers to the table and to each other. It
is inductive together with "a 200 to register or login means the account is
there with that password": accounts are never removed or changed, and the only two
steps that announce success (`LoginOpens`, `RegisterOpens`) look at the table; all
others are quiet (`RunningKeepsAccounts`). That no two are told the same name is
theirs is the key of Account. `HandlersTypeCorrect` adds `LedgerTyped`: what is
sold is bounded by the stock, so neither becomes negative even when an int was cut
to a negative number.

`NeverSoldTwice` and `AnswerMatchesSales` count products in three sequences that grow
along the loop over the items. `Counted` relates them at each moment: of the
items already passed, those of a product were recorded as unsold or were
sold; if a session broke after a statement, one of the former may have been sold as
well. What an
answer may say (`Told`) follows where the loop ends.

**Images.** `StringsInv` is about all threads together: every string ends in its
zero, and strtok's pointer, whoever moved it last, is in a string of somebody who
has started. `ParsingInv` is about one thread that nobody interrupted: how many
arguments are in its tree, where strtok goes on, and that the rest of the string is
as the client wrote it (`AtName`, `AtValue`). What strtok and the tree's insertion
and search return is proved as lemmas for every string and every tree.
`ImageInv` follows one handler from `stat` to the answer; `GoodRequestsAreHarmless`
is a conjunct of the invariant itself.

**Cart.** `ShapeInv` has types and `OncePerProduct`, `NumbersInv` the numbers of
tasks, and `ToldInv` says which closures can still be told of which purchase; the
parts carry each other. `WalkIsExact` compares the cart after a partial purchase
with the cart when the answer came, while the list shrinks under the index. `Place` is
what is known on the way: the first `p` items of the old cart are behind, and an
increasing map takes the items of the present cart to their places in the old
one. It needs that nobody else touches the cart meanwhile, and that is so, for
anyone who does sets `raced`.

**Assumptions.** Those of the modules' ASSUME: `ConstantsAssumption`
(descriptors are natural numbers; kinds of request; `NoConn` is no
connection), `HeapAssumption` (NULL is no address, and there are finitely many nodes),
`ParserAssumption` (the scripts are sequences of requests in units; the buffer has
room for something), `SalesAssumption` (a recipe names an ingredient once, which is
the primary key of IngredientInProduct; amounts and initial stock are not
negative, which are CHECKs; MaxInt is a natural number),
`HandlersAssumption` (the routes; items are a sequence of pid and quantity, or
no array; amounts and stock as before; `TenDigits`, the smallest number that
overflows `strPid`, is a natural number), `ImagesAssumption` (request targets are C
strings, not empty; there is a route for images; files have a length and a time;
the server's offset from UTC is an integer, positive to the east) and `CartAssumption` (the feeds are sequences of
drinks; there is a thread in the pool). The hypotheses of single theorems are
`MaxInFlight <= 3`, `Orderly`, `ClientsFrame`, `PatientFit`, and for
`CopiesAreCurrentEastOfUTC` a server in UTC or east of it (`Shifts \subseteq Nat`). TLC evaluates the ASSUMEs
in the runs of the modules that extend them, and `ClientsFrame` and `PatientFit` in
`rp_streams`; `st_keepalive` is an instance of `Orderly`.

**Only model-checked.** The five liveness properties: `ConnectionIsReleased`,
`ServesEveryRequest`, `EveryCallEnds`, `EveryHandlerEnds` and `PurchaseIsReported`. They
rest on fairness, and the provers have no ENABLED.

## 6. Disagreements between code and documentation

Each is a run that TLC ends with a counterexample.

| run | the code | what is said of it |
|---|---|---|
| `st_list_of_four` | linkedlist.c:51 returns `node->next`: removing the fourth node unlinks live threads, so that the drain loop can end under a running handler | the list tells the parent when to release (threadroutines.h:44-47) |
| `rp_split` | NULL is decremented before it is compared with NULL (788-789): an incomplete line is parsed | "Didn't find endline. Rereading..." (790) |
| `sales_twice` | a repeated purchase takes its ingredients twice (main.pgsql:116, 214) | the trigger reflects Sale on the stock (main.pgsql:179) |

Met while modelling. Each of these is what the models do, and the properties are
stated around it. A sentence of documentation speaks against these, which have no
run of their own:

* A handler whose request does not say keep-alive closes the descriptor
  (`ServerThreads`, kinds "close" and "other"), which threadroutines.h:100-101
  leaves to the parent.
* A body for which the buffer has room is taken for read (729) before it has arrived;
  the comment at 709-710 says that it has been read then.
* httphelper.h:135-137 says that a date is returned in UTC; mktime
  (httphelper.c:274) takes it for local time (`Shifts`). On a server west of UTC
  the client's date becomes later, and a client may be told 304 for a file that changed
  after that date: there a stale image is kept. To the east a current image is sent
  again. `NotModifiedIsTrue` is therefore stated by the date as the server reads
  it, and `CurrentCopiesAreCurrent`, by the client's own, is false in the instance of
  `images` because of its western offset.
* main.pgsql:17 gives usernames 4 to 16 characters, the CHECK
  wants more than 4 (in `Acceptable`).

*Server.* isValidArgStr accepts `a=` and `a` (httphelper.c:106-139), and
mkargbst then measures NULL (152): a request that writes its arguments so ends
the server. So does one whose target is `?` alone: strtok finds no path, and the
route is searched with NULL (826). The 503 of a purchase without a database session (376) is overwritten
with 400 (444). threadroutines.c:68 compares (`==`) where it means to assign
BAD_REQUEST. A body for which the buffer had to grow is never answered (the `break`
at 774 leaves the outer loop); a chunked request with data chunks is refused
with 400 (the last chunk's line is read again); a pipelined request already in
the buffer waits for the next read; an error response closes the descriptor
although handlers of earlier requests may still write to it; a parent without
memory for its buffers returns without a close and leaks its descriptor (654-658);
on a number that was closed early, pipelined requests in the buffer are still
dispatched before the read fails (747-769, 787-848); a negative Content-Length (884) is
answered with 503, or moves the parser in front of its buffer; a failing accept ends the server.
A purchase that names nobody, or whose products are no array, keeps its
database session for ever (443-444). A purchase may be answered with 400 or 5xx
although a part of it, or all, was committed. After a short write the
next one starts from the beginning of the response (httphelper.c:196).
thread_send_100_continue logs through a pointer without a value; dbconn.c:20
allocates two bytes too few for the connection string; an int of ten digits and a
sign does not fit `strPid` and `strQuantity` (397-410); get_http_time gives strftime a
buffer it may not have (httphelper.c:279-284). The count of what can be made returns 0
with its cursor open (main.pgsql:142), and a sale of nothing, or of less, then opens
another of that name (166): before PostgreSQL 16 the call is rolled back
(`CursorInUse`). An empty image is answered
304 or 412, and a request that was rejected may be, since its size was never
assigned. A small or large image whose name has no dot frees a pointer into its
buffer (mimage.c:91). A file as old as the client's date is sent again.

*Client.* A purchase that fails ends the client: Toast throws on a background
thread. After a partial purchase the count goes down by one per item instead of
per unit, and may become negative; bought items behind the last unbought one
stay in the cart; items put there while the purchase was pending may be dropped. A
list that arrives late replaces the one of the current view. The
button that buys works while a purchase is pending. The cart's view is not told of
changes, and may throw when it is laid out.

## 7. What is not modelled

* **Client session** (ControllerAuth.java, UserSessionManager.java, the logout of
  ControllerHome.java:283-291): background tasks that write the session and its stored copy.
  The server's side of login and registration is in `RequestHandlers`. See the plan.
* **Product insertion and the suggestion score** (SQL): calls on their own, that share
  no rows with a sale except through `Product`.
* **At all:** configuration, logging, socket creation, JSON and text
  formatting, mock data, building of the client's HTTP requests, Android layouts
  and value classes. None has state after start-up or takes part in a property.
* **Abstracted:** header values (the kind of a line), the bytes of images and of
  JSON, the time of the last purchase, rounding of float quantities, locks on
  IngredientInProduct (only calls for one product share its rows, and they
  already share its ingredients), overlapping calls of strtok (a data race; both
  callers count as mixed), prices, pictures and quantities typed into a field of
  the client, and a client in which two threads have met in the cart.

## 8. Plan

Done, in this order: list, threads with protocol, parser, sales with ledger, handlers
over the ledger with accounts and responses, trees and images, the cart, and the
proofs of section 5, which state every safety property of the passing runs. Next, as
extensions of the models, each with its theorems:

1. `UserSession`: login, registration and logout as tasks that set user, flag and
   stored copy in separate steps, against a session that is changed at once.
2. The suggestion score and product insertion, against reference definitions.
3. `Cart` with typed quantities. Its theorems hold for any number of purchases; its run
   has one.
