---------------------------- MODULE ServerThreads ----------------------------
(***************************************************************************)
(* The threads of the server: the accept loop of main.c, one "parent"      *)
(* thread per connection, and one detached handler thread per request      *)
(* (threadroutines.c).  A parent and its handlers share stv: the number of *)
(* the connection's descriptor, the list of active threads, two mutexes.   *)
(*                                                                         *)
(* Descriptors are what the kernel gives: small numbers, the lowest free   *)
(* one first, reused as soon as they are closed.  Closing or reading "stv  *)
(* ->fd" acts on whatever socket bears that number at that moment.         *)
(*                                                                         *)
(* What a request holds is reduced to what the control flow tells apart:   *)
(*   "plain"   well formed; no Connection header, or "keep-alive"          *)
(*   "close"   its Connection header is exactly "close"                    *)
(*   "other"   its Connection header is something else ("Close", "te"):    *)
(*             create_basic_header takes it for close, the parent does not *)
(*   "expect"  a plain request with a body and "Expect: 100-continue"      *)
(*   "bad"     answered by the parent itself: malformed, unknown route or  *)
(*             method, or read() failing other than by a timeout           *)
(* How bytes become requests is RequestParser's subject.                   *)
(***************************************************************************)
EXTENDS LinkedList, FiniteSets

CONSTANTS Conns,        \* the connections clients open, each one once
          Threads,      \* handler threads (an id is used again once free)
          Fds,          \* the descriptor numbers the process may use
          NoConn,       \* what a closed descriptor names
          Inputs,       \* the kinds of request that arrive
          MaxInFlight,  \* bound: handlers listed at once for a connection
          Scarce        \* may malloc and pthread_create fail?

ASSUME ConstantsAssumption ==
  /\ Fds \subseteq Nat
  /\ NoConn \notin Conns
  /\ Inputs \subseteq {"plain", "close", "other", "expect", "bad"}
  /\ MaxInFlight \in Nat
  /\ Scarce \in BOOLEAN

VARIABLES
  up,             \* does the process run?
  socketOf,       \* the descriptor table: whose socket a number names
  fd,             \* stv->fd: the number accept() returned
  parent,         \* where each connection's parent thread is
  request,        \* the request the parent is dispatching
  activeThreads,  \* stv->activeThreads
  fdMutex,        \* is stv->fdMutex held?
  handler,        \* where each handler thread is
  handlerConn,    \* the connection whose stv it was given
  handlerCloses   \* its shouldClose

vars == <<up, socketOf, fd, parent, request, activeThreads, fdMutex,
          handler, handlerConn, handlerCloses>>

connVars    == <<socketOf, fd, fdMutex>>
handlerVars == <<handler, handlerConn, handlerCloses>>

NoFd == -1

ParentStates ==
  {"none", "accepted", "reading", "blocked", "dispatch", "creating",
   "error", "errWriting", "errClosing", "errUnlocking",
   "shutdown", "drain", "closing", "freeing", "gone", "refused", "leaked"}

HandlerStates ==
  {"idle", "listed", "running", "writing", "closing", "unlocking", "ending"}

(* "served": none now, but a request of this connection was, and the buffer*)
(* may hold the next one already.                                          *)
Requests == Inputs \cup {"plain", "none", "served"}

Init ==
  /\ up = TRUE
  /\ socketOf = [f \in Fds |-> NoConn]
  /\ fd = [c \in Conns |-> NoFd]
  /\ parent = [c \in Conns |-> "none"]
  /\ request = [c \in Conns |-> "none"]
  /\ activeThreads = [c \in Conns |-> << >>]
  /\ fdMutex = [c \in Conns |-> FALSE]
  /\ handler = [t \in Threads |-> "idle"]
  /\ handlerConn = [t \in Threads |-> NoConn]
  /\ handlerCloses = [t \in Threads |-> FALSE]

-----------------------------------------------------------------------------
(* Helpers                                                                 *)

FreeFds == {f \in Fds : socketOf[f] = NoConn}

(* close(stv->fd): EBADF changes nothing, else the number becomes free.    *)
CloseFd(c) == socketOf' = [socketOf EXCEPT ![fd[c]] = NoConn]

(* The thread's id and the cells that held it are free again.              *)
ThreadIsOver(t) ==
  /\ handler' = [handler EXCEPT ![t] = "idle"]
  /\ handlerConn' = [handlerConn EXCEPT ![t] = NoConn]
  /\ handlerCloses' = [handlerCloses EXCEPT ![t] = FALSE]

Goes(c, state) == parent' = [parent EXCEPT ![c] = state]
Moves(t, state) == handler' = [handler EXCEPT ![t] = state]

(* Mutant: the two answers of the strcasecmp swapped.                      *)
HandlerWillClose_Swapped(kind) == kind \notin {"close", "other"}

(* httphelper.c:202-215 and 299-310: any Connection header other than      *)
(* keep-alive makes the handler close the descriptor after its response.   *)
HandlerWillClose(kind) == kind \in {"close", "other"}

(* threadroutines.c:889-891: only the exact text "close" stops the parent. *)
ParentWillClose(kind) == kind = "close"

(* A fatal error, SIGPIPE or an invalid access ends the whole process.     *)
ProcessDies ==
  /\ up' = FALSE
  /\ UNCHANGED <<connVars, parent, request, activeThreads, handlerVars>>

-----------------------------------------------------------------------------
(* The accept loop, main.c:95-127                                          *)

Accepting == up /\ \A c \in Conns : parent[c] # "accepted"

Accept(c) ==
  /\ Accepting
  /\ parent[c] = "none"
  /\ \E f \in FreeFds :
       /\ \A g \in FreeFds : f <= g
       /\ fd' = [fd EXCEPT ![c] = f]
       /\ socketOf' = [socketOf EXCEPT ![f] = c]
  /\ Goes(c, "accepted")
  /\ UNCHANGED <<up, request, activeThreads, fdMutex, handlerVars>>

(* accept() < 0: no descriptor left, or the client gave up while queued.   *)
AcceptFails == Accepting /\ ProcessDies

StartParent(c) ==
  /\ up
  /\ parent[c] = "accepted"
  /\ Goes(c, "reading")
  /\ UNCHANGED <<up, connVars, request, activeThreads, handlerVars>>

(* Mutant: the failure path does not close the descriptor.                 *)
RefuseConnection_KeepsFd(c) ==
  /\ up /\ Scarce
  /\ parent[c] = "accepted"
  /\ Goes(c, "refused")
  /\ UNCHANGED <<up, connVars, request, activeThreads, handlerVars>>

(* malloc, setsockopt or pthread_create fails: the descriptor is closed.   *)
RefuseConnection(c) ==
  /\ up /\ Scarce
  /\ parent[c] = "accepted"
  /\ CloseFd(c)
  /\ Goes(c, "refused")
  /\ UNCHANGED <<up, fd, request, activeThreads, fdMutex, handlerVars>>

(* The parent cannot have its buffers: it returns and closes nothing; had  *)
(* stv itself been NULL, it would have been dereferenced.                  *)
ParentStartFails(c) ==
  /\ up /\ Scarce
  /\ parent[c] = "accepted"
  /\ \/ /\ Goes(c, "leaked")
        /\ UNCHANGED <<up, connVars, request, activeThreads, handlerVars>>
     \/ ProcessDies

-----------------------------------------------------------------------------
(* The parent thread, threadroutines.c:584-1023                            *)

(* read() on a closed number fails with EBADF, which is no timeout: the    *)
(* -1 is added to byteCount and the buffer parsed, a bad request as a rule.*)
BeginRead(c) ==
  /\ up
  /\ parent[c] = "reading"
  /\ Goes(c, IF socketOf[fd[c]] = NoConn THEN "error" ELSE "blocked")
  /\ request' = [request EXCEPT ![c] = "none"]
  /\ UNCHANGED <<up, connVars, activeThreads, handlerVars>>

(* The buffer may hold a pipelined request, though, that the parse finds   *)
(* and dispatches; with the last one used up byteCount is too small by one,*)
(* and what is moved to the front has a length below zero (670-671).       *)
FindsLeftover(c) ==
  /\ up
  /\ parent[c] = "reading" /\ request[c] = "served"
  /\ socketOf[fd[c]] = NoConn
  /\ \/ /\ \E kind \in Inputs \ {"bad"} :
               request' = [request EXCEPT ![c] = kind]
        /\ Goes(c, "dispatch")
        /\ UNCHANGED <<up, connVars, activeThreads, handlerVars>>
     \/ ProcessDies

ReadRequest(c) ==
  /\ up
  /\ parent[c] = "blocked"
  /\ \E kind \in Inputs \ {"bad"} :
       request' = [request EXCEPT ![c] = kind]
  /\ Goes(c, "dispatch")
  /\ UNCHANGED <<up, connVars, activeThreads, handlerVars>>

ReadBadRequest(c) ==
  /\ up
  /\ parent[c] = "blocked"
  /\ "bad" \in Inputs
  /\ Goes(c, "error")
  /\ UNCHANGED <<up, connVars, request, activeThreads, handlerVars>>

(* End of stream, or no byte for the 60 seconds of the receive timeout.    *)
ReadEnds(c) ==
  /\ up
  /\ parent[c] = "blocked"
  /\ Goes(c, "shutdown")
  /\ UNCHANGED <<up, connVars, request, activeThreads, handlerVars>>

(* Mutant: the thread is given its own tid where its stv belongs.          *)
AddActiveThread_OwnTid(c, t) ==
  /\ up
  /\ parent[c] = "dispatch"
  /\ Len(activeThreads[c]) < MaxInFlight
  /\ handler[t] = "idle"
  /\ activeThreads' = [activeThreads EXCEPT ![c] = AddFirst(@, t)]
  /\ Moves(t, "listed")
  /\ handlerConn' = [handlerConn EXCEPT ![t] = t]
  /\ handlerCloses' = [handlerCloses EXCEPT ![t] = HandlerWillClose(request[c])]
  /\ Goes(c, "creating")
  /\ UNCHANGED <<up, connVars, request>>

(* start_thread, first half: the thread is listed before it exists.        *)
AddActiveThread(c, t) ==
  /\ up
  /\ parent[c] = "dispatch"
  /\ Len(activeThreads[c]) < MaxInFlight
  /\ handler[t] = "idle"
  /\ activeThreads' = [activeThreads EXCEPT ![c] = AddFirst(@, t)]
  /\ Moves(t, "listed")
  /\ handlerConn' = [handlerConn EXCEPT ![t] = c]
  /\ handlerCloses' = [handlerCloses EXCEPT ![t] = HandlerWillClose(request[c])]
  /\ Goes(c, "creating")
  /\ UNCHANGED <<up, connVars, request>>

(* start_thread, second half.  After the "100 Continue" thread the same    *)
(* request is dispatched; otherwise the parent reads on or leaves.         *)
CreateThread(c, t) ==
  /\ up
  /\ parent[c] = "creating"
  /\ handler[t] = "listed" /\ handlerConn[t] = c
  /\ Moves(t, "running")
  /\ IF request[c] = "expect"
     THEN /\ request' = [request EXCEPT ![c] = "plain"]
          /\ Goes(c, "dispatch")
     ELSE IF ParentWillClose(request[c])
     THEN /\ request' = [request EXCEPT ![c] = "none"]
          /\ Goes(c, "shutdown")
     ELSE /\ request' = [request EXCEPT ![c] = "served"]
          /\ Goes(c, "reading")
  /\ UNCHANGED <<up, connVars, activeThreads, handlerConn, handlerCloses>>

(* start_thread returned false.  A request is dropped without an answer.   *)
(* For "100 Continue" the parse goes on into the body, which is taken for  *)
(* header lines: a bad request, or a search through a NULL pointer.        *)
DispatchFails(c) ==
  \/ /\ Goes(c, IF request[c] = "expect" THEN "error" ELSE "shutdown")
     /\ request' = [request EXCEPT ![c] = "none"]
     /\ UNCHANGED up
  \/ /\ request[c] = "expect"
     /\ up' = FALSE
     /\ UNCHANGED <<parent, request>>

(* Mutant: the thread that could not be created stays listed.              *)
CreateThreadFails_StaysListed(c, t) ==
  /\ up /\ Scarce
  /\ parent[c] = "creating"
  /\ handler[t] = "listed" /\ handlerConn[t] = c
  /\ ThreadIsOver(t)
  /\ DispatchFails(c)
  /\ UNCHANGED <<connVars, activeThreads>>

CreateThreadFails(c, t) ==
  /\ up /\ Scarce
  /\ parent[c] = "creating"
  /\ handler[t] = "listed" /\ handlerConn[t] = c
  /\ activeThreads' = [activeThreads EXCEPT ![c] = RemoveLinkedListNode(@, t)]
  /\ ThreadIsOver(t)
  /\ DispatchFails(c)
  /\ UNCHANGED connVars

AddActiveThreadFails(c) ==
  /\ up /\ Scarce
  /\ parent[c] = "dispatch"
  /\ DispatchFails(c)
  /\ UNCHANGED <<connVars, activeThreads, handlerVars>>

(* attempt_error_response, under fdMutex: write, close, unlock.            *)
ErrorLocks(c) ==
  /\ up
  /\ parent[c] = "error"
  /\ ~fdMutex[c]
  /\ fdMutex' = [fdMutex EXCEPT ![c] = TRUE]
  /\ Goes(c, "errWriting")
  /\ UNCHANGED <<up, socketOf, fd, request, activeThreads, handlerVars>>

(* write_response skips the close when a write fails or times out.         *)
ErrorWrites(c) ==
  /\ up
  /\ parent[c] = "errWriting"
  /\ \/ socketOf[fd[c]] # NoConn /\ Goes(c, "errClosing")
     \/ Goes(c, "errUnlocking")
  /\ UNCHANGED <<up, connVars, request, activeThreads, handlerVars>>

ErrorCloses(c) ==
  /\ up
  /\ parent[c] = "errClosing"
  /\ CloseFd(c)
  /\ Goes(c, "errUnlocking")
  /\ UNCHANGED <<up, fd, request, activeThreads, fdMutex, handlerVars>>

ErrorUnlocks(c) ==
  /\ up
  /\ parent[c] = "errUnlocking"
  /\ fdMutex' = [fdMutex EXCEPT ![c] = FALSE]
  /\ Goes(c, "shutdown")
  /\ UNCHANGED <<up, socketOf, fd, request, activeThreads, handlerVars>>

(* Mutant: the drain loop is skipped.                                      *)
ShutdownRead_SkipsDrain(c) ==
  /\ up
  /\ parent[c] = "shutdown"
  /\ Goes(c, "closing")
  /\ UNCHANGED <<up, connVars, request, activeThreads, handlerVars>>

(* shutdown(stv->fd, SHUT_RD): whoever reads that socket next sees its     *)
(* end, which ReadEnds allows at any time.                                 *)
ShutdownRead(c) ==
  /\ up
  /\ parent[c] = "shutdown"
  /\ Goes(c, "drain")
  /\ UNCHANGED <<up, connVars, request, activeThreads, handlerVars>>

(* Mutant: the drain loop stops with one thread still listed.              *)
DrainEnds_OffByOne(c) ==
  /\ up
  /\ parent[c] = "drain"
  /\ Len(activeThreads[c]) <= 1
  /\ Goes(c, "closing")
  /\ UNCHANGED <<up, connVars, request, activeThreads, handlerVars>>

(* The polling loop ends the first time it finds the list empty.           *)
DrainEnds(c) ==
  /\ up
  /\ parent[c] = "drain"
  /\ activeThreads[c] = << >>
  /\ Goes(c, "closing")
  /\ UNCHANGED <<up, connVars, request, activeThreads, handlerVars>>

ParentCloses(c) ==
  /\ up
  /\ parent[c] = "closing"
  /\ CloseFd(c)
  /\ Goes(c, "freeing")
  /\ UNCHANGED <<up, fd, request, activeThreads, fdMutex, handlerVars>>

FreeStv(c) ==
  /\ up
  /\ parent[c] = "freeing"
  /\ Goes(c, "gone")
  /\ UNCHANGED <<up, connVars, request, activeThreads, handlerVars>>

-----------------------------------------------------------------------------
(* A handler thread.  What it computes between its start and its response  *)
(* is left to the modules on the handlers.                                 *)

(* Mutant: the response is written without fdMutex.                        *)
HandlerLocks_NoMutex(t) ==
  /\ up
  /\ handler[t] = "running"
  /\ fdMutex' = [fdMutex EXCEPT ![handlerConn[t]] = TRUE]
  /\ Moves(t, "writing")
  /\ UNCHANGED <<up, socketOf, fd, parent, request, activeThreads,
                 handlerConn, handlerCloses>>

HandlerLocks(t) ==
  /\ up
  /\ handler[t] = "running"
  /\ ~fdMutex[handlerConn[t]]
  /\ fdMutex' = [fdMutex EXCEPT ![handlerConn[t]] = TRUE]
  /\ Moves(t, "writing")
  /\ UNCHANGED <<up, socketOf, fd, parent, request, activeThreads,
                 handlerConn, handlerCloses>>

(* Mutant: a thread that gives up exits without leaving the list.          *)
HandlerQuits_StaysListed(t) ==
  /\ up /\ Scarce
  /\ handler[t] = "running"
  /\ ThreadIsOver(t)
  /\ UNCHANGED <<up, connVars, parent, request, activeThreads>>

(* No memory for its error buffer: it ends without a response.             *)
HandlerQuits(t) ==
  /\ up /\ Scarce
  /\ handler[t] = "running"
  /\ Moves(t, "ending")
  /\ UNCHANGED <<up, connVars, parent, request, activeThreads,
                 handlerConn, handlerCloses>>

HandlerWrites(t) ==
  /\ up
  /\ handler[t] = "writing"
  /\ \/ /\ socketOf[fd[handlerConn[t]]] # NoConn
        /\ Moves(t, IF handlerCloses[t] THEN "closing" ELSE "unlocking")
     \/ Moves(t, "unlocking")
  /\ UNCHANGED <<up, connVars, parent, request, activeThreads,
                 handlerConn, handlerCloses>>

HandlerCloses(t) ==
  /\ up
  /\ handler[t] = "closing"
  /\ CloseFd(handlerConn[t])
  /\ Moves(t, "unlocking")
  /\ UNCHANGED <<up, fd, fdMutex, parent, request, activeThreads,
                 handlerConn, handlerCloses>>

HandlerUnlocks(t) ==
  /\ up
  /\ handler[t] = "unlocking"
  /\ fdMutex' = [fdMutex EXCEPT ![handlerConn[t]] = FALSE]
  /\ Moves(t, "ending")
  /\ UNCHANGED <<up, socketOf, fd, parent, request, activeThreads,
                 handlerConn, handlerCloses>>

(* end_self_thread: remove_activethread, then pthread_exit.                *)
HandlerEnds(t) ==
  /\ up
  /\ handler[t] = "ending"
  /\ activeThreads' = [activeThreads EXCEPT ![handlerConn[t]] =
                         RemoveLinkedListNode(@, t)]
  /\ ThreadIsOver(t)
  /\ UNCHANGED <<up, connVars, parent, request>>

-----------------------------------------------------------------------------
(* What ends the process                                                   *)

(* write() to a socket the peer has reset raises SIGPIPE, which nobody     *)
(* handles or blocks.                                                      *)
SigPipe ==
  /\ up
  /\ \/ \E c \in Conns : /\ parent[c] = "errWriting"
                         /\ socketOf[fd[c]] # NoConn
     \/ \E t \in Threads : /\ handler[t] = "writing"
                           /\ socketOf[fd[handlerConn[t]]] # NoConn
  /\ ProcessDies

(* A handler that outlives its stv locks, unlocks and unlinks in freed     *)
(* memory.  The steps above are what it does when that memory still holds  *)
(* its old contents; this is the other outcome.                            *)
TouchFreedStv(t) ==
  /\ up
  /\ handler[t] \in {"running", "unlocking", "ending"}
  /\ parent[handlerConn[t]] = "gone"
  /\ ProcessDies

Stopped == ~up /\ UNCHANGED vars

-----------------------------------------------------------------------------
ParentStep(c) ==
  \/ StartParent(c) \/ ParentStartFails(c)
  \/ BeginRead(c) \/ FindsLeftover(c)
  \/ ReadRequest(c) \/ ReadBadRequest(c) \/ ReadEnds(c)
  \/ \E t \in Threads : \/ AddActiveThread(c, t)
                        \/ CreateThread(c, t)
                        \/ CreateThreadFails(c, t)
  \/ AddActiveThreadFails(c)
  \/ ErrorLocks(c) \/ ErrorWrites(c) \/ ErrorCloses(c) \/ ErrorUnlocks(c)
  \/ ShutdownRead(c) \/ DrainEnds(c) \/ ParentCloses(c) \/ FreeStv(c)

HandlerStep(t) ==
  \/ HandlerLocks(t) \/ HandlerQuits(t) \/ HandlerWrites(t)
  \/ HandlerCloses(t) \/ HandlerUnlocks(t) \/ HandlerEnds(t)

Next ==
  \/ \E c \in Conns : Accept(c) \/ RefuseConnection(c) \/ ParentStep(c)
  \/ \E t \in Threads : HandlerStep(t) \/ TouchFreedStv(t)
  \/ AcceptFails
  \/ SigPipe
  \/ Stopped

(* Every thread the process has gets to run; reads and writes return,      *)
(* since the sockets have receive and send timeouts (main.c:107-108).      *)
Fairness == /\ \A c \in Conns : WF_vars(ParentStep(c))
            /\ \A t \in Threads : WF_vars(HandlerStep(t))

Spec == Init /\ [][Next]_vars /\ Fairness

-----------------------------------------------------------------------------
(* Properties                                                              *)

TypeOK ==
  /\ up \in BOOLEAN
  /\ socketOf \in [Fds -> Conns \cup {NoConn}]
  /\ fd \in [Conns -> Fds \cup {NoFd}]
  /\ parent \in [Conns -> ParentStates]
  /\ request \in [Conns -> Requests]
  /\ activeThreads \in [Conns -> Seq(Threads)]
  /\ fdMutex \in [Conns -> BOOLEAN]
  /\ handler \in [Threads -> HandlerStates]
  /\ handlerConn \in [Threads -> Conns \cup {NoConn}]
  /\ handlerCloses \in [Threads -> BOOLEAN]

Live(c) == {t \in Threads : handler[t] # "idle" /\ handlerConn[t] = c}

OwnsDescriptor(c) == fd[c] # NoFd /\ socketOf[fd[c]] = c

(* The list tells the parent when it may release what its handlers use     *)
(* (threadroutines.h:44-47): once the drain loop is over, no handler of    *)
(* the connection is left to lock, write, unlock or unlink.                *)
DrainedMeansQuiet ==
  \A c \in Conns : parent[c] \in {"closing", "freeing", "gone"} => Live(c) = {}

(* Whatever the removals unlink by mistake, the list never names a thread  *)
(* twice and never keeps one that has ended: drain cannot wait on a ghost. *)
ListedAreLive ==
  \A c \in Conns : LET list == activeThreads[c] IN
    /\ \A i \in DOMAIN list : list[i] \in Live(c)
    /\ \A i, j \in DOMAIN list : list[i] = list[j] => i = j

(* The invariant the two properties above follow from: the lists hold live *)
(* threads only, each once, up to the bound; a connection that is not      *)
(* being served has an empty list; and as long as the lists stay within    *)
(* the three nodes that remove_linkedlistnode handles, every live handler  *)
(* is in the list of the connection whose stv it uses.                     *)
NotServing == {"none", "accepted", "closing", "freeing", "gone", "refused", "leaked"}

ListsInv ==
  /\ ListedAreLive
  /\ \A c \in Conns :
       /\ Len(activeThreads[c]) <= MaxInFlight
       /\ parent[c] \in NotServing => activeThreads[c] = << >>
  /\ MaxInFlight <= 3 =>
       \A t \in Threads : handler[t] # "idle" =>
         \E c \in Conns : /\ handlerConn[t] = c
                          /\ \E i \in DOMAIN activeThreads[c] :
                               activeThreads[c][i] = t

(* From accept() to the parent's own close(), the number in stv->fd names  *)
(* the connection's socket, for the parent and for each handler using it.  *)
DescriptorIsOwn ==
  /\ \A c \in Conns :
       parent[c] \notin {"none", "freeing", "gone", "refused"} => OwnsDescriptor(c)
  /\ \A t \in Threads :
       handler[t] \in {"writing", "closing"} => OwnsDescriptor(handlerConn[t])

(* fdMutex is one per connection, not one per socket: still, two responses *)
(* are never being written to the same socket.                             *)
Writers(s) ==
  {t \in Threads : handler[t] = "writing" /\ socketOf[fd[handlerConn[t]]] = s}
    \cup {c \in Conns : parent[c] = "errWriting" /\ socketOf[fd[c]] = s}

ResponsesDoNotInterleave ==
  \A s \in Conns : \A x, y \in Writers(s) : x = y

(* The parent, or whoever is to start it, has its close(stv->fd) before it.*)
WillClose(c) == parent[c] \notin {"none", "freeing", "gone", "refused", "leaked"}

(* A socket that is open bears the number that its connection has, and that*)
(* connection has still to close it, even when an error path, a handler or *)
(* another connection closed the number first.  One parent leaks its socket*)
(* for ever, and only when memory fails: it gets no buffers and returns    *)
(* (threadroutines.c:654-658).                                             *)
LeaksOnlyAtStart ==
  \A f \in Fds, c \in Conns :
    socketOf[f] = c => /\ fd[c] = f
                       /\ WillClose(c) \/ (Scarce /\ parent[c] = "leaked")

(* A parent that has left its read loop releases everything in the end:    *)
(* the drain loop terminates, whatever was listed, dropped or never made.  *)
ConnectionIsReleased ==
  \A c \in Conns : parent[c] = "shutdown" ~> (parent[c] = "gone" \/ ~up)

-----------------------------------------------------------------------------
(* The promise of ConnectionProtocol: as long as no request asks to close  *)
(* and none is bad, a socket is closed once, by its own connection, after  *)
(* the last handler.                                                       *)

Phase(c) == IF parent[c] = "none" THEN "new"
            ELSE IF OwnsDescriptor(c) THEN "open" ELSE "closed"

Protocol == INSTANCE ConnectionProtocol
              WITH phase <- [c \in Conns |-> Phase(c)],
                   busy  <- [c \in Conns |-> Live(c)]

ImplementsProtocol == Protocol!Spec

=============================================================================
