------------------------ MODULE ServerThreads_proofs ------------------------
(***************************************************************************)
(* Theorems about ServerThreads for any number of connections, handlers    *)
(* and descriptors: the lists of active threads, the mutexes, and whose    *)
(* sockets the descriptors name.                                           *)
(*                                                                         *)
(* That fdMutex is held by one thread of a connection at a time, and that  *)
(* an open descriptor is known to the connection that must close it, holds *)
(* always.  The rest of what is said of descriptors needs Orderly, for     *)
(* otherwise the code closes a number that other threads still use.        *)
(***************************************************************************)
EXTENDS ServerThreads, LinkedList_proofs

-----------------------------------------------------------------------------
(* The lists                                                               *)

(* A removal or an addition leaves a list of threads.                      *)
LEMMA ListsStayTyped ==
  ASSUME NEW list \in Seq(Threads), NEW t \in Threads
  PROVE  /\ RemoveLinkedListNode(list, t) \in Seq(Threads)
         /\ AddFirst(list, t) \in Seq(Threads)
BY RemoveElements, AddFirstElements

(* The types hold at the start and no step of the code breaks them.        *)
LEMMA TypeInit == Init => TypeOK
<1>. SUFFICES ASSUME Init PROVE TypeOK
  OBVIOUS
<1>1. << >> \in Seq(Threads)
  OBVIOUS
<1>. QED
  BY <1>1, ConstantsAssumption
  DEF Init, TypeOK, ParentStates, HandlerStates, Requests, NoFd

(* Every step keeps the types.                                             *)
LEMMA TypeStep == TypeOK /\ [Next]_vars => TypeOK'
<1>. SUFFICES ASSUME TypeOK, [Next]_vars PROVE TypeOK'
  OBVIOUS
<1>. USE ConstantsAssumption
     DEF TypeOK, ParentStates, HandlerStates, Requests, connVars, handlerVars,
         Goes, Moves, CloseFd, ThreadIsOver
<1>1. ASSUME ProcessDies PROVE TypeOK'
  BY <1>1 DEF ProcessDies
<1>2. ASSUME NEW c \in Conns, Accept(c) PROVE TypeOK'
  BY <1>2 DEF Accept, FreeFds
<1>3. ASSUME NEW c \in Conns, RefuseConnection(c) PROVE TypeOK'
  BY <1>3 DEF RefuseConnection
<1>4. ASSUME NEW c \in Conns, ParentStep(c) PROVE TypeOK'
  <2>1. ASSUME StartParent(c) PROVE TypeOK'
    BY <2>1 DEF StartParent
  <2>2. ASSUME ParentStartFails(c) PROVE TypeOK'
    BY <2>2, <1>1 DEF ParentStartFails
  <2>3. ASSUME BeginRead(c) PROVE TypeOK'
    BY <2>3 DEF BeginRead
  <2>4. ASSUME ReadRequest(c) PROVE TypeOK'
    BY <2>4 DEF ReadRequest
  <2>13. ASSUME FindsLeftover(c) PROVE TypeOK'
    <3>1. CASE ProcessDies
      BY <1>1, <3>1
    <3>2. CASE ~ProcessDies
      <4>1. PICK kind \in Inputs : request' = [request EXCEPT ![c] = kind]
        BY <2>13, <3>2 DEF FindsLeftover
      <4>2. /\ parent' = [parent EXCEPT ![c] = "dispatch"]
            /\ UNCHANGED <<up, socketOf, fd, fdMutex, activeThreads, handler, handlerConn,
                           handlerCloses>>
        BY <2>13, <3>2 DEF FindsLeftover
      <4>. QED  BY <4>1, <4>2
    <3>. QED  BY <3>1, <3>2
  <2>5. ASSUME ReadBadRequest(c) \/ ReadEnds(c) PROVE TypeOK'
    BY <2>5 DEF ReadBadRequest, ReadEnds
  <2>6. ASSUME NEW t \in Threads, AddActiveThread(c, t) PROVE TypeOK'
    <3>1. activeThreads' \in [Conns -> Seq(Threads)]
      BY <2>6, ListsStayTyped DEF AddActiveThread
    <3>. DEFINE closes == HandlerWillClose(request[c])
    <3>2. closes \in BOOLEAN
      BY DEF HandlerWillClose
    <3>3. handlerCloses' = [handlerCloses EXCEPT ![t] = closes]
      BY <2>6, Zenon DEF AddActiveThread
    <3>. HIDE DEF closes
    <3>4. handlerCloses' \in [Threads -> BOOLEAN]
      BY <3>2, <3>3
    <3>. QED  BY <2>6, <3>1, <3>4 DEF AddActiveThread
  <2>7. ASSUME NEW t \in Threads, CreateThread(c, t) PROVE TypeOK'
    BY ZenonT(40), <2>7 DEF CreateThread, ParentWillClose
  <2>8. ASSUME DispatchFails(c)
        PROVE  /\ parent' \in [Conns -> ParentStates]
               /\ request' \in [Conns -> Requests]
               /\ up' \in BOOLEAN
    BY <2>8 DEF DispatchFails
  <2>9. ASSUME NEW t \in Threads, CreateThreadFails(c, t) PROVE TypeOK'
    <3>1. activeThreads' \in [Conns -> Seq(Threads)]
      BY <2>9, ListsStayTyped DEF CreateThreadFails
    <3>. QED  BY <2>8, <2>9, <3>1 DEF CreateThreadFails
  <2>10. ASSUME AddActiveThreadFails(c) PROVE TypeOK'
    BY <2>8, <2>10 DEF AddActiveThreadFails
  <2>11. ASSUME ErrorLocks(c) \/ ErrorWrites(c) \/ ErrorCloses(c) \/ ErrorUnlocks(c)
         PROVE  TypeOK'
    BY ZenonT(40), <2>11 DEF ErrorLocks, ErrorWrites, ErrorCloses, ErrorUnlocks
  <2>12. ASSUME ShutdownRead(c) \/ DrainEnds(c) \/ ParentCloses(c) \/ FreeStv(c)
         PROVE  TypeOK'
    BY <2>12 DEF ShutdownRead, DrainEnds, ParentCloses, FreeStv
  <2>. QED
    BY <1>4, <2>1, <2>2, <2>3, <2>4, <2>5, <2>6, <2>7, <2>9, <2>10, <2>11, <2>12, <2>13
    DEF ParentStep
<1>5. ASSUME NEW t \in Threads, HandlerStep(t) PROVE TypeOK'
  <2>1. ASSUME HandlerLocks(t) \/ HandlerUnlocks(t) PROVE TypeOK'
    BY ZenonT(40), <2>1 DEF HandlerLocks, HandlerUnlocks
  <2>2. ASSUME HandlerQuits(t) \/ HandlerWrites(t) \/ HandlerCloses(t) PROVE TypeOK'
    BY ZenonT(40), <2>2 DEF HandlerQuits, HandlerWrites, HandlerCloses
  <2>3. ASSUME HandlerEnds(t) PROVE TypeOK'
    <3>1. activeThreads' \in [Conns -> Seq(Threads)]
      BY <2>3, ListsStayTyped DEF HandlerEnds
    <3>. QED  BY <2>3, <3>1 DEF HandlerEnds
  <2>. QED  BY <1>5, <2>1, <2>2, <2>3 DEF HandlerStep
<1>6. ASSUME NEW t \in Threads, TouchFreedStv(t) PROVE TypeOK'
  BY <1>1, <1>6 DEF TouchFreedStv
<1>7. ASSUME AcceptFails \/ SigPipe PROVE TypeOK'
  BY <1>1, <1>7 DEF AcceptFails, SigPipe
<1>8. ASSUME UNCHANGED vars PROVE TypeOK'
  BY <1>8 DEF vars
<1>. QED
  BY <1>2, <1>3, <1>4, <1>5, <1>6, <1>7, <1>8 DEF Next, Stopped

(* Type correctness of the whole model, for every value of the constants.  *)
THEOREM TypeCorrect == Spec => []TypeOK
<1>. QED  BY TypeInit, TypeStep, PTL DEF Spec

-----------------------------------------------------------------------------
(***************************************************************************)
(* The inductive invariant.  IInv says with Holds and NoRepeats, whose     *)
(* preservation LinkedList_proofs establishes, what ListsInv says.         *)
(***************************************************************************)
ListOf(c) == activeThreads[c]

ListIsSound(c) ==
  /\ NoRepeats(ListOf(c))
  /\ \A t \in Threads : Holds(ListOf(c), t) => handler[t] # "idle" /\ handlerConn[t] = c
  /\ Len(ListOf(c)) <= MaxInFlight
  /\ parent[c] \in NotServing => ListOf(c) = << >>

LiveIsListed(t) ==
  handler[t] # "idle" => \E c \in Conns : handlerConn[t] = c /\ Holds(ListOf(c), t)

LiveHasConnection == \A t \in Threads : handler[t] # "idle" => handlerConn[t] \in Conns

IInv ==
  /\ TypeOK
  /\ LiveHasConnection
  /\ \A c \in Conns : ListIsSound(c)
  /\ MaxInFlight <= 3 => \A t \in Threads : LiveIsListed(t)

(* Steps that touch neither the lists nor who is alive.                    *)
LEMMA QuietStep ==
  ASSUME IInv, TypeOK',
         UNCHANGED <<activeThreads, handlerConn>>,
         \A t \in Threads : handler'[t] = "idle" <=> handler[t] = "idle",
         \A c \in Conns : parent'[c] \in NotServing => activeThreads[c] = << >>
  PROVE  IInv'
<1>1. ASSUME NEW c \in Conns PROVE ListIsSound(c)'
  BY DEF IInv, ListIsSound, ListOf
<1>2. ASSUME MaxInFlight <= 3, NEW t \in Threads PROVE LiveIsListed(t)'
  BY <1>2 DEF IInv, LiveIsListed, ListOf
<1>3. LiveHasConnection'
  BY DEF IInv, LiveHasConnection
<1>. QED  BY <1>1, <1>2, <1>3 DEF IInv

(* A thread is listed: it was idle, so no list held it.                    *)
LEMMA AddStep ==
  ASSUME IInv, TypeOK', NEW c \in Conns, NEW t \in Threads, AddActiveThread(c, t)
  PROVE  IInv'
<1>. USE DEF connVars
<1>1. /\ parent[c] = "dispatch"
      /\ Len(ListOf(c)) < MaxInFlight
      /\ handler[t] = "idle"
      /\ ListOf(c)' = AddFirst(ListOf(c), t)
      /\ \A d \in Conns \ {c} : ListOf(d)' = ListOf(d)
      /\ handler' = [handler EXCEPT ![t] = "listed"]
      /\ handlerConn' = [handlerConn EXCEPT ![t] = c]
      /\ parent' = [parent EXCEPT ![c] = "creating"]
  BY DEF AddActiveThread, Goes, Moves, ListOf, IInv, TypeOK
<1>2. ListOf(c) \in Seq(Threads) /\ ~Holds(ListOf(c), t)
  BY <1>1 DEF IInv, ListIsSound, ListOf, TypeOK
<1>3. /\ Len(ListOf(c)') = Len(ListOf(c)) + 1
      /\ \A x : Holds(ListOf(c)', x) <=> (Holds(ListOf(c), x) \/ x = t)
      /\ NoRepeats(ListOf(c)')
  <2>. DEFINE list == ListOf(c)
              result == AddFirst(list, t)
  <2>1. list \in Seq(Threads) /\ ~Holds(list, t) /\ NoRepeats(list)
    BY <1>2 DEF IInv, ListIsSound
  <2>. HIDE DEF list
  <2>2. /\ Len(result) = Len(list) + 1
        /\ \A x : Holds(result, x) <=> (Holds(list, x) \/ x = t)
        /\ NoRepeats(list) /\ ~Holds(list, t) => NoRepeats(result)
    BY <2>1, AddFirstElements
  <2>3. ListOf(c)' = result
    BY <1>1 DEF list
  <2>. HIDE DEF result
  <2>. QED  BY <2>1, <2>2, <2>3 DEF list
<1>4. Len(ListOf(c)) \in Nat /\ MaxInFlight \in Nat
  BY <1>2, LenProperties, ConstantsAssumption
<1>5. ListIsSound(c)'
  <2>1. Len(ListOf(c)') <= MaxInFlight
    BY <1>1, <1>3, <1>4
  <2>2. parent'[c] \notin NotServing
    BY <1>1 DEF IInv, TypeOK, NotServing
  <2>3. ASSUME NEW u \in Threads, Holds(ListOf(c)', u)
        PROVE  handler'[u] # "idle" /\ handlerConn'[u] = c
    BY <1>1, <1>3, <2>3 DEF IInv, ListIsSound, TypeOK
  <2>. QED  BY <1>3, <2>1, <2>2, <2>3 DEF ListIsSound
<1>6. ASSUME NEW d \in Conns \ {c} PROVE ListIsSound(d)'
  BY <1>1, <1>6 DEF IInv, ListIsSound, TypeOK
<1>7. ASSUME MaxInFlight <= 3, NEW u \in Threads PROVE LiveIsListed(u)'
  <2>1. CASE u = t
    BY <1>1, <1>3, <2>1 DEF IInv, TypeOK, LiveIsListed
  <2>2. CASE u # t
    <3>. SUFFICES ASSUME handler'[u] # "idle"
                  PROVE  \E d \in Conns : handlerConn'[u] = d /\ Holds(ListOf(d)', u)
      BY DEF LiveIsListed
    <3>1. PICK d \in Conns : handlerConn[u] = d /\ Holds(ListOf(d), u)
      BY <1>1, <1>7, <2>2 DEF IInv, TypeOK, LiveIsListed
    <3>2. Holds(ListOf(d)', u)
      BY <1>1, <1>3, <3>1
    <3>. QED  BY <1>1, <2>2, <3>1, <3>2 DEF IInv, TypeOK
  <2>. QED  BY <2>1, <2>2
<1>8. LiveHasConnection'
  BY <1>1 DEF IInv, TypeOK, LiveHasConnection
<1>. QED  BY <1>5, <1>6, <1>7, <1>8 DEF IInv

(* A thread leaves: when it ends, or when it could not be created.         *)
LEMMA RemoveStep ==
  ASSUME IInv, TypeOK', NEW t \in Threads, NEW c \in Conns,
         handler[t] # "idle", handlerConn[t] = c,
         activeThreads' = [activeThreads EXCEPT ![c] = RemoveLinkedListNode(@, t)],
         ThreadIsOver(t),
         \A d \in Conns : parent'[d] \in NotServing => parent[d] \in NotServing
  PROVE  IInv'
<1>1. /\ ListOf(c)' = RemoveLinkedListNode(ListOf(c), t)
      /\ \A d \in Conns \ {c} : ListOf(d)' = ListOf(d)
      /\ handler' = [handler EXCEPT ![t] = "idle"]
      /\ handlerConn' = [handlerConn EXCEPT ![t] = NoConn]
  BY DEF ThreadIsOver, ListOf, IInv, TypeOK
<1>2. ListOf(c) \in Seq(Threads) /\ ListIsSound(c)
  BY DEF IInv, ListOf, TypeOK
<1>3. /\ Len(ListOf(c)') <= Len(ListOf(c))
      /\ NoRepeats(ListOf(c)')
      /\ \A x : Holds(ListOf(c)', x) => Holds(ListOf(c), x) /\ x # t
      /\ ListOf(c)' \in Seq(Threads)
  BY <1>1, <1>2, RemoveShrinks DEF ListIsSound
<1>4. /\ Len(ListOf(c)) \in Nat /\ Len(ListOf(c)') \in Nat /\ MaxInFlight \in Nat
  BY <1>2, <1>3, LenProperties, ConstantsAssumption
<1>5. ListIsSound(c)'
  <2>1. Len(ListOf(c)') <= MaxInFlight
    BY <1>2, <1>3, <1>4 DEF ListIsSound
  <2>2. ASSUME parent'[c] \in NotServing PROVE ListOf(c)' = << >>
    <3>1. Len(ListOf(c)) = 0
      BY <1>2, <2>2 DEF ListIsSound
    <3>. QED  BY <3>1, <1>3, <1>4, EmptySeq
  <2>3. ASSUME NEW u \in Threads, Holds(ListOf(c)', u)
        PROVE  handler'[u] # "idle" /\ handlerConn'[u] = c
    BY <1>1, <1>2, <1>3, <2>3 DEF IInv, ListIsSound, TypeOK
  <2>. QED  BY <1>3, <2>1, <2>2, <2>3 DEF ListIsSound
<1>6. ASSUME NEW d \in Conns \ {c} PROVE ListIsSound(d)'
  <2>1. ~Holds(ListOf(d), t)
    BY <1>6 DEF IInv, ListIsSound
  <2>2. ASSUME NEW u \in Threads, Holds(ListOf(d), u)
        PROVE  handler'[u] # "idle" /\ handlerConn'[u] = d
    BY <1>1, <2>1, <2>2 DEF IInv, ListIsSound, TypeOK
  <2>. QED  BY <1>1, <2>2 DEF IInv, ListIsSound
<1>7. ASSUME MaxInFlight <= 3, NEW u \in Threads PROVE LiveIsListed(u)'
  <2>1. CASE u = t
    BY <1>1, <2>1 DEF IInv, TypeOK, LiveIsListed
  <2>2. CASE u # t
    <3>. SUFFICES ASSUME handler'[u] # "idle"
                  PROVE  \E d \in Conns : handlerConn'[u] = d /\ Holds(ListOf(d)', u)
      BY DEF LiveIsListed
    <3>1. PICK d \in Conns : handlerConn[u] = d /\ Holds(ListOf(d), u)
      BY <1>1, <1>7, <2>2 DEF IInv, TypeOK, LiveIsListed
    <3>2. Holds(ListOf(c), t)
      BY <1>7 DEF IInv, LiveIsListed
    <3>3. Len(ListOf(c)) <= 3
      BY <1>2, <1>4, <1>7 DEF ListIsSound
    <3>4. \A x : Holds(ListOf(c), x) /\ x # t => Holds(ListOf(c)', x)
      BY <1>1, <1>2, <3>2, <3>3, RemoveIsExact DEF ListIsSound
    <3>5. Holds(ListOf(d)', u)
      BY <1>1, <2>2, <3>1, <3>4
    <3>. QED  BY <1>1, <2>2, <3>1, <3>5 DEF IInv, TypeOK
  <2>. QED  BY <2>1, <2>2
<1>8. LiveHasConnection'
  BY <1>1 DEF IInv, TypeOK, LiveHasConnection
<1>. QED  BY <1>5, <1>6, <1>7, <1>8 DEF IInv

(* The inductive invariant of the lists holds at first ...                 *)
LEMMA IInvInit == Init => IInv
<1>. SUFFICES ASSUME Init PROVE IInv
  OBVIOUS
<1>1. \A c \in Conns : ListIsSound(c)
  <2>1. \A c \in Conns : ListOf(c) = << >>
    BY DEF Init, ListOf
  <2>2. NoRepeats(<< >>) /\ (\A x : ~Holds(<< >>, x)) /\ Len(<< >>) = 0
    BY DEF NoRepeats, Holds
  <2>. QED  BY <2>1, <2>2, ConstantsAssumption DEF ListIsSound
<1>. QED  BY <1>1, TypeInit DEF IInv, Init, LiveIsListed, LiveHasConnection

(* ... every step keeps it ...                                             *)
LEMMA IInvStep == IInv /\ [Next]_vars => IInv'
<1>. SUFFICES ASSUME IInv, [Next]_vars PROVE IInv'
  OBVIOUS
<1>0. TypeOK /\ TypeOK' /\ \A c \in Conns : parent[c] \in NotServing => activeThreads[c] = << >>
  BY TypeStep DEF IInv, ListIsSound, ListOf
<1>. USE DEF connVars, handlerVars
<1>1. ASSUME ProcessDies PROVE IInv'
  BY <1>0, <1>1, QuietStep DEF ProcessDies
<1>2. ASSUME NEW c \in Conns, Accept(c) \/ RefuseConnection(c) PROVE IInv'
  <2>1. parent[c] \in NotServing
    BY <1>2 DEF Accept, RefuseConnection, NotServing
  <2>2. UNCHANGED <<activeThreads, handlerVars>> /\ \E s : Goes(c, s)
    BY <1>2, Zenon DEF Accept, RefuseConnection
  <2>. QED  BY <1>0, <2>1, <2>2, QuietStep DEF Goes, TypeOK
<1>3. ASSUME NEW c \in Conns, ParentStep(c) PROVE IInv'
  <2>1. ASSUME NEW s, s \notin NotServing,
               Goes(c, s), UNCHANGED <<activeThreads, handlerVars>>
        PROVE  IInv'
    BY <1>0, <2>1, QuietStep DEF Goes, TypeOK
  <2>2. ASSUME NEW s, activeThreads[c] = << >>,
               Goes(c, s), UNCHANGED <<activeThreads, handlerVars>>
        PROVE  IInv'
    BY <1>0, <2>2, QuietStep DEF Goes, TypeOK
  <2>3. ASSUME StartParent(c) \/ ParentStartFails(c) PROVE IInv'
    <3>1. activeThreads[c] = << >>
      BY <1>0, <2>3 DEF StartParent, ParentStartFails, NotServing
    <3>. QED  BY <1>1, <2>2, <2>3, <3>1 DEF StartParent, ParentStartFails
  <2>4. ASSUME BeginRead(c) \/ FindsLeftover(c) PROVE IInv'
    BY <1>1, <2>1, <2>4 DEF BeginRead, FindsLeftover, NotServing
  <2>5. ASSUME ReadRequest(c) \/ ReadBadRequest(c) \/ ReadEnds(c) PROVE IInv'
    BY <2>1, <2>5 DEF ReadRequest, ReadBadRequest, ReadEnds, NotServing
  <2>6. ASSUME NEW t \in Threads, AddActiveThread(c, t) PROVE IInv'
    BY <1>0, <2>6, AddStep
  <2>7. ASSUME NEW t \in Threads, CreateThread(c, t) PROVE IInv'
    <3>1. /\ UNCHANGED <<activeThreads, handlerConn>>
          /\ handler' = [handler EXCEPT ![t] = "running"] /\ handler[t] = "listed"
          /\ \E s \in {"dispatch", "shutdown", "reading"} : Goes(c, s)
      BY <2>7 DEF CreateThread, Moves
    <3>2. \A u \in Threads : handler'[u] = "idle" <=> handler[u] = "idle"
      BY <1>0, <3>1 DEF TypeOK
    <3>3. \A d \in Conns : parent'[d] \in NotServing => activeThreads[d] = << >>
      BY <1>0, <3>1 DEF TypeOK, Goes, NotServing
    <3>. QED  BY <1>0, <3>1, <3>2, <3>3, QuietStep
  <2>8. ASSUME DispatchFails(c)
        PROVE  \A d \in Conns : parent'[d] \in NotServing => parent[d] \in NotServing
    BY <1>0, <2>8 DEF DispatchFails, Goes, TypeOK, NotServing
  <2>9. ASSUME NEW t \in Threads, CreateThreadFails(c, t) PROVE IInv'
    <3>1. handler[t] # "idle"
      BY <2>9 DEF CreateThreadFails
    <3>. QED  BY <1>0, <2>8, <2>9, <3>1, RemoveStep DEF CreateThreadFails
  <2>10. ASSUME AddActiveThreadFails(c) PROVE IInv'
    BY <1>0, <2>8, <2>10, QuietStep DEF AddActiveThreadFails
  <2>11. ASSUME ErrorLocks(c) \/ ErrorWrites(c) \/ ErrorCloses(c) \/ ErrorUnlocks(c)
         PROVE  IInv'
    BY <2>1, <2>11
    DEF ErrorLocks, ErrorWrites, ErrorCloses, ErrorUnlocks, NotServing
  <2>12. ASSUME ShutdownRead(c) PROVE IInv'
    BY <2>1, <2>12 DEF ShutdownRead, NotServing
  <2>13. ASSUME DrainEnds(c) \/ ParentCloses(c) \/ FreeStv(c) PROVE IInv'
    <3>1. activeThreads[c] = << >>
      BY <1>0, <2>13 DEF DrainEnds, ParentCloses, FreeStv, NotServing
    <3>. QED  BY <2>2, <2>13, <3>1 DEF DrainEnds, ParentCloses, FreeStv
  <2>. QED
    BY <1>3, <2>3, <2>4, <2>5, <2>6, <2>7, <2>9, <2>10, <2>11, <2>12, <2>13
    DEF ParentStep
<1>4. ASSUME NEW t \in Threads, HandlerStep(t) PROVE IInv'
  <2>1. ASSUME HandlerLocks(t) \/ HandlerQuits(t) \/ HandlerWrites(t)
                 \/ HandlerCloses(t) \/ HandlerUnlocks(t)
        PROVE  IInv'
    <3>1. /\ UNCHANGED <<activeThreads, handlerConn, parent>>
          /\ handler[t] # "idle"
          /\ \E s \in HandlerStates \ {"idle"} : Moves(t, s)
      BY <2>1 DEF HandlerLocks, HandlerQuits, HandlerWrites, HandlerCloses,
                  HandlerUnlocks, HandlerStates
    <3>2. \A u \in Threads : handler'[u] = "idle" <=> handler[u] = "idle"
      BY <1>0, <3>1 DEF TypeOK, Moves
    <3>. QED  BY <1>0, <3>1, <3>2, QuietStep
  <2>2. ASSUME HandlerEnds(t) PROVE IInv'
    <3>1. handler[t] # "idle" /\ parent' = parent
      BY <2>2 DEF HandlerEnds
    <3>2. handlerConn[t] \in Conns
      BY <3>1 DEF IInv, LiveHasConnection
    <3>. QED  BY <1>0, <2>2, <3>1, <3>2, RemoveStep DEF HandlerEnds
  <2>. QED  BY <1>4, <2>1, <2>2 DEF HandlerStep
<1>5. ASSUME NEW t \in Threads, TouchFreedStv(t) PROVE IInv'
  BY <1>1, <1>5 DEF TouchFreedStv
<1>6. ASSUME AcceptFails \/ SigPipe PROVE IInv'
  BY <1>1, <1>6 DEF AcceptFails, SigPipe
<1>7. ASSUME UNCHANGED vars PROVE IInv'
  BY <1>0, <1>7, QuietStep DEF vars
<1>. QED
  BY <1>2, <1>3, <1>4, <1>5, <1>6, <1>7 DEF Next, Stopped

-----------------------------------------------------------------------------
(* ... it says what ListsInv does ...                                      *)
LEMMA IInvMeans == IInv => ListsInv
<1>. SUFFICES ASSUME IInv PROVE ListsInv
  OBVIOUS
<1>1. \A c \in Conns : /\ activeThreads[c] \in Seq(Threads)
                       /\ DOMAIN activeThreads[c] = 1..Len(activeThreads[c])
  BY LenProperties DEF IInv, TypeOK
<1>2. ASSUME NEW c \in Conns, NEW i \in DOMAIN activeThreads[c]
      PROVE  activeThreads[c][i] \in Threads /\ Holds(activeThreads[c], activeThreads[c][i])
  BY <1>1, <1>2, ElementOfSeq DEF Holds
<1>3. ListedAreLive
  BY <1>1, <1>2 DEF IInv, ListIsSound, ListOf, NoRepeats, ListedAreLive, Live
<1>4. \A c \in Conns : /\ Len(activeThreads[c]) <= MaxInFlight
                       /\ parent[c] \in NotServing => activeThreads[c] = << >>
  BY DEF IInv, ListIsSound, ListOf
<1>5. ASSUME MaxInFlight <= 3, NEW t \in Threads, handler[t] # "idle"
      PROVE  \E c \in Conns : /\ handlerConn[t] = c
                              /\ \E i \in DOMAIN activeThreads[c] : activeThreads[c][i] = t
  BY <1>1, <1>5 DEF IInv, LiveIsListed, ListOf, Holds
<1>. QED  BY <1>3, <1>4, <1>5 DEF ListsInv

(* ... and so it holds for good.                                           *)
LEMMA IInvHolds == Spec => []IInv
<1>. QED  BY IInvInit, IInvStep, PTL DEF Spec

(* The active lists are sound, whatever fails and whatever arrives.        *)
THEOREM ListsAreSound == Spec => []ListsInv
<1>. QED  BY IInvHolds, IInvMeans, PTL

(* A list never keeps a thread that has ended, nor names one twice, however*)
(* long it grows and whatever the faulty removal drops.                    *)
THEOREM ListedThreadsAreLive == Spec => []ListedAreLive
<1>1. ListsInv => ListedAreLive
  BY DEF ListsInv
<1>. QED  BY <1>1, ListsAreSound, PTL

(* With at most three handlers listed at once, no handler outlives what    *)
(* its parent releases.                                                    *)
THEOREM NoHandlerOutlivesDrain == MaxInFlight <= 3 => (Spec => []DrainedMeansQuiet)
<1>. SUFFICES ASSUME MaxInFlight <= 3 PROVE Spec => []DrainedMeansQuiet
  OBVIOUS
<1>1. ListsInv => DrainedMeansQuiet
  BY DEF ListsInv, DrainedMeansQuiet, Live, NotServing
<1>. QED  BY <1>1, ListsAreSound, PTL

-----------------------------------------------------------------------------
(* The mutexes                                                             *)

(* The parents that have no descriptor yet, or no longer.                  *)
Closed == {"none", "freeing", "gone", "refused"}

(* An open socket is known to its connection, which has yet to close it, or*)
(* has leaked it.                                                          *)
SocketsKnown ==
  \A f \in Fds, c \in Conns : socketOf[f] = c => fd[c] = f /\ parent[c] \notin Closed

(* Where a thread holds fdMutex.                                           *)
Holding    == {"writing", "closing", "unlocking"}
ErrHolding == {"errWriting", "errClosing", "errUnlocking"}

(* One thread at most holds the mutex of a connection, and it is locked.   *)
MutexInv ==
  \A c \in Conns :
    /\ \A t \in Threads : handler[t] \in Holding /\ handlerConn[t] = c =>
         fdMutex[c] /\ parent[c] \notin ErrHolding
    /\ \A t, u \in Threads :
         /\ handler[t] \in Holding /\ handlerConn[t] = c
         /\ handler[u] \in Holding /\ handlerConn[u] = c
         => t = u
    /\ parent[c] \in ErrHolding => fdMutex[c]

(* Steps that take no mutex and give none back.                            *)
LEMMA NoLockStep ==
  ASSUME MutexInv, fdMutex' = fdMutex,
         \A t \in Threads : handler'[t] \in Holding =>
           handler[t] \in Holding /\ handlerConn'[t] = handlerConn[t],
         \A c \in Conns : parent'[c] \in ErrHolding => parent[c] \in ErrHolding
  PROVE  MutexInv'
BY DEF MutexInv

(* A handler goes from one place to another.                               *)
LEMMA MovingKeepsMutex ==
  ASSUME TypeOK, MutexInv, NEW t \in Threads, NEW s, Moves(t, s),
         s \in Holding => handler[t] \in Holding,
         UNCHANGED <<fdMutex, parent, handlerConn>>
  PROVE  MutexInv'
<1>1. \A u \in Threads : handler'[u] = IF u = t THEN s ELSE handler[u]
  BY DEF Moves, TypeOK
<1>. QED  BY <1>1, NoLockStep

(* A parent goes from one place to another.                                *)
LEMMA GoingKeepsMutex ==
  ASSUME TypeOK, MutexInv, NEW c \in Conns, NEW s, Goes(c, s),
         s \in ErrHolding => parent[c] \in ErrHolding,
         UNCHANGED <<fdMutex, handler, handlerConn>>
  PROVE  MutexInv'
<1>1. \A d \in Conns : parent'[d] = IF d = c THEN s ELSE parent[d]
  BY DEF Goes, TypeOK
<1>. QED  BY <1>1, NoLockStep

(* A thread that is over holds nothing.                                    *)
LEMMA OverKeepsMutex ==
  ASSUME TypeOK, MutexInv, NEW t \in Threads, ThreadIsOver(t),
         fdMutex' = fdMutex,
         \A c \in Conns : parent'[c] \in ErrHolding => parent[c] \in ErrHolding
  PROVE  MutexInv'
<1>1. \A u \in Threads : /\ handler'[u] = IF u = t THEN "idle" ELSE handler[u]
                         /\ u # t => handlerConn'[u] = handlerConn[u]
  BY DEF ThreadIsOver, TypeOK
<1>2. "idle" \notin Holding
  BY DEF Holding
<1>. QED  BY <1>1, <1>2, NoLockStep

(* One at a time: nobody locks what is locked, and only the holder         *)
(* unlocks.                                                                *)
LEMMA MutexStep == IInv /\ MutexInv /\ [Next]_vars => MutexInv'
<1>. SUFFICES ASSUME IInv, MutexInv, [Next]_vars PROVE MutexInv'
  OBVIOUS
<1>0. TypeOK
  BY DEF IInv
<1>. USE DEF connVars, handlerVars
<1>1. ASSUME UNCHANGED <<fdMutex, handler, handlerConn, parent>> PROVE MutexInv'
  BY <1>1, NoLockStep
<1>2. ASSUME ProcessDies PROVE MutexInv'
  BY <1>1, <1>2 DEF ProcessDies
<1>3. ASSUME NEW c \in Conns, Accept(c) \/ RefuseConnection(c) PROVE MutexInv'
  <2>1. UNCHANGED <<fdMutex, handler, handlerConn>>
    BY <1>3 DEF Accept, RefuseConnection
  <2>2. Goes(c, "accepted") \/ Goes(c, "refused")
    BY <1>3 DEF Accept, RefuseConnection
  <2>. QED  BY <1>0, <2>1, <2>2, GoingKeepsMutex DEF ErrHolding
<1>4. ASSUME NEW c \in Conns, ParentStep(c) PROVE MutexInv'
  <2>1. ASSUME NEW s, s \notin ErrHolding \/ parent[c] \in ErrHolding, Goes(c, s),
               UNCHANGED <<fdMutex, handler, handlerConn>>
        PROVE  MutexInv'
    BY <1>0, <2>1, GoingKeepsMutex
  <2>2. ASSUME \/ StartParent(c) \/ ParentStartFails(c) \/ BeginRead(c) \/ ReadRequest(c)
               \/ FindsLeftover(c) \/ ReadBadRequest(c) \/ ReadEnds(c)
        PROVE  MutexInv'
    BY <1>2, <2>1, <2>2 DEF StartParent, ParentStartFails, BeginRead, ReadRequest,
       FindsLeftover, ReadBadRequest, ReadEnds, ErrHolding
  <2>3. ASSUME NEW t \in Threads, AddActiveThread(c, t) PROVE MutexInv'
    <3>1. /\ fdMutex' = fdMutex /\ handler' = [handler EXCEPT ![t] = "listed"]
          /\ handlerConn' = [handlerConn EXCEPT ![t] = c]
          /\ parent' = [parent EXCEPT ![c] = "creating"]
      BY <2>3 DEF AddActiveThread, Moves, Goes
    <3>2. \A u \in Threads : handler'[u] \in Holding =>
            handler[u] \in Holding /\ handlerConn'[u] = handlerConn[u]
      BY <1>0, <3>1 DEF TypeOK, Holding
    <3>3. \A d \in Conns : parent'[d] \in ErrHolding => parent[d] \in ErrHolding
      BY <1>0, <3>1 DEF TypeOK, ErrHolding
    <3>. QED  BY <3>1, <3>2, <3>3, NoLockStep
  <2>4. ASSUME NEW t \in Threads, CreateThread(c, t) PROVE MutexInv'
    <3>1. /\ fdMutex' = fdMutex /\ handlerConn' = handlerConn
          /\ handler' = [handler EXCEPT ![t] = "running"]
          /\ \E s \in {"dispatch", "shutdown", "reading"} :
               parent' = [parent EXCEPT ![c] = s]
      BY <2>4 DEF CreateThread, Moves, Goes
    <3>2. \A u \in Threads : handler'[u] \in Holding => handler[u] \in Holding
      BY <1>0, <3>1 DEF TypeOK, Holding
    <3>3. \A d \in Conns : parent'[d] \in ErrHolding => parent[d] \in ErrHolding
      BY <1>0, <3>1 DEF TypeOK, ErrHolding
    <3>. QED  BY <3>1, <3>2, <3>3, NoLockStep
  <2>5. ASSUME DispatchFails(c)
        PROVE  \A d \in Conns : parent'[d] \in ErrHolding => parent[d] \in ErrHolding
    BY <1>0, <2>5 DEF DispatchFails, Goes, TypeOK, ErrHolding
  <2>6. ASSUME NEW t \in Threads, CreateThreadFails(c, t) PROVE MutexInv'
    BY <1>0, <2>5, <2>6, OverKeepsMutex DEF CreateThreadFails
  <2>7. ASSUME AddActiveThreadFails(c) PROVE MutexInv'
    BY <2>5, <2>7, NoLockStep DEF AddActiveThreadFails
  <2>8. ASSUME ErrorLocks(c) PROVE MutexInv'
    BY <1>0, <2>8 DEF ErrorLocks, Goes, TypeOK, MutexInv, ErrHolding
  <2>9. ASSUME ErrorWrites(c) \/ ErrorCloses(c) PROVE MutexInv'
    BY <2>1, <2>9 DEF ErrorWrites, ErrorCloses, ErrHolding
  <2>10. ASSUME ErrorUnlocks(c) PROVE MutexInv'
    BY <1>0, <2>10 DEF ErrorUnlocks, Goes, TypeOK, MutexInv, ErrHolding
  <2>11. ASSUME ShutdownRead(c) \/ DrainEnds(c) \/ ParentCloses(c) \/ FreeStv(c)
         PROVE  MutexInv'
    BY <2>1, <2>11 DEF ShutdownRead, DrainEnds, ParentCloses, FreeStv, ErrHolding
  <2>. QED
    BY <1>4, <2>2, <2>3, <2>4, <2>6, <2>7, <2>8, <2>9, <2>10, <2>11 DEF ParentStep
<1>5. ASSUME NEW t \in Threads, HandlerStep(t) PROVE MutexInv'
  <2>1. ASSUME HandlerLocks(t) PROVE MutexInv'
    <3>1. handlerConn[t] \in Conns
      BY <2>1 DEF HandlerLocks, IInv, LiveHasConnection
    <3>. QED  BY <1>0, <2>1, <3>1 DEF HandlerLocks, Moves, TypeOK, MutexInv, Holding
  <2>2. ASSUME HandlerUnlocks(t) PROVE MutexInv'
    <3>1. handlerConn[t] \in Conns
      BY <2>2 DEF HandlerUnlocks, IInv, LiveHasConnection
    <3>. QED  BY <1>0, <2>2, <3>1 DEF HandlerUnlocks, Moves, TypeOK, MutexInv, Holding
  <2>3. ASSUME HandlerQuits(t) \/ HandlerWrites(t) \/ HandlerCloses(t) PROVE MutexInv'
    BY <1>0, <2>3, MovingKeepsMutex DEF HandlerQuits, HandlerWrites, HandlerCloses, Holding
  <2>4. ASSUME HandlerEnds(t) PROVE MutexInv'
    BY <1>0, <2>4, OverKeepsMutex DEF HandlerEnds
  <2>. QED  BY <1>5, <2>1, <2>2, <2>3, <2>4 DEF HandlerStep
<1>6. ASSUME NEW t \in Threads, TouchFreedStv(t) PROVE MutexInv'
  BY <1>2, <1>6 DEF TouchFreedStv
<1>7. ASSUME AcceptFails \/ SigPipe \/ UNCHANGED vars PROVE MutexInv'
  BY <1>1, <1>2, <1>7 DEF AcceptFails, SigPipe, vars
<1>. QED  BY <1>3, <1>4, <1>5, <1>6, <1>7 DEF Next, Stopped

(* fdMutex excludes: of a connection's handlers and its parent one at most *)
(* is between its lock and its unlock (threadroutines.c:1118-1120),        *)
(* whatever fails and whatever arrives.                                    *)
THEOREM MutexExcludes == Spec => []MutexInv
<1>1. Init => MutexInv
  BY DEF Init, MutexInv, Holding, ErrHolding
<1>. QED  BY <1>1, MutexStep, IInvHolds, PTL DEF Spec

-----------------------------------------------------------------------------
(* Sockets that nobody would close                                         *)

(* Steps that open nothing; what they close is unknown to nobody.          *)
LEMMA NothingOpened ==
  ASSUME TypeOK, SocketsKnown, fd' = fd,
         \A f \in Fds : socketOf'[f] \in {socketOf[f], NoConn},
         \A c \in Conns : parent'[c] \in Closed => parent[c] \in Closed
  PROVE  SocketsKnown'
BY ConstantsAssumption DEF SocketsKnown

(* A number that is closed names nothing, and other numbers what they did. *)
LEMMA ClosingFrees ==
  ASSUME TypeOK, NEW c, CloseFd(c)
  PROVE  \A f \in Fds : socketOf'[f] = IF f = fd[c] THEN NoConn ELSE socketOf[f]
BY DEF CloseFd, TypeOK

(* A connection that is accepted, whose number nobody else has.            *)
LEMMA AcceptingIsKnown ==
  ASSUME TypeOK, SocketsKnown, NEW c \in Conns, Accept(c)
  PROVE  SocketsKnown'
<1>1. PICK f \in FreeFds : /\ fd' = [fd EXCEPT ![c] = f]
                           /\ socketOf' = [socketOf EXCEPT ![f] = c]
  BY DEF Accept
<1>2. /\ parent[c] = "none" /\ f \in Fds
      /\ \A d \in Conns : parent'[d] = IF d = c THEN "accepted" ELSE parent[d]
      /\ \A d \in Conns : fd'[d] = IF d = c THEN f ELSE fd[d]
      /\ \A g \in Fds : socketOf'[g] = IF g = f THEN c ELSE socketOf[g]
  BY <1>1 DEF Accept, Goes, TypeOK, FreeFds
<1>. QED  BY <1>2 DEF SocketsKnown, Closed

(* A connection closes its number and gives it up.                         *)
LEMMA GivingUpIsKnown ==
  ASSUME TypeOK, SocketsKnown, NEW c \in Conns, NEW s, CloseFd(c), Goes(c, s), fd' = fd
  PROVE  SocketsKnown'
<1>1. /\ \A d \in Conns : d # c => parent'[d] = parent[d]
      /\ \A f \in Fds : socketOf'[f] = IF f = fd[c] THEN NoConn ELSE socketOf[f]
  BY ClosingFrees DEF Goes, TypeOK
<1>2. ASSUME NEW f \in Fds, NEW d \in Conns, socketOf'[f] = d
      PROVE  fd[d] = f /\ parent[d] \notin Closed /\ d # c
  <2>1. f # fd[c] /\ socketOf[f] = d
    BY <1>1, <1>2, ConstantsAssumption
  <2>. QED  BY <2>1 DEF SocketsKnown
<1>. QED  BY <1>1, <1>2 DEF SocketsKnown

(* Every step keeps the sockets known.                                     *)
LEMMA SocketsStep == TypeOK /\ SocketsKnown /\ [Next]_vars => SocketsKnown'
<1>. SUFFICES ASSUME TypeOK, SocketsKnown, [Next]_vars PROVE SocketsKnown'
  OBVIOUS
<1>. USE DEF connVars, handlerVars
<1>1. ASSUME UNCHANGED <<socketOf, fd, parent>> PROVE SocketsKnown'
  BY <1>1, NothingOpened
<1>2. ASSUME ProcessDies PROVE SocketsKnown'
  BY <1>1, <1>2 DEF ProcessDies
<1>3. ASSUME NEW c \in Conns, Accept(c) PROVE SocketsKnown'
  BY <1>3, AcceptingIsKnown
<1>4. ASSUME NEW c \in Conns, RefuseConnection(c) \/ ParentCloses(c) PROVE SocketsKnown'
  BY <1>4, GivingUpIsKnown DEF RefuseConnection, ParentCloses
<1>5. ASSUME NEW c \in Conns, NEW s, Goes(c, s), UNCHANGED <<socketOf, fd>>,
             s \notin Closed \/ parent[c] \in Closed
      PROVE  SocketsKnown'
  <2>1. \A d \in Conns : parent'[d] \in Closed => parent[d] \in Closed
    BY <1>5 DEF Goes, TypeOK
  <2>. QED  BY <1>5, <2>1, NothingOpened
<1>6. ASSUME NEW c \in Conns, ParentStep(c), ~ParentCloses(c) PROVE SocketsKnown'
  <2>1. ASSUME \/ StartParent(c) \/ ParentStartFails(c) \/ BeginRead(c) \/ ReadRequest(c)
               \/ FindsLeftover(c) \/ ReadBadRequest(c) \/ ReadEnds(c)
        PROVE  SocketsKnown'
    BY <1>2, <1>5, <2>1 DEF StartParent, ParentStartFails, BeginRead, ReadRequest,
       FindsLeftover, ReadBadRequest, ReadEnds, Closed
  <2>2. ASSUME NEW t \in Threads, AddActiveThread(c, t) \/ CreateThread(c, t)
        PROVE  SocketsKnown'
    <3>1. UNCHANGED <<socketOf, fd>> /\ \E s \in {"creating", "dispatch", "shutdown", "reading"} : Goes(c, s)
      BY <2>2 DEF AddActiveThread, CreateThread
    <3>. QED  BY <1>5, <3>1 DEF Closed
  <2>3. ASSUME DispatchFails(c), UNCHANGED connVars PROVE SocketsKnown'
    <3>1. parent' = parent \/ Goes(c, "error") \/ Goes(c, "shutdown")
      BY <2>3 DEF DispatchFails
    <3>. QED  BY <1>1, <1>5, <2>3, <3>1 DEF Closed
  <2>4. ASSUME ErrorLocks(c) \/ ErrorWrites(c) \/ ErrorUnlocks(c) PROVE SocketsKnown'
    BY <1>5, <2>4 DEF ErrorLocks, ErrorWrites, ErrorUnlocks, Closed
  <2>5. ASSUME ErrorCloses(c) PROVE SocketsKnown'
    <3>1. \A f \in Fds : socketOf'[f] \in {socketOf[f], NoConn}
      BY <2>5, ClosingFrees DEF ErrorCloses
    <3>2. \A d \in Conns : parent'[d] \in Closed => parent[d] \in Closed
      BY <2>5 DEF ErrorCloses, Goes, TypeOK, Closed
    <3>. QED  BY <2>5, <3>1, <3>2, NothingOpened DEF ErrorCloses
  <2>6. ASSUME ShutdownRead(c) \/ DrainEnds(c) \/ FreeStv(c) PROVE SocketsKnown'
    BY <1>5, <2>6 DEF ShutdownRead, DrainEnds, FreeStv, Closed
  <2>. QED
    BY <1>6, <2>1, <2>2, <2>3, <2>4, <2>5, <2>6
    DEF ParentStep, CreateThreadFails, AddActiveThreadFails
<1>7. ASSUME NEW t \in Threads, HandlerStep(t) PROVE SocketsKnown'
  <2>1. CASE HandlerCloses(t)
    <3>1. \A f \in Fds : socketOf'[f] \in {socketOf[f], NoConn}
      BY <2>1, ClosingFrees DEF HandlerCloses
    <3>. QED  BY <2>1, <3>1, NothingOpened DEF HandlerCloses
  <2>2. CASE ~HandlerCloses(t)
    BY <1>1, <1>7, <2>2 DEF HandlerStep, HandlerLocks, HandlerQuits, HandlerWrites,
       HandlerUnlocks, HandlerEnds
  <2>. QED  BY <2>1, <2>2
<1>8. ASSUME NEW t \in Threads, TouchFreedStv(t) PROVE SocketsKnown'
  BY <1>2, <1>8 DEF TouchFreedStv
<1>9. ASSUME AcceptFails \/ SigPipe \/ UNCHANGED vars PROVE SocketsKnown'
  BY <1>1, <1>2, <1>9 DEF AcceptFails, SigPipe, vars
<1>. QED  BY <1>3, <1>4, <1>6, <1>7, <1>8, <1>9 DEF Next, Stopped

(* Only a parent that gets no buffers leaks.                               *)
LeakIsScarce == \A c \in Conns : parent[c] = "leaked" => Scarce

LEMMA ScarcityStep == TypeOK /\ LeakIsScarce /\ [Next]_vars => LeakIsScarce'
<1>. SUFFICES ASSUME TypeOK, LeakIsScarce, [Next]_vars, ~Scarce PROVE LeakIsScarce'
  BY DEF LeakIsScarce
<1>1. ASSUME parent' = parent PROVE LeakIsScarce'
  BY <1>1 DEF LeakIsScarce
<1>2. ASSUME NEW c \in Conns, NEW s, s # "leaked", Goes(c, s) PROVE LeakIsScarce'
  BY <1>2 DEF LeakIsScarce, Goes, TypeOK
<1>3. ASSUME NEW c \in Conns, Accept(c) PROVE LeakIsScarce'
  BY <1>2, <1>3 DEF Accept
<1>4. ASSUME NEW c \in Conns, ParentStep(c) PROVE LeakIsScarce'
  <2>1. ~ParentStartFails(c) /\ ~AddActiveThreadFails(c)
          /\ \A t \in Threads : ~CreateThreadFails(c, t)
    BY DEF ParentStartFails, AddActiveThreadFails, CreateThreadFails
  <2>2. ASSUME \/ StartParent(c) \/ BeginRead(c) \/ ReadRequest(c) \/ ReadBadRequest(c)
               \/ ReadEnds(c)
        PROVE  LeakIsScarce'
    BY <1>2, <2>2 DEF StartParent, BeginRead, ReadRequest, ReadBadRequest, ReadEnds
  <2>3. ASSUME FindsLeftover(c) PROVE LeakIsScarce'
    BY <1>1, <1>2, <2>3 DEF FindsLeftover, ProcessDies
  <2>4. ASSUME NEW t \in Threads, AddActiveThread(c, t) \/ CreateThread(c, t)
        PROVE  LeakIsScarce'
    <3>1. \E s \in {"creating", "dispatch", "shutdown", "reading"} : Goes(c, s)
      BY <2>4 DEF AddActiveThread, CreateThread
    <3>. QED  BY <1>2, <3>1
  <2>5. ASSUME ErrorLocks(c) \/ ErrorWrites(c) \/ ErrorCloses(c) \/ ErrorUnlocks(c)
        PROVE  LeakIsScarce'
    BY <1>2, <2>5 DEF ErrorLocks, ErrorWrites, ErrorCloses, ErrorUnlocks
  <2>6. ASSUME ShutdownRead(c) \/ DrainEnds(c) \/ ParentCloses(c) \/ FreeStv(c)
        PROVE  LeakIsScarce'
    BY <1>2, <2>6 DEF ShutdownRead, DrainEnds, ParentCloses, FreeStv
  <2>. QED  BY <1>4, <2>1, <2>2, <2>3, <2>4, <2>5, <2>6 DEF ParentStep
<1>5. ASSUME NEW t \in Threads, HandlerStep(t) PROVE LeakIsScarce'
  BY <1>1, <1>5 DEF HandlerStep, HandlerLocks, HandlerQuits, HandlerWrites, HandlerCloses,
     HandlerUnlocks, HandlerEnds
<1>6. ASSUME \/ AcceptFails \/ SigPipe \/ UNCHANGED vars
             \/ \E t \in Threads : TouchFreedStv(t)
      PROVE  LeakIsScarce'
  BY <1>1, <1>6 DEF AcceptFails, SigPipe, TouchFreedStv, ProcessDies, vars
<1>7. \A c \in Conns : ~RefuseConnection(c)
  BY DEF RefuseConnection
<1>. QED  BY <1>3, <1>4, <1>5, <1>6, <1>7 DEF Next, Stopped

(* Whoever closes which number first, an open socket is that of a          *)
(* connection that still has to close its own number: main.c:113-120, the  *)
(* error responses and the end of the parent forget none.  The exception is*)
(* the parent that gets no buffers (threadroutines.c:654-658), which leaks.*)
THEOREM DescriptorsLeakOnlyAtStart == Spec => []LeaksOnlyAtStart
<1>1. Init => SocketsKnown /\ LeakIsScarce
  BY ConstantsAssumption DEF Init, SocketsKnown, LeakIsScarce
<1>2. SocketsKnown /\ LeakIsScarce => LeaksOnlyAtStart
  BY DEF SocketsKnown, LeakIsScarce, LeaksOnlyAtStart, WillClose, Closed
<1>3. Spec => [](SocketsKnown /\ LeakIsScarce)
  BY <1>1, SocketsStep, ScarcityStep, TypeCorrect, PTL DEF Spec
<1>. QED  BY <1>2, <1>3, PTL

-----------------------------------------------------------------------------
(* Clients that neither ask to close nor send what is answered by the      *)
(* parent, and few enough requests at once                                 *)

(* A parent answers an error by closing the number under its handlers, and *)
(* a handler that is to close does so under its parent; a failing "100     *)
(* Continue" is such an error, too.                                        *)
Orderly ==
  /\ MaxInFlight <= 3
  /\ Inputs \subseteq {"plain", "expect"}
  /\ Scarce => "expect" \notin Inputs

Erring == {"error"} \cup ErrHolding

(* Who serves owns its number, and nobody closes it before its time.       *)
OrderInv ==
  /\ \A c \in Conns :
       /\ parent[c] \notin Closed => OwnsDescriptor(c)
       /\ parent[c] \notin Erring
       /\ request[c] \in {"none", "plain", "served"} \cup Inputs
  /\ \A t \in Threads : handler[t] # "closing" /\ ~handlerCloses[t]

(* Steps that leave the descriptors alone.                                 *)
LEMMA OrderKept ==
  ASSUME OrderInv, UNCHANGED <<socketOf, fd>>,
         \A c \in Conns : parent'[c] \notin Erring /\ (parent[c] \in Closed => parent'[c] \in Closed),
         \A c \in Conns : request'[c] \in {"none", "plain", "served"} \cup Inputs,
         \A t \in Threads : handler'[t] # "closing" /\ ~handlerCloses'[t]
  PROVE  OrderInv'
BY DEF OrderInv, OwnsDescriptor

(* A connection gets a number of its own, and all others keep theirs.      *)
LEMMA AcceptingIsOrderly ==
  ASSUME TypeOK, OrderInv, NEW c \in Conns, Accept(c)
  PROVE  OrderInv'
<1>1. PICK f \in FreeFds : /\ fd' = [fd EXCEPT ![c] = f]
                           /\ socketOf' = [socketOf EXCEPT ![f] = c]
  BY DEF Accept
<1>2. /\ f \in Fds /\ socketOf[f] = NoConn /\ f # NoFd
      /\ \A d \in Conns : parent'[d] = IF d = c THEN "accepted" ELSE parent[d]
      /\ \A d \in Conns : fd'[d] = IF d = c THEN f ELSE fd[d]
      /\ \A g \in Fds : socketOf'[g] = IF g = f THEN c ELSE socketOf[g]
      /\ UNCHANGED <<request, handler, handlerCloses>>
  BY <1>1, ConstantsAssumption DEF Accept, Goes, TypeOK, FreeFds, handlerVars, NoFd
<1>3. ASSUME NEW d \in Conns, parent'[d] \notin Closed PROVE OwnsDescriptor(d)'
  <2>1. CASE d = c
    BY <1>2, <2>1 DEF OwnsDescriptor
  <2>2. CASE d # c
    <3>1. fd[d] \in Fds /\ socketOf[fd[d]] = d /\ fd[d] # NoFd
      BY <1>2, <1>3, <2>2 DEF OrderInv, OwnsDescriptor, TypeOK
    <3>2. fd[d] # f
      BY <1>2, <3>1, ConstantsAssumption
    <3>. QED  BY <1>2, <2>2, <3>1, <3>2 DEF OwnsDescriptor
  <2>. QED  BY <2>1, <2>2
<1>4. "accepted" \notin Erring
  BY DEF Erring, ErrHolding
<1>. QED  BY <1>2, <1>3, <1>4 DEF OrderInv

(* A connection closes its own number, and no other's.                     *)
LEMMA GivingUpIsOrderly ==
  ASSUME TypeOK, OrderInv, NEW c \in Conns, parent[c] \notin Closed, NEW s \in Closed,
         CloseFd(c), Goes(c, s), UNCHANGED <<fd, request, handler, handlerCloses>>
  PROVE  OrderInv'
<1>1. /\ \A d \in Conns : parent'[d] = IF d = c THEN s ELSE parent[d]
      /\ \A f \in Fds : socketOf'[f] = IF f = fd[c] THEN NoConn ELSE socketOf[f]
  BY ClosingFrees DEF Goes, TypeOK
<1>2. socketOf[fd[c]] = c
  BY DEF OrderInv, OwnsDescriptor
<1>3. ASSUME NEW d \in Conns, parent'[d] \notin Closed PROVE OwnsDescriptor(d)'
  <2>1. d # c /\ fd[d] # NoFd /\ fd[d] \in Fds /\ socketOf[fd[d]] = d
    BY <1>1, <1>3 DEF OrderInv, OwnsDescriptor, TypeOK
  <2>2. fd[d] # fd[c]
    BY <1>2, <2>1
  <2>. QED  BY <1>1, <2>1, <2>2 DEF OwnsDescriptor
<1>4. s \notin Erring
  BY DEF Erring, ErrHolding, Closed
<1>. QED  BY <1>1, <1>3, <1>4 DEF OrderInv

(* What is dispatched does not close, and its failure is no error.         *)
LEMMA OrderStep == Orderly => (TypeOK /\ OrderInv /\ [Next]_vars => OrderInv')
<1>. SUFFICES ASSUME Orderly, TypeOK, OrderInv, [Next]_vars PROVE OrderInv'
  OBVIOUS
<1>. USE DEF connVars, handlerVars
<1>0. \A c \in Conns : request[c] \in {"none", "plain", "served", "expect"} /\ (Scarce => request[c] # "expect")
  BY DEF OrderInv, Orderly
<1>1. ASSUME UNCHANGED <<socketOf, fd, parent, request, handlerCloses>>,
             \A t \in Threads : handler'[t] # "closing"
      PROVE  OrderInv'
  BY <1>1 DEF OrderInv, OwnsDescriptor
<1>2. ASSUME ProcessDies PROVE OrderInv'
  BY <1>1, <1>2 DEF ProcessDies, OrderInv
<1>3. ASSUME NEW c \in Conns, Accept(c) PROVE OrderInv'
  BY <1>3, AcceptingIsOrderly
<1>4. ASSUME NEW c \in Conns, RefuseConnection(c) \/ ParentCloses(c) PROVE OrderInv'
  <2>1. /\ parent[c] \notin Closed /\ CloseFd(c) /\ UNCHANGED <<fd, request, handler, handlerCloses>>
        /\ Goes(c, "refused") \/ Goes(c, "freeing")
    BY <1>4 DEF RefuseConnection, ParentCloses, Closed
  <2>. QED  BY <2>1, GivingUpIsOrderly DEF Closed
<1>5. ASSUME NEW c \in Conns, NEW s, Goes(c, s), s \notin Erring,
             parent[c] \in Closed => s \in Closed,
             UNCHANGED <<socketOf, fd>>,
             \A d \in Conns : request'[d] \in {"none", "plain", "served"} \cup Inputs,
             \A t \in Threads : handler'[t] # "closing" /\ ~handlerCloses'[t]
      PROVE  OrderInv'
  <2>1. \A d \in Conns : parent'[d] = IF d = c THEN s ELSE parent[d]
    BY <1>5 DEF Goes, TypeOK
  <2>2. \A d \in Conns : parent'[d] \notin Erring /\ (parent[d] \in Closed => parent'[d] \in Closed)
    BY <1>5, <2>1 DEF OrderInv
  <2>. QED  BY <1>5, <2>2, OrderKept
<1>6. ASSUME NEW c \in Conns, NEW s, Goes(c, s), s \notin Erring,
             parent[c] \in Closed => s \in Closed,
             UNCHANGED <<socketOf, fd, request, handler, handlerCloses>>
      PROVE  OrderInv'
  BY <1>5, <1>6 DEF OrderInv
<1>7. ASSUME NEW c \in Conns, ParentStep(c), ~ParentCloses(c) PROVE OrderInv'
  <2>1. ASSUME StartParent(c) \/ ParentStartFails(c) PROVE OrderInv'
    BY <1>2, <1>6, <2>1 DEF StartParent, ParentStartFails, Erring, ErrHolding, Closed
  <2>2. ASSUME BeginRead(c) PROVE OrderInv'
    <3>1. socketOf[fd[c]] # NoConn
      BY <2>2, ConstantsAssumption DEF BeginRead, OrderInv, OwnsDescriptor, Closed
    <3>2. \A d \in Conns : request'[d] \in {"none", "plain", "served"} \cup Inputs
      BY <2>2 DEF BeginRead, OrderInv, TypeOK
    <3>3. Goes(c, "blocked") /\ UNCHANGED <<socketOf, fd, handler, handlerCloses>>
            /\ parent[c] \notin Closed
      BY <2>2, <3>1 DEF BeginRead, Closed
    <3>. QED  BY <1>5, <3>2, <3>3 DEF OrderInv, Erring, ErrHolding
  <2>12. ASSUME FindsLeftover(c) PROVE OrderInv'
    BY <2>12, ConstantsAssumption DEF FindsLeftover, OrderInv, OwnsDescriptor, Closed
  <2>3. ASSUME ReadRequest(c) PROVE OrderInv'
    <3>1. \A d \in Conns : request'[d] \in {"none", "plain", "served"} \cup Inputs
      BY <2>3 DEF ReadRequest, OrderInv, TypeOK
    <3>2. Goes(c, "dispatch") /\ UNCHANGED <<socketOf, fd, handler, handlerCloses>>
            /\ parent[c] \notin Closed
      BY <2>3 DEF ReadRequest, Closed
    <3>. QED  BY <1>5, <3>1, <3>2 DEF OrderInv, Erring, ErrHolding
  <2>4. ASSUME ReadBadRequest(c) PROVE OrderInv'
    BY <2>4 DEF ReadBadRequest, Orderly
  <2>5. ASSUME ReadEnds(c) \/ ShutdownRead(c) \/ DrainEnds(c) \/ FreeStv(c) PROVE OrderInv'
    BY <1>6, <2>5 DEF ReadEnds, ShutdownRead, DrainEnds, FreeStv, Erring, ErrHolding, Closed
  <2>6. ASSUME NEW t \in Threads, AddActiveThread(c, t) PROVE OrderInv'
    <3>1. ~HandlerWillClose(request[c])
      BY <1>0 DEF HandlerWillClose
    <3>2. \A u \in Threads : handler'[u] # "closing" /\ ~handlerCloses'[u]
      BY <2>6, <3>1 DEF AddActiveThread, Moves, OrderInv, TypeOK
    <3>3. /\ Goes(c, "creating") /\ parent[c] \notin Closed
          /\ UNCHANGED <<socketOf, fd, request>>
      BY <2>6 DEF AddActiveThread, Closed
    <3>4. "creating" \notin Erring
      BY DEF Erring, ErrHolding
    <3>. QED  BY <1>5, <3>2, <3>3, <3>4 DEF OrderInv
  <2>7. ASSUME NEW t \in Threads, CreateThread(c, t) PROVE OrderInv'
    <3>1. \A u \in Threads : handler'[u] # "closing" /\ ~handlerCloses'[u]
      BY <2>7 DEF CreateThread, Moves, OrderInv, TypeOK
    <3>2. \A d \in Conns : request'[d] \in {"none", "plain", "served"} \cup Inputs
      BY <2>7 DEF CreateThread, OrderInv, TypeOK
    <3>3. /\ \E s \in {"dispatch", "shutdown", "reading"} : Goes(c, s)
          /\ parent[c] \notin Closed /\ UNCHANGED <<socketOf, fd>>
      BY <2>7 DEF CreateThread, Closed
    <3>4. \A s \in {"dispatch", "shutdown", "reading"} : s \notin Erring
      BY DEF Erring, ErrHolding
    <3>. QED  BY <1>5, <3>1, <3>2, <3>3, <3>4
  <2>8. ASSUME DispatchFails(c), Scarce, parent[c] \in {"creating", "dispatch"},
               UNCHANGED <<socketOf, fd>>,
               \A t \in Threads : handler'[t] # "closing" /\ ~handlerCloses'[t]
        PROVE  OrderInv'
    <3>1. request[c] # "expect"
      BY <1>0, <2>8
    <3>2. Goes(c, "shutdown") /\ request' = [request EXCEPT ![c] = "none"]
      BY <2>8, <3>1 DEF DispatchFails
    <3>3. \A d \in Conns : request'[d] \in {"none", "plain", "served"} \cup Inputs
      BY <3>2 DEF OrderInv, TypeOK
    <3>. QED  BY <1>5, <2>8, <3>2, <3>3 DEF Erring, ErrHolding, Closed
  <2>9. ASSUME NEW t \in Threads, CreateThreadFails(c, t) PROVE OrderInv'
    <3>1. \A u \in Threads : handler'[u] # "closing" /\ ~handlerCloses'[u]
      BY <2>9 DEF CreateThreadFails, ThreadIsOver, OrderInv, TypeOK
    <3>. QED  BY <2>8, <2>9, <3>1 DEF CreateThreadFails
  <2>10. ASSUME AddActiveThreadFails(c) PROVE OrderInv'
    BY <2>8, <2>10 DEF AddActiveThreadFails, OrderInv
  <2>11. ASSUME ErrorLocks(c) \/ ErrorWrites(c) \/ ErrorCloses(c) \/ ErrorUnlocks(c)
         PROVE  OrderInv'
    BY <2>11 DEF ErrorLocks, ErrorWrites, ErrorCloses, ErrorUnlocks, OrderInv, Erring, ErrHolding
  <2>. QED
    BY <1>7, <2>1, <2>2, <2>3, <2>4, <2>5, <2>6, <2>7, <2>9, <2>10, <2>11, <2>12
    DEF ParentStep
<1>8. ASSUME NEW t \in Threads, HandlerStep(t) PROVE OrderInv'
  <2>1. ASSUME NEW s, s # "closing", Moves(t, s),
               UNCHANGED <<socketOf, fd, parent, request, handlerCloses>>
        PROVE  OrderInv'
    <3>1. \A u \in Threads : handler'[u] # "closing"
      BY <2>1 DEF Moves, OrderInv, TypeOK
    <3>. QED  BY <1>1, <2>1, <3>1
  <2>2. ASSUME HandlerLocks(t) \/ HandlerQuits(t) \/ HandlerUnlocks(t) PROVE OrderInv'
    BY <2>1, <2>2 DEF HandlerLocks, HandlerQuits, HandlerUnlocks
  <2>3. ASSUME HandlerWrites(t) PROVE OrderInv'
    <3>1. ~handlerCloses[t]
      BY DEF OrderInv
    <3>. QED  BY <2>1, <2>3, <3>1 DEF HandlerWrites
  <2>4. ~HandlerCloses(t)
    BY DEF HandlerCloses, OrderInv
  <2>5. ASSUME HandlerEnds(t) PROVE OrderInv'
    <3>1. \A u \in Threads : handler'[u] # "closing" /\ ~handlerCloses'[u]
      BY <2>5 DEF HandlerEnds, ThreadIsOver, OrderInv, TypeOK
    <3>. QED  BY <2>5, <3>1 DEF HandlerEnds, OrderInv, OwnsDescriptor
  <2>. QED  BY <1>8, <2>2, <2>3, <2>4, <2>5 DEF HandlerStep
<1>9. ASSUME NEW t \in Threads, TouchFreedStv(t) PROVE OrderInv'
  BY <1>2, <1>9 DEF TouchFreedStv
<1>10. ASSUME AcceptFails \/ SigPipe \/ UNCHANGED vars PROVE OrderInv'
  BY <1>1, <1>2, <1>10 DEF AcceptFails, SigPipe, vars, OrderInv
<1>. QED  BY <1>3, <1>4, <1>7, <1>8, <1>9, <1>10 DEF Next, Stopped

(* At the start nobody has a descriptor.                                   *)
LEMMA OrderInit == Init => OrderInv
BY DEF Init, OrderInv, Closed, Erring, ErrHolding

(* So it is from then on.                                                  *)
LEMMA OrderHolds == Orderly => (Spec => []OrderInv)
<1>. SUFFICES ASSUME Orderly PROVE Spec => []OrderInv
  OBVIOUS
<1>1. TypeOK /\ OrderInv /\ [Next]_vars => OrderInv'
  BY OrderStep
<1>. QED  BY <1>1, OrderInit, TypeCorrect, PTL DEF Spec

(* A handler at work is in the list of its connection, so that connection  *)
(* is being served.                                                        *)
LEMMA LiveIsServed ==
  ASSUME IInv, MaxInFlight <= 3, NEW t \in Threads, handler[t] # "idle"
  PROVE  handlerConn[t] \in Conns /\ parent[handlerConn[t]] \notin NotServing
<1>1. handlerConn[t] \in Conns
  BY DEF IInv, LiveHasConnection
<1>2. ListsInv
  BY IInvMeans
<1>3. \E i \in DOMAIN activeThreads[handlerConn[t]] : TRUE
  BY <1>1, <1>2 DEF ListsInv
<1>4. activeThreads[handlerConn[t]] # << >>
  BY <1>3
<1>. QED  BY <1>1, <1>2, <1>4 DEF ListsInv

(* The two invariants together say whose socket stv->fd names.             *)
LEMMA OrderMeansOwn ==
  ASSUME IInv, OrderInv, MaxInFlight <= 3
  PROVE  DescriptorIsOwn
<1>1. ASSUME NEW t \in Threads, handler[t] \in {"writing", "closing"}
      PROVE  OwnsDescriptor(handlerConn[t])
  <2>1. handlerConn[t] \in Conns /\ parent[handlerConn[t]] \notin NotServing
    BY <1>1, LiveIsServed
  <2>. QED  BY <2>1 DEF OrderInv, NotServing, Closed
<1>. QED  BY <1>1 DEF DescriptorIsOwn, OrderInv, Closed

(* From accept() to the parent's own close() (threadroutines.c:1010-1022)  *)
(* stv->fd names the connection's socket, for the parent and for every     *)
(* handler, as long as nobody makes a handler or an error response close.  *)
THEOREM DescriptorStaysOwn == Orderly => (Spec => []DescriptorIsOwn)
<1>. SUFFICES ASSUME Orderly PROVE Spec => []DescriptorIsOwn
  OBVIOUS
<1>1. IInv /\ OrderInv => DescriptorIsOwn
  BY OrderMeansOwn DEF Orderly
<1>2. Spec => []OrderInv
  BY OrderHolds
<1>. QED  BY <1>1, <1>2, IInvHolds, PTL

(* With sockets that are its own, a connection's mutex is as good as one   *)
(* of the socket: two responses are never written to it at a time.         *)
THEOREM OneResponseAtATime == Orderly => (Spec => []ResponsesDoNotInterleave)
<1>. SUFFICES ASSUME Orderly PROVE Spec => []ResponsesDoNotInterleave
  OBVIOUS
<1>1. ASSUME IInv, OrderInv, MutexInv PROVE ResponsesDoNotInterleave
  <2>. SUFFICES ASSUME NEW s \in Conns, NEW x \in Writers(s), NEW y \in Writers(s)
                PROVE  x = y
    BY DEF ResponsesDoNotInterleave
  <2>1. DescriptorIsOwn
    BY <1>1, OrderMeansOwn DEF Orderly
  <2>2. ASSUME NEW z \in Writers(s)
        PROVE  z \in Threads /\ handler[z] \in Holding /\ handlerConn[z] = s
    <3>1. ~ \E c \in Conns : parent[c] = "errWriting"
      BY <1>1 DEF OrderInv, Erring, ErrHolding
    <3>2. z \in Threads /\ handler[z] = "writing" /\ socketOf[fd[handlerConn[z]]] = s
      BY <2>2, <3>1 DEF Writers
    <3>3. OwnsDescriptor(handlerConn[z])
      BY <2>1, <3>2 DEF DescriptorIsOwn
    <3>. QED  BY <3>2, <3>3 DEF OwnsDescriptor, Holding
  <2>. QED  BY <1>1, <2>2 DEF MutexInv
<1>2. Spec => []OrderInv
  BY OrderHolds
<1>. QED  BY <1>1, <1>2, IInvHolds, MutexExcludes, PTL

-----------------------------------------------------------------------------
(* The protocol of threadroutines.h                                        *)

(* The state the protocol sees of this one.                                *)
Phases == [c \in Conns |-> Phase(c)]
Busy   == [c \in Conns |-> Live(c)]

(* A step it does not see.                                                 *)
LEMMA Unseen ==
  ASSUME \A c \in Conns : Phase(c)' = Phase(c) /\ Live(c)' = Live(c)
  PROVE  UNCHANGED <<Phases, Busy>>
BY DEF Phases, Busy

(* Descriptors stay, parents neither come nor go.                          *)
LEMMA SamePhase ==
  ASSUME UNCHANGED <<socketOf, fd>>, NEW c, parent'[c] = "none" <=> parent[c] = "none"
  PROVE  Phase(c)' = Phase(c)
BY DEF Phase, OwnsDescriptor

(* Handlers stay at work or idle.                                          *)
LEMMA SameLive ==
  ASSUME handlerConn' = handlerConn, NEW c,
         \A t \in Threads : handler'[t] = "idle" <=> handler[t] = "idle"
  PROVE  Live(c)' = Live(c)
BY DEF Live

(* A parent goes on.                                                       *)
LEMMA GoingIsUnseen ==
  ASSUME TypeOK, NEW c \in Conns, parent[c] # "none", NEW s, s # "none", Goes(c, s),
         UNCHANGED <<socketOf, fd, handler, handlerConn>>
  PROVE  UNCHANGED <<Phases, Busy>>
<1>1. \A d \in Conns : parent'[d] = "none" <=> parent[d] = "none"
  BY DEF Goes, TypeOK
<1>. QED  BY <1>1, SamePhase, SameLive, Unseen

(* A handler goes on.                                                      *)
LEMMA MovingIsUnseen ==
  ASSUME TypeOK, NEW t \in Threads, handler[t] # "idle", NEW s, s # "idle", Moves(t, s),
         UNCHANGED <<socketOf, fd, parent, handlerConn>>
  PROVE  UNCHANGED <<Phases, Busy>>
<1>1. \A u \in Threads : handler'[u] = "idle" <=> handler[u] = "idle"
  BY DEF Moves, TypeOK
<1>. QED  BY <1>1, SamePhase, SameLive, Unseen

(* accept() opens, with a number nobody owns.                              *)
LEMMA AcceptOpens ==
  ASSUME TypeOK, OrderInv, NEW c \in Conns, Accept(c)
  PROVE  Protocol!Open(c)
<1>1. PICK f \in FreeFds : /\ fd' = [fd EXCEPT ![c] = f]
                           /\ socketOf' = [socketOf EXCEPT ![f] = c]
  BY DEF Accept
<1>2. /\ f \in Fds /\ socketOf[f] = NoConn /\ f # NoFd /\ parent[c] = "none"
      /\ \A d \in Conns : parent'[d] = IF d = c THEN "accepted" ELSE parent[d]
      /\ \A d \in Conns : fd'[d] = IF d = c THEN f ELSE fd[d]
      /\ \A g \in Fds : socketOf'[g] = IF g = f THEN c ELSE socketOf[g]
      /\ UNCHANGED <<handler, handlerConn>>
  BY <1>1, ConstantsAssumption DEF Accept, Goes, TypeOK, FreeFds, handlerVars, NoFd
<1>3. Phase(c) = "new" /\ Phase(c)' = "open"
  BY <1>2 DEF Phase, OwnsDescriptor
<1>4. ASSUME NEW d \in Conns, d # c PROVE Phase(d)' = Phase(d)
  <2>1. fd[d] # NoFd => fd[d] \in Fds
    BY DEF TypeOK
  <2>2. CASE fd[d] = f
    <3>1. ~OwnsDescriptor(d) /\ ~OwnsDescriptor(d)'
      BY <1>2, <1>4, <2>2, ConstantsAssumption DEF OwnsDescriptor
    <3>. QED  BY <1>2, <1>4, <3>1 DEF Phase
  <2>3. CASE fd[d] # f
    <3>1. OwnsDescriptor(d)' <=> OwnsDescriptor(d)
      BY <1>2, <1>4, <2>1, <2>3 DEF OwnsDescriptor
    <3>. QED  BY <1>2, <1>4, <3>1 DEF Phase
  <2>. QED  BY <2>2, <2>3
<1>5. Phases' = [Phases EXCEPT ![c] = "open"] /\ Phases[c] = "new"
  BY <1>3, <1>4 DEF Phases
<1>6. Busy' = Busy
  BY <1>2, SameLive DEF Busy
<1>. QED  BY <1>5, <1>6 DEF Protocol!Open, Phases, Busy

(* The parent's close, and main's of a connection it cannot serve, close   *)
(* after the last handler, and no other connection with it.                *)
LEMMA GivingUpCloses ==
  ASSUME TypeOK, IInv, OrderInv, MaxInFlight <= 3,
         NEW c \in Conns, parent[c] \in {"closing", "accepted"}, NEW s \in Closed, s # "none",
         CloseFd(c), Goes(c, s), UNCHANGED <<fd, handler, handlerConn>>
  PROVE  Protocol!Close(c)
<1>1. /\ \A d \in Conns : parent'[d] = IF d = c THEN s ELSE parent[d]
      /\ \A f \in Fds : socketOf'[f] = IF f = fd[c] THEN NoConn ELSE socketOf[f]
  BY ClosingFrees DEF Goes, TypeOK
<1>2. OwnsDescriptor(c) /\ fd[c] \in Fds
  BY DEF OrderInv, Closed, OwnsDescriptor, TypeOK
<1>3. Phase(c) = "open" /\ Phase(c)' = "closed"
  <2>1. parent[c] # "none" /\ parent'[c] = s /\ s # "none"
    BY <1>1
  <2>2. Phase(c) = "open"
    BY <1>2, <2>1 DEF Phase
  <2>3. fd'[c] = fd[c] /\ socketOf'[fd[c]] = NoConn /\ NoConn # c
    BY <1>1, <1>2, ConstantsAssumption
  <2>4. ~OwnsDescriptor(c)'
    BY <2>3 DEF OwnsDescriptor
  <2>. QED  BY <2>1, <2>2, <2>4 DEF Phase
<1>4. ASSUME NEW d \in Conns, d # c PROVE Phase(d)' = Phase(d)
  <2>1. fd[d] # NoFd => fd[d] \in Fds
    BY DEF TypeOK
  <2>2. CASE fd[d] = fd[c]
    <3>1. ~OwnsDescriptor(d) /\ ~OwnsDescriptor(d)'
      BY <1>1, <1>2, <1>4, <2>1, <2>2, ConstantsAssumption DEF OwnsDescriptor
    <3>. QED  BY <1>1, <1>4, <3>1 DEF Phase
  <2>3. CASE fd[d] # fd[c]
    <3>1. OwnsDescriptor(d)' <=> OwnsDescriptor(d)
      BY <1>1, <2>1, <2>3 DEF OwnsDescriptor
    <3>. QED  BY <1>1, <1>4, <3>1 DEF Phase
  <2>. QED  BY <2>2, <2>3
<1>5. Phases' = [Phases EXCEPT ![c] = "closed"] /\ Phases[c] = "open"
  BY <1>3, <1>4 DEF Phases
<1>6. Busy' = Busy
  BY SameLive DEF Busy
<1>7. Busy[c] = {}
  BY LiveIsServed DEF Busy, Live, NotServing
<1>. QED  BY <1>5, <1>6, <1>7 DEF Protocol!Close, Phases, Busy

(* add_activethread is where a handler begins.                             *)
LEMMA ListingBegins ==
  ASSUME TypeOK, OrderInv, NEW c \in Conns, NEW t \in Threads, AddActiveThread(c, t)
  PROVE  Protocol!Begin(c, t)
<1>1. /\ handler[t] = "idle" /\ parent[c] = "dispatch" /\ UNCHANGED <<socketOf, fd>>
      /\ \A u \in Threads : handler'[u] = IF u = t THEN "listed" ELSE handler[u]
      /\ \A u \in Threads : handlerConn'[u] = IF u = t THEN c ELSE handlerConn[u]
      /\ \A d \in Conns : parent'[d] = IF d = c THEN "creating" ELSE parent[d]
  BY DEF AddActiveThread, Moves, Goes, TypeOK, connVars
<1>2. Phases' = Phases
  BY <1>1, SamePhase DEF Phases
<1>3. Phases[c] = "open"
  BY <1>1 DEF Phases, Phase, OrderInv, Closed
<1>4. \A d \in Conns : t \notin Busy[d]
  BY <1>1 DEF Busy, Live
<1>5. ASSUME NEW d \in Conns PROVE Live(d)' = IF d = c THEN Live(d) \cup {t} ELSE Live(d)
  BY <1>1 DEF Live
<1>6. Busy' = [Busy EXCEPT ![c] = @ \cup {t}]
  BY <1>5 DEF Busy
<1>. QED  BY <1>2, <1>3, <1>4, <1>6 DEF Protocol!Begin, Phases, Busy

(* A thread that is over finishes.                                         *)
LEMMA BeingOverFinishes ==
  ASSUME TypeOK, IInv, OrderInv, MaxInFlight <= 3,
         NEW t \in Threads, handler[t] # "idle", ThreadIsOver(t), UNCHANGED <<socketOf, fd>>,
         \A c \in Conns : parent'[c] = "none" <=> parent[c] = "none"
  PROVE  \E c \in Conns : Protocol!Finish(c, t)
<1>1. PICK c \in Conns : handlerConn[t] = c /\ parent[c] \notin NotServing
  BY LiveIsServed
<1>2. /\ \A u \in Threads : handler'[u] = IF u = t THEN "idle" ELSE handler[u]
      /\ \A u \in Threads : u # t => handlerConn'[u] = handlerConn[u]
  BY DEF ThreadIsOver, TypeOK
<1>3. Phases' = Phases
  BY SamePhase DEF Phases
<1>4. Phases[c] = "open"
  BY <1>1 DEF Phases, Phase, OrderInv, Closed, NotServing
<1>5. ASSUME NEW d \in Conns PROVE Live(d)' = IF d = c THEN Live(d) \ {t} ELSE Live(d)
  BY <1>1, <1>2 DEF Live
<1>6. Busy' = [Busy EXCEPT ![c] = @ \ {t}]
  BY <1>5 DEF Busy
<1>7. t \in Busy[c]
  BY <1>1 DEF Busy, Live
<1>. QED  BY <1>3, <1>4, <1>6, <1>7 DEF Protocol!Finish, Phases, Busy

(* Every step is one of the protocol's or is not seen by it.               *)
LEMMA StepFollows ==
  Orderly => (IInv /\ OrderInv /\ [Next]_vars => Protocol!Next \/ UNCHANGED <<Phases, Busy>>)
<1>. SUFFICES ASSUME Orderly, IInv, OrderInv, [Next]_vars
              PROVE  Protocol!Next \/ UNCHANGED <<Phases, Busy>>
  OBVIOUS
<1>. USE DEF connVars, handlerVars
<1>0. TypeOK /\ MaxInFlight <= 3
  BY DEF IInv, Orderly
<1>1. ASSUME UNCHANGED <<socketOf, fd, parent, handler, handlerConn>>
      PROVE  UNCHANGED <<Phases, Busy>>
  BY <1>1, SamePhase, SameLive, Unseen
<1>2. ASSUME ProcessDies PROVE UNCHANGED <<Phases, Busy>>
  BY <1>1, <1>2 DEF ProcessDies
<1>3. ASSUME NEW c \in Conns, Accept(c) PROVE Protocol!Next
  <2>1. Protocol!Open(c)
    BY <1>0, <1>3, AcceptOpens
  <2>. QED  BY <2>1 DEF Protocol!Next
<1>4. ASSUME NEW c \in Conns, RefuseConnection(c) \/ ParentCloses(c) PROVE Protocol!Next
  <2>1. /\ parent[c] \in {"closing", "accepted"}
        /\ \E s \in Closed : s # "none" /\ Goes(c, s)
        /\ CloseFd(c) /\ UNCHANGED <<fd, handler, handlerConn>>
    BY <1>4 DEF RefuseConnection, ParentCloses, Closed
  <2>2. Protocol!Close(c)
    BY <1>0, <2>1, GivingUpCloses
  <2>. QED  BY <2>2 DEF Protocol!Next
<1>5. ASSUME NEW c \in Conns, NEW s, s # "none", parent[c] # "none", Goes(c, s),
             UNCHANGED <<socketOf, fd, handler, handlerConn>>
      PROVE  UNCHANGED <<Phases, Busy>>
  BY <1>0, <1>5, GoingIsUnseen
<1>6. ASSUME NEW c \in Conns, ParentStep(c), ~ParentCloses(c)
      PROVE  Protocol!Next \/ UNCHANGED <<Phases, Busy>>
  <2>1. ASSUME \/ StartParent(c) \/ ParentStartFails(c) \/ BeginRead(c) \/ ReadRequest(c)
               \/ FindsLeftover(c) \/ ReadBadRequest(c) \/ ReadEnds(c) \/ ShutdownRead(c) \/ DrainEnds(c)
               \/ FreeStv(c)
        PROVE  UNCHANGED <<Phases, Busy>>
    BY <1>2, <1>5, <2>1 DEF StartParent, ParentStartFails, BeginRead, ReadRequest,
       FindsLeftover, ReadBadRequest, ReadEnds, ShutdownRead, DrainEnds, FreeStv
  <2>2. ASSUME NEW t \in Threads, AddActiveThread(c, t) PROVE Protocol!Next
    <3>1. Protocol!Begin(c, t)
      BY <1>0, <2>2, ListingBegins
    <3>. QED  BY <3>1 DEF Protocol!Next
  <2>3. ASSUME NEW t \in Threads, CreateThread(c, t) PROVE UNCHANGED <<Phases, Busy>>
    <3>1. /\ \A u \in Threads : handler'[u] = "idle" <=> handler[u] = "idle"
          /\ \A d \in Conns : parent'[d] = "none" <=> parent[d] = "none"
          /\ UNCHANGED <<socketOf, fd, handlerConn>>
      BY <1>0, <2>3 DEF CreateThread, Moves, Goes, TypeOK
    <3>. QED  BY <3>1, SamePhase, SameLive, Unseen
  <2>4. ASSUME DispatchFails(c), parent[c] # "none"
        PROVE  \A d \in Conns : parent'[d] = "none" <=> parent[d] = "none"
    BY <1>0, <2>4 DEF DispatchFails, Goes, TypeOK
  <2>5. ASSUME NEW t \in Threads, CreateThreadFails(c, t) PROVE Protocol!Next
    <3>1. /\ handler[t] # "idle" /\ ThreadIsOver(t) /\ UNCHANGED <<socketOf, fd>>
          /\ DispatchFails(c) /\ parent[c] # "none"
      BY <2>5 DEF CreateThreadFails
    <3>2. \E d \in Conns : Protocol!Finish(d, t)
      BY <1>0, <2>4, <3>1, BeingOverFinishes
    <3>. QED  BY <3>2 DEF Protocol!Next
  <2>6. ASSUME AddActiveThreadFails(c) PROVE UNCHANGED <<Phases, Busy>>
    <3>1. /\ \A d \in Conns : parent'[d] = "none" <=> parent[d] = "none"
          /\ UNCHANGED <<socketOf, fd, handler, handlerConn>>
      BY <2>4, <2>6 DEF AddActiveThreadFails
    <3>. QED  BY <3>1, SamePhase, SameLive, Unseen
  <2>7. ~(ErrorLocks(c) \/ ErrorWrites(c) \/ ErrorCloses(c) \/ ErrorUnlocks(c))
    BY DEF ErrorLocks, ErrorWrites, ErrorCloses, ErrorUnlocks, OrderInv, Erring, ErrHolding
  <2>. QED  BY <1>6, <2>1, <2>2, <2>3, <2>5, <2>6, <2>7 DEF ParentStep
<1>7. ASSUME NEW t \in Threads, HandlerStep(t)
      PROVE  Protocol!Next \/ UNCHANGED <<Phases, Busy>>
  <2>1. ASSUME NEW s, s # "idle", handler[t] # "idle", Moves(t, s),
               UNCHANGED <<socketOf, fd, parent, handlerConn>>
        PROVE  UNCHANGED <<Phases, Busy>>
    BY <1>0, <2>1, MovingIsUnseen
  <2>2. ASSUME HandlerLocks(t) \/ HandlerQuits(t) \/ HandlerWrites(t) \/ HandlerUnlocks(t)
        PROVE  UNCHANGED <<Phases, Busy>>
    BY <2>1, <2>2 DEF HandlerLocks, HandlerQuits, HandlerWrites, HandlerUnlocks
  <2>3. ~HandlerCloses(t)
    BY DEF HandlerCloses, OrderInv
  <2>4. ASSUME HandlerEnds(t) PROVE Protocol!Next
    <3>1. \E c \in Conns : Protocol!Finish(c, t)
      BY <1>0, <2>4, BeingOverFinishes DEF HandlerEnds
    <3>. QED  BY <3>1 DEF Protocol!Next
  <2>. QED  BY <1>7, <2>2, <2>3, <2>4 DEF HandlerStep
<1>8. ASSUME NEW t \in Threads, TouchFreedStv(t) PROVE UNCHANGED <<Phases, Busy>>
  BY <1>2, <1>8 DEF TouchFreedStv
<1>9. ASSUME AcceptFails \/ SigPipe \/ UNCHANGED vars PROVE UNCHANGED <<Phases, Busy>>
  BY <1>1, <1>2, <1>9 DEF AcceptFails, SigPipe, vars
<1>. QED  BY <1>3, <1>4, <1>6, <1>7, <1>8, <1>9 DEF Next, Stopped

(* The threads keep the promise of threadroutines.h:40-48: the socket is   *)
(* closed once, by its own connection, after its last handler.             *)
THEOREM KeepsTheProtocol == Orderly => (Spec => ImplementsProtocol)
<1>. SUFFICES ASSUME Orderly PROVE Spec => Protocol!Spec
  BY DEF ImplementsProtocol
<1>1. Init => Protocol!Init
  <2>. SUFFICES ASSUME Init PROVE Protocol!Init
    OBVIOUS
  <2>1. \A c \in Conns : Phase(c) = "new" /\ Live(c) = {}
    BY DEF Init, Phase, Live
  <2>. QED  BY <2>1 DEF Protocol!Init
<1>2. IInv /\ OrderInv /\ [Next]_vars => [Protocol!Next]_(Protocol!vars)
  BY StepFollows DEF Protocol!vars, Phases, Busy
<1>3. Spec => []OrderInv
  BY OrderHolds
<1>. QED  BY <1>1, <1>2, <1>3, IInvHolds, PTL DEF Spec, Protocol!Spec

=============================================================================
