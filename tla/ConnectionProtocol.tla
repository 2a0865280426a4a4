------------------------- MODULE ConnectionProtocol -------------------------
(***************************************************************************)
(* What server/include/threadroutines.h:40-48 promises of a connection,    *)
(* without threads, lists or descriptors: a connection is opened, handlers *)
(* work for it, and its socket is closed once, after the last of them.     *)
(***************************************************************************)
CONSTANTS Conns,     \* the connections
          Threads    \* the handler threads

VARIABLES phase,     \* [Conns -> {"new", "open", "closed"}]
          busy       \* [Conns -> SUBSET Threads]: the handlers at work

vars == <<phase, busy>>

Init == /\ phase = [c \in Conns |-> "new"]
        /\ busy  = [c \in Conns |-> {}]

Open(c) == /\ phase[c] = "new"
           /\ phase' = [phase EXCEPT ![c] = "open"]
           /\ UNCHANGED busy

Begin(c, t) == /\ phase[c] = "open"
               /\ \A d \in Conns : t \notin busy[d]
               /\ busy' = [busy EXCEPT ![c] = @ \cup {t}]
               /\ UNCHANGED phase

Finish(c, t) == /\ phase[c] = "open"
                /\ t \in busy[c]
                /\ busy' = [busy EXCEPT ![c] = @ \ {t}]
                /\ UNCHANGED phase

Close(c) == /\ phase[c] = "open"
            /\ busy[c] = {}
            /\ phase' = [phase EXCEPT ![c] = "closed"]
            /\ UNCHANGED busy

Next == \E c \in Conns : \/ Open(c)
                         \/ Close(c)
                         \/ \E t \in Threads : Begin(c, t) \/ Finish(c, t)

Spec == Init /\ [][Next]_vars

=============================================================================
