------------------------ MODULE RequestParser_proofs ------------------------
(***************************************************************************)
(* The parser's offsets stay inside its buffer whatever is sent.  For      *)
(* clients whose requests end where they say they do, however the stream   *)
(* is cut, the requests are answered in its order and a handler has its    *)
(* own request in front of it; for those that also wait for the answers,   *)
(* the parser never reads where it must not.                               *)
(***************************************************************************)
EXTENDS RequestParser, SequenceTheorems, WellFoundedInduction, TLAPS

-----------------------------------------------------------------------------
(* Numbers, sequences and units                                            *)

(* Every non-empty set of naturals has a smallest element.                 *)
LEMMA LeastNatural ==
  ASSUME NEW T, T \subseteq Nat, T # {}
  PROVE  \E m \in T : \A n \in T : m <= n
<1>1. \E m \in T : \A n \in T : ~(<<n, m>> \in OpToRel(<, Nat))
  BY NatLessThanWellFounded, WFMin
<1>2. \E m \in T : \A n \in T : ~(n < m)
  BY <1>1, Zenon DEF OpToRel
<1>3. QED
  BY <1>2

(* The bytes that were read and those that were not are one stream: moving *)
(* k units of it from the wire to the buffer changes nothing.              *)
LEMMA OneStream ==
  ASSUME NEW S, NEW b \in Seq(S), NEW w \in Seq(S), NEW k \in 0..Len(w)
  PROVE  (b \o SubSeq(w, 1, k)) \o SubSeq(w, k + 1, Len(w)) = b \o w
<1>. DEFINE f == SubSeq(w, 1, k)
            g == SubSeq(w, k + 1, Len(w))
            h == b \o f
<1>1. Len(b) \in Nat /\ Len(w) \in Nat /\ k \in Nat /\ k <= Len(w)
  OBVIOUS
<1>2. f \in Seq(S) /\ Len(f) = k /\ \A i \in 1..k : f[i] = w[i]
  BY SubSeqProperties
<1>3. g \in Seq(S) /\ Len(g) = Len(w) - k /\ \A i \in 1..Len(w) - k : g[i] = w[k + i]
  BY SubSeqProperties
<1>. HIDE DEF f, g
<1>4. /\ h \in Seq(S) /\ Len(h) = Len(b) + k
      /\ \A i \in 1..Len(b) : h[i] = b[i]
      /\ \A i \in 1..k : h[Len(b) + i] = f[i]
  <2>1. f \in Seq(S) /\ Len(f) = k
    BY <1>2
  <2>2. /\ b \o f \in Seq(S) /\ Len(b \o f) = Len(b) + Len(f)
        /\ \A i \in 1..Len(b) : (b \o f)[i] = b[i]
        /\ \A i \in 1..Len(f) : (b \o f)[Len(b) + i] = f[i]
    BY <2>1
  <2>3. QED
    BY <2>1, <2>2
<1>. HIDE DEF h
<1>5. /\ h \o g \in Seq(S) /\ Len(h \o g) = Len(h) + Len(g)
      /\ \A i \in 1..Len(h) : (h \o g)[i] = h[i]
      /\ \A i \in 1..Len(g) : (h \o g)[Len(h) + i] = g[i]
  <2>1. h \in Seq(S) /\ g \in Seq(S)
    BY <1>3, <1>4
  <2>2. QED
    BY <2>1
<1>6. /\ b \o w \in Seq(S) /\ Len(b \o w) = Len(b) + Len(w)
      /\ \A i \in 1..Len(b) : (b \o w)[i] = b[i]
      /\ \A i \in 1..Len(w) : (b \o w)[Len(b) + i] = w[i]
  OBVIOUS
<1>7. \A i \in 1..k : h[Len(b) + i] = w[i]
  BY <1>2, <1>4
<1>8. \A i \in 1..Len(b) : (h \o g)[i] = (b \o w)[i]
  <2>1. SUFFICES ASSUME NEW i \in 1..Len(b) PROVE (h \o g)[i] = (b \o w)[i]
    OBVIOUS
  <2>2. i \in 1..Len(h)
    BY <1>1, <1>4
  <2>3. QED
    BY <1>4, <1>5, <1>6, <2>2
<1>9. \A i \in 1..k : (h \o g)[Len(b) + i] = (b \o w)[Len(b) + i]
  <2>1. SUFFICES ASSUME NEW i \in 1..k PROVE (h \o g)[Len(b) + i] = (b \o w)[Len(b) + i]
    OBVIOUS
  <2>2. Len(b) + i \in 1..Len(h) /\ i \in 1..Len(w)
    BY <1>1, <1>4
  <2>3. (h \o g)[Len(b) + i] = h[Len(b) + i]
    BY <1>5, <2>2
  <2>4. (b \o w)[Len(b) + i] = w[i]
    BY <1>6, <2>2
  <2>5. QED
    BY <1>7, <2>3, <2>4
<1>10. \A i \in 1..Len(w) - k : (h \o g)[Len(b) + (k + i)] = (b \o w)[Len(b) + (k + i)]
  <2>1. SUFFICES ASSUME NEW i \in 1..Len(w) - k
                 PROVE  (h \o g)[Len(b) + (k + i)] = (b \o w)[Len(b) + (k + i)]
    OBVIOUS
  <2>2. Len(h) + i = Len(b) + (k + i) /\ i \in 1..Len(g) /\ k + i \in 1..Len(w)
    BY <1>1, <1>3, <1>4
  <2>3. (h \o g)[Len(h) + i] = w[k + i]
    BY <1>3, <1>5, <2>2
  <2>4. (b \o w)[Len(b) + (k + i)] = w[k + i]
    BY <1>6, <2>2
  <2>5. QED
    BY <2>2, <2>3, <2>4
<1>11. ASSUME NEW i \in 1..Len(b) + Len(w)
       PROVE  (h \o g)[i] = (b \o w)[i]
  <2>1. \/ i \in 1..Len(b)
        \/ \E j \in 1..k : i = Len(b) + j
        \/ \E j \in 1..Len(w) - k : i = Len(b) + (k + j)
    <3>1. CASE i <= Len(b)
      BY <1>1, <3>1
    <3>2. CASE i > Len(b) /\ i <= Len(b) + k
      <4>1. i - Len(b) \in 1..k /\ i = Len(b) + (i - Len(b))
        BY <1>1, <3>2
      <4>2. QED
        BY <4>1
    <3>3. CASE i > Len(b) + k
      <4>1. i - (Len(b) + k) \in 1..Len(w) - k /\ i = Len(b) + (k + (i - (Len(b) + k)))
        BY <1>1, <3>3
      <4>2. QED
        BY <4>1
    <3>4. QED
      BY <1>1, <3>1, <3>2, <3>3
  <2>2. QED
    BY <1>8, <1>9, <1>10, <2>1
<1>12. h \o g = b \o w
  <2>1. Len(h \o g) = Len(b \o w) /\ Len(b \o w) = Len(b) + Len(w)
    BY <1>1, <1>3, <1>4, <1>5, <1>6
  <2>2. QED
    BY <1>5, <1>6, <1>11, <2>1, SeqEqual
<1>13. QED
  BY <1>12 DEF f, g, h

(* What is where afterwards.                                               *)
LEMMA ReadingMoves ==
  ASSUME NEW S, NEW b \in Seq(S), NEW w \in Seq(S), NEW k \in 0..Len(w)
  PROVE  /\ b \o SubSeq(w, 1, k) \in Seq(S) /\ SubSeq(w, k + 1, Len(w)) \in Seq(S)
         /\ Len(b \o SubSeq(w, 1, k)) = Len(b) + k
         /\ Len(SubSeq(w, k + 1, Len(w))) = Len(w) - k
         /\ \A i \in 1..Len(w) - k : SubSeq(w, k + 1, Len(w))[i] = w[k + i]
         /\ \A i \in 1..k : (b \o SubSeq(w, 1, k))[Len(b) + i] = w[i]
         /\ \A i \in 1..Len(b) : (b \o SubSeq(w, 1, k))[i] = b[i]
<1>. DEFINE f == SubSeq(w, 1, k)
            g == SubSeq(w, k + 1, Len(w))
            h == b \o f
<1>1. Len(b) \in Nat /\ Len(w) \in Nat /\ k \in Nat /\ k <= Len(w)
  OBVIOUS
<1>2. f \in Seq(S) /\ Len(f) = k /\ \A i \in 1..k : f[i] = w[i]
  BY SubSeqProperties
<1>3. g \in Seq(S) /\ Len(g) = Len(w) - k /\ \A i \in 1..Len(w) - k : g[i] = w[k + i]
  BY SubSeqProperties
<1>. HIDE DEF f, g
<1>4. /\ h \in Seq(S) /\ Len(h) = Len(b) + k
      /\ \A i \in 1..Len(b) : h[i] = b[i]
      /\ \A i \in 1..k : h[Len(b) + i] = f[i]
  <2>1. f \in Seq(S) /\ Len(f) = k
    BY <1>2
  <2>2. /\ b \o f \in Seq(S) /\ Len(b \o f) = Len(b) + Len(f)
        /\ \A i \in 1..Len(b) : (b \o f)[i] = b[i]
        /\ \A i \in 1..Len(f) : (b \o f)[Len(b) + i] = f[i]
    BY <2>1
  <2>3. QED
    BY <2>1, <2>2
<1>. HIDE DEF h
<1>5. \A i \in 1..k : h[Len(b) + i] = w[i]
  BY <1>2, <1>4
<1>6. QED
  BY <1>3, <1>4, <1>5 DEF f, g, h

Raw  == [is : Lines \cup Pieces, n : Int]
Unit == [req : Nat, is : Lines \cup Pieces, n : Int]

(* The units of a request, as they travel.                                 *)
LEMMA UnitsAre ==
  ASSUME script \in PatientScripts \cup HastyScripts, NEW r \in 1..Len(script)
  PROVE  /\ Len(script) \in Nat /\ script[r] \in Seq(Raw)
         /\ Units(r) \in Seq(Unit) /\ Len(Units(r)) = Len(script[r])
         /\ \A i \in 1..Len(script[r]) :
              /\ Units(r)[i].req = r /\ Units(r)[i].is = script[r][i].is
              /\ Units(r)[i].n = script[r][i].n
<1>1. script \in Seq(Seq(Raw))
  BY ParserAssumption DEF Raw
<1>2. Len(script) \in Nat /\ script[r] \in Seq(Raw) /\ r \in Nat
  BY <1>1
<1>. DEFINE u == script[r]
<1>3. DOMAIN u = 1..Len(u) /\ Len(u) \in Nat /\ \A i \in 1..Len(u) : u[i] \in Raw
  BY <1>2
<1>4. Units(r) = [i \in 1..Len(u) |-> [req |-> r, is |-> u[i].is, n |-> u[i].n]]
  BY <1>3 DEF Units
<1>. HIDE DEF u
<1>5. \A i \in 1..Len(u) : [req |-> r, is |-> u[i].is, n |-> u[i].n] \in Unit
  BY <1>2, <1>3 DEF Raw, Unit
<1>6. Units(r) \in Seq(Unit) /\ Len(Units(r)) = Len(u)
  BY <1>3, <1>4, <1>5
<1>7. QED
  BY <1>2, <1>4, <1>6 DEF u

(* Where the run of chunks from line i on ends.                            *)
ChunksEnd(b, i) == CHOOSE k \in i..Len(b) + 1 :
                     /\ \A j \in i..k - 1 : b[j].is = "chunk"
                     /\ k <= Len(b) => b[k].is # "chunk"

(* The run of chunks ends at the first unit that is none, or with the      *)
(* buffer.                                                                 *)
LEMMA ChunksEndIs ==
  ASSUME NEW b \in Seq(Unit), NEW i \in 1..Len(b) + 1
  PROVE  /\ ChunksEnd(b, i) \in i..Len(b) + 1
         /\ \A j \in i..ChunksEnd(b, i) - 1 : b[j].is = "chunk"
         /\ ChunksEnd(b, i) <= Len(b) => b[ChunksEnd(b, i)].is # "chunk"
<1>. DEFINE T == {k \in i..Len(b) + 1 : k <= Len(b) => b[k].is # "chunk"}
<1>1. T \subseteq Nat /\ Len(b) + 1 \in T
  OBVIOUS
<1>2. PICK m \in T : \A n \in T : m <= n
  BY <1>1, LeastNatural
<1>3. \A j \in i..m - 1 : b[j].is = "chunk"
  <2>1. SUFFICES ASSUME NEW j \in i..m - 1, b[j].is # "chunk" PROVE FALSE
    OBVIOUS
  <2>2. j \in T
    BY <2>1
  <2>3. QED
    BY <1>2, <2>2
<1>4. m \in i..Len(b) + 1 /\ (m <= Len(b) => b[m].is # "chunk")
  BY <1>2
<1>. HIDE DEF T
<1>5. QED
  BY <1>3, <1>4, Zenon DEF ChunksEnd

-----------------------------------------------------------------------------
(* Types                                                                   *)

(* The part of the types that only a send, a read and the start of a new   *)
(* request disturb ...                                                     *)
StreamTypes ==
  /\ patient \in BOOLEAN /\ script \in PatientScripts \cup HastyScripts
  /\ sent \in 0..Len(script)
  /\ buf \in Seq(Unit) /\ wire \in Seq(Unit) /\ continues \in Seq(Nat)
  /\ \A i \in 1..Len(wire) : wire[i].req \in 1..sent
  /\ \A i \in 1..Len(buf) : buf[i].req \in 1..sent
  /\ \A i \in 1..Len(continues) : continues[i] \in 1..sent

(* ... and the rest.                                                       *)
ParserTypes ==
  /\ cut \in BOOLEAN /\ lost \in BOOLEAN /\ err \in BOOLEAN /\ closing \in BOOLEAN
  /\ size \in Nat /\ toRead \in Nat /\ size >= Capacity
  /\ status \in {"line", "headers", "trailers", "chunks", "body", "respond", "done"}
  /\ flags \subseteq {"host", "length", "chunked", "expect", "http10", "body"}
  /\ line \in 1..Len(buf) + 1 /\ length \in Int /\ end \in Int
  /\ status \in {"body", "respond"} /\ ~err =>
       end = line - 1 \/ ("body" \in flags /\ end = line - 1 + length)
  /\ status = "done" /\ ~closing => end \in Nat
  /\ pc \in {"outer", "reading", "inner", "closed", "crashed"}
  /\ pc # "crashed" => Len(buf) <= size

TypeInv == StreamTypes /\ ParserTypes

(* The inductive invariant on types says more than TypeOK: what is in the  *)
(* buffer and on the wire are units of requests that were sent, and the    *)
(* buffer never holds more than its size.                                  *)
LEMMA TypeInvMeans == TypeInv => TypeOK
<1>1. SUFFICES ASSUME TypeInv PROVE TypeOK
  OBVIOUS
<1>2. DOMAIN wire = 1..Len(wire) /\ DOMAIN continues = 1..Len(continues)
  BY <1>1 DEF TypeInv, StreamTypes
<1>3. QED
  BY <1>1, <1>2 DEF TypeInv, StreamTypes, ParserTypes, TypeOK

(* It holds at first ...                                                   *)
LEMMA TypeInit == Init => TypeInv
<1>1. SUFFICES ASSUME Init PROVE TypeInv
  OBVIOUS
<1>2. script \in PatientScripts \cup HastyScripts /\ patient \in BOOLEAN
  BY <1>1 DEF Init
<1>3. Len(script) \in Nat /\ Capacity \in Nat
  BY <1>2, ParserAssumption
<1>4. << >> \in Seq(Unit) /\ << >> \in Seq(Nat) /\ Len(<< >>) = 0
  OBVIOUS
<1>5. StreamTypes
  BY <1>1, <1>2, <1>3, <1>4 DEF Init, StreamTypes
<1>6. ParserTypes
  <2>1. Len(buf) = 0 /\ 1 \in 1..0 + 1 /\ Capacity >= Capacity /\ 0 <= Capacity
    BY <1>1, <1>3, <1>4 DEF Init
  <2>2. /\ status = "line" /\ status # "done" /\ status # "body" /\ status # "respond"
        /\ flags = {} /\ length = 0 /\ end = 0 /\ line = 1 /\ size = Capacity /\ toRead = Capacity
        /\ cut = FALSE /\ lost = FALSE /\ err = FALSE /\ closing = FALSE /\ pc = "outer"
    BY <1>1 DEF Init
  <2>3. line \in 1..Len(buf) + 1 /\ length \in Int /\ end \in Int /\ Len(buf) <= size
        /\ size \in Nat /\ toRead \in Nat /\ size >= Capacity
    BY <1>3, <2>1, <2>2
  <2>4. QED
    BY <2>2, <2>3 DEF ParserTypes
<1>7. QED
  BY <1>5, <1>6 DEF TypeInv

(* A script has a length.                                                  *)
LEMMA LengthOfScript ==
  ASSUME script \in PatientScripts \cup HastyScripts
  PROVE  Len(script) \in Nat
BY ParserAssumption

(* ... a send adds units of one more request ...                           *)
LEMMA SendKeepsTypes ==
  ASSUME TypeInv, Send
  PROVE  TypeInv'
<1>1. Len(script) \in Nat
  BY LengthOfScript DEF TypeInv, StreamTypes
<1>2. sent + 1 \in 1..Len(script) /\ sent' = sent + 1 /\ wire' = wire \o Units(sent + 1)
      /\ UNCHANGED <<patient, script, buf, cut, size, toRead, status, line, lost, err, flags,
                     length, end, closing, pc, continues, answers>>
  BY <1>1 DEF TypeInv, StreamTypes, Send, buffer, request, replies
<1>. DEFINE u == Units(sent + 1)
<1>3. u \in Seq(Unit) /\ \A i \in 1..Len(u) : u[i].req = sent + 1
  BY <1>2, UnitsAre DEF TypeInv, StreamTypes
<1>. HIDE DEF u
<1>4. /\ wire \o u \in Seq(Unit) /\ Len(wire \o u) = Len(wire) + Len(u)
      /\ \A i \in 1..Len(wire) : (wire \o u)[i] = wire[i]
      /\ \A i \in 1..Len(u) : (wire \o u)[Len(wire) + i] = u[i]
  BY <1>3 DEF TypeInv, StreamTypes
<1>5. ASSUME NEW i \in 1..Len(wire \o u)
      PROVE  (wire \o u)[i].req \in 1..sent + 1
  <2>1. sent \in Nat /\ Len(wire) \in Nat /\ Len(u) \in Nat
    BY <1>1, <1>3 DEF TypeInv, StreamTypes
  <2>2. CASE i \in 1..Len(wire)
    <3>1. wire[i].req \in 1..sent
      BY <2>2 DEF TypeInv, StreamTypes
    <3>2. QED
      BY <1>4, <2>1, <2>2, <3>1
  <2>3. CASE i > Len(wire)
    <3>1. i - Len(wire) \in 1..Len(u) /\ i = Len(wire) + (i - Len(wire))
      BY <1>4, <2>1, <2>3
    <3>2. (wire \o u)[i] = u[i - Len(wire)]
      BY <1>4, <3>1
    <3>3. QED
      BY <1>3, <2>1, <3>1, <3>2
  <2>4. QED
    BY <1>4, <2>1, <2>2, <2>3
<1>6. \A i : i \in 1..sent => i \in 1..sent + 1
  BY <1>1 DEF TypeInv, StreamTypes
<1>7. StreamTypes'
  BY SMTT(30), <1>1, <1>2, <1>4, <1>5, <1>6 DEF TypeInv, StreamTypes, u
<1>8. ParserTypes'
  BY <1>2 DEF TypeInv, ParserTypes
<1>9. QED
  BY <1>7, <1>8 DEF TypeInv

(* ... a read moves units from the wire to the buffer ...                  *)
LEMMA ReadKeepsTypes ==
  ASSUME TypeInv, Read
  PROVE  TypeInv'
<1>1. PICK k \in 0..Len(wire), c \in BOOLEAN :
        /\ buf' = buf \o SubSeq(wire, 1, k)
        /\ wire' = SubSeq(wire, k + 1, Len(wire))
        /\ cut' = c
        /\ \/ pc' = "crashed" /\ status' = status
           \/ /\ Len(buf) + k + (IF c THEN 1 ELSE 0) <= size
              /\ \/ status = "body" /\ status' = "respond" /\ pc' = "closed"
                 \/ pc' = "inner" /\ status' = status
  <2>1. \A k \in 0..Len(wire), c \in BOOLEAN :
          ~(Len(buf) + k + (IF c THEN 1 ELSE 0) > size) =>
             Len(buf) + k + (IF c THEN 1 ELSE 0) <= size
    BY DEF TypeInv, StreamTypes, ParserTypes
  <2>2. QED
    BY <2>1, Zenon DEF Read
<1>2. UNCHANGED <<patient, script, sent, size, toRead, line, lost, err, flags, length, end,
                  closing, continues>>
  BY DEF Read, request, replies
<1>3. /\ buf' \in Seq(Unit) /\ wire' \in Seq(Unit)
      /\ Len(buf') = Len(buf) + k
      /\ Len(wire') = Len(wire) - k
      /\ \A i \in 1..Len(wire) - k : wire'[i] = wire[k + i]
      /\ \A i \in 1..k : buf'[Len(buf) + i] = wire[i]
      /\ \A i \in 1..Len(buf) : buf'[i] = buf[i]
  <2>1. buf \in Seq(Unit) /\ wire \in Seq(Unit)
    BY DEF TypeInv, StreamTypes
  <2>2. QED
    BY <1>1, <2>1, ReadingMoves
<1>4. Len(buf) \in Nat /\ Len(wire) \in Nat /\ k \in Nat /\ k <= Len(wire)
  BY DEF TypeInv, StreamTypes
<1>5. ASSUME NEW i \in 1..Len(wire')
      PROVE  wire'[i].req \in 1..sent
  <2>1. i \in 1..Len(wire) - k /\ k + i \in 1..Len(wire)
    BY <1>3, <1>4
  <2>2. QED
    BY <1>3, <2>1 DEF TypeInv, StreamTypes
<1>6. ASSUME NEW i \in 1..Len(buf')
      PROVE  buf'[i].req \in 1..sent
  <2>1. CASE i \in 1..Len(buf)
    BY <1>3, <2>1 DEF TypeInv, StreamTypes
  <2>2. CASE i > Len(buf)
    <3>1. i - Len(buf) \in 1..k /\ i = Len(buf) + (i - Len(buf)) /\ i - Len(buf) \in 1..Len(wire)
      BY <1>3, <1>4, <2>2
    <3>2. buf'[i] = wire[i - Len(buf)]
      BY <1>3, <3>1
    <3>3. QED
      BY <3>1, <3>2 DEF TypeInv, StreamTypes
  <2>3. QED
    BY <1>3, <1>4, <2>1, <2>2
<1>7. StreamTypes'
  BY <1>2, <1>3, <1>5, <1>6 DEF TypeInv, StreamTypes
<1>8. line \in 1..Len(buf') + 1
  BY <1>3, <1>4 DEF TypeInv, ParserTypes
<1>9. pc' # "crashed" => Len(buf') <= size
  BY <1>1, <1>3, <1>4 DEF TypeInv, ParserTypes
<1>10. status' \in {"body", "respond"} => status \in {"body", "respond"}
  BY <1>1
<1>11. status' \in {"line", "headers", "trailers", "chunks", "body", "respond", "done"}
       /\ pc' \in {"outer", "reading", "inner", "closed", "crashed"}
  BY <1>1 DEF TypeInv, ParserTypes
<1>12. ParserTypes'
  BY <1>1, <1>2, <1>8, <1>9, <1>10, <1>11 DEF TypeInv, ParserTypes
<1>13. QED
  BY <1>7, <1>12 DEF TypeInv

(* What memmove leaves of the buffer (threadroutines.c:681-700).           *)
LEMMA LeftoverIs ==
  ASSUME TypeInv, status = "done", ~closing, end <= Len(buf)
  PROVE  /\ Leftover \in Seq(Unit) /\ Len(Leftover) = Len(buf) - end
         /\ \A i \in 1..Len(buf) - end : Leftover[i] = buf[end + i]
<1>1. end \in Nat /\ buf \in Seq(Unit)
  BY DEF TypeInv, StreamTypes, ParserTypes
<1>2. QED
  BY <1>1, SubSeqProperties DEF Leftover

(* ... the next request starts with what is left of the buffer ...         *)
LEMMA NextRequestKeepsTypes ==
  ASSUME TypeInv, NextRequest
  PROVE  TypeInv'
<1>1. CASE Len(buf) < end
  <2>1. UNCHANGED <<patient, script, sent, wire, buf, cut, size, toRead, status, line, lost, err,
                    flags, length, end, closing, continues>> /\ pc' = "crashed"
    BY <1>1 DEF NextRequest, Crash, network, buffer, request, replies
  <2>2. StreamTypes'
    BY <2>1 DEF TypeInv, StreamTypes
  <2>3. ParserTypes'
    BY <2>1 DEF TypeInv, ParserTypes
  <2>4. QED
    BY <2>2, <2>3 DEF TypeInv
<1>2. CASE ~(Len(buf) < end)
  <2>1. /\ buf' = Leftover /\ toRead' = size /\ pc' = "reading"
        /\ size' = IF size = Capacity THEN size
                   ELSE IF Len(buf') < Capacity THEN Capacity ELSE Len(buf')
        /\ status' = "line" /\ line' = 1 /\ lost' = FALSE /\ err' = FALSE
        /\ flags' = {}
        /\ UNCHANGED <<patient, script, sent, wire, cut, length, end, closing, continues>>
        /\ pc = "outer" /\ status = "done" /\ ~closing
    BY <1>2 DEF NextRequest, NewRequest, network, replies
  <2>2. end \in Nat /\ Len(buf) \in Nat /\ end <= Len(buf) /\ Capacity \in Nat /\ size \in Nat
        /\ Len(buf) <= size
    BY <1>2, <2>1, ParserAssumption DEF TypeInv, StreamTypes, ParserTypes
  <2>3. /\ buf' \in Seq(Unit) /\ Len(buf') = Len(buf) - end
        /\ \A i \in 1..Len(buf) - end : buf'[i] = buf[end + i]
    BY <2>1, <2>2, LeftoverIs
  <2>4. ASSUME NEW i \in 1..Len(buf')
        PROVE  buf'[i].req \in 1..sent
    <3>1. i \in 1..Len(buf) - end /\ end + i \in 1..Len(buf)
      BY <2>2, <2>3
    <3>2. QED
      BY <2>3, <3>1 DEF TypeInv, StreamTypes
  <2>5. StreamTypes'
    BY <2>1, <2>3, <2>4 DEF TypeInv, StreamTypes
  <2>6. size' \in Nat /\ size' >= Capacity /\ Len(buf') <= size'
    BY <2>1, <2>2, <2>3
  <2>7. 1 \in 1..Len(buf') + 1
    BY <2>2, <2>3
  <2>8. ParserTypes'
    BY <2>1, <2>2, <2>6, <2>7 DEF TypeInv, ParserTypes
  <2>9. QED
    BY <2>5, <2>8 DEF TypeInv
<1>3. QED
  BY <1>1, <1>2

(* The stream has its types after a step that leaves it alone.             *)
LEMMA QuietStreamTypes ==
  ASSUME StreamTypes, UNCHANGED <<patient, script, sent, wire, buf, continues>>
  PROVE  StreamTypes'
BY DEF StreamTypes

(* ... a blank line puts the end of the request inside the body that was   *)
(* announced (threadroutines.c:839-876) ...                                *)
LEMMA BlankLineKeepsTypes ==
  ASSUME TypeInv, BlankLine
  PROVE  TypeInv'
<1>1. /\ status \in {"headers", "trailers"} /\ pc = "inner" /\ ~err /\ line <= Len(buf)
      /\ line' = line + 1
      /\ UNCHANGED <<patient, script, sent, wire, buf, cut, size, toRead, lost, flags, length,
                     closing, pc>>
  BY DEF BlankLine, Parsing, HasLine, network, buffer
<1>2. line \in 1..Len(buf) /\ Len(buf) \in Nat /\ length \in Int /\ end \in Int
  BY <1>1 DEF TypeInv, StreamTypes, ParserTypes
<1>3. buf[line].req \in 1..sent /\ sent \in Nat
  BY <1>2, LengthOfScript DEF TypeInv, StreamTypes
<1>4. \/ err' = TRUE /\ status' = status /\ end' = end
      \/ err' = err /\ status' = "respond" /\ end' = line
      \/ err' = err /\ status' = "chunks" /\ end' = end
      \/ err' = err /\ status' = "body" /\ end' = line + length /\ "body" \in flags
  BY DEF BlankLine, BodyEnd
<1>5. continues' \in Seq(Nat) /\ \A i \in 1..Len(continues') : continues'[i] \in 1..sent
  <2>1. continues' = continues \/ continues' = Append(continues, buf[line].req)
    BY DEF BlankLine
  <2>2. CASE continues' = continues
    BY <2>2 DEF TypeInv, StreamTypes
  <2>3. CASE continues' = Append(continues, buf[line].req)
    <3>. DEFINE q == buf[line].req
    <3>1. q \in Nat /\ q \in 1..sent
      BY <1>3
    <3>. HIDE DEF q
    <3>2. continues \in Seq(Nat) /\ \A i \in 1..Len(continues) : continues[i] \in 1..sent
      BY DEF TypeInv, StreamTypes
    <3>3. Append(continues, q) \in Seq(Nat) /\ Len(Append(continues, q)) = Len(continues) + 1
      BY <3>1, <3>2
    <3>4. ASSUME NEW i \in 1..Len(continues) + 1
          PROVE  Append(continues, q)[i] \in 1..sent
      BY <3>1, <3>2
    <3>5. QED
      BY <2>3, <3>3, <3>4 DEF q
  <2>4. QED
    BY <2>1, <2>2, <2>3
<1>6. StreamTypes'
  BY <1>1, <1>5 DEF TypeInv, StreamTypes
<1>7. line' \in 1..Len(buf') + 1
  BY <1>1, <1>2
<1>8. /\ status' \in {"body", "respond"} /\ ~err' =>
           end' = line' - 1 \/ ("body" \in flags' /\ end' = line' - 1 + length')
      /\ status' # "done"
  <2>1. line' - 1 = line
    BY <1>1, <1>2
  <2>2. QED
    BY <1>1, <1>4, <2>1
<1>9. /\ err' \in BOOLEAN /\ end' \in Int
      /\ status' \in {"line", "headers", "trailers", "chunks", "body", "respond", "done"}
  <2>1. err' \in BOOLEAN
    BY <1>4 DEF TypeInv, ParserTypes
  <2>2. end' \in Int
    BY <1>2, <1>4
  <2>3. QED
    BY <1>1, <1>4, <2>1, <2>2
<1>10. ParserTypes'
  BY <1>1, <1>7, <1>8, <1>9 DEF TypeInv, ParserTypes
<1>11. QED
  BY <1>6, <1>10 DEF TypeInv

(* What a turn over the chunks does.                                       *)
LEMMA ChunksDo ==
  ASSUME TypeInv, Chunks
  PROVE  /\ status = "chunks" /\ pc = "inner" /\ ~err /\ ~lost
         /\ UNCHANGED <<patient, script, sent, wire, buf, cut, size, toRead, flags, end, closing,
                        pc, continues, answers>>
         /\ LET last == ChunksEnd(buf, line) IN
            \/ /\ last <= Len(buf) /\ buf[last].is = "lastchunk" /\ status' = "trailers"
               /\ length' = last - line /\ line' = (IF last = line THEN last + 1 ELSE last)
               /\ UNCHANGED <<err, lost>>
            \/ /\ ~(last <= Len(buf) /\ buf[last].is = "lastchunk") /\ line' = last
               /\ status' = status /\ length' = length
               /\ \/ lost' = TRUE /\ err' = err
                  \/ cut /\ err' = TRUE /\ lost' = lost
<1>1. status = "chunks" /\ pc = "inner" /\ ~err /\ ~lost
  BY DEF Chunks, Parsing
<1>2. UNCHANGED <<patient, script, sent, wire, buf, cut, size, toRead, flags, end, closing,
                  pc, continues, answers>>
  BY DEF Chunks, network, buffer, replies
<1>. DEFINE last == ChunksEnd(buf, line)
<1>3. \/ /\ last <= Len(buf) /\ buf[last].is = "lastchunk" /\ status' = "trailers"
         /\ length' = last - line /\ line' = (IF last = line THEN last + 1 ELSE last)
         /\ UNCHANGED <<err, lost>>
      \/ /\ ~(last <= Len(buf) /\ buf[last].is = "lastchunk") /\ line' = last
         /\ status' = status /\ length' = length
         /\ \/ lost' = TRUE /\ err' = err
            \/ cut /\ err' = TRUE /\ lost' = lost
  BY Zenon DEF Chunks, ChunksEnd
<1>4. QED
  BY <1>1, <1>2, <1>3

(* ... a turn over the chunks stays inside the buffer ...                  *)
LEMMA ChunksKeepsTypes ==
  ASSUME TypeInv, Chunks
  PROVE  TypeInv'
<1>. DEFINE last == ChunksEnd(buf, line)
<1>1. last \in line..Len(buf) + 1
  BY ChunksEndIs DEF TypeInv, StreamTypes, ParserTypes
<1>2. line \in Nat \ {0} /\ Len(buf) \in Nat
  BY DEF TypeInv, StreamTypes, ParserTypes
<1>3. /\ UNCHANGED <<patient, script, sent, wire, buf, cut, size, toRead, flags, end, closing,
                     pc, continues, answers>>
      /\ status = "chunks"
      /\ \/ /\ last <= Len(buf) /\ status' = "trailers"
            /\ length' = last - line /\ line' = (IF last = line THEN last + 1 ELSE last)
            /\ UNCHANGED <<err, lost>>
         \/ /\ line' = last /\ status' = status /\ length' = length
            /\ \/ lost' = TRUE /\ err' = err
               \/ err' = TRUE /\ lost' = lost
  BY ChunksDo
<1>. HIDE DEF last
<1>4. line' \in 1..Len(buf) + 1
  BY <1>1, <1>2, <1>3
<1>5. length' \in Int
  BY <1>1, <1>2, <1>3 DEF TypeInv, ParserTypes
<1>6. status' \in {"trailers", "chunks"} /\ err' \in BOOLEAN /\ lost' \in BOOLEAN
  BY <1>3 DEF TypeInv, ParserTypes
<1>7. StreamTypes'
  BY <1>3, QuietStreamTypes DEF TypeInv
<1>8. ParserTypes'
  BY <1>3, <1>4, <1>5, <1>6 DEF TypeInv, ParserTypes
<1>9. QED
  BY <1>7, <1>8 DEF TypeInv

(* ... as do all other steps ...                                           *)
LEMMA TypeStep == TypeInv /\ [Next]_vars => TypeInv'
<1>1. SUFFICES ASSUME TypeInv, [Next]_vars PROVE TypeInv'
  OBVIOUS
<1>2. StreamTypes /\ ParserTypes
  BY <1>1 DEF TypeInv
<1>3. CASE Send
  BY <1>1, <1>3, SendKeepsTypes
<1>4. CASE Read
  BY <1>1, <1>4, ReadKeepsTypes
<1>5. CASE NextRequest
  BY <1>1, <1>5, NextRequestKeepsTypes
<1>6. CASE BlankLine
  BY <1>1, <1>6, BlankLineKeepsTypes
<1>7. CASE Chunks
  BY <1>1, <1>7, ChunksKeepsTypes
<1>8. ASSUME ParserTypes', UNCHANGED <<patient, script, sent, wire, buf, continues>>
      PROVE  TypeInv'
  BY <1>2, <1>8, QuietStreamTypes DEF TypeInv
<1>9. CASE RequestLine \/ Header
  <2>1. /\ line <= Len(buf) /\ line' = line + 1
        /\ status \in {"line", "headers", "trailers"} /\ (status' = status \/ status' = "headers")
        /\ err' \in BOOLEAN
        /\ flags' \subseteq flags \cup {"host", "length", "chunked", "expect", "http10", "body"}
        /\ length' = length \/ length' = buf[line].n
        /\ status' # "done"
        /\ closing' = closing \/ closing' = (closing \/ buf[line].is = "close")
        /\ UNCHANGED <<patient, script, sent, wire, buf, cut, size, toRead, lost, end, pc, continues>>
    BY <1>9 DEF RequestLine, Header, Parsing, HasLine, network, buffer, replies
  <2>2. line \in 1..Len(buf) /\ Len(buf) \in Nat /\ buf[line] \in Unit
    BY <1>2, <2>1 DEF StreamTypes, ParserTypes
  <2>3. length' \in Int /\ line' \in 1..Len(buf) + 1
    BY <1>2, <2>1, <2>2 DEF ParserTypes, Unit
  <2>4. closing' \in BOOLEAN
    BY <1>2, <2>1 DEF ParserTypes
  <2>5. ParserTypes'
    BY <1>2, <2>1, <2>3, <2>4 DEF ParserTypes
  <2>6. QED
    BY <1>8, <2>1, <2>5
<1>10. CASE GrowForBody
  <2>1. end > size /\ size' = end /\ toRead' = end - Len(buf) /\ pc' = "reading"
        /\ pc = "outer" /\ status = "body"
        /\ UNCHANGED <<patient, script, sent, wire, buf, cut, status, line, lost, err, flags, length,
                       end, closing, continues>>
    BY <1>10 DEF GrowForBody, network, request, replies
  <2>2. size' \in Nat /\ toRead' \in Nat /\ size' >= Capacity /\ Len(buf) <= size'
    <3>1. end \in Int /\ size \in Nat /\ Len(buf) \in Nat /\ Capacity \in Nat /\ size >= Capacity
          /\ Len(buf) <= size
      BY <1>2, <2>1, ParserAssumption DEF StreamTypes, ParserTypes
    <3>2. QED
      BY <2>1, <3>1
  <2>3. ParserTypes'
    BY <1>2, <2>1, <2>2 DEF ParserTypes
  <2>4. QED
    BY <1>8, <2>1, <2>3
<1>11. CASE \/ LoopEnds \/ FirstRead \/ BodyFits \/ ReadEnds \/ InnerEnds \/ SearchFromNull
            \/ IncompleteLine \/ RespondWithError \/ NegativeBody \/ StartHandler
  <2>1. /\ UNCHANGED <<patient, script, sent, wire, buf, cut, size, toRead, line, flags, length, end,
                       continues>>
        /\ status' \in {status, "done", "respond"}
        /\ status' = "respond" => status \in {"body", "respond"}
        /\ pc' \in {"outer", "reading", "inner", "closed", "crashed"} /\ (pc' # "crashed" => pc # "crashed")
        /\ lost' = lost \/ lost' = TRUE
        /\ err' = err \/ err' = TRUE
        /\ closing' = closing \/ closing' = TRUE
        /\ \/ status' = "done" => status = "done" \/ closing' = TRUE
           \/ status = "respond" /\ ~err /\ ~BodyIsNegative
    BY <1>2, <1>11 DEF ParserTypes, LoopEnds, FirstRead, BodyFits, ReadEnds, InnerEnds, SearchFromNull,
       IncompleteLine, Parsing, RespondWithError, NegativeBody, StartHandler, Crash, Answer, network,
       buffer, request, replies
  <2>2. lost' \in BOOLEAN /\ err' \in BOOLEAN /\ closing' \in BOOLEAN /\ (~err' => ~err)
    <3>1. lost \in BOOLEAN /\ err \in BOOLEAN /\ closing \in BOOLEAN
      BY <1>2 DEF ParserTypes
    <3>2. lost' \in BOOLEAN /\ err' \in BOOLEAN /\ closing' \in BOOLEAN
      BY <2>1, <3>1
    <3>3. ~err' => ~err
      BY <2>1
    <3>4. QED
      BY <3>2, <3>3
  <2>3. /\ status' \in {"line", "headers", "trailers", "chunks", "body", "respond", "done"}
        /\ pc' \in {"outer", "reading", "inner", "closed", "crashed"}
        /\ status' \in {"body", "respond"} => status \in {"body", "respond"}
    BY <1>2, <2>1 DEF ParserTypes
  <2>4. status' \in {"body", "respond"} /\ ~err' =>
          end' = line' - 1 \/ ("body" \in flags' /\ end' = line' - 1 + length')
    BY <1>2, <2>1, <2>2, <2>3 DEF ParserTypes
  <2>5. status' = "done" /\ ~closing' => end' \in Nat
    <3>1. CASE status = "respond" /\ ~err /\ ~BodyIsNegative
      <4>1. end = line - 1 \/ ("body" \in flags /\ end = line - 1 + length)
        BY <1>2, <3>1 DEF ParserTypes
      <4>2. line \in Nat \ {0} /\ length \in Int
        BY <1>2 DEF StreamTypes, ParserTypes
      <4>3. "body" \in flags => length >= 0
        BY <3>1, <4>2 DEF BodyIsNegative
      <4>4. end \in Nat
        BY <4>1, <4>2, <4>3
      <4>5. QED
        BY <2>1, <4>4
    <3>2. CASE status' = "done" => status = "done" \/ closing' = TRUE
      BY <1>2, <2>1, <3>2 DEF ParserTypes
    <3>3. QED
      BY <2>1, <3>1, <3>2
  <2>6. ParserTypes'
    BY <1>2, <2>1, <2>2, <2>3, <2>4, <2>5 DEF ParserTypes
  <2>7. QED
    BY <1>8, <2>1, <2>6
<1>12. CASE Stopped \/ UNCHANGED vars
  <2>1. UNCHANGED vars
    BY <1>12 DEF Stopped
  <2>2. ParserTypes'
    BY <1>2, <2>1 DEF ParserTypes, vars
  <2>3. QED
    BY <1>8, <2>1, <2>2 DEF vars
<1>13. QED
  BY <1>1, <1>3, <1>4, <1>5, <1>6, <1>7, <1>9, <1>10, <1>11, <1>12 DEF Next, Thread

(* ... so it holds for good.                                               *)
LEMMA TypeHolds == Spec => []TypeInv
BY TypeInit, TypeStep, PTL DEF Spec

(* The parser's variables have their types, whatever is sent, a negative   *)
(* Content-Length included (884), and however it is cut: the next line     *)
(* starts inside what has been read, and no negative end of a request      *)
(* reaches memmove (threadroutines.c:661-1000).                            *)
THEOREM ParserTypeCorrect == Spec => []TypeOK
BY TypeHolds, TypeInvMeans, PTL

-----------------------------------------------------------------------------
(* The stream as a sequence of requests                                    *)

(* Request r of the stream s starts behind its first at[r] units.          *)
IsCut(s, first, last, at) ==
  /\ at[first] = 0 /\ at[last + 1] = Len(s)
  /\ \A q, r \in first..last + 1 : q <= r => at[q] <= at[r]
  /\ \A r \in first..last :
       /\ at[r + 1] = at[r] + Len(script[r])
       /\ \A i \in 1..Len(script[r]) : s[at[r] + i] = Units(r)[i]

(* The stream s holds the requests from the first to the last, whole.      *)
Stream(s, first, last) ==
  \E at \in [first..last + 1 -> 0..Len(s)] : IsCut(s, first, last, at)

(* It begins with the first of them.                                       *)
LEMMA StreamFront ==
  ASSUME NEW s \in Seq(Unit), NEW f \in Nat, NEW l \in Nat, f <= l, Stream(s, f, l),
         Len(script[f]) \in Nat
  PROVE  /\ Len(script[f]) <= Len(s)
         /\ \A i \in 1..Len(script[f]) : s[i] = Units(f)[i]
<1>1. PICK at \in [f..l + 1 -> 0..Len(s)] : IsCut(s, f, l, at)
  BY DEF Stream
<1>2. f \in f..l /\ f + 1 \in f..l + 1
  OBVIOUS
<1>3. at[f] = 0 /\ at[f + 1] = at[f] + Len(script[f])
      /\ \A i \in 1..Len(script[f]) : s[at[f] + i] = Units(f)[i]
  BY <1>1, <1>2 DEF IsCut
<1>4. at[f + 1] \in 0..Len(s)
  BY <1>2
<1>5. \A i \in 1..Len(script[f]) : 0 + i = i
  OBVIOUS
<1>6. QED
  BY <1>3, <1>4, <1>5

(* A stream that holds no request is empty ...                             *)
LEMMA StreamOfNothing ==
  ASSUME NEW s \in Seq(Unit), NEW l \in Nat, Stream(s, l + 1, l)
  PROVE  Len(s) = 0
BY DEF Stream, IsCut

(* ... and the other way round.                                            *)
LEMMA NothingIsStream ==
  ASSUME NEW l \in Nat
  PROVE  Stream(<< >>, l + 1, l)
<1>. DEFINE at == [r \in l + 1..l + 1 |-> 0]
<1>1. at \in [l + 1..l + 1 -> 0..Len(<< >>)]
  OBVIOUS
<1>2. IsCut(<< >>, l + 1, l, at)
  BY DEF IsCut
<1>3. QED
  BY <1>1, <1>2, Zenon DEF Stream

(* One more request is sent ...                                            *)
LEMMA StreamGrows ==
  ASSUME NEW s \in Seq(Unit), NEW f \in Nat, NEW l \in Nat, f <= l + 1, Stream(s, f, l),
         \A r \in f..l : Len(script[r]) \in Nat,
         NEW u \in Seq(Unit), u = Units(l + 1), Len(u) = Len(script[l + 1])
  PROVE  Stream(s \o u, f, l + 1)
<1>1. PICK at \in [f..l + 1 -> 0..Len(s)] : IsCut(s, f, l, at)
  BY DEF Stream
<1>. DEFINE t  == s \o u
            new == [r \in f..(l + 1) + 1 |-> IF r = l + 2 THEN Len(s) + Len(u) ELSE at[r]]
<1>2. /\ t \in Seq(Unit) /\ Len(t) = Len(s) + Len(u) /\ Len(s) \in Nat /\ Len(u) \in Nat
      /\ \A i \in 1..Len(s) : t[i] = s[i]
      /\ \A i \in 1..Len(u) : t[Len(s) + i] = u[i]
  OBVIOUS
<1>. HIDE DEF t
<1>3. \A r \in f..l + 1 : r # l + 2 /\ r \in f..(l + 1) + 1 /\ at[r] \in 0..Len(s)
  OBVIOUS
<1>4. /\ \A r \in f..l + 1 : new[r] = at[r]
      /\ new[l + 2] = Len(s) + Len(u)
  BY <1>3
<1>5. \A r \in f..(l + 1) + 1 : r = l + 2 \/ r \in f..l + 1
  OBVIOUS
<1>6. new \in [f..(l + 1) + 1 -> 0..Len(t)]
  BY <1>2, <1>3, <1>5
<1>. HIDE DEF new
<1>7. new[f] = 0 /\ new[(l + 1) + 1] = Len(t)
  <2>1. f \in f..l + 1 /\ (l + 1) + 1 = l + 2
    OBVIOUS
  <2>2. QED
    BY <1>1, <1>2, <1>4, <2>1 DEF IsCut
<1>8. ASSUME NEW q \in f..(l + 1) + 1, NEW r \in f..(l + 1) + 1, q <= r
      PROVE  new[q] <= new[r]
  <2>1. CASE r = l + 2
    <3>1. new[q] \in 0..Len(s) \/ new[q] = Len(s) + Len(u)
      BY <1>3, <1>4, <1>5
    <3>2. QED
      BY <1>2, <1>4, <2>1, <3>1
  <2>2. CASE r \in f..l + 1
    <3>1. q \in f..l + 1
      BY <1>8, <2>2
    <3>2. QED
      BY <1>1, <1>4, <1>8, <2>2, <3>1 DEF IsCut
  <2>3. QED
    BY <1>5, <2>1, <2>2
<1>9. ASSUME NEW r \in f..l + 1
      PROVE  /\ new[r + 1] = new[r] + Len(script[r])
             /\ \A i \in 1..Len(script[r]) : t[new[r] + i] = Units(r)[i]
  <2>1. CASE r = l + 1
    <3>1. new[r + 1] = Len(s) + Len(u) /\ new[r] = Len(s)
      <4>1. r + 1 = l + 2 /\ r \in f..l + 1
        BY <2>1
      <4>2. QED
        BY <1>1, <1>4, <2>1, <4>1 DEF IsCut
    <3>2. QED
      BY <1>2, <2>1, <3>1
  <2>2. CASE r \in f..l
    <3>1. r \in f..l + 1 /\ r + 1 \in f..l + 1
      BY <2>2
    <3>2. /\ at[r + 1] = at[r] + Len(script[r])
          /\ \A i \in 1..Len(script[r]) : s[at[r] + i] = Units(r)[i]
      BY <1>1, <2>2 DEF IsCut
    <3>3. new[r] = at[r] /\ new[r + 1] = at[r + 1] /\ at[r] \in 0..Len(s) /\ at[r + 1] \in 0..Len(s)
      BY <1>3, <1>4, <3>1
    <3>4. ASSUME NEW i \in 1..Len(script[r])
          PROVE  t[new[r] + i] = Units(r)[i]
      <4>1. at[r] + i \in 1..Len(s)
        <5>1. Len(script[r]) \in Nat
          BY <2>2
        <5>. DEFINE m == Len(script[r])
                    a == at[r]
        <5>2. a \in Nat /\ m \in Nat /\ a + m <= Len(s) /\ i \in 1..m /\ Len(s) \in Nat
          BY <3>2, <3>3, <3>4, <5>1
        <5>. HIDE DEF m, a
        <5>3. a + i \in 1..Len(s)
          BY <5>2
        <5>4. QED
          BY <5>3 DEF a
      <4>2. QED
        BY <1>2, <3>2, <3>3, <4>1
    <3>5. QED
      BY <3>2, <3>3, <3>4
  <2>3. r = l + 1 \/ r \in f..l
    OBVIOUS
  <2>4. QED
    BY <2>1, <2>2, <2>3
<1>10. IsCut(t, f, l + 1, new)
  BY <1>7, <1>8, <1>9 DEF IsCut
<1>11. QED
  BY <1>6, <1>10, Zenon DEF Stream, t

(* ... and one is done with: t is what is left.                            *)
LEMMA StreamDrops ==
  ASSUME NEW s \in Seq(Unit), NEW f \in Nat, NEW l \in Nat, f <= l, Stream(s, f, l),
         \A r \in f..l : Len(script[r]) \in Nat, NEW n \in Nat, n = Len(script[f]),
         NEW t \in Seq(Unit), Len(t) = Len(s) - n, \A i \in 1..Len(t) : t[i] = s[n + i]
  PROVE  Stream(t, f + 1, l)
<1>1. PICK at \in [f..l + 1 -> 0..Len(s)] : IsCut(s, f, l, at)
  BY DEF Stream
<1>. DEFINE new == [r \in f + 1..l + 1 |-> at[r] - n]
<1>2. at[f + 1] = n
  <2>1. f \in f..l /\ at[f] = 0 /\ n \in Nat
    BY <1>1 DEF IsCut
  <2>2. at[f + 1] = at[f] + n
    BY <1>1, <2>1 DEF IsCut
  <2>3. QED
    BY <2>1, <2>2
<1>3. ASSUME NEW r \in f + 1..l + 1
      PROVE  r \in f..l + 1 /\ at[r] \in Nat /\ at[r] <= Len(s) /\ n <= at[r]
  <2>1. r \in f..l + 1 /\ f + 1 \in f..l + 1 /\ f + 1 <= r
    OBVIOUS
  <2>2. at[r] \in 0..Len(s) /\ at[f + 1] <= at[r]
    BY <1>1, <2>1 DEF IsCut
  <2>3. QED
    BY <1>2, <2>1, <2>2
<1>4. new \in [f + 1..l + 1 -> 0..Len(t)]
  <2>1. ASSUME NEW r \in f + 1..l + 1
        PROVE  at[r] - n \in 0..Len(t)
    <3>. DEFINE a == at[r]
                len == Len(s)
    <3>1. a \in Nat /\ n <= a /\ a <= len /\ len \in Nat /\ Len(t) = len - n
      BY <1>3
    <3>. HIDE DEF a, len
    <3>2. a - n \in 0..len - n
      BY <3>1
    <3>3. QED
      BY <3>1, <3>2 DEF a
  <2>2. QED
    BY <2>1
<1>5. \A r \in f + 1..l + 1 : new[r] = at[r] - n
  OBVIOUS
<1>. HIDE DEF new
<1>6. new[f + 1] = 0 /\ new[l + 1] = Len(t)
  <2>1. f + 1 \in f + 1..l + 1 /\ l + 1 \in f + 1..l + 1 /\ at[l + 1] = Len(s)
    BY <1>1 DEF IsCut
  <2>2. new[f + 1] = n - n
    BY <1>2, <1>5, <2>1
  <2>3. new[l + 1] = Len(s) - n
    BY <1>5, <2>1
  <2>4. QED
    BY <2>2, <2>3
<1>7. ASSUME NEW q \in f + 1..l + 1, NEW r \in f + 1..l + 1, q <= r
      PROVE  new[q] <= new[r]
  <2>1. at[q] <= at[r] /\ at[q] \in Nat /\ at[r] \in Nat
    BY <1>1, <1>3, <1>7 DEF IsCut
  <2>2. QED
    BY SMTT(30), <1>5, <2>1
<1>8. ASSUME NEW r \in f + 1..l
      PROVE  /\ new[r + 1] = new[r] + Len(script[r])
             /\ \A i \in 1..Len(script[r]) : t[new[r] + i] = Units(r)[i]
  <2>1. r \in f + 1..l + 1 /\ r + 1 \in f + 1..l + 1 /\ r \in f..l
    OBVIOUS
  <2>2. /\ at[r + 1] = at[r] + Len(script[r])
        /\ \A i \in 1..Len(script[r]) : s[at[r] + i] = Units(r)[i]
    BY <1>1, <2>1 DEF IsCut
  <2>3. /\ new[r] = at[r] - n /\ new[r + 1] = at[r + 1] - n
        /\ at[r] \in Nat /\ n <= at[r] /\ at[r + 1] \in Nat /\ at[r + 1] <= Len(s)
    BY <1>3, <1>5, <2>1
  <2>. DEFINE m == Len(script[r])
  <2>0. m \in Nat
    BY <2>1
  <2>. HIDE DEF m
  <2>4. new[r + 1] = new[r] + m
    <3>1. at[r + 1] = at[r] + m
      BY <2>2 DEF m
    <3>2. QED
      BY SMTT(30), <2>0, <2>3, <3>1
  <2>5. ASSUME NEW i \in 1..Len(script[r])
        PROVE  t[new[r] + i] = Units(r)[i]
    <3>1. i \in Nat /\ 1 <= i /\ i <= m
      BY <2>0, <2>5 DEF m
    <3>2. at[r] + m <= Len(s) /\ Len(s) \in Nat
      BY <2>2, <2>3 DEF m
    <3>3. new[r] + i \in 1..Len(t) /\ n + (new[r] + i) = at[r] + i
      <4>. DEFINE a == at[r]
                  len == Len(s)
      <4>1. a \in Nat /\ n <= a /\ new[r] = a - n /\ a + m <= len /\ len \in Nat /\ Len(t) = len - n
        BY <2>3, <3>2
      <4>. HIDE DEF a, len
      <4>2. a \in Nat /\ n <= a /\ a + m <= len /\ len \in Nat
        BY <4>1
      <4>3. (a - n) + i \in 1..len - n
        BY <2>0, <3>1, <4>2
      <4>4. n + ((a - n) + i) = a + i
        BY <3>1, <4>2
      <4>5. QED
        BY <4>1, <4>3, <4>4 DEF a
    <3>4. s[at[r] + i] = Units(r)[i]
      BY <2>2, <2>5
    <3>5. QED
      BY <3>3, <3>4
  <2>6. QED
    BY <2>4, <2>5 DEF m
<1>9. IsCut(t, f + 1, l, new)
  BY <1>6, <1>7, <1>8 DEF IsCut
<1>10. QED
  BY <1>4, <1>9, Zenon DEF Stream

-----------------------------------------------------------------------------
(* The inductive invariant for clients whose requests are framed           *)

Reply == [req : Nat, kind : {"handler", "shortbody", "error"}]

(* The request at the front of the buffer, while there may be another.     *)
Cur == IF status = "done" THEN Len(answers) ELSE Len(answers) + 1

Alive == pc \notin {"closed", "crashed"} /\ ~(status = "done" /\ closing)

Waits == status \in {"line", "headers", "trailers", "chunks"}

(* What still has to follow in request u when its head ends at line b.     *)
EndsAt(u, b) ==
  /\ IsHead(u, b)
  /\ u[1].is # "post" => Len(u) = b
  /\ u[1].is = "post" /\ Has(u, b, "chunked") => \E e \in b + 1..Len(u) - 1 : IsChunked(u, b, e)
  /\ u[1].is = "post" /\ ~Has(u, b, "chunked") =>
       \A i \in 2..b - 1 :
         IsLastLength(u, b, i) => Len(u) = b + (IF u[i].n < 0 THEN 0 ELSE u[i].n)

(* The flags and the length are those of the lines before this one.        *)
AtHeaders(u) ==
  /\ \E b \in line..Len(u) : EndsAt(u, b)
  /\ line > 1
  /\ "body" \in flags <=> u[1].is = "post"
  /\ "chunked" \in flags <=> Has(u, line, "chunked")
  /\ "length" \in flags => \E i \in 2..line - 1 : IsLastLength(u, line, i) /\ length = u[i].n

AtTrailers(u) ==
  /\ line \in 2..Len(u) /\ u[Len(u)].is = "blank"
  /\ \A i \in line..Len(u) - 1 : u[i].is # "blank"

(* How far request u has been parsed.                                      *)
ParseInv(u) ==
  /\ status = "headers" => AtHeaders(u)
  /\ status = "chunks" => /\ line > 1 /\ "body" \in flags
                          /\ \E e \in line..Len(u) - 1 : IsChunked(u, line - 1, e)
  /\ status = "trailers" => AtTrailers(u) /\ "body" \in flags
  /\ status \in {"body", "respond", "done"} =>
       line > 1 /\ (end = Len(u) \/ (status # "done" /\ BodyIsNegative))

ControlInv ==
  /\ status # "line" \/ pc = "inner" => Cur <= sent
  /\ pc = "outer" => status \in {"line", "body", "done"}
  /\ pc = "reading" => status \in {"line", "body"}
  /\ err \/ lost => Waits /\ pc = "inner"
  /\ status = "line" /\ ~err /\ ~lost => line = 1 /\ flags = {}

StreamInv ==
  Alive =>
    /\ Cur \in 1..sent + 1 /\ Stream(buf \o wire, Cur, sent)
    /\ ControlInv
    /\ Cur <= sent /\ ~err /\ ~lost => \A u \in {script[Cur]} : ParseInv(u)

OrderInv ==
  /\ answers \in Seq(Reply)
  /\ \A i \in 1..Len(answers) : answers[i].req = i
  /\ \A i \in 1..Len(answers) - 1 : answers[i].kind = "handler"
  /\ status # "done" => \A i \in 1..Len(answers) : answers[i].kind = "handler"
  /\ Alive /\ status = "done" /\ Len(buf) >= end => answers[Len(answers)].kind = "handler"

FrameInv == TypeInv /\ StreamInv /\ OrderInv

-----------------------------------------------------------------------------
(* A stream stays one as long as its units and the script do.              *)
LEMMA StreamGoesOn ==
  ASSUME script' = script, NEW s, NEW f, NEW l, buf' \o wire' = s, Cur' = f, sent' = l, Stream(s, f, l)
  PROVE  Stream(buf \o wire, Cur, sent)'
<1>1. PICK at \in [f..l + 1 -> 0..Len(s)] : IsCut(s, f, l, at)
  BY DEF Stream
<1>2. at \in [Cur'..sent' + 1 -> 0..Len(buf' \o wire')]
  OBVIOUS
<1>3. \A r : Units(r)' = Units(r)
  BY DEF Units
<1>4. /\ at[Cur'] = 0 /\ at[sent' + 1] = Len(buf' \o wire')
      /\ \A q, r \in Cur'..sent' + 1 : q <= r => at[q] <= at[r]
  BY <1>1 DEF IsCut
<1>5. \A r \in Cur'..sent' :
        /\ at[r + 1] = at[r] + Len(script'[r])
        /\ \A i \in 1..Len(script'[r]) : (buf' \o wire')[at[r] + i] = Units(r)'[i]
  BY <1>1, <1>3 DEF IsCut
<1>6. IsCut(buf \o wire, Cur, sent, at)'
  BY <1>4, <1>5 DEF IsCut
<1>7. QED
  BY <1>2, <1>6 DEF Stream

(* A step that leaves the stream alone.                                    *)
LEMMA QuietStream ==
  ASSUME StreamInv, Alive, UNCHANGED <<script, sent, wire, buf>>, Cur' = Cur, ControlInv',
         Cur <= sent /\ ~err' /\ ~lost' => \A u \in {script[Cur]} : ParseInv(u)'
  PROVE  StreamInv'
<1>1. Cur \in 1..sent + 1 /\ Stream(buf \o wire, Cur, sent)
  BY DEF StreamInv
<1>2. Stream(buf \o wire, Cur, sent)'
  BY <1>1, StreamGoesOn
<1>3. script'[Cur'] = script[Cur] /\ Cur' \in 1..sent' + 1
  BY <1>1
<1>4. (Cur <= sent /\ ~err /\ ~lost)' => \A u \in {script'[Cur']} : ParseInv(u)'
  BY <1>3
<1>5. QED
  BY <1>2, <1>3, <1>4 DEF StreamInv

(* A thread that is done for claims nothing.                               *)
LEMMA NothingClaimed ==
  ASSUME \/ pc' \in {"closed", "crashed"}
         \/ status' = "done" /\ closing' = TRUE
  PROVE  StreamInv'
BY DEF StreamInv, Alive

(* What is in the buffer is what the client sent.                          *)
LEMMA FrontOfBuffer ==
  ASSUME TypeInv, StreamInv, Alive, Cur <= sent, NEW u, u = script[Cur]
  PROVE  /\ Cur \in 1..Len(script) /\ u \in Seq(Raw) /\ Len(u) <= Len(buf) + Len(wire)
         /\ \A i \in 1..Len(u) : /\ (buf \o wire)[i].req = Cur
                                 /\ i <= Len(buf) => /\ buf[i] = Units(Cur)[i] /\ buf[i].req = Cur
                                                     /\ buf[i].is = u[i].is /\ buf[i].n = u[i].n
<1>1. /\ Cur \in 1..sent + 1 /\ Stream(buf \o wire, Cur, sent)
      /\ script \in PatientScripts \cup HastyScripts /\ sent \in 0..Len(script)
      /\ buf \in Seq(Unit) /\ wire \in Seq(Unit)
  BY DEF StreamInv, TypeInv, StreamTypes
<1>2. Len(script) \in Nat
  BY <1>1, LengthOfScript
<1>3. Cur \in 1..Len(script) /\ Cur \in Nat /\ sent \in Nat
  BY <1>1, <1>2
<1>4. /\ u \in Seq(Raw)
      /\ \A i \in 1..Len(u) : /\ Units(Cur)[i].req = Cur /\ Units(Cur)[i].is = u[i].is
                              /\ Units(Cur)[i].n = u[i].n
  BY <1>1, <1>3, UnitsAre
<1>5. Len(u) \in Nat
  BY <1>4
<1>. DEFINE s == buf \o wire
<1>6. s \in Seq(Unit) /\ Len(s) = Len(buf) + Len(wire) /\ \A i \in 1..Len(buf) : s[i] = buf[i]
  BY <1>1
<1>. HIDE DEF s
<1>7. /\ Len(u) <= Len(s)
      /\ \A i \in 1..Len(u) : s[i] = Units(Cur)[i]
  <2>1. Stream(s, Cur, sent)
    BY <1>1 DEF s
  <2>. HIDE DEF Cur
  <2>2. QED
    BY <1>3, <1>5, <1>6, <2>1, StreamFront
<1>8. ASSUME NEW i \in 1..Len(u)
      PROVE  /\ s[i].req = Cur
             /\ i <= Len(buf) => /\ buf[i] = Units(Cur)[i] /\ buf[i].req = Cur
                                 /\ buf[i].is = u[i].is /\ buf[i].n = u[i].n
  <2>1. s[i] = Units(Cur)[i]
    BY <1>7
  <2>2. i <= Len(buf) => i \in 1..Len(buf)
    BY <1>1, <1>5
  <2>3. i <= Len(buf) => s[i] = buf[i]
    BY <1>6, <2>2
  <2>4. QED
    BY <1>4, <2>1, <2>3
<1>9. QED
  BY <1>3, <1>4, <1>6, <1>7, <1>8 DEF s

-----------------------------------------------------------------------------
(* The steps keep the stream                                               *)

(* A send adds a whole request at the end.                                 *)
LEMMA SendKeepsStream ==
  ASSUME TypeInv, StreamInv, Send
  PROVE  StreamInv'
<1>1. /\ sent < Len(script) /\ sent' = sent + 1 /\ wire' = wire \o Units(sent + 1)
      /\ UNCHANGED <<patient, script, buf, status, line, lost, err, flags, length, end, closing, pc,
                     answers>>
  BY DEF Send, buffer, request, replies
<1>2. CASE ~Alive'
  BY <1>2 DEF StreamInv
<1>3. CASE Alive'
  <2>1. Alive /\ Cur' = Cur
    BY <1>1, <1>3 DEF Alive, Cur
  <2>2. /\ Cur \in 1..sent + 1 /\ Stream(buf \o wire, Cur, sent) /\ ControlInv
        /\ Cur <= sent /\ ~err /\ ~lost => \A u \in {script[Cur]} : ParseInv(u)
    BY <2>1 DEF StreamInv
  <2>3. /\ script \in PatientScripts \cup HastyScripts /\ sent \in Nat /\ sent + 1 \in 1..Len(script)
        /\ buf \in Seq(Unit) /\ wire \in Seq(Unit)
    BY <1>1, LengthOfScript DEF TypeInv, StreamTypes
  <2>. DEFINE u == Units(sent + 1)
              s == buf \o wire
  <2>4. u \in Seq(Unit) /\ Len(u) = Len(script[sent + 1])
    BY <2>3, UnitsAre
  <2>5. s \in Seq(Unit) /\ buf' \o wire' = s \o u
    <3>. HIDE DEF u
    <3>1. u \in Seq(Unit)
      BY <2>4
    <3>2. buf \o (wire \o u) = (buf \o wire) \o u
      BY SMTT(30), <2>3, <3>1, ConcatAssociative
    <3>3. QED
      BY SMTT(30), <1>1, <2>3, <3>2 DEF u
  <2>6. \A r \in Cur..sent : Len(script[r]) \in Nat
    <3>1. SUFFICES ASSUME NEW r \in Cur..sent PROVE Len(script[r]) \in Nat
      OBVIOUS
    <3>2. r \in 1..Len(script)
      BY <2>2, <2>3
    <3>3. script[r] \in Seq(Raw)
      BY <2>3, <3>2, UnitsAre
    <3>4. QED
      BY <3>3
  <2>7. Stream(s \o u, Cur, sent + 1)
    <3>1. Cur \in Nat /\ Cur <= sent + 1 /\ Stream(s, Cur, sent) /\ u = Units(sent + 1)
      BY <2>2, <2>3
    <3>. HIDE DEF s, u, Cur
    <3>2. QED
      BY <2>3, <2>4, <2>5, <2>6, <3>1, StreamGrows
  <2>8. Stream(buf \o wire, Cur, sent)'
    <3>. HIDE DEF s, u
    <3>1. QED
      BY <1>1, <2>1, <2>5, <2>7, StreamGoesOn
  <2>9. Cur' \in 1..sent' + 1
    BY <1>1, <2>1, <2>2, <2>3
  <2>10. ControlInv'
    BY <1>1, <2>1, <2>2, <2>3 DEF ControlInv, Waits
  <2>11. (Cur <= sent /\ ~err /\ ~lost)' => \A x \in {script'[Cur']} : ParseInv(x)'
    <3>1. CASE Cur <= sent
      BY <1>1, <2>1, <2>2, <3>1 DEF ParseInv, AtHeaders, AtTrailers, BodyIsNegative
    <3>2. CASE ~(Cur <= sent)
      <4>1. status = "line"
        BY <2>2, <3>2 DEF ControlInv
      <4>2. QED
        BY <1>1, <4>1 DEF ParseInv
    <3>3. QED
      BY <3>1, <3>2
  <2>12. QED
    BY <2>8, <2>9, <2>10, <2>11 DEF StreamInv
<1>4. QED
  BY <1>2, <1>3

(* A read changes where the stream is cut, and nothing else.               *)
LEMMA ReadKeepsStream ==
  ASSUME TypeInv, StreamInv, Read
  PROVE  StreamInv'
<1>1. PICK k \in 0..Len(wire) :
        /\ buf' = buf \o SubSeq(wire, 1, k)
        /\ wire' = SubSeq(wire, k + 1, Len(wire))
        /\ \/ pc' \in {"closed", "crashed"}
           \/ pc' = "inner" /\ status' = status
  BY DEF Read
<1>2. /\ pc = "reading" /\ wire # << >>
      /\ UNCHANGED <<patient, script, sent, line, lost, err, flags, length, end, closing, answers>>
  BY DEF Read, request, replies
<1>3. CASE pc' \in {"closed", "crashed"}
  BY <1>3, NothingClaimed
<1>4. CASE pc' = "inner" /\ status' = status
  <2>1. CASE ~Alive
    <3>1. ~Alive'
      BY <1>2, <1>4, <2>1 DEF Alive
    <3>2. QED
      BY <3>1 DEF StreamInv
  <2>2. CASE Alive
    <3>1. /\ Cur \in 1..sent + 1 /\ Stream(buf \o wire, Cur, sent) /\ ControlInv
          /\ Cur <= sent /\ ~err /\ ~lost => \A u \in {script[Cur]} : ParseInv(u)
          /\ Cur' = Cur
      BY <1>2, <1>4, <2>2 DEF StreamInv, Cur
    <3>2. buf \in Seq(Unit) /\ wire \in Seq(Unit) /\ sent \in Nat
      BY LengthOfScript DEF TypeInv, StreamTypes
    <3>3. buf' \o wire' = buf \o wire
      <4>1. k \in 0..Len(wire)
        BY <1>1
      <4>2. (buf \o SubSeq(wire, 1, k)) \o SubSeq(wire, k + 1, Len(wire)) = buf \o wire
        BY <3>2, <4>1, OneStream, Zenon
      <4>3. QED
        BY <1>1, <4>2
    <3>4. Stream(buf \o wire, Cur, sent)'
      BY <1>2, <3>1, <3>3, StreamGoesOn
    <3>5. Cur <= sent
      <4>1. SUFFICES ASSUME Cur = sent + 1 PROVE FALSE
        BY <3>1, <3>2
      <4>. DEFINE s == buf \o wire
      <4>2. s \in Seq(Unit) /\ Len(s) = Len(buf) + Len(wire)
        BY <3>2
      <4>3. Stream(s, sent + 1, sent)
        BY <3>1, <4>1
      <4>. HIDE DEF s
      <4>4. Len(s) = 0
        BY <3>2, <4>2, <4>3, StreamOfNothing
      <4>5. Len(wire) # 0
        BY <1>2, <3>2
      <4>6. QED
        BY <3>2, <4>2, <4>4, <4>5
    <3>6. ~err /\ ~lost /\ status \in {"line", "body"}
      BY <1>2, <3>1 DEF ControlInv
    <3>7. ControlInv'
      BY <1>2, <1>4, <3>1, <3>5, <3>6 DEF ControlInv
    <3>8. \A u \in {script[Cur]} : ParseInv(u)'
      BY <1>2, <1>4, <3>1, <3>5, <3>6 DEF ParseInv, BodyIsNegative
    <3>9. script'[Cur'] = script[Cur] /\ Cur' \in 1..sent' + 1
      BY <1>2, <3>1
    <3>10. QED
      BY <3>4, <3>7, <3>8, <3>9 DEF StreamInv
  <2>3. QED
    BY <2>1, <2>2
<1>5. QED
  BY <1>1, <1>3, <1>4

(* The leftover of one request is the start of the next, since the end of  *)
(* the request was where the request ends (threadroutines.c:669-707).      *)
LEMMA NextRequestKeepsStream ==
  ASSUME TypeInv, StreamInv, answers \in Seq(Reply), NextRequest
  PROVE  StreamInv'
<1>1. CASE Len(buf) < end
  <2>1. pc' = "crashed"
    BY <1>1 DEF NextRequest, Crash
  <2>2. QED
    BY <2>1, NothingClaimed
<1>2. CASE ~(Len(buf) < end)
  <2>1. /\ buf' = Leftover /\ pc' = "reading" /\ pc = "outer" /\ status = "done" /\ ~closing
        /\ status' = "line" /\ line' = 1 /\ lost' = FALSE /\ err' = FALSE
        /\ flags' = {}
        /\ UNCHANGED <<patient, script, sent, wire, length, end, closing, answers>>
    BY <1>2 DEF NextRequest, NewRequest, network, replies
  <2>2. Alive /\ Len(answers) \in Nat /\ Cur = Len(answers) /\ Cur' = Len(answers) + 1
    BY <2>1 DEF Alive, Cur
  <2>3. /\ Cur \in 1..sent + 1 /\ Stream(buf \o wire, Cur, sent) /\ ControlInv
        /\ Cur <= sent /\ ~err /\ ~lost => \A u \in {script[Cur]} : ParseInv(u)
    BY <2>2 DEF StreamInv
  <2>4. Cur <= sent /\ ~err /\ ~lost
    BY <2>1, <2>3 DEF ControlInv, Waits
  <2>5. end = Len(script[Cur])
    BY <2>1, <2>3, <2>4 DEF ParseInv
  <2>6. /\ script \in PatientScripts \cup HastyScripts /\ sent \in Nat /\ sent <= Len(script)
        /\ Len(script) \in Nat /\ buf \in Seq(Unit) /\ wire \in Seq(Unit) /\ end \in Nat
        /\ end <= Len(buf)
    BY <1>2, <2>1, LengthOfScript DEF TypeInv, StreamTypes, ParserTypes
  <2>7. \A r \in Cur..sent : Len(script[r]) \in Nat
    <3>1. SUFFICES ASSUME NEW r \in Cur..sent PROVE Len(script[r]) \in Nat
      OBVIOUS
    <3>2. r \in 1..Len(script)
      BY <2>3, <2>6
    <3>3. script[r] \in Seq(Raw)
      BY <2>6, <3>2, UnitsAre
    <3>4. QED
      BY <3>3
  <2>. DEFINE s == buf \o wire
              g == Leftover
              t == g \o wire
  <2>8. g \in Seq(Unit) /\ Len(g) = Len(buf) - end /\ \A i \in 1..Len(buf) - end : g[i] = buf[end + i]
    BY <2>1, <2>6, LeftoverIs
  <2>. HIDE DEF g
  <2>9. /\ s \in Seq(Unit) /\ Len(s) = Len(buf) + Len(wire)
        /\ \A i \in 1..Len(buf) : s[i] = buf[i]
        /\ \A i \in 1..Len(wire) : s[Len(buf) + i] = wire[i]
    BY <2>6
  <2>10. /\ t \in Seq(Unit) /\ Len(t) = Len(g) + Len(wire)
         /\ \A i \in 1..Len(g) : t[i] = g[i]
         /\ \A i \in 1..Len(wire) : t[Len(g) + i] = wire[i]
    <3>1. g \in Seq(Unit) /\ wire \in Seq(Unit)
      BY <2>6, <2>8
    <3>2. QED
      BY <3>1
  <2>. HIDE DEF s, t
  <2>11. Len(buf) \in Nat /\ Len(wire) \in Nat /\ Len(g) \in Nat
    BY <2>6, <2>8
  <2>12. Len(t) = Len(s) - end
    BY <2>6, <2>8, <2>9, <2>10, <2>11
  <2>13. ASSUME NEW i \in 1..Len(t)
         PROVE  t[i] = s[end + i]
    <3>1. CASE i \in 1..Len(g)
      <4>1. end + i \in 1..Len(buf) /\ i \in 1..Len(buf) - end
        BY <2>6, <2>8, <2>11, <3>1
      <4>2. QED
        BY <2>8, <2>9, <2>10, <3>1, <4>1
    <3>2. CASE i > Len(g)
      <4>1. PICK j \in 1..Len(wire) : i = Len(g) + j
        <5>1. i - Len(g) \in 1..Len(wire) /\ i = Len(g) + (i - Len(g))
          BY <2>10, <2>11, <3>2
        <5>2. QED
          BY <5>1
      <4>2. end + i = Len(buf) + j
        BY <2>6, <2>8, <2>11, <4>1
      <4>3. QED
        BY <2>9, <2>10, <4>1, <4>2
    <3>3. QED
      BY <2>10, <2>11, <3>1, <3>2
  <2>14. Stream(t, Cur + 1, sent)
    <3>1. Cur \in Nat /\ Stream(s, Cur, sent)
      BY <2>3, <2>6 DEF s
    <3>. HIDE DEF Cur
    <3>2. QED
      BY <2>4, <2>5, <2>6, <2>7, <2>9, <2>10, <2>12, <2>13, <3>1, StreamDrops
  <2>15. Stream(buf \o wire, Cur, sent)'
    <3>1. buf' \o wire' = t /\ Cur' = Cur + 1
      BY <2>1, <2>2 DEF t, g
    <3>2. QED
      BY <2>1, <2>14, <3>1, StreamGoesOn
  <2>16. Cur' \in 1..sent' + 1
    BY <2>1, <2>2, <2>3, <2>4, <2>6
  <2>17. ControlInv'
    BY <2>1 DEF ControlInv
  <2>18. \A u : ParseInv(u)'
    BY <2>1 DEF ParseInv
  <2>19. QED
    BY <2>15, <2>16, <2>17, <2>18 DEF StreamInv
<1>3. QED
  BY <1>1, <1>2

(* The turns of the outer loop and the ends of the inner one.              *)
LEMMA LoopsKeepStream ==
  ASSUME TypeInv, StreamInv,
         FirstRead \/ GrowForBody \/ BodyFits \/ InnerEnds \/ IncompleteLine
  PROVE  StreamInv'
<1>1. /\ UNCHANGED <<script, sent, wire, buf, line, flags, length, end, closing, answers>>
      /\ pc \in {"outer", "inner"}
      /\ \/ /\ status \in {"line", "body"} /\ status' = status /\ pc = "outer" /\ pc' = "reading"
            /\ err' = err /\ lost' = lost
         \/ /\ status = "body" /\ status' = "respond" /\ pc = "outer" /\ pc' = "inner"
            /\ err' = err /\ lost' = lost
         \/ /\ status \in {"done", "body"} /\ status' = status /\ pc' = "outer"
            /\ err' = err /\ lost' = lost
         \/ /\ status \in {"line", "headers", "trailers"} /\ status' = status /\ pc = "inner"
            /\ pc' = "inner" /\ (err' = TRUE \/ lost' = TRUE)
  BY DEF FirstRead, GrowForBody, BodyFits, InnerEnds, IncompleteLine, Parsing, network, buffer,
     request, replies
<1>2. CASE ~Alive
  <2>1. ~Alive'
    BY <1>1, <1>2 DEF Alive
  <2>2. QED
    BY <2>1 DEF StreamInv
<1>3. CASE Alive
  <2>1. Cur' = Cur
    BY <1>1 DEF Cur
  <2>2. /\ Cur \in 1..sent + 1 /\ ControlInv
        /\ Cur <= sent /\ ~err /\ ~lost => \A u \in {script[Cur]} : ParseInv(u)
    BY <1>3 DEF StreamInv
  <2>3. ControlInv'
    <3>1. CASE err' = TRUE \/ lost' = TRUE
      <4>1. Waits' /\ pc' = "inner" /\ Cur <= sent
        BY <1>1, <2>2, <3>1 DEF ControlInv, Waits
      <4>2. ~(~err' /\ ~lost')
        BY <3>1
      <4>3. QED
        BY <1>1, <2>1, <4>1, <4>2 DEF ControlInv
    <3>2. CASE err' = err /\ lost' = lost /\ status \in {"line", "body"} /\ pc = "outer"
      <4>1. ~err /\ ~lost
        BY <2>2, <3>2 DEF ControlInv
      <4>2. QED
        BY <1>1, <2>1, <2>2, <3>2, <4>1 DEF ControlInv
    <3>3. CASE err' = err /\ lost' = lost /\ status \in {"done", "body"} /\ status' = status /\ pc' = "outer"
      <4>1. ~err /\ ~lost
        BY <2>2, <3>3 DEF ControlInv, Waits
      <4>2. QED
        BY <1>1, <2>1, <2>2, <3>3, <4>1 DEF ControlInv
    <3>4. QED
      BY <1>1, <3>1, <3>2, <3>3, Zenon
  <2>4. Cur <= sent /\ ~err' /\ ~lost' => \A u \in {script[Cur]} : ParseInv(u)'
    <3>1. SUFFICES ASSUME Cur <= sent, ~err', ~lost', NEW u \in {script[Cur]} PROVE ParseInv(u)'
      OBVIOUS
    <3>2. /\ err' = err /\ lost' = lost
          /\ status' = status \/ (status = "body" /\ status' = "respond")
      BY <1>1, <3>1, Zenon
    <3>3. ParseInv(u)
      BY <2>2, <3>1, <3>2
    <3>4. QED
      BY <1>1, <3>2, <3>3 DEF ParseInv, AtHeaders, AtTrailers, BodyIsNegative
  <2>5. QED
    BY <1>1, <1>3, <2>1, <2>3, <2>4, QuietStream
<1>4. QED
  BY <1>2, <1>3

(* What a turn over a whole line starts from.                              *)
LEMMA LineOfRequest ==
  ASSUME TypeInv, StreamInv, pc = "inner", status # "done", ~err, ~lost
  PROVE  /\ Alive /\ Cur \in 1..sent /\ Cur \in 1..Len(script) /\ ControlInv /\ ParseInv(script[Cur])
         /\ Len(buf) \in Nat /\ line \in Nat \ {0} /\ script[Cur] \in Seq(Raw)
<1>1. Alive
  BY DEF Alive
<1>2. /\ Cur \in 1..sent + 1 /\ ControlInv
      /\ Cur <= sent /\ ~err /\ ~lost => \A u \in {script[Cur]} : ParseInv(u)
  BY <1>1 DEF StreamInv
<1>3. Cur <= sent
  BY <1>2 DEF ControlInv
<1>4. sent \in Nat /\ Len(buf) \in Nat /\ line \in Nat \ {0}
  BY LengthOfScript DEF TypeInv, StreamTypes, ParserTypes
<1>5. Cur \in 1..Len(script) /\ script[Cur] \in Seq(Raw)
  BY <1>1, <1>3, FrontOfBuffer
<1>6. QED
  BY <1>1, <1>2, <1>3, <1>4, <1>5

(* After the request line the parser is among the headers of a framed      *)
(* request.                                                                *)
LEMMA RequestLineKeepsStream ==
  ASSUME ClientsFrame, TypeInv, StreamInv, RequestLine
  PROVE  StreamInv'
<1>1. /\ pc = "inner" /\ status = "line" /\ ~err /\ ~lost /\ line <= Len(buf)
      /\ err' = (buf[line].is \notin {"get", "get10", "post"})
      /\ flags' = flags \cup (IF buf[line].is = "get10" THEN {"http10"} ELSE {})
                        \cup (IF buf[line].is = "post" THEN {"body"} ELSE {})
      /\ status' = "headers" /\ line' = line + 1
      /\ UNCHANGED <<script, sent, wire, buf, lost, length, end, closing, pc, answers>>
  BY DEF RequestLine, Parsing, HasLine, network, buffer, replies
<1>0. PICK u : u = script[Cur]
  OBVIOUS
<1>2. /\ Alive /\ Cur \in 1..sent /\ Cur \in 1..Len(script) /\ ControlInv /\ Len(buf) \in Nat
      /\ u \in Seq(Raw)
  BY <1>0, <1>1, LineOfRequest
<1>3. Cur' = Cur
  BY <1>1 DEF Cur
<1>4. line = 1 /\ flags = {}
  BY <1>1, <1>2 DEF ControlInv
<1>5. IsFramed(u)
  <2>1. script \in PatientScripts \cup HastyScripts /\ Cur \in DOMAIN script
    BY <1>2, ParserAssumption DEF TypeInv, StreamTypes
  <2>2. QED
    BY <1>0, <2>1 DEF ClientsFrame
<1>6. PICK b \in 2..Len(u) : EndsAt(u, b)
  BY <1>5 DEF IsFramed, EndsAt
<1>7. buf[1].is = u[1].is
  <2>1. 1 \in 1..Len(u) /\ 1 <= Len(buf) /\ Cur <= sent
    BY <1>1, <1>2, <1>4, <1>6
  <2>2. QED
    BY <1>0, <1>2, <2>1, FrontOfBuffer
<1>8. AtHeaders(u)'
  <2>1. line' = 2
    BY <1>1, <1>4
  <2>2. \E e \in 2..Len(u) : EndsAt(u, e)
    BY <1>6
  <2>3. ("body" \in flags' <=> u[1].is = "post") /\ "chunked" \notin flags' /\ "length" \notin flags'
    BY <1>1, <1>4, <1>7
  <2>4. ~Has(u, 2, "chunked")
    BY DEF Has
  <2>5. QED
    BY <2>1, <2>2, <2>3, <2>4 DEF AtHeaders
<1>9. ParseInv(u)'
  BY <1>1, <1>8 DEF ParseInv
<1>10. ControlInv'
  BY <1>1, <1>2, <1>3 DEF ControlInv, Waits
<1>11. QED
  BY <1>0, <1>1, <1>2, <1>3, <1>9, <1>10, QuietStream

(* A header line is not the end of the head; its flags and length are      *)
(* those of the lines so far.                                              *)
LEMMA HeaderKeepsStream ==
  ASSUME TypeInv, StreamInv, Header
  PROVE  StreamInv'
<1>1. /\ pc = "inner" /\ status \in {"headers", "trailers"} /\ ~err /\ ~lost /\ line <= Len(buf)
      /\ buf[line].is # "blank" /\ status' = status /\ line' = line + 1
      /\ flags' = flags \cup ({buf[line].is} \cap {"host", "length", "chunked", "expect"})
      /\ length' = IF buf[line].is = "length" THEN buf[line].n ELSE length
      /\ UNCHANGED <<script, sent, wire, buf, lost, end, pc, answers>>
  BY DEF Header, Parsing, HasLine, network, buffer, replies
<1>0. PICK u : u = script[Cur]
  OBVIOUS
<1>2. /\ Alive /\ Cur \in 1..sent /\ ControlInv /\ Len(buf) \in Nat
      /\ u \in Seq(Raw) /\ ParseInv(u) /\ line \in Nat \ {0}
  BY <1>0, <1>1, LineOfRequest
<1>3. Cur' = Cur
  BY <1>1 DEF Cur
<1>4. \A i \in 1..Len(u) : i <= Len(buf) => buf[i].is = u[i].is /\ buf[i].n = u[i].n
  BY <1>0, <1>2, FrontOfBuffer
<1>5. Len(u) \in Nat
  BY <1>2
<1>6. ASSUME status = "headers"
      PROVE  ParseInv(u)'
  <2>1. AtHeaders(u)
    BY <1>2, <1>6 DEF ParseInv
  <2>2. PICK b \in line..Len(u) : EndsAt(u, b)
    BY <2>1 DEF AtHeaders
  <2>3. line > 1 /\ line \in 1..Len(u) /\ b \in Nat
    BY <1>2, <1>5, <2>1, <2>2 DEF AtHeaders
  <2>4. buf[line].is = u[line].is /\ buf[line].n = u[line].n
    BY <1>1, <1>4, <2>3
  <2>5. b \in line + 1..Len(u)
    <3>1. b # line
      BY <1>1, <2>2, <2>4 DEF EndsAt, IsHead
    <3>2. QED
      BY <1>5, <2>2, <2>3, <3>1
  <2>6. "body" \in flags' <=> u[1].is = "post"
    BY <1>1, <2>1 DEF AtHeaders
  <2>7. \A i : i \in 2..line <=> i \in 2..line - 1 \/ i = line
    BY <1>2, <2>3
  <2>8. "chunked" \in flags' <=> Has(u, line + 1, "chunked")
    <3>1. "chunked" \in flags' <=> "chunked" \in flags \/ u[line].is = "chunked"
      BY <1>1, <2>4
    <3>2. Has(u, line + 1, "chunked") <=> Has(u, line, "chunked") \/ u[line].is = "chunked"
      <4>1. (line + 1) - 1 = line
        BY <1>2
      <4>2. QED
        BY <2>7, <4>1 DEF Has
    <3>3. QED
      BY <2>1, <3>1, <3>2 DEF AtHeaders
  <2>9. "length" \in flags' => \E i \in 2..line : IsLastLength(u, line + 1, i) /\ length' = u[i].n
    <3>1. (line + 1) - 1 = line
      BY <1>2
    <3>2. CASE u[line].is = "length"
      <4>1. IsLastLength(u, line + 1, line)
        BY <1>2, <2>3, <3>1, <3>2 DEF IsLastLength
      <4>2. length' = u[line].n /\ line \in 2..line
        BY <1>1, <1>2, <2>3, <2>4, <3>2
      <4>3. QED
        BY <4>1, <4>2
    <3>3. CASE u[line].is # "length"
      <4>1. SUFFICES ASSUME "length" \in flags'
                     PROVE  \E i \in 2..line : IsLastLength(u, line + 1, i) /\ length' = u[i].n
        OBVIOUS
      <4>2. "length" \in flags /\ length' = length
        BY <1>1, <2>4, <3>3, <4>1
      <4>3. PICK i \in 2..line - 1 : IsLastLength(u, line, i) /\ length = u[i].n
        BY <2>1, <4>2 DEF AtHeaders
      <4>4. \A j : j \in i + 1..line => j \in i + 1..line - 1 \/ j = line
        BY <1>2, <4>3
      <4>5. i \in 2..line
        BY <2>7, <4>3
      <4>6. IsLastLength(u, line + 1, i)
        BY <3>1, <3>3, <4>3, <4>4, <4>5 DEF IsLastLength
      <4>7. QED
        BY <4>2, <4>3, <4>5, <4>6
    <3>4. QED
      BY <3>2, <3>3
  <2>10. AtHeaders(u)'
    <3>1. line' > 1 /\ line' - 1 = line
      BY <1>1, <1>2, <2>3
    <3>2. QED
      BY <1>1, <2>2, <2>5, <2>6, <2>8, <2>9, <3>1 DEF AtHeaders
  <2>11. QED
    BY <1>1, <1>6, <2>10 DEF ParseInv
<1>7. ASSUME status = "trailers"
      PROVE  ParseInv(u)'
  <2>1. AtTrailers(u) /\ "body" \in flags
    BY <1>2, <1>7 DEF ParseInv
  <2>2. line \in 2..Len(u) /\ u[Len(u)].is = "blank" /\ \A i \in line..Len(u) - 1 : u[i].is # "blank"
    BY <2>1 DEF AtTrailers
  <2>3. buf[line].is = u[line].is
    BY <1>1, <1>2, <1>4, <1>5, <2>2
  <2>4. line + 1 \in 2..Len(u)
    <3>1. line # Len(u)
      BY <1>1, <2>2, <2>3
    <3>2. QED
      BY <1>2, <1>5, <2>2, <3>1
  <2>5. \A i \in line + 1..Len(u) - 1 : i \in line..Len(u) - 1
    BY <1>2, <1>5
  <2>6. AtTrailers(u)' /\ "body" \in flags'
    BY <1>1, <2>1, <2>2, <2>4, <2>5 DEF AtTrailers
  <2>7. QED
    BY <1>1, <1>7, <2>6 DEF ParseInv
<1>8. ParseInv(u)'
  BY <1>1, <1>6, <1>7
<1>9. ControlInv'
  BY <1>1, <1>2, <1>3 DEF ControlInv, Waits
<1>10. QED
  BY <1>0, <1>1, <1>2, <1>3, <1>8, <1>9, QuietStream

(* The first blank line is the end of the head, and messageEndOffset is    *)
(* then the end of the request; the blank line of the trailers is the end  *)
(* of the request.                                                         *)
LEMMA BlankLineKeepsStream ==
  ASSUME TypeInv, StreamInv, BlankLine
  PROVE  StreamInv'
<1>1. /\ pc = "inner" /\ status \in {"headers", "trailers"} /\ ~err /\ ~lost /\ line <= Len(buf)
      /\ buf[line].is = "blank" /\ line' = line + 1
      /\ UNCHANGED <<script, sent, wire, buf, lost, flags, length, closing, pc, answers>>
  BY DEF BlankLine, Parsing, HasLine, network, buffer
<1>0. PICK u : u = script[Cur]
  OBVIOUS
<1>2. /\ Alive /\ Cur \in 1..sent /\ ControlInv /\ Len(buf) \in Nat
      /\ u \in Seq(Raw) /\ ParseInv(u) /\ line \in Nat \ {0}
  BY <1>0, <1>1, LineOfRequest
<1>3. \/ err' = TRUE /\ status' = status
      \/ /\ status' = "respond" /\ end' = line /\ err' = err
         /\ "body" \notin flags \/ status = "trailers"
      \/ /\ status' = "chunks" /\ err' = err
         /\ "body" \in flags /\ status = "headers" /\ "chunked" \in flags
      \/ /\ status' = "body" /\ end' = line + length /\ err' = err
         /\ "body" \in flags /\ status = "headers" /\ "chunked" \notin flags /\ "length" \in flags
  BY <1>1 DEF BlankLine, BodyEnd
<1>4. \A i \in 1..Len(u) : i <= Len(buf) => buf[i].is = u[i].is /\ buf[i].n = u[i].n
  BY <1>0, <1>2, FrontOfBuffer
<1>5. Len(u) \in Nat
  BY <1>2
<1>6. Cur' = Cur
  BY <1>1, <1>3 DEF Cur
<1>7. ASSUME status = "headers"
      PROVE  EndsAt(u, line) /\ line > 1
  <2>1. AtHeaders(u)
    BY <1>2, <1>7 DEF ParseInv
  <2>2. PICK b \in line..Len(u) : EndsAt(u, b)
    BY <2>1 DEF AtHeaders
  <2>3. line > 1 /\ line \in 1..Len(u) /\ b \in Nat
    BY <1>2, <1>5, <2>1, <2>2 DEF AtHeaders
  <2>4. u[line].is = "blank"
    BY <1>1, <1>4, <2>3
  <2>5. ~(line \in 1..b - 1)
    BY <2>2, <2>4 DEF EndsAt, IsHead
  <2>6. b = line
    BY <1>2, <1>5, <2>2, <2>3, <2>5
  <2>7. QED
    BY <2>2, <2>3, <2>6
<1>8. ASSUME err' = err
      PROVE  ParseInv(u)'
  <2>1. CASE status' = "respond" /\ end' = line /\ status = "headers" /\ "body" \notin flags
    <3>1. u[1].is # "post"
      BY <1>2, <2>1 DEF ParseInv, AtHeaders
    <3>2. Len(u) = line /\ line > 1
      BY <1>7, <2>1, <3>1 DEF EndsAt
    <3>3. line' > 1
      BY <1>1, <1>2, <3>2
    <3>4. QED
      BY <2>1, <3>2, <3>3 DEF ParseInv
  <2>2. CASE status' = "respond" /\ end' = line /\ status = "trailers"
    <3>1. line \in 2..Len(u) /\ \A i \in line..Len(u) - 1 : u[i].is # "blank"
      BY <1>2, <2>2 DEF ParseInv, AtTrailers
    <3>2. u[line].is = "blank"
      BY <1>1, <1>2, <1>4, <1>5, <3>1
    <3>3. ~(line \in line..Len(u) - 1)
      BY <3>1, <3>2
    <3>4. line = Len(u) /\ line' > 1
      BY <1>1, <1>2, <1>5, <3>1, <3>3
    <3>5. QED
      BY <2>2, <3>4 DEF ParseInv
  <2>3. CASE /\ status' = "chunks" /\ "body" \in flags /\ status = "headers" /\ "chunked" \in flags
    <3>1. u[1].is = "post" /\ Has(u, line, "chunked")
      BY <1>2, <2>3 DEF ParseInv, AtHeaders
    <3>2. PICK e \in line + 1..Len(u) - 1 : IsChunked(u, line, e)
      BY <1>7, <2>3, <3>1 DEF EndsAt
    <3>3. line' > 1 /\ line' - 1 = line /\ "body" \in flags'
      BY <1>1, <1>2, <1>7, <2>3
    <3>4. \E x \in line'..Len(u) - 1 : IsChunked(u, line' - 1, x)
      BY <1>1, <3>2, <3>3
    <3>5. QED
      BY <2>3, <3>3, <3>4 DEF ParseInv
  <2>4. CASE /\ status' = "body" /\ end' = line + length /\ "body" \in flags /\ status = "headers"
             /\ "chunked" \notin flags /\ "length" \in flags
    <3>1. /\ u[1].is = "post" /\ ~Has(u, line, "chunked")
          /\ \E i \in 2..line - 1 : IsLastLength(u, line, i) /\ length = u[i].n
      BY <1>2, <2>4 DEF ParseInv, AtHeaders
    <3>2. PICK i \in 2..line - 1 : IsLastLength(u, line, i) /\ length = u[i].n
      BY <3>1
    <3>3. Len(u) = line + (IF length < 0 THEN 0 ELSE length)
      BY <1>7, <2>4, <3>1, <3>2 DEF EndsAt
    <3>4. line' > 1
      BY <1>1, <1>2, <1>7, <2>4
    <3>5. CASE length < 0
      <4>1. BodyIsNegative'
        BY <1>1, <2>4, <3>5 DEF BodyIsNegative
      <4>2. QED
        BY <2>4, <3>4, <4>1 DEF ParseInv
    <3>6. CASE ~(length < 0)
      BY <2>4, <3>3, <3>4, <3>6 DEF ParseInv
    <3>7. QED
      BY <3>5, <3>6
  <2>5. ~err'
    BY <1>1, <1>8
  <2>6. QED
    BY <1>1, <1>3, <2>1, <2>2, <2>3, <2>4, <2>5, Zenon
<1>9. ControlInv'
  <2>1. status' # "done" /\ status' # "line" /\ Cur <= sent
    BY <1>1, <1>2, <1>3
  <2>2. CASE err' = TRUE /\ status' = status
    BY <1>1, <1>2, <1>6, <2>1, <2>2 DEF ControlInv, Waits
  <2>3. CASE err' = err
    BY <1>1, <1>6, <2>1, <2>3 DEF ControlInv
  <2>4. QED
    BY <1>3, <2>2, <2>3
<1>10. ~err' => err' = err
  BY <1>3
<1>11. ~err' => ParseInv(u)'
  BY <1>8, <1>10
<1>12. QED
  BY <1>0, <1>1, <1>2, <1>6, <1>9, <1>11, QuietStream

(* The last chunk that the turn finds is the request's own.                *)
LEMMA ChunksKeepsStream ==
  ASSUME TypeInv, StreamInv, Chunks
  PROVE  StreamInv'
<1>. DEFINE end0 == ChunksEnd(buf, line)
<1>0. PICK u, last : u = script[Cur] /\ last = end0
  OBVIOUS
<1>1. /\ status = "chunks" /\ pc = "inner" /\ ~err /\ ~lost
      /\ UNCHANGED <<script, sent, wire, buf, flags, end, closing, pc, answers>>
      /\ \/ /\ last <= Len(buf) /\ buf[last].is = "lastchunk" /\ status' = "trailers"
            /\ line' = (IF last = line THEN last + 1 ELSE last)
            /\ UNCHANGED <<err, lost>>
         \/ /\ status' = status
            /\ \/ lost' = TRUE /\ err' = err
               \/ err' = TRUE /\ lost' = lost
  BY <1>0, ChunksDo
<1>2. /\ Alive /\ Cur \in 1..sent /\ ControlInv /\ Len(buf) \in Nat
      /\ u \in Seq(Raw) /\ ParseInv(u) /\ line \in Nat \ {0}
  BY <1>0, <1>1, LineOfRequest
<1>3. /\ last \in line..Len(buf) + 1
      /\ \A j \in line..last - 1 : buf[j].is = "chunk"
      /\ last <= Len(buf) => buf[last].is # "chunk"
  BY <1>0, ChunksEndIs DEF TypeInv, StreamTypes, ParserTypes
<1>. HIDE DEF end0
<1>4. \A i \in 1..Len(u) : i <= Len(buf) => buf[i].is = u[i].is /\ buf[i].n = u[i].n
  BY <1>0, <1>2, FrontOfBuffer
<1>5. Len(u) \in Nat /\ last \in Nat
  BY <1>2, <1>3
<1>6. Cur' = Cur
  BY <1>1 DEF Cur
<1>7. ASSUME last <= Len(buf), buf[last].is = "lastchunk", status' = "trailers",
             line' = (IF last = line THEN last + 1 ELSE last)
      PROVE  ParseInv(u)'
  <2>1. /\ line > 1 /\ "body" \in flags
        /\ \E e \in line..Len(u) - 1 : IsChunked(u, line - 1, e)
    BY <1>1, <1>2 DEF ParseInv
  <2>2. PICK e \in line..Len(u) - 1 : IsChunked(u, line - 1, e)
    BY <2>1
  <2>3. (line - 1) + 1 = line /\ e \in 1..Len(u) /\ e \in Nat
    BY <1>2, <1>5, <2>2
  <2>4. /\ u[e].is = "lastchunk" /\ \A i \in line..e - 1 : u[i].is = "chunk"
        /\ u[Len(u)].is = "blank" /\ \A i \in e + 1..Len(u) - 1 : u[i].is # "blank"
    BY <2>2, <2>3 DEF IsChunked
  <2>5. ~(last < e)
    <3>1. SUFFICES ASSUME last < e PROVE FALSE
      OBVIOUS
    <3>2. last \in line..e - 1 /\ last \in 1..Len(u)
      BY <1>2, <1>3, <1>5, <2>2, <2>3, <3>1
    <3>3. u[last].is = "chunk" /\ buf[last].is = u[last].is
      BY <1>4, <1>7, <2>4, <3>2
    <3>4. QED
      BY <1>7, <3>3
  <2>6. ~(e < last)
    <3>1. SUFFICES ASSUME e < last PROVE FALSE
      OBVIOUS
    <3>2. e \in line..last - 1 /\ e <= Len(buf)
      BY <1>2, <1>3, <1>5, <1>7, <2>2, <2>3, <3>1
    <3>3. buf[e].is = "chunk" /\ buf[e].is = u[e].is
      BY <1>3, <1>4, <2>3, <3>2
    <3>4. QED
      BY <2>4, <3>3
  <2>7. last = e
    BY <1>5, <2>3, <2>5, <2>6
  <2>8. line' \in 2..Len(u) /\ (line' = e \/ line' = e + 1)
    BY <1>2, <1>5, <1>7, <2>1, <2>2, <2>3, <2>7
  <2>9. \A i \in line'..Len(u) - 1 : u[i].is # "blank"
    <3>1. \A i \in line'..Len(u) - 1 : i = e \/ i \in e + 1..Len(u) - 1
      BY <1>5, <2>3, <2>8
    <3>2. QED
      BY <2>4, <3>1
  <2>10. AtTrailers(u)' /\ "body" \in flags'
    BY <1>1, <2>1, <2>4, <2>8, <2>9 DEF AtTrailers
  <2>11. QED
    BY <1>7, <2>10 DEF ParseInv
<1>8. ~err' /\ ~lost' => ParseInv(u)'
  BY <1>1, <1>7
<1>9. ControlInv'
  BY <1>1, <1>2, <1>6 DEF ControlInv, Waits
<1>10. QED
  BY <1>0, <1>1, <1>2, <1>6, <1>8, <1>9, QuietStream

(* The request was handed to a handler: it is still the one in front.      *)
LEMMA StartKeepsStream ==
  ASSUME TypeInv, StreamInv, answers \in Seq(Reply), StartHandler
  PROVE  StreamInv'
<1>1. /\ pc = "inner" /\ ~err /\ status = "respond" /\ ~BodyIsNegative /\ status' = "done"
      /\ answers' = Append(answers, [req |-> buf[1].req,
                                     kind |-> IF Len(buf) >= end THEN "handler" ELSE "shortbody"])
      /\ UNCHANGED <<script, sent, wire, buf, line, lost, err, flags, length, end, closing, pc>>
  BY DEF StartHandler, Answer, network, buffer, request
<1>0. PICK u : u = script[Cur]
  OBVIOUS
<1>2. Len(answers') = Len(answers) + 1
  BY <1>1
<1>3. Cur' = Cur
  BY <1>1, <1>2 DEF Cur
<1>4. Alive
  BY <1>1 DEF Alive
<1>5. /\ ControlInv /\ ~lost
      /\ Cur <= sent /\ ~err /\ ~lost => \A x \in {script[Cur]} : ParseInv(x)
  BY <1>1, <1>4 DEF StreamInv, ControlInv, Waits
<1>6. Cur <= sent /\ ParseInv(u)
  BY <1>0, <1>1, <1>5 DEF ControlInv
<1>7. ParseInv(u)'
  BY <1>1, <1>6 DEF ParseInv
<1>8. ControlInv'
  BY <1>1, <1>3, <1>5, <1>6 DEF ControlInv, Waits
<1>9. QED
  BY <1>0, <1>1, <1>3, <1>4, <1>6, <1>7, <1>8, QuietStream

(* At first nothing was sent ...                                           *)
LEMMA StreamInit == Init => StreamInv
<1>1. SUFFICES ASSUME Init PROVE StreamInv
  OBVIOUS
<1>2. /\ sent = 0 /\ buf = << >> /\ wire = << >> /\ status = "line" /\ pc = "outer" /\ answers = << >>
      /\ line = 1 /\ err = FALSE /\ lost = FALSE /\ flags = {} /\ length = 0 /\ closing = FALSE
  BY <1>1 DEF Init
<1>3. Cur = 1 /\ buf \o wire = << >>
  BY <1>2 DEF Cur
<1>4. Stream(<< >>, 0 + 1, 0)
  BY NothingIsStream
<1>5. Stream(buf \o wire, Cur, sent)
  BY <1>2, <1>3, <1>4
<1>6. ControlInv
  BY <1>2 DEF ControlInv
<1>7. QED
  BY <1>2, <1>3, <1>5, <1>6 DEF StreamInv

(* ... and every step keeps what is known of the stream.                   *)
LEMMA StreamStep ==
  ASSUME ClientsFrame, TypeInv, StreamInv, answers \in Seq(Reply), [Next]_vars
  PROVE  StreamInv'
<1>1. CASE LoopEnds \/ ReadEnds \/ SearchFromNull \/ RespondWithError \/ NegativeBody
  <2>1. \/ pc' \in {"closed", "crashed"}
        \/ status' = "done" /\ closing' = TRUE
    BY <1>1 DEF LoopEnds, ReadEnds, SearchFromNull, RespondWithError, NegativeBody, Crash
  <2>2. QED
    BY <2>1, NothingClaimed
<1>2. CASE FirstRead \/ GrowForBody \/ BodyFits \/ InnerEnds \/ IncompleteLine
  BY <1>2, LoopsKeepStream
<1>3. CASE Stopped \/ UNCHANGED vars
  <2>1. /\ UNCHANGED <<script, sent, wire, buf>>
        /\ UNCHANGED <<status, line, lost, err, flags, length, end, closing, pc, answers>>
    BY <1>3 DEF Stopped, vars
  <2>2. CASE ~Alive
    <3>1. ~Alive'
      BY <2>1, <2>2 DEF Alive
    <3>2. QED
      BY <3>1 DEF StreamInv
  <2>3. CASE Alive
    <3>1. Cur' = Cur /\ ControlInv
      BY <2>1, <2>3 DEF Cur, StreamInv
    <3>2. ControlInv'
      BY <2>1, <3>1 DEF ControlInv, Waits
    <3>3. Cur <= sent /\ ~err' /\ ~lost' => \A u \in {script[Cur]} : ParseInv(u)'
      <4>1. SUFFICES ASSUME Cur <= sent, ~err', ~lost', NEW u \in {script[Cur]} PROVE ParseInv(u)'
        OBVIOUS
      <4>2. ParseInv(u)
        BY <2>1, <2>3, <4>1 DEF StreamInv
      <4>3. QED
        BY <2>1, <4>2 DEF ParseInv, AtHeaders, AtTrailers, BodyIsNegative
    <3>4. QED
      BY <2>1, <2>3, <3>1, <3>2, <3>3, QuietStream
  <2>4. QED
    BY <2>2, <2>3
<1>4. QED
  BY <1>1, <1>2, <1>3, SendKeepsStream, ReadKeepsStream, NextRequestKeepsStream,
     RequestLineKeepsStream, HeaderKeepsStream, BlankLineKeepsStream, ChunksKeepsStream,
     StartKeepsStream DEF Next, Thread

-----------------------------------------------------------------------------
(* The order of the answers                                                *)

(* A thread that answers does so for the request in front.                 *)
LEMMA AnswersFront ==
  ASSUME ClientsFrame, TypeInv, StreamInv, pc = "inner", status # "done"
  PROVE  /\ Cur \in 1..sent /\ (buf \o wire)[1].req = Cur
         /\ status = "respond" => buf[1].req = Cur
<1>1. Alive
  BY DEF Alive
<1>2. Cur \in 1..sent + 1 /\ ControlInv
  BY <1>1 DEF StreamInv
<1>3. Cur <= sent
  BY <1>2 DEF ControlInv
<1>4. Cur \in 1..sent /\ script \in PatientScripts \cup HastyScripts
  BY <1>2, <1>3, LengthOfScript DEF TypeInv, StreamTypes
<1>5. PICK u : u = script[Cur]
  OBVIOUS
<1>6. /\ Cur \in 1..Len(script) /\ u \in Seq(Raw)
      /\ \A i \in 1..Len(u) : /\ (buf \o wire)[i].req = Cur
                              /\ i <= Len(buf) => buf[i].req = Cur
  BY <1>1, <1>3, <1>5, FrontOfBuffer
<1>7. Cur \in DOMAIN script
  BY <1>4, <1>6, ParserAssumption
<1>8. IsFramed(u)
  BY <1>4, <1>5, <1>7 DEF ClientsFrame
<1>9. 1 \in 1..Len(u)
  BY <1>6, <1>8 DEF IsFramed
<1>10. status = "respond" => 1 <= Len(buf)
  <2>1. SUFFICES ASSUME status = "respond" PROVE 1 <= Len(buf)
    OBVIOUS
  <2>2. ~err /\ ~lost
    BY <1>2, <2>1 DEF ControlInv, Waits
  <2>3. ParseInv(u)
    BY <1>1, <1>3, <1>5, <2>2 DEF StreamInv
  <2>4. line > 1 /\ line \in 1..Len(buf) + 1 /\ Len(buf) \in Nat
    BY <2>1, <2>3 DEF ParseInv, TypeInv, StreamTypes, ParserTypes
  <2>5. QED
    BY <2>4
<1>11. QED
  BY <1>4, <1>6, <1>9, <1>10

(* At first nothing was answered ...                                       *)
LEMMA OrderInit == Init => OrderInv
BY DEF Init, OrderInv

(* One more answer: for the next request, and none if one was refused.     *)
LEMMA AnswersGrow ==
  ASSUME OrderInv, status # "done", NEW a \in Reply, a.req = Len(answers) + 1,
         answers' = Append(answers, a), status' = "done",
         Alive' /\ Len(buf') >= end' => a.kind = "handler"
  PROVE  OrderInv'
<1>. DEFINE n == Len(answers)
<1>1. /\ answers' \in Seq(Reply) /\ Len(answers') = n + 1 /\ n \in Nat /\ answers'[n + 1] = a
      /\ \A i \in 1..n : answers'[i] = answers[i]
  BY DEF OrderInv
<1>2. \A i \in 1..n : answers[i].req = i /\ answers[i].kind = "handler"
  BY DEF OrderInv
<1>. HIDE DEF n
<1>3. \A i \in 1..n + 1 : i \in 1..n \/ i = n + 1
  BY <1>1
<1>4. \A i \in 1..n + 1 : answers'[i].req = i
  BY <1>1, <1>2, <1>3 DEF n
<1>5. \A i \in 1..(n + 1) - 1 : answers'[i].kind = "handler"
  BY <1>1, <1>2
<1>6. QED
  BY <1>1, <1>4, <1>5 DEF OrderInv

(* ... and every step keeps the order of the answers.                      *)
LEMMA OrderStep ==
  ASSUME ClientsFrame, TypeInv, StreamInv, OrderInv, [Next]_vars
  PROVE  OrderInv'
<1>1. answers \in Seq(Reply)
  BY DEF OrderInv
<1>2. ASSUME UNCHANGED answers, status # "done", status' # "done"
      PROVE  OrderInv'
  BY <1>2 DEF OrderInv
<1>3. ASSUME UNCHANGED answers, status' = "done", Alive' => Alive /\ status = "done",
             Alive' => UNCHANGED <<buf, end>>
      PROVE  OrderInv'
  BY <1>3 DEF OrderInv
<1>4. CASE StartHandler
  <2>1. /\ pc = "inner" /\ status = "respond" /\ status' = "done" /\ UNCHANGED <<buf, end>>
        /\ answers' = Append(answers, [req |-> buf[1].req,
                                       kind |-> IF Len(buf) >= end THEN "handler" ELSE "shortbody"])
    BY <1>4 DEF StartHandler, Answer, buffer, request
  <2>2. buf[1].req = Len(answers) + 1 /\ Len(answers) \in Nat
    BY <1>1, <2>1, AnswersFront DEF Cur
  <2>. DEFINE a == [req |-> buf[1].req, kind |-> IF Len(buf) >= end THEN "handler" ELSE "shortbody"]
  <2>3. a \in Reply /\ a.req = Len(answers) + 1 /\ (Len(buf) >= end => a.kind = "handler")
    BY <2>2 DEF Reply
  <2>. HIDE DEF a
  <2>4. answers' = Append(answers, a)
    BY <2>1 DEF a
  <2>5. QED
    BY <2>1, <2>3, <2>4, AnswersGrow
<1>5. CASE RespondWithError
  <2>1. /\ pc = "inner" /\ status # "done" /\ status' = "done" /\ closing' = TRUE
        /\ answers' = Append(answers, [req |-> (buf \o wire)[1].req, kind |-> "error"])
    BY <1>5 DEF RespondWithError, Answer
  <2>2. (buf \o wire)[1].req = Len(answers) + 1 /\ Len(answers) \in Nat
    <3>1. (buf \o wire)[1].req = Cur
      BY <2>1, AnswersFront
    <3>2. Cur = Len(answers) + 1 /\ Len(answers) \in Nat
      BY <1>1, <2>1 DEF Cur
    <3>3. QED
      BY <3>1, <3>2
  <2>. DEFINE a == [req |-> (buf \o wire)[1].req, kind |-> "error"]
  <2>3. a \in Reply /\ a.req = Len(answers) + 1
    BY <2>2 DEF Reply
  <2>. HIDE DEF a
  <2>4. answers' = Append(answers, a) /\ ~Alive'
    BY <2>1 DEF a, Alive
  <2>5. QED
    BY <2>1, <2>3, <2>4, AnswersGrow
<1>12. CASE NegativeBody
  <2>1. /\ pc = "inner" /\ status = "respond"
        /\ \/ UNCHANGED <<answers, status>>
           \/ /\ status' = "done" /\ closing' = TRUE
              /\ answers' = Append(answers, [req |-> buf[1].req, kind |-> "error"])
    BY <1>12 DEF NegativeBody, Answer, Crash, replies
  <2>2. buf[1].req = Len(answers) + 1 /\ Len(answers) \in Nat
    BY <1>1, <2>1, AnswersFront DEF Cur
  <2>. DEFINE a == [req |-> buf[1].req, kind |-> "error"]
  <2>3. a \in Reply /\ a.req = Len(answers) + 1
    BY <2>2 DEF Reply
  <2>4. CASE UNCHANGED <<answers, status>>
    BY <1>2, <2>1, <2>4
  <2>5. CASE status' = "done" /\ closing' = TRUE /\ answers' = Append(answers, a)
    <3>1. ~Alive'
      BY <2>5 DEF Alive
    <3>. HIDE DEF a
    <3>2. QED
      BY <2>1, <2>3, <2>5, <3>1, AnswersGrow
  <2>6. QED
    BY <2>1, <2>4, <2>5
<1>6. CASE NextRequest
  <2>1. CASE Len(buf) < end
    <3>1. UNCHANGED <<answers, status>> /\ pc' = "crashed" /\ status = "done"
      BY <1>6, <2>1 DEF NextRequest, Crash, replies
    <3>2. QED
      BY <1>3, <3>1 DEF Alive
  <2>2. CASE ~(Len(buf) < end)
    <3>1. /\ UNCHANGED answers /\ status = "done" /\ status' = "line" /\ ~closing /\ pc = "outer"
      BY <1>6, <2>2 DEF NextRequest, NewRequest, replies
    <3>2. Len(buf) >= end /\ Alive
      BY <2>2, <3>1 DEF TypeInv, StreamTypes, ParserTypes, Alive
    <3>3. \A i \in 1..Len(answers) : i \in 1..Len(answers) - 1 \/ i = Len(answers)
      BY <1>1
    <3>4. \A i \in 1..Len(answers) : answers[i].kind = "handler"
      BY <3>1, <3>2, <3>3 DEF OrderInv
    <3>5. QED
      BY <3>1, <3>4 DEF OrderInv
  <2>3. QED
    BY <2>1, <2>2
<1>7. CASE Read
  <2>1. UNCHANGED <<answers, closing>> /\ pc = "reading" /\ (status' = status \/ status' = "respond")
        /\ (status' = "respond" => status \in {"body", "respond"})
    BY <1>7 DEF Read, replies
  <2>2. CASE status = "done"
    <3>1. ~Alive
      BY <2>1, <2>2 DEF StreamInv, ControlInv
    <3>2. status' = "done" /\ ~Alive'
      BY <2>1, <2>2, <3>1 DEF Alive
    <3>3. QED
      BY <1>3, <2>1, <3>2
  <2>3. CASE status # "done"
    BY <1>2, <2>1, <2>3
  <2>4. QED
    BY <2>2, <2>3
<1>8. CASE LoopEnds \/ ReadEnds \/ SearchFromNull
  <2>1. UNCHANGED answers /\ ~Alive' /\ (status' = "done" \/ UNCHANGED status)
    BY <1>8 DEF LoopEnds, ReadEnds, SearchFromNull, Crash, replies, Alive
  <2>2. QED
    BY <1>2, <1>3, <2>1
<1>9. CASE \/ FirstRead \/ GrowForBody \/ BodyFits \/ IncompleteLine \/ RequestLine \/ Header
           \/ BlankLine \/ Chunks
  <2>1. UNCHANGED answers /\ status # "done" /\ status' # "done"
    BY <1>9 DEF FirstRead, GrowForBody, BodyFits, IncompleteLine, RequestLine, Header, BlankLine,
       Chunks, Parsing, replies
  <2>2. QED
    BY <1>2, <2>1
<1>10. CASE Send \/ InnerEnds \/ Stopped \/ UNCHANGED vars
  <2>1. UNCHANGED <<answers, status, closing, buf, end>> /\ (pc' = pc \/ (pc' = "outer" /\ pc = "inner"))
    BY <1>10 DEF Send, InnerEnds, Stopped, vars, buffer, request, replies
  <2>2. Alive' => Alive
    BY <2>1 DEF Alive
  <2>3. QED
    BY <1>2, <1>3, <2>1, <2>2
<1>11. QED
  BY <1>4, <1>5, <1>6, <1>7, <1>8, <1>9, <1>10, <1>12 DEF Next, Thread

(* The three invariants together hold for good, for clients that frame     *)
(* their requests.                                                         *)
LEMMA FrameInvHolds ==
  ASSUME ClientsFrame
  PROVE  Spec => []FrameInv
<1>1. Init => FrameInv
  BY TypeInit, StreamInit, OrderInit DEF FrameInv
<1>2. FrameInv /\ [Next]_vars => FrameInv'
  <2>1. SUFFICES ASSUME FrameInv, [Next]_vars PROVE FrameInv'
    OBVIOUS
  <2>2. TypeInv /\ StreamInv /\ OrderInv /\ answers \in Seq(Reply)
    BY <2>1 DEF FrameInv, OrderInv
  <2>3. QED
    BY <2>1, <2>2, TypeStep, StreamStep, OrderStep DEF FrameInv
<1>3. QED
  BY <1>1, <1>2, PTL DEF Spec

(* However the stream of well-formed requests is cut into reads and        *)
(* however they are pipelined, they are answered in the order of the       *)
(* stream, each once, and nothing follows an answer that was not a plain   *)
(* dispatch (threadroutines.c:669-707).                                    *)
THEOREM AnswersFollowStream ==
  ASSUME ClientsFrame
  PROVE  Spec => []DispatchFollowsStream
<1>1. FrameInv => DispatchFollowsStream
  <2>1. SUFFICES ASSUME OrderInv PROVE DispatchFollowsStream
    BY DEF FrameInv
  <2>2. DOMAIN answers = 1..Len(answers) /\ Len(answers) \in Nat
    BY <2>1 DEF OrderInv
  <2>3. \A i \in 1..Len(answers) : i < Len(answers) => i \in 1..Len(answers) - 1
    BY <2>2
  <2>4. QED
    BY <2>1, <2>2, <2>3 DEF OrderInv, DispatchFollowsStream
<1>2. QED
  BY <1>1, FrameInvHolds, PTL

(* A handler that is started on a request that is all there has exactly    *)
(* that request in front of it (messageEndOffset, 846-874).                *)
THEOREM HandlersGetWholeRequests ==
  ASSUME ClientsFrame
  PROVE  Spec => FramesAreExact
<1>. DEFINE Exact == StartHandler /\ Len(buf) >= end => SubSeq(buf, 1, end) = Units(buf[1].req)
<1>1. FrameInv => Exact
  <2>1. SUFFICES ASSUME FrameInv, StartHandler, Len(buf) >= end
                 PROVE  SubSeq(buf, 1, end) = Units(buf[1].req)
    OBVIOUS
  <2>2. TypeInv /\ StreamInv /\ pc = "inner" /\ status = "respond" /\ ~err /\ ~BodyIsNegative
    BY <2>1 DEF FrameInv, StartHandler
  <2>3. Alive
    BY <2>2 DEF Alive
  <2>4. buf[1].req = Cur /\ Cur \in 1..sent
    BY <2>2, AnswersFront
  <2>5. PICK u : u = script[Cur]
    OBVIOUS
  <2>6. sent \in Nat /\ Cur <= sent /\ buf \in Seq(Unit)
    BY <2>2, <2>4, LengthOfScript DEF TypeInv, StreamTypes
  <2>7. ParseInv(u)
    BY <2>2, <2>3, <2>5, <2>6 DEF StreamInv, ControlInv, Waits
  <2>8. end = Len(u)
    BY <2>2, <2>7 DEF ParseInv
  <2>9. /\ Cur \in 1..Len(script) /\ u \in Seq(Raw)
        /\ \A i \in 1..Len(u) : i <= Len(buf) => buf[i] = Units(Cur)[i]
    BY <2>2, <2>3, <2>5, <2>6, FrontOfBuffer
  <2>10. Units(Cur) \in Seq(Unit) /\ Len(Units(Cur)) = Len(u)
    BY <2>2, <2>5, <2>9, UnitsAre DEF TypeInv, StreamTypes
  <2>. DEFINE f == SubSeq(buf, 1, end)
              g == Units(Cur)
  <2>11. end \in Nat /\ Len(buf) \in Nat /\ end <= Len(buf)
    BY <2>1, <2>6, <2>8, <2>9
  <2>12. f \in Seq(Unit) /\ Len(f) = end /\ \A i \in 1..end : f[i] = buf[i]
    BY <2>6, <2>11
  <2>13. \A i \in 1..end : buf[i] = g[i]
    BY <2>8, <2>9, <2>11
  <2>. HIDE DEF f, g
  <2>14. g \in Seq(Unit) /\ Len(g) = end
    BY <2>8, <2>10 DEF g
  <2>15. f = g
    BY <2>12, <2>13, <2>14, SeqEqual
  <2>16. QED
    BY <2>4, <2>15 DEF f, g
<1>2. FrameInv /\ [Next]_vars => [Exact]_vars
  BY <1>1
<1>3. QED
  BY <1>2, FrameInvHolds, PTL DEF Spec, FramesAreExact

-----------------------------------------------------------------------------
(* Clients that wait                                                       *)

(* One request at a time, read in one piece: it is all there when a turn   *)
(* of the inner loop starts, and nothing else is.                          *)
PatientInv ==
  patient =>
    /\ script \in PatientScripts /\ pc # "crashed"
    /\ pc = "reading" => status = "line"
    /\ Alive => /\ ~cut /\ ~lost /\ size = Capacity /\ toRead = Capacity /\ length >= 0
                /\ sent <= Len(answers) + 1
                /\ pc # "inner" /\ status = "line" => buf = << >>
                /\ pc = "inner" \/ status # "line" => Len(buf) = Len(script[Cur])

(* At first nothing was sent ...                                           *)
LEMMA PatientInit == Init => PatientInv
<1>1. SUFFICES ASSUME Init, patient PROVE PatientInv
  BY DEF PatientInv
<1>2. /\ script \in PatientScripts /\ sent = 0 /\ buf = << >> /\ status = "line" /\ pc = "outer"
      /\ answers = << >> /\ cut = FALSE /\ lost = FALSE /\ size = Capacity /\ toRead = Capacity
      /\ length = 0
  BY <1>1 DEF Init
<1>3. sent <= Len(answers) + 1
  BY <1>2
<1>4. QED
  BY <1>2, <1>3 DEF PatientInv

(* The request in front, while a patient client is answered.               *)
LEMMA PatientFront ==
  ASSUME TypeInv, StreamInv, PatientInv, patient, Alive, pc = "inner" \/ status # "line"
  PROVE  /\ Cur \in 1..sent /\ ControlInv /\ script[Cur] \in Seq(Raw) /\ Len(buf) = Len(script[Cur])
         /\ ~err => ParseInv(script[Cur])
         /\ \A i \in 1..Len(buf) : buf[i].is = script[Cur][i].is /\ buf[i].n = script[Cur][i].n
<1>1. Cur \in 1..sent + 1 /\ ControlInv /\ ~lost /\ Len(buf) = Len(script[Cur]) /\ sent \in Nat
  BY LengthOfScript DEF StreamInv, PatientInv, TypeInv, StreamTypes
<1>2. Cur <= sent
  BY <1>1 DEF ControlInv
<1>3. PICK u : u = script[Cur]
  OBVIOUS
<1>4. /\ u \in Seq(Raw)
      /\ \A i \in 1..Len(u) : i <= Len(buf) => buf[i].is = u[i].is /\ buf[i].n = u[i].n
  BY <1>2, <1>3, FrontOfBuffer
<1>5. ~err => ParseInv(u)
  BY <1>1, <1>2, <1>3 DEF StreamInv
<1>6. \A i \in 1..Len(buf) : buf[i].is = u[i].is /\ buf[i].n = u[i].n
  BY <1>1, <1>3, <1>4
<1>7. QED
  BY <1>1, <1>2, <1>3, <1>4, <1>5, <1>6

(* Every turn finds the line that it looks for ...                         *)
LEMMA PatientHasLine ==
  ASSUME ClientsFrame, TypeInv, StreamInv, PatientInv, patient, pc = "inner", ~err,
         status \in {"line", "headers", "trailers"}
  PROVE  HasLine
<1>1. Alive
  BY DEF Alive
<1>2. PICK u : u = script[Cur]
  OBVIOUS
<1>3. /\ Cur \in 1..sent /\ ControlInv /\ u \in Seq(Raw) /\ Len(buf) = Len(u)
      /\ ParseInv(u) /\ ~lost
  BY <1>1, <1>2, PatientFront DEF PatientInv
<1>4. Len(u) \in Nat /\ line \in Nat
  BY <1>3 DEF TypeInv, ParserTypes
<1>5. CASE status = "line"
  <2>1. line = 1
    BY <1>3, <1>5 DEF ControlInv
  <2>2. script \in PatientScripts \cup HastyScripts /\ Cur \in DOMAIN script
    <3>1. Len(script) \in Nat /\ sent \in 0..Len(script) /\ script \in PatientScripts \cup HastyScripts
      BY LengthOfScript DEF TypeInv, StreamTypes
    <3>2. DOMAIN script = 1..Len(script)
      BY <3>1, ParserAssumption
    <3>3. QED
      BY <1>3, <3>1, <3>2
  <2>3. IsFramed(u)
    BY <1>2, <2>2 DEF ClientsFrame
  <2>4. 1 <= Len(u)
    BY <1>4, <2>3 DEF IsFramed
  <2>5. QED
    BY <1>3, <2>1, <2>4 DEF HasLine
<1>6. CASE status = "headers"
  BY <1>3, <1>4, <1>6 DEF ParseInv, AtHeaders, HasLine
<1>7. CASE status = "trailers"
  BY <1>3, <1>4, <1>7 DEF ParseInv, AtTrailers, HasLine
<1>8. QED
  BY <1>5, <1>6, <1>7

(* ... and every run of chunks its end.                                    *)
LEMMA PatientHasChunks ==
  ASSUME TypeInv, StreamInv, PatientInv, patient, Chunks
  PROVE  status' = "trailers" /\ lost' = lost
<1>. DEFINE end0 == ChunksEnd(buf, line)
<1>0. PICK u, last : u = script[Cur] /\ last = end0
  OBVIOUS
<1>1. /\ status = "chunks" /\ pc = "inner" /\ ~err
      /\ \/ status' = "trailers" /\ lost' = lost
         \/ ~(last <= Len(buf) /\ buf[last].is = "lastchunk")
  BY <1>0, ChunksDo
<1>2. Alive
  BY <1>1 DEF Alive
<1>3. /\ u \in Seq(Raw) /\ Len(buf) = Len(u) /\ ParseInv(u)
      /\ \A i \in 1..Len(buf) : buf[i].is = u[i].is
  BY <1>0, <1>1, <1>2, PatientFront
<1>4. /\ last \in line..Len(buf) + 1
      /\ \A j \in line..last - 1 : buf[j].is = "chunk"
      /\ last <= Len(buf) => buf[last].is # "chunk"
  BY <1>0, ChunksEndIs DEF TypeInv, StreamTypes, ParserTypes
<1>. HIDE DEF end0
<1>5. Len(u) \in Nat /\ line \in Nat \ {0} /\ last \in Nat
  BY <1>3, <1>4 DEF TypeInv, ParserTypes
<1>6. line > 1 /\ \E e \in line..Len(u) - 1 : IsChunked(u, line - 1, e)
  BY <1>1, <1>3 DEF ParseInv
<1>7. PICK e \in line..Len(u) - 1 : IsChunked(u, line - 1, e)
  BY <1>6
<1>8. (line - 1) + 1 = line /\ e \in 1..Len(u) /\ e \in Nat
  BY <1>5, <1>7
<1>9. u[e].is = "lastchunk" /\ \A i \in line..e - 1 : u[i].is = "chunk"
  BY <1>7, <1>8 DEF IsChunked
<1>10. ~(last < e)
  <2>1. SUFFICES ASSUME last < e PROVE FALSE
    OBVIOUS
  <2>2. last \in line..e - 1 /\ last \in 1..Len(u) /\ last <= Len(buf)
    BY <1>3, <1>4, <1>5, <1>7, <1>8, <2>1
  <2>3. QED
    BY <1>3, <1>4, <1>9, <2>2
<1>11. ~(e < last)
  <2>1. SUFFICES ASSUME e < last PROVE FALSE
    OBVIOUS
  <2>2. e \in line..last - 1 /\ e \in 1..Len(buf)
    BY <1>3, <1>4, <1>5, <1>7, <1>8, <2>1
  <2>3. QED
    BY <1>3, <1>4, <1>9, <2>2
<1>12. last = e /\ e \in 1..Len(buf) /\ e <= Len(buf)
  BY <1>3, <1>5, <1>8, <1>10, <1>11
<1>13. QED
  BY <1>1, <1>3, <1>9, <1>12

(* A run of chunks has a length.                                           *)
LEMMA ChunksLength ==
  ASSUME TypeInv, Chunks, length >= 0
  PROVE  length' >= 0
<1>. DEFINE last == ChunksEnd(buf, line)
<1>1. last \in line..Len(buf) + 1
  BY ChunksEndIs DEF TypeInv, StreamTypes, ParserTypes
<1>2. line \in Nat /\ Len(buf) \in Nat
  BY DEF TypeInv, StreamTypes, ParserTypes
<1>3. length' = last - line \/ length' = length
  BY ChunksDo
<1>. HIDE DEF last
<1>4. QED
  BY <1>1, <1>2, <1>3

(* A patient client announces no length below zero.                        *)
LEMMA PatientHeaderLength ==
  ASSUME PatientFit, TypeInv, StreamInv, PatientInv, patient, Alive, Header
  PROVE  length' >= 0
<1>1. /\ pc = "inner" /\ line <= Len(buf)
      /\ length' = IF buf[line].is = "length" THEN buf[line].n ELSE length
  BY DEF Header, Parsing, HasLine
<1>2. /\ Cur \in 1..sent /\ script[Cur] \in Seq(Raw) /\ Len(buf) = Len(script[Cur])
      /\ \A i \in 1..Len(buf) : buf[i].n = script[Cur][i].n
  BY <1>1, PatientFront
<1>3. line \in 1..Len(buf) /\ length >= 0 /\ script \in PatientScripts
  BY <1>1 DEF TypeInv, StreamTypes, ParserTypes, PatientInv
<1>4. Cur \in DOMAIN script
  <2>1. Len(script) \in Nat /\ DOMAIN script = 1..Len(script) /\ sent \in 0..Len(script)
    BY <1>3, LengthOfScript, ParserAssumption DEF TypeInv, StreamTypes
  <2>2. QED
    BY <1>2, <2>1
<1>5. line \in DOMAIN script[Cur]
  BY <1>2, <1>3
<1>6. script[Cur][line].n >= 0
  BY <1>3, <1>4, <1>5 DEF PatientFit
<1>7. QED
  BY <1>1, <1>2, <1>3, <1>6

(* A stream of one request is that request.                                *)
LEMMA StreamOfOne ==
  ASSUME NEW s \in Seq(Unit), NEW l \in Nat, Stream(s, l, l)
  PROVE  Len(s) = 0 + Len(script[l])
<1>1. l \in l..l
  OBVIOUS
<1>2. QED
  BY <1>1 DEF Stream, IsCut

(* ... a read brings the whole request into the empty buffer, and it fits  *)
(* ...                                                                     *)
LEMMA ReadKeepsPatient ==
  ASSUME PatientFit, TypeInv, StreamInv, OrderInv, PatientInv, patient, Read
  PROVE  PatientInv'
<1>1. PICK k \in 0..Len(wire), c \in BOOLEAN :
        /\ Delivers(k, c)
        /\ buf' = buf \o SubSeq(wire, 1, k)
        /\ cut' = c
        /\ IF Len(buf) + k + (IF c THEN 1 ELSE 0) > size
           THEN pc' = "crashed" /\ UNCHANGED status
           ELSE IF status = "body" /\ Len(buf) + k >= end
                THEN status' = "respond" /\ pc' = "closed"
                ELSE pc' = "inner" /\ UNCHANGED status
  BY Zenon DEF Read
<1>2. /\ pc = "reading" /\ wire # << >>
      /\ UNCHANGED <<patient, script, sent, size, toRead, lost, length, closing, answers>>
  BY DEF Read, request, replies
<1>3. status = "line" /\ script \in PatientScripts /\ Alive
  BY <1>2 DEF PatientInv, Alive
<1>4. /\ ~cut /\ ~lost /\ size = Capacity /\ toRead = Capacity /\ sent <= Len(answers) + 1
      /\ length >= 0 /\ buf = << >> /\ Len(buf) = 0
  BY <1>2, <1>3 DEF PatientInv
<1>5. ~c /\ k = (IF Len(wire) < Capacity THEN Len(wire) ELSE Capacity)
  BY <1>1, <1>4 DEF Delivers
<1>6. Cur = Len(answers) + 1 /\ Len(answers) \in Nat /\ Cur \in 1..sent + 1 /\ sent \in Nat
  BY <1>3, LengthOfScript DEF Cur, OrderInv, StreamInv, TypeInv, StreamTypes
<1>7. wire \in Seq(Unit) /\ Len(wire) \in Nat /\ Len(wire) # 0 /\ buf \o wire = wire
  BY <1>2, <1>4 DEF TypeInv, StreamTypes
<1>8. Stream(wire, Cur, sent)
  BY <1>3, <1>7 DEF StreamInv
<1>9. Cur = sent
  <2>1. Cur # sent + 1
    <3>1. SUFFICES ASSUME Cur = sent + 1 PROVE FALSE
      OBVIOUS
    <3>2. Stream(wire, sent + 1, sent)
      BY <1>8, <3>1
    <3>3. QED
      BY <1>6, <1>7, <3>2, StreamOfNothing
  <2>2. QED
    BY <1>4, <1>6, <2>1
<1>10. Len(wire) = 0 + Len(script[Cur])
  <2>1. Stream(wire, sent, sent)
    BY <1>8, <1>9
  <2>2. Len(wire) = 0 + Len(script[sent])
    BY <1>6, <1>7, <2>1, StreamOfOne
  <2>3. QED
    BY <1>9, <2>2
<1>11. Len(script[Cur]) <= Capacity /\ Capacity \in Nat
  <2>1. Len(script) \in Nat /\ DOMAIN script = 1..Len(script) /\ sent \in 0..Len(script)
    BY <1>3, LengthOfScript, ParserAssumption DEF TypeInv, StreamTypes
  <2>2. Cur \in DOMAIN script
    BY <1>6, <1>9, <2>1
  <2>3. QED
    BY <1>3, <2>2, ParserAssumption DEF PatientFit
<1>12. Len(script[Cur]) \in Nat
  <2>1. Len(script) \in Nat /\ Cur \in 1..Len(script) /\ script \in PatientScripts \cup HastyScripts
    BY <1>3, <1>6, <1>9, LengthOfScript DEF TypeInv, StreamTypes
  <2>2. script[Cur] \in Seq(Raw)
    BY <2>1, UnitsAre
  <2>3. QED
    BY <2>2
<1>13. k = Len(wire) /\ Len(wire) = Len(script[Cur])
  BY <1>5, <1>7, <1>10, <1>11, <1>12
<1>14. ~(Len(buf) + k + (IF c THEN 1 ELSE 0) > size)
  BY <1>4, <1>5, <1>11, <1>12, <1>13
<1>15. pc' = "inner" /\ status' = "line"
  BY <1>1, <1>3, <1>14
<1>16. Len(buf') = Len(script[Cur])
  <2>1. buf \in Seq(Unit)
    BY DEF TypeInv, StreamTypes
  <2>2. Len(buf') = Len(buf) + k
    BY <1>1, <1>7, <2>1, ReadingMoves
  <2>3. QED
    BY <1>4, <1>12, <1>13, <2>2
<1>17. Cur' = Cur
  BY <1>2, <1>3, <1>15 DEF Cur
<1>18. QED
  BY <1>1, <1>2, <1>3, <1>4, <1>5, <1>15, <1>16, <1>17 DEF PatientInv

(* ... nothing is left over when the next one starts ...                   *)
LEMMA NextRequestKeepsPatient ==
  ASSUME TypeInv, StreamInv, OrderInv, PatientInv, patient, NextRequest
  PROVE  PatientInv'
<1>1. pc = "outer" /\ status = "done" /\ ~closing
  BY DEF NextRequest
<1>2. Alive
  BY <1>1 DEF Alive
<1>3. /\ Cur \in 1..sent /\ ControlInv /\ Len(buf) = Len(script[Cur]) /\ (~err => ParseInv(script[Cur]))
  BY <1>1, <1>2, PatientFront
<1>4. ~err
  BY <1>1, <1>3 DEF ControlInv
<1>5. end = Len(buf) /\ Len(buf) \in Nat
  BY <1>1, <1>3, <1>4 DEF ParseInv, TypeInv, StreamTypes
<1>6. ~(Len(buf) < end)
  BY <1>5
<1>7. /\ buf' = Leftover /\ toRead' = size /\ pc' = "reading" /\ status' = "line" /\ lost' = FALSE
      /\ size' = IF size = Capacity THEN size
                 ELSE IF Len(buf') < Capacity THEN Capacity ELSE Len(buf')
      /\ UNCHANGED <<patient, script, sent, wire, cut, length, closing, answers>>
  BY <1>6 DEF NextRequest, NewRequest, network, replies
<1>8. Leftover \in Seq(Unit) /\ Len(Leftover) = Len(buf) - end
  BY <1>1, <1>5, LeftoverIs
<1>9. buf' = << >>
  <2>1. Len(buf') = 0
    BY <1>5, <1>7, <1>8
  <2>2. QED
    BY <1>7, <1>8, <2>1
<1>10. /\ script \in PatientScripts /\ ~cut /\ size = Capacity /\ sent <= Len(answers) + 1
       /\ length >= 0
  BY <1>2 DEF PatientInv
<1>11. size' = Capacity /\ toRead' = Capacity
  BY <1>7, <1>10
<1>12. QED
  BY <1>7, <1>9, <1>10, <1>11 DEF PatientInv

(* ... it is sent when the one before was answered ...                     *)
LEMMA SendKeepsPatient ==
  ASSUME TypeInv, OrderInv, PatientInv, patient, Send
  PROVE  PatientInv'
<1>1. /\ Len(answers) = sent /\ sent' = sent + 1
      /\ UNCHANGED <<patient, script, buf, cut, size, toRead, status, lost, length, closing, pc, answers>>
  BY DEF Send, buffer, request, replies
<1>2. Cur' = Cur /\ (Alive' => Alive)
  BY <1>1 DEF Cur, Alive
<1>3. sent' <= Len(answers') + 1
  BY <1>1 DEF OrderInv
<1>4. QED
  BY <1>1, <1>2, <1>3 DEF PatientInv

(* ... and no step finds the buffer too short.                             *)
LEMMA PatientStep ==
  ASSUME ClientsFrame, PatientFit, TypeInv, StreamInv, OrderInv, PatientInv, [Next]_vars
  PROVE  PatientInv'
<1>1. patient' = patient /\ script' = script
  BY DEF Next, Thread, Send, LoopEnds, NextRequest, FirstRead, GrowForBody, BodyFits, Read, ReadEnds,
     InnerEnds, SearchFromNull, IncompleteLine, RequestLine, Header, BlankLine, Chunks,
     RespondWithError, NegativeBody, StartHandler, Stopped, Crash, network, vars
<1>2. CASE ~patient
  BY <1>1, <1>2 DEF PatientInv
<1>3. CASE patient
  <2>1. /\ script \in PatientScripts /\ pc # "crashed" /\ (pc = "reading" => status = "line")
    BY <1>3 DEF PatientInv
  <2>2. CASE LoopEnds \/ ReadEnds \/ RespondWithError
    <3>1. pc' \notin {"crashed", "reading"} /\ ~Alive'
      BY <2>2 DEF LoopEnds, ReadEnds, RespondWithError, Alive
    <3>2. QED
      BY <1>1, <2>1, <3>1 DEF PatientInv
  <2>3. CASE SearchFromNull
    <3>1. Alive /\ lost
      BY <2>3 DEF SearchFromNull, Alive
    <3>2. QED
      BY <1>3, <3>1 DEF PatientInv
  <2>9. CASE NegativeBody
    <3>1. pc = "inner" /\ status = "respond" /\ length < 0
      BY <2>9 DEF NegativeBody, BodyIsNegative
    <3>2. Alive
      BY <3>1 DEF Alive
    <3>3. length >= 0 /\ length \in Int
      BY <1>3, <3>2 DEF PatientInv, TypeInv, ParserTypes
    <3>4. QED
      BY <3>1, <3>3
  <2>4. CASE IncompleteLine
    <3>1. pc = "inner" /\ ~err /\ status \in {"line", "headers", "trailers"} /\ ~HasLine
      BY <2>4 DEF IncompleteLine, Parsing
    <3>2. QED
      BY <1>3, <3>1, PatientHasLine
  <2>5. CASE GrowForBody
    <3>1. pc = "outer" /\ status = "body" /\ end > size
      BY <2>5 DEF GrowForBody
    <3>2. Alive
      BY <3>1 DEF Alive
    <3>3. ControlInv /\ Len(buf) = Len(script[Cur]) /\ (~err => ParseInv(script[Cur])) /\ size = Capacity
      BY <1>3, <3>1, <3>2, PatientFront DEF PatientInv
    <3>4. ~err
      BY <3>1, <3>3 DEF ControlInv
    <3>7. ~BodyIsNegative
      BY <1>3, <3>2 DEF PatientInv, TypeInv, ParserTypes, BodyIsNegative
    <3>5. end = Len(buf) /\ Len(buf) <= size /\ Len(buf) \in Nat /\ size \in Nat
      BY <3>1, <3>3, <3>4, <3>7 DEF ParseInv, TypeInv, StreamTypes, ParserTypes
    <3>6. QED
      BY <3>1, <3>5
  <2>6. CASE \/ FirstRead \/ BodyFits \/ InnerEnds \/ RequestLine \/ Header \/ BlankLine \/ Chunks
             \/ Stopped \/ UNCHANGED vars
    <3>1. /\ UNCHANGED <<sent, buf, cut, size, toRead, answers>>
          /\ pc' # "crashed" /\ (pc' = "reading" => status' = "line")
          /\ status' = "done" <=> status = "done"
          /\ Alive' => Alive
          /\ status' # "line" => pc = "inner" \/ status # "line"
          /\ pc' = "inner" => pc = "inner" \/ status # "line"
          /\ pc' # "inner" /\ status' = "line" => pc # "inner" /\ status = "line"
      <4>1. CASE Stopped \/ UNCHANGED vars
        BY <2>1, <4>1 DEF Stopped, vars, Alive
      <4>2. CASE \/ FirstRead \/ BodyFits \/ InnerEnds
        BY <2>1, <4>2 DEF FirstRead, BodyFits, InnerEnds, network, buffer, request, replies, Alive
      <4>3. CASE RequestLine \/ Header \/ BlankLine \/ Chunks
        BY <2>1, <4>3 DEF RequestLine, Header, BlankLine, Chunks, Parsing, network, buffer, replies, Alive
      <4>4. QED
        BY <2>6, <4>1, <4>2, <4>3
    <3>2. Alive' => lost' = lost
      <4>1. CASE Chunks
        BY <1>3, <4>1, PatientHasChunks
      <4>2. CASE \/ FirstRead \/ BodyFits \/ InnerEnds \/ RequestLine \/ Header \/ BlankLine
                 \/ Stopped \/ UNCHANGED vars
        BY <4>2 DEF FirstRead, BodyFits, InnerEnds, RequestLine, Header, BlankLine, Stopped, request, vars
      <4>3. QED
        BY <2>6, <4>1, <4>2
    <3>3. Cur' = Cur
      BY <3>1 DEF Cur
    <3>4. Alive' => length' >= 0
      <4>1. SUFFICES ASSUME Alive PROVE length' >= 0
        BY <3>1
      <4>2. length >= 0 /\ length \in Int
        BY <1>3, <4>1 DEF PatientInv, TypeInv, ParserTypes
      <4>3. CASE Header
        BY <1>3, <4>1, <4>2, <4>3, PatientHeaderLength
      <4>4. CASE Chunks
        BY <4>2, <4>4, ChunksLength
      <4>5. CASE \/ FirstRead \/ BodyFits \/ InnerEnds \/ RequestLine \/ BlankLine \/ Stopped
                 \/ UNCHANGED vars
        BY <4>2, <4>5 DEF FirstRead, BodyFits, InnerEnds, RequestLine, BlankLine, Stopped, request, vars
      <4>6. QED
        BY <2>6, <4>3, <4>4, <4>5
    <3>5. QED
      BY <1>1, <1>3, <2>1, <3>1, <3>2, <3>3, <3>4 DEF PatientInv
  <2>7. CASE StartHandler
    <3>1. /\ pc = "inner" /\ status = "respond" /\ status' = "done" /\ pc' = "inner"
          /\ answers' = Append(answers, [req |-> buf[1].req,
                                         kind |-> IF Len(buf) >= end THEN "handler" ELSE "shortbody"])
          /\ UNCHANGED <<sent, buf, cut, size, toRead, lost, length, closing>>
      BY <2>7 DEF StartHandler, Answer, network, buffer, request
    <3>2. Len(answers) \in Nat /\ Len(answers') = Len(answers) + 1 /\ sent \in Nat
      BY <3>1, LengthOfScript DEF OrderInv, TypeInv, StreamTypes
    <3>3. Alive /\ Cur' = Cur
      BY <3>1, <3>2 DEF Alive, Cur
    <3>4. sent' <= Len(answers') + 1
      BY <1>3, <3>1, <3>2, <3>3 DEF PatientInv
    <3>5. QED
      BY <1>1, <1>3, <2>1, <3>1, <3>3, <3>4 DEF PatientInv
  <2>8. QED
    BY <1>3, <2>2, <2>3, <2>4, <2>5, <2>6, <2>7, <2>9, SendKeepsPatient, ReadKeepsPatient,
       NextRequestKeepsPatient DEF Next, Thread
<1>4. QED
  BY <1>2, <1>3

(* While its client sends well-formed requests that fit the buffer and     *)
(* waits for each answer, the thread never leaves its buffer and never     *)
(* searches from address 0 (threadroutines.c:670 and 788).                 *)
THEOREM PatientClientsKeepItUp ==
  ASSUME ClientsFrame, PatientFit
  PROVE  Spec => []StaysUp
<1>1. Init => PatientInv
  BY PatientInit
<1>2. FrameInv /\ PatientInv /\ [Next]_vars => PatientInv'
  BY PatientStep DEF FrameInv
<1>3. PatientInv => StaysUp
  BY DEF PatientInv, StaysUp
<1>4. QED
  BY <1>1, <1>2, <1>3, FrameInvHolds, PTL DEF Spec

=============================================================================
