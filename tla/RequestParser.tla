---------------------------- MODULE RequestParser ----------------------------
(***************************************************************************)
(* How a parent thread turns the bytes of one connection into requests:    *)
(* the loops of thread_handle_connection_routine (threadroutines.c:661-    *)
(* 1000) with their buffer, against a client and a network.                *)
(*                                                                         *)
(* The bytes are units.  A unit is a line with its CRLF, a piece of body,  *)
(* or a chunk (size line, data and CRLF); [req, is, n] says which request  *)
(* of the client it belongs to, what it is, and, for Content-Length, how   *)
(* many body units it announces (below zero: how many bytes less than none).*)
(* read() delivers a run of units, and may deliver the front of a further *)
(* line, whose rest the next read brings.                                  *)
(*                                                                         *)
(* Scans do not stop at line ends: a header line without a colon is taken  *)
(* for good when a later line in the buffer has one.  Body units and chunk *)
(* data hold no CR.  Not modelled: failing allocations and the handlers    *)
(* (ServerThreads), read errors other than a timeout, the values extracted.*)
(***************************************************************************)
EXTENDS Integers, Sequences

CONSTANTS PatientScripts,  \* what is sent one request at a time and arrives whole
          HastyScripts,    \* what is sent without waiting and read in any pieces:
                           \* sequences of requests, each a sequence of units
                           \* without their req
          Capacity         \* BUFSIZE, in units

Lines  == {"get", "get10", "post", "bad", "host", "length", "chunked",
           "expect", "close", "header", "blank", "lastchunk"}
Pieces == {"body", "chunk"}

ASSUME ParserAssumption ==
  /\ PatientScripts \cup HastyScripts \subseteq Seq(Seq([is : Lines \cup Pieces, n : Int]))
  /\ Capacity \in Nat \ {0}

VARIABLES
  patient,    \* does the client wait for answers, and the network keep segments?
  script,     \* the client's requests
  sent,       \* how many of them it has sent
  wire,       \* units sent and not read yet
  buf,        \* units read, from the start of the buffer
  cut,        \* is the front of the next unit of the wire in the buffer too?
  size,       \* realUsedSize
  toRead,     \* toRead
  status,     \* requestStatus
  line,       \* where the next line starts (endLinePtr + 1)
  lost,       \* endLinePtr came from a search that found nothing
  err,        \* errCode # UNDEFINED
  flags,      \* the headers seen: host, length, chunked, expect, http10, body
  length,     \* contentLength
  end,        \* messageEndOffset: the last unit of the request
  closing,    \* shouldCloseConnection
  pc,         \* where the thread is
  continues,  \* the requests whose client was told to go on
  answers     \* what else was started or sent: [req, kind]

vars == <<patient, script, sent, wire, buf, cut, size, toRead, status, line, lost, err,
          flags, length, end, closing, pc, continues, answers>>

network == <<patient, script, sent, wire>>
buffer  == <<buf, cut, size, toRead>>
request == <<line, lost, err, flags, length, end>>
replies == <<continues, answers>>

NewRequest_KeepsFlags ==
  /\ status' = "line" /\ line' = 1 /\ lost' = FALSE /\ err' = FALSE
  /\ UNCHANGED <<flags, length, end>>

(* threadroutines.c:672-691: contentLength and messageEndOffset keep what  *)
(* the last request left in them.                                          *)
NewRequest ==
  /\ status' = "line" /\ line' = 1 /\ lost' = FALSE /\ err' = FALSE
  /\ flags' = {} /\ UNCHANGED <<length, end>>

Init ==
  /\ patient \in BOOLEAN
  /\ script \in (IF patient THEN PatientScripts ELSE HastyScripts) /\ sent = 0 /\ wire = << >>
  /\ buf = << >> /\ cut = FALSE /\ size = Capacity /\ toRead = Capacity
  /\ status = "line" /\ line = 1 /\ lost = FALSE /\ err = FALSE
  /\ flags = {} /\ length = 0 /\ end = 0
  /\ closing = FALSE /\ pc = "outer"
  /\ continues = << >> /\ answers = << >>

Answer(kind, req) ==
  answers' = Append(answers, [req |-> req, kind |-> kind]) /\ UNCHANGED continues

(* The units of request r, as they travel.                                 *)
Units(r) == [i \in DOMAIN script[r] |->
               [req |-> r, is |-> script[r][i].is, n |-> script[r][i].n]]

-----------------------------------------------------------------------------
(* The client.  It stops when a request or an answer closes the connection.*)
Send ==
  /\ sent < Len(script)
  /\ ~closing /\ pc \notin {"closed", "crashed"}
  /\ patient => Len(answers) = sent
  /\ sent' = sent + 1
  /\ wire' = wire \o Units(sent + 1)
  /\ UNCHANGED <<patient, script, buffer, status, request, closing, pc, replies>>

-----------------------------------------------------------------------------
(* The outer loop                                                          *)

Crash == pc' = "crashed" /\ UNCHANGED <<network, buffer, status, request, closing, replies>>

LoopEnds ==
  /\ pc = "outer" /\ status = "done" /\ closing
  /\ pc' = "closed"
  /\ UNCHANGED <<network, buffer, status, request, closing, replies>>

(* What has been read beyond the request.                                  *)
Leftover_FromNewline == SubSeq(buf, end, Len(buf))
Leftover == SubSeq(buf, end + 1, Len(buf))

(* threadroutines.c:669-707.  What follows the request moves to the front. *)
(* When the request was not all there, byteCount - 1 - messageEndOffset is *)
(* negative, and as a size_t it makes memmove run off the address space.   *)
NextRequest ==
  /\ pc = "outer" /\ status = "done" /\ ~closing
  /\ IF Len(buf) < end
     THEN Crash
     ELSE /\ buf' = Leftover
          /\ NewRequest
          /\ toRead' = size
          /\ size' = IF size = Capacity THEN size
                     ELSE IF Len(buf') < Capacity THEN Capacity ELSE Len(buf')
          /\ pc' = "reading"
          /\ UNCHANGED <<network, cut, closing, replies>>

FirstRead ==
  /\ pc = "outer" /\ status = "line"
  /\ pc' = "reading"
  /\ UNCHANGED <<network, buffer, status, request, closing, replies>>

(* threadroutines.c:713-730.  The body does not fit: room for exactly it.  *)
GrowForBody ==
  /\ pc = "outer" /\ status = "body" /\ end > size
  /\ size' = end
  /\ toRead' = end - Len(buf)
  /\ pc' = "reading"
  /\ UNCHANGED <<network, buf, cut, status, request, closing, replies>>

(* There is room for the body: it is taken to have been read.              *)
BodyFits ==
  /\ pc = "outer" /\ status = "body" /\ end <= size
  /\ status' = "respond"
  /\ pc' = "inner"
  /\ UNCHANGED <<network, buffer, request, closing, replies>>

-----------------------------------------------------------------------------
(* read(), threadroutines.c:747-776                                        *)

(* k whole units are delivered, and, if c, the front of the next line.     *)
Delivers(k, c) ==
  \/ patient /\ ~c /\ k = (IF Len(wire) < toRead THEN Len(wire) ELSE toRead)
  \/ /\ ~patient
     /\ k + (IF c THEN 1 ELSE 0) \in 1..toRead
     /\ c => k < Len(wire) /\ wire[k + 1].is \in Lines /\ (k = 0 => ~cut)

Read ==
  /\ pc = "reading" /\ wire # << >>
  /\ \E k \in 0..Len(wire), c \in BOOLEAN :
       /\ Delivers(k, c)
       /\ buf' = buf \o SubSeq(wire, 1, k)
       /\ wire' = SubSeq(wire, k + 1, Len(wire))
       /\ cut' = c
       /\ IF Len(buf) + k + (IF c THEN 1 ELSE 0) > size
          THEN pc' = "crashed" /\ UNCHANGED status
          ELSE IF status = "body" /\ Len(buf) + k >= end
               THEN status' = "respond" /\ pc' = "closed"   \* `break', line 774
               ELSE pc' = "inner" /\ UNCHANGED status
  /\ UNCHANGED <<patient, script, sent, size, toRead, request, closing, replies>>

(* End of stream, or nothing for 60 seconds.                               *)
ReadEnds ==
  /\ pc = "reading"
  /\ patient => wire = << >>
  /\ status' = "done" /\ closing' = TRUE /\ pc' = "outer"
  /\ UNCHANGED <<network, buffer, request, replies>>

-----------------------------------------------------------------------------
(* The inner loop, one action per turn of it, threadroutines.c:780-998.    *)
(* find_newline's NULL is decremented before it is compared with NULL:     *)
(* the line is parsed as if it were whole, and the next turn searches from *)
(* address 0.                                                              *)

Parsing(s) == pc = "inner" /\ ~err /\ ~lost /\ status = s

InnerEnds ==
  /\ pc = "inner" /\ status \in {"done", "body"}
  /\ pc' = "outer"
  /\ UNCHANGED <<network, buffer, status, request, closing, replies>>

SearchFromNull ==
  /\ pc = "inner" /\ lost /\ ~err /\ status \notin {"done", "body", "respond"}
  /\ Crash

HasLine == line <= Len(buf)

(* What a line that is not all there gives: if the scan can fill all its   *)
(* conversions from the front that is there, a request line or a header;   *)
(* otherwise a bad request.  Past the end of a full buffer the scan meets  *)
(* whatever is there.                                                      *)
IncompleteLine ==
  /\ \E s \in {"line", "headers", "trailers"} : Parsing(s)
  /\ ~HasLine
  /\ \/ err' = TRUE /\ UNCHANGED lost
     \/ (cut \/ Len(buf) = size) /\ lost' = TRUE /\ UNCHANGED err
  /\ UNCHANGED <<network, buffer, status, line, flags, length, end, closing,
                 pc, replies>>

(* Method, route and arguments are good ("get", "post") or not ("bad").    *)
RequestLine ==
  /\ Parsing("line") /\ HasLine
  /\ LET is == buf[line].is IN
       /\ err' = (is \notin {"get", "get10", "post"})
       /\ flags' = flags \cup (IF is = "get10" THEN {"http10"} ELSE {})
                           \cup (IF is = "post" THEN {"body"} ELSE {})
  /\ status' = "headers"
  /\ line' = line + 1
  /\ UNCHANGED <<network, buffer, lost, length, end, closing, pc, replies>>

HasColon(unit) ==
  unit.is \in {"host", "length", "chunked", "expect", "close", "header"}

Header ==
  /\ Parsing("headers") \/ Parsing("trailers")
  /\ HasLine /\ buf[line].is # "blank"
  /\ LET unit == buf[line] IN
       /\ \/ err' = ~\E i \in line..Len(buf) : HasColon(buf[i])
          \/ cut /\ err' = FALSE
       /\ flags' = flags \cup ({unit.is} \cap {"host", "length", "chunked", "expect"})
       /\ length' = IF unit.is = "length" THEN unit.n ELSE length
       /\ closing' = (closing \/ unit.is = "close")
  /\ line' = line + 1
  /\ UNCHANGED <<network, buffer, status, lost, end, pc, replies>>

HostIsMissing ==
  /\ "host" \notin flags
  /\ status = "trailers" \/ ("chunked" \notin flags /\ "http10" \notin flags)

(* messageEndOffset of a request with Content-Length.                      *)
BodyEnd_OneMore == line + length + 1
BodyEnd_NoBody  == line
BodyEnd == line + length

(* threadroutines.c:839-876                                                *)
BlankLine ==
  /\ Parsing("headers") \/ Parsing("trailers")
  /\ HasLine /\ buf[line].is = "blank"
  /\ LET expects  == /\ ~HostIsMissing
                     /\ "body" \in flags /\ "expect" \in flags
         complete == "body" \notin flags \/ status = "trailers"
         sized    == "length" \in flags
     IN
     /\ continues' = IF expects THEN Append(continues, buf[line].req) ELSE continues
     /\ IF HostIsMissing \/ (~complete /\ "chunked" \notin flags /\ ~sized)
        THEN err' = TRUE /\ UNCHANGED <<status, end>>
        ELSE /\ UNCHANGED err
             /\ status' = IF complete THEN "respond"
                          ELSE IF "chunked" \in flags THEN "chunks" ELSE "body"
             /\ end' = IF complete THEN line
                       ELSE IF "chunked" \in flags THEN end ELSE BodyEnd
  /\ line' = line + 1
  /\ UNCHANGED <<network, buffer, lost, flags, length, closing, pc, answers>>

(* threadroutines.c:912-932, for chunks that are well formed.  Every chunk *)
(* in the buffer is copied down in one turn.  The turn leaves endLinePtr   *)
(* at the end of the last chunk of data, so that the line of the last,     *)
(* empty chunk is read again, as a trailer, unless it is the only one.     *)
Chunks ==
  /\ Parsing("chunks")
  /\ LET last == CHOOSE i \in line..Len(buf) + 1 :
                   /\ \A j \in line..i - 1 : buf[j].is = "chunk"
                   /\ i <= Len(buf) => buf[i].is # "chunk"
     IN
     IF last <= Len(buf) /\ buf[last].is = "lastchunk"
     THEN /\ status' = "trailers"
          /\ length' = last - line
          /\ line' = IF last = line THEN last + 1 ELSE last
          /\ UNCHANGED <<err, lost>>
     ELSE /\ line' = last
          /\ \/ lost' = TRUE /\ UNCHANGED err
             \/ cut /\ err' = TRUE /\ UNCHANGED lost
          /\ UNCHANGED <<status, length>>
  /\ UNCHANGED <<network, buffer, flags, end, closing, pc, replies>>

(* threadroutines.c:785 and 933-996                                        *)
RespondWithError ==
  /\ pc = "inner" /\ err /\ status \notin {"done", "body"}
  /\ Answer("error", (buf \o wire)[1].req)
  /\ closing' = TRUE
  /\ status' = "done"
  /\ UNCHANGED <<network, buffer, request, pc>>

BodyIsNegative == "body" \in flags /\ length < 0

(* threadroutines.c:935-947 and 967-979, for a Content-Length below zero:  *)
(* of -1, nothing is allocated and strncpy is given the whole address      *)
(* space to fill; of less, the allocation fails.                           *)
NegativeBody ==
  /\ pc = "inner" /\ ~err /\ status = "respond" /\ BodyIsNegative
  /\ IF length = -1
     THEN Crash
     ELSE /\ Answer("error", buf[1].req)
          /\ closing' = TRUE
          /\ status' = "done"
          /\ UNCHANGED <<network, buffer, request, pc>>

StartHandler ==
  /\ pc = "inner" /\ ~err /\ status = "respond" /\ ~BodyIsNegative
  /\ Answer(IF Len(buf) >= end THEN "handler" ELSE "shortbody", buf[1].req)
  /\ status' = "done"
  /\ UNCHANGED <<network, buffer, request, closing, pc>>

Stopped == pc \in {"closed", "crashed"} /\ UNCHANGED vars

Thread ==
  \/ LoopEnds \/ NextRequest \/ FirstRead \/ GrowForBody \/ BodyFits
  \/ Read \/ ReadEnds
  \/ InnerEnds \/ SearchFromNull \/ IncompleteLine \/ RequestLine \/ Header
  \/ BlankLine \/ Chunks \/ RespondWithError \/ NegativeBody
  \/ StartHandler

Next == Send \/ Thread \/ Stopped

(* The thread runs; what was sent arrives.                                 *)
Spec == Init /\ [][Next]_vars /\ WF_vars(Thread)

-----------------------------------------------------------------------------
(* Requests that end where their own lines say they do: at the blank line, *)
(* after as much body as the last Content-Length announces (none, if that  *)
(* is below zero), or after the trailers.  Lines before the end may be     *)
(* anything.                                                               *)
IsHead(u, b) == u[b].is = "blank" /\ \A i \in 1..b - 1 : u[i].is # "blank"

Has(u, b, is) == \E i \in 2..b - 1 : u[i].is = is

IsLastLength(u, b, i) ==
  i \in 2..b - 1 /\ u[i].is = "length" /\ \A j \in i + 1..b - 1 : u[j].is # "length"

IsChunked(u, b, e) ==
  /\ u[e].is = "lastchunk" /\ \A i \in b + 1..e - 1 : u[i].is = "chunk"
  /\ u[Len(u)].is = "blank" /\ \A i \in e + 1..Len(u) - 1 : u[i].is # "blank"

IsFramed(u) ==
  \E b \in 2..Len(u) :
    /\ IsHead(u, b)
    /\ u[1].is # "post" => Len(u) = b
    /\ u[1].is = "post" /\ Has(u, b, "chunked") => \E e \in b + 1..Len(u) - 1 : IsChunked(u, b, e)
    /\ u[1].is = "post" /\ ~Has(u, b, "chunked") =>
         \A i \in 2..b - 1 :
           IsLastLength(u, b, i) => Len(u) = b + (IF u[i].n < 0 THEN 0 ELSE u[i].n)

(* What the properties below suppose of the clients; the patient ones      *)
(* announce no length below zero.                                          *)
ClientsFrame == \A s \in PatientScripts \cup HastyScripts : \A r \in DOMAIN s : IsFramed(s[r])

PatientFit ==
  \A s \in PatientScripts : \A r \in DOMAIN s :
    Len(s[r]) <= Capacity /\ \A i \in DOMAIN s[r] : s[r][i].n >= 0

-----------------------------------------------------------------------------
(* Properties                                                              *)

(* The parser's variables have their types, and the next line starts       *)
(* inside what has been read.  The end of a request with a body is where   *)
(* its Content-Length puts it, in front of the buffer too (atoi, 884); but *)
(* no request that is over on a connection that goes on has such an end,   *)
(* so that it never reaches memmove (670).                                 *)
TypeOK ==
  /\ patient \in BOOLEAN /\ script \in PatientScripts \cup HastyScripts
  /\ sent \in 0..Len(script)
  /\ \A i \in DOMAIN wire : wire[i].req \in 1..sent
  /\ \A i \in DOMAIN continues : continues[i] \in 1..sent
  /\ cut \in BOOLEAN /\ lost \in BOOLEAN /\ err \in BOOLEAN /\ closing \in BOOLEAN
  /\ size \in Nat /\ toRead \in Nat /\ size >= Capacity
  /\ status \in {"line", "headers", "trailers", "chunks", "body", "respond", "done"}
  /\ flags \subseteq {"host", "length", "chunked", "expect", "http10", "body"}
  /\ line \in 1..Len(buf) + 1
  /\ length \in Int /\ end \in Int
  /\ status \in {"body", "respond"} /\ ~err => end \in {line - 1, line - 1 + length}
  /\ status = "done" /\ ~closing => end \in Nat
  /\ pc \in {"outer", "reading", "inner", "closed", "crashed"}

(* However the stream is cut into reads and however requests are           *)
(* pipelined, the requests are answered in the order of the stream, each   *)
(* once, and nothing follows an answer that was not a plain dispatch:      *)
(* the leftover of one request is the start of the next (669-707).         *)
DispatchFollowsStream ==
  \A i \in DOMAIN answers :
    /\ answers[i].req = i
    /\ i < Len(answers) => answers[i].kind = "handler"

(* A handler that is started on a complete request has exactly that        *)
(* request in front of it: not a byte of the next one, and none missing    *)
(* (messageEndOffset, 846-874).                                            *)
FramesAreExact ==
  [][StartHandler /\ Len(buf) >= end => SubSeq(buf, 1, end) = Units(buf[1].req)]_vars

(* With a patient client the offsets never leave the buffer and no search  *)
(* starts at address 0; with another they do (788, 670).                   *)
StaysUp == patient => pc # "crashed"

(* A client that sends well-formed requests one after the other, each of   *)
(* which arrives in one piece and fits the buffer, has every one handed to *)
(* a handler, with its whole body, on the same connection.                 *)
ServesEveryRequest ==
  \A r \in UNION {DOMAIN s : s \in PatientScripts} :
    patient /\ sent >= r ~> \E i \in DOMAIN answers : answers[i] = [req |-> r, kind |-> "handler"]

(* "Didn't find endline. Rereading..." (790): a request that is well       *)
(* formed is not answered with an error, whatever reads it arrives in.     *)
WellFormedIsAccepted == \A i \in DOMAIN answers : answers[i].kind # "error"

=============================================================================
