---------------------------- MODULE ImageRequests ----------------------------
(***************************************************************************)
(* GET /images?imagename=...&size=...: how the parent threads of several   *)
(* connections take the path and the arguments out of a request line       *)
(* (threadroutines.c:803-836, 957-965), and what the handler makes of them *)
(* (21-104) with the loader of mimage.c, while the files change.           *)
(*                                                                         *)
(* strtok(3) keeps one pointer for the whole process, `saved'.  Parents    *)
(* that split their strings at the same time go on in each other's; the    *)
(* model takes the calls one at a time.  Calls that overlap are a data     *)
(* race, and whoever they could hurt is `mixed' already.                   *)
(*                                                                         *)
(* A date is shifted when it is read, for mktime takes GMT for local time: *)
(* back where the server is east of UTC, forth where it is west.           *)
(* The routine reads `image' and `imageByteSize' before they are assigned  *)
(* when it rejects a request: Unset is every value they may hold.          *)
(***************************************************************************)
EXTENDS ArgumentTrees

CONSTANTS
  Threads,     \* connections, one request each
  Targets,     \* what each may request: [text, date, since]: the string of the
               \* path, the date of If-(Un)modified-Since or None, which of the two
  Routes,      \* the routes, in the order of init_routes
  Images,      \* the route of the images
  ImageName, SizeKey,  \* the words "imagename" and "size"
  Sizes,       \* the words "small", "medium" and "large" as a function to sizes
  Dotted,      \* the image names that have a dot
  Disk,        \* a sequence of what the files are: [mtime, length] of each path
  Shifts,      \* what mktime may take off a date: the server's offset from UTC
  MaxInt       \* INT_MAX, as a length

(* The text of a target is a C string, and not an empty one.               *)
ASSUME ImagesAssumption ==
  /\ None \notin Threads
  /\ \A t \in Threads : \A g \in Targets[t] :
       /\ g.since \in BOOLEAN /\ g.date \in Int
       /\ g.text \in Seq(Int) /\ Len(g.text) > 1
       /\ \A i \in DOMAIN g.text : g.text[i] = Nul <=> i = Len(g.text)
  /\ Routes \in Seq(Nat) /\ Images \in ToSet(Routes)
  /\ ImageName \in Nat /\ SizeKey \in Nat
  /\ \A s \in DOMAIN Sizes : Sizes[s] \in {"small", "medium", "large"}
  /\ Len(Disk) \in Nat \ {0} /\ DOMAIN Disk = 1..Len(Disk) /\ Shifts \subseteq Int
  /\ \A n \in DOMAIN Disk : \A file \in DOMAIN Disk[n] :
       Disk[n][file].length \in Nat /\ Disk[n][file].mtime \in Int

VARIABLES
  killer,   \* the thread that ended the process, or None
  saved,    \* strtok's pointer: [in, at]
  now,      \* which of Disk the files are
  mixed,    \* the threads whose parsing another thread's strtok interrupted
  thread    \* the threads, each a parent and then the handler it starts

vars == <<killer, saved, now, mixed, thread>>

NoTarget == [text |-> <<Nul>>, date |-> None, since |-> FALSE]

NewThread(target) ==
  [pc     |-> "path",
   target |-> target,
   text   |-> target.text,  \* tmppathbuf
   path   |-> << >>,        \* token
   args   |-> [in |-> None, at |-> None],  \* arguments
   name   |-> None,         \* tokenName
   tree   |-> Empty,        \* bstargroot
   file   |-> << >>,        \* imageName in the handler
   after  |-> None,         \* headerLastModified
   seen   |-> 0,            \* the files when stat looked at them
   image  |-> "unset",      \* image: unset, null, or read
   read   |-> 0,            \* the files when it was read
   size   |-> None,         \* imageByteSize
   code   |-> "UNDEFINED",
   length |-> None,         \* the Content-Length of the answer, if it has one
   sent   |-> 0]            \* the bytes of its body

Init ==
  /\ killer = None
  /\ saved = [in |-> None, at |-> None]
  /\ now = 1
  /\ mixed = {}
  /\ thread = [t \in Threads |-> [NewThread(NoTarget) EXCEPT !.pc = "idle"]]

-----------------------------------------------------------------------------
At(t, pc) == killer = None /\ thread[t].pc = pc

Becomes(t, r) == thread' = [thread EXCEPT ![t] = r] /\ UNCHANGED <<killer, now>>

Quietly == UNCHANGED <<saved, mixed>>

Dies(t) == killer' = t /\ UNCHANGED <<saved, now, mixed, thread>>

(* In the middle of its parsing: between its first strtok and its last.    *)
Parsing(t) == thread[t].pc \in {"rest", "check", "first", "name", "value"}

(* t calls strtok on position i of u's string and becomes r; u's string is *)
(* what the call leaves.                                                   *)
Calls(t, u, i, delims, r) ==
  LET token == Token(thread[u].text, i, delims) IN
  /\ thread' = [x \in Threads |->
                  IF x = u
                  THEN [(IF x = t THEN r ELSE thread[x]) EXCEPT !.text = token.left]
                  ELSE IF x = t THEN r ELSE thread[x]]
  /\ saved' = [in |-> u, at |-> token.next]
  /\ mixed' = mixed \cup {x \in Threads \ {t} : Parsing(x)}
  /\ UNCHANGED <<killer, now>>

(* The word that such a call finds, or None.                               *)
Word(u, i) ==
  LET token == Token(thread[u].text, i, {Eq, Amp}) IN
  IF token.start = None THEN None ELSE thread[u].text[token.start]

-----------------------------------------------------------------------------
(* The parent: the request line                                            *)

(* 814-816.  The path, up to `?'.  A target that is only `?' has none, and *)
(* then search (826) compares with NULL.                                   *)
SplitPath(t) ==
  /\ At(t, "idle")
  /\ \E g \in Targets[t] :
       LET r     == NewThread(g)
           token == Token(g.text, 1, {Quest})
           path  == IF token.start = None THEN << >> ELSE StringAt(token.left, token.start)
       IN /\ thread' = [thread EXCEPT ![t] =
                          [r EXCEPT !.text = token.left, !.path = path,
                             !.pc = IF Len(path) # Len(g.text) - 1 THEN "rest" ELSE "check"]]
          /\ saved' = [in |-> t, at |-> token.next]
          /\ mixed' = mixed \cup {x \in Threads \ {t} : Parsing(x)}
          /\ killer' = IF token.start = None THEN t ELSE None
          /\ UNCHANGED now

(* 820.  The arguments, from wherever strtok's pointer is.                 *)
SplitArguments(t) ==
  LET u == saved.in
      token == Token(thread[u].text, saved.at, {Quest})
  IN /\ At(t, "rest")
     /\ Calls(t, u, saved.at, {Quest},
              [thread[t] EXCEPT !.args = [in |-> u, at |-> token.start], !.pc = "check"])

Arguments(t) == thread[t].args

(* 821-835.  The arguments are checked, the route is looked up.            *)
(* NULL arguments are those of a request that has no `?', or nothing       *)
(* after it: then they are invalid.                                        *)
ChecksTarget(t) ==
  LET r      == thread[t]
      a      == Arguments(t)
      asked  == a.in # None
      valid  == asked => a.at # None /\ IsValidArgStr(StringAt(thread[a.in].text, a.at))
      routes == InitTree([i \in DOMAIN Routes |-> <<Routes[i], i>>])
      found  == Len(r.path) = 1 /\ SearchTree(routes, r.path[1]) # None
  IN /\ At(t, "check")
     /\ Becomes(t, IF ~valid THEN [r EXCEPT !.pc = "answered", !.code = "BAD_REQUEST"]
                   ELSE IF ~found THEN [r EXCEPT !.pc = "answered", !.code = "NOT_FOUND"]
                   ELSE [r EXCEPT !.pc = IF asked THEN "first" ELSE "handler"])
     /\ Quietly

-----------------------------------------------------------------------------
(* mkargbst (141-172)                                                      *)

(* strtok(ptr, "=&"): the string the first time, NULL then.  No name: the  *)
(* tree is complete; an empty one is taken for a lack of memory (958).     *)
TakesName(t) ==
  LET r == thread[t]
      u == IF r.pc = "first" THEN Arguments(t).in ELSE saved.in
      i == IF r.pc = "first" THEN Arguments(t).at ELSE saved.at
      name == Word(u, i)
  IN /\ At(t, "first") \/ At(t, "name")
     /\ Calls(t, u, i, {Eq, Amp},
              IF name # None THEN [r EXCEPT !.name = name, !.pc = "value"]
              ELSE IF r.tree # Empty THEN [r EXCEPT !.pc = "handler"]
              ELSE [r EXCEPT !.pc = "answered", !.code = "SERVICE_UNAVAILABLE"])

(* strlen(NULL) when there is no value.                                    *)
TakesValue(t) ==
  LET value == Word(saved.in, saved.at) IN
  /\ At(t, "value")
  /\ IF value = None
     THEN Dies(t)
     ELSE Calls(t, saved.in, saved.at, {Eq, Amp},
                [thread[t] EXCEPT !.tree = AddNode(@, thread[t].name, value), !.pc = "name"])

-----------------------------------------------------------------------------
(* The handler (33-104).  A path, or an error; small and large need a dot, *)
(* and get_path_for_size frees a pointer into the middle of its buffer     *)
(* when there is none (91-93).                                             *)

(* What the routine knows when it has an answer or an error.               *)
Answers(r, image, size, code) ==
  [r EXCEPT !.image = image, !.size = size, !.code = code, !.pc = "compose"]

Date(target) ==
  IF target.date = None THEN {None} ELSE {target.date - s : s \in Shifts}

(* Mutant: the name of the middle size is taken apart, too.                *)
NeedsDot_Always(size) == TRUE

(* get_path_for_size copies the name for the middle size (78-82).          *)
NeedsDot(size) == size # "medium"

FindsPath(t) ==
  LET r    == thread[t]
      name == SearchTree(r.tree, ImageName)
      word == SearchTree(r.tree, SizeKey)
      size == IF word \in DOMAIN Sizes THEN Sizes[word] ELSE "medium"
  IN /\ At(t, "handler") /\ r.path[1] = Images
     /\ \/ /\ name # None /\ NeedsDot(size) /\ name \notin Dotted
           /\ Dies(t)
        \/ /\ name = None
           /\ Becomes(t, [r EXCEPT !.code = "BAD_REQUEST", !.pc = "compose"])
           /\ Quietly
        \/ /\ name # None /\ (NeedsDot(size) => name \in Dotted)
           /\ \/ \E d \in Date(r.target) :
                   Becomes(t, [r EXCEPT !.after = d, !.file = <<name, size>>, !.pc = "stat"])
              \/ \E code \in {"BAD_REQUEST", "UNDEFINED"} :   \* no memory: 64, 68
                   Becomes(t, [r EXCEPT !.code = code, !.pc = "compose"])
           /\ Quietly

(* The other routes are RequestHandlers'.                                  *)
OtherRoute(t) ==
  /\ At(t, "handler") /\ thread[t].path[1] # Images
  /\ Becomes(t, [thread[t] EXCEPT !.pc = "answered"])
  /\ Quietly

-----------------------------------------------------------------------------
(* load_image_from_path_timebased (mimage.c:20-73)                         *)

NO_NEED_TO_LOAD == 0

(* Mutant: the two modes are swapped.                                      *)
NeedNotLoad_Swapped(r, mtime) ==
  r.after # None /\ (IF r.target.since THEN mtime > r.after ELSE mtime < r.after)

NeedNotLoad(r, mtime) ==
  r.after # None /\ (IF r.target.since THEN mtime < r.after ELSE mtime > r.after)

(* Without memory for the result stat fails, too (25-30).                  *)
Stats(t) ==
  LET r     == [thread[t] EXCEPT !.seen = now]
      exists == r.file \in DOMAIN Disk[now]
  IN /\ At(t, "stat")
     /\ \/ Becomes(t, Answers(r, "null", -2, "NOT_FOUND"))
        \/ /\ exists /\ Disk[now][r.file].length > MaxInt
           /\ Becomes(t, Answers(r, "null", -5, "INTERNAL_SERVER_ERROR"))
        \/ /\ exists /\ Disk[now][r.file].length <= MaxInt
           /\ IF NeedNotLoad(r, Disk[now][r.file].mtime)
              THEN Becomes(t, Answers(r, "null", NO_NEED_TO_LOAD, "OK"))
              ELSE Becomes(t, [r EXCEPT !.pc = "load"])
     /\ Quietly

(* Mutant: the length is the one that stat saw.                            *)
BytesRead_OfStat(r) == Disk[r.seen][r.file].length

(* fread stops at the length that stat saw, or at the end of the file.     *)
BytesRead(r) ==
  LET was == Disk[r.seen][r.file].length
      is  == Disk[now][r.file].length
  IN IF was < is THEN was ELSE is

(* The file is opened again by its name.  Memory, fopen or fread may fail. *)
Loads(t) ==
  LET r == thread[t] IN
  /\ At(t, "load")
  /\ \/ \E e \in {-1, -4} : Becomes(t, Answers(r, "null", e, "INTERNAL_SERVER_ERROR"))
     \/ /\ r.file \in DOMAIN Disk[now]
        /\ Becomes(t, Answers([r EXCEPT !.read = now], "read", BytesRead(r), "OK"))
  /\ Quietly

(* Somebody changes the files.                                             *)
DiskChanges ==
  /\ killer = None /\ now < Len(Disk)
  /\ now' = now + 1
  /\ UNCHANGED <<killer, saved, mixed, thread>>

-----------------------------------------------------------------------------
(* The answer (85-103)                                                     *)

ContentLength(size) == IF size < 0 THEN 0 ELSE size

(* What imageByteSize holds.                                               *)
Lengths(r) == IF r.image = "unset" THEN {-1, 0, 1} ELSE {r.size}

(* A length of 0 means a string to form_response, and the image has no end.*)
BodySizes(r, size) ==
  IF r.image # "read" THEN {0} ELSE IF size = 0 THEN {0, 1} ELSE {size}

(* An unset pointer may be null, or the process ends where it is freed.    *)
(* 0 bytes mean that nothing had to be loaded.  Without memory for a       *)
(* header there is none.                                                   *)
Composes(t) ==
  LET r == thread[t] IN
  /\ At(t, "compose")
  /\ \/ r.image = "unset" /\ Dies(t)
     \/ \E size \in Lengths(r) : \E sent \in BodySizes(r, size) :
          /\ \/ Becomes(t, [r EXCEPT !.pc = "answered", !.length = ContentLength(size), !.sent = sent,
                              !.code = IF size # NO_NEED_TO_LOAD THEN @
                                       ELSE IF r.target.since THEN "NOT_MODIFIED"
                                       ELSE "PRECONDITION_FAILED"])
             \/ Becomes(t, [r EXCEPT !.pc = "answered", !.code = "SERVICE_UNAVAILABLE", !.sent = sent])
          /\ Quietly

(* The thread and its memory are gone, except the path buffer of its parent.*)
Ends(t) ==
  /\ At(t, "answered")
  /\ Becomes(t, [NewThread(thread[t].target) EXCEPT !.pc = "done", !.text = thread[t].text])
  /\ Quietly

-----------------------------------------------------------------------------
Runs(t) ==
  \/ SplitPath(t) \/ SplitArguments(t) \/ ChecksTarget(t) \/ TakesName(t) \/ TakesValue(t)
  \/ FindsPath(t) \/ OtherRoute(t) \/ Stats(t) \/ Loads(t) \/ Composes(t) \/ Ends(t)

Finished ==
  /\ killer # None \/ \A t \in Threads : thread[t].pc = "done"
  /\ UNCHANGED vars

Next == (\E t \in Threads : Runs(t)) \/ DiskChanges \/ Finished

Spec == Init /\ [][Next]_vars

-----------------------------------------------------------------------------
(* Properties                                                              *)

(* The variables have their types; strtok's pointer and the arguments      *)
(* never leave a string of one of the threads.                             *)
TypeOK ==
  /\ killer \in Threads \cup {None} /\ mixed \subseteq Threads /\ now \in DOMAIN Disk
  /\ \A p \in {saved} \cup {thread[t].args : t \in Threads} :
       p.in # None /\ p.at # None => p.in \in Threads /\ p.at \in DOMAIN thread[p.in].text
  /\ \A t \in Threads :
       LET r == thread[t] IN
       /\ Len(r.text) = Len(r.target.text) /\ r.text[Len(r.text)] = Nul
       /\ r.target \in Targets[t] \cup {NoTarget}
       /\ r.size \in Int /\ r.sent \in Nat
       /\ r.seen \in 0..now

(* What the client wrote behind `?', and whether it is name=value&...      *)
Written(t) ==
  LET s == thread[t].target.text
      q == FirstFrom(s, 1, Quest)
  IN IF q > Len(s) THEN << >> ELSE StringAt(s, q + 1)

WellFormed(s) ==
  /\ s = << >> \/ Len(s) % 4 = 3
  /\ \A i \in DOMAIN s : IF i % 2 = 1 THEN s[i] > 0 ELSE s[i] = (IF i % 4 = 2 THEN Eq ELSE Amp)

(* The first value that s gives to a name.                                 *)
ValueIn(s, k) ==
  LET at == {i \in DOMAIN s : i % 4 = 1 /\ s[i] = k} IN
  IF at = {} THEN None ELSE s[(CHOOSE i \in at : \A j \in at : i <= j) + 2]

Words == {w \in UNION {ToSet(g.text) : g \in UNION {Targets[t] : t \in Threads}} : w > 0}

(* t's target is a path and arguments, and only t split it.                *)
Unmixed(t) == t \notin mixed /\ thread[t].target.text[1] # Quest /\ WellFormed(Written(t))

(* A handler gets the arguments that its client wrote, the first of equal  *)
(* names, whatever other connections do, unless another strtok came in     *)
(* between (816-821, 957, 145-149).                                        *)
OwnArguments ==
  \A t \in Threads :
    thread[t].pc \in {"handler", "stat", "load", "compose"} /\ Unmixed(t) =>
      \A k \in Words : SearchTree(thread[t].tree, k) = ValueIn(Written(t), k)

Complete(t) ==
  LET s == Written(t) IN
  /\ ValueIn(s, ImageName) # None
  /\ \/ ValueIn(s, ImageName) \in Dotted
     \/ ValueIn(s, SizeKey) \notin DOMAIN Sizes \/ Sizes[ValueIn(s, SizeKey)] = "medium"

(* A request that is written as it should be, and that no other connection *)
(* interrupts, does not end the process, unless there is no memory for its *)
(* path: then the handler uses what it never assigned (50-76, 82-103).     *)
GoodRequestsAreHarmless ==
  killer # None => \/ ~(Unmixed(killer) /\ Complete(killer))
                   \/ thread[killer].pc = "compose" /\ thread[killer].file = << >>

(* An image that is sent is the one that was asked for, as long as it was  *)
(* announced; it is the whole file, unless the file changed after stat     *)
(* looked at it (mimage.c:27, 58).                                         *)
ImageIsWhole ==
  \A t \in Threads :
    LET r == thread[t] IN
    r.pc = "answered" /\ r.code = "OK" /\ r.image = "read" =>
      /\ Unmixed(t) => r.file[1] = ValueIn(Written(t), ImageName)
      /\ r.length = r.sent
      /\ r.sent <= Disk[r.read][r.file].length
      /\ r.read = r.seen => r.sent = Disk[r.seen][r.file].length

(* A client is told that its copy is current only if the file did not      *)
(* change since the date it gave, and that the precondition failed only if *)
(* it did, by the date as the server reads it (httphelper.c:274): on a     *)
(* server west of UTC that is a later one, and a copy may be called        *)
(* current that is not.  A file that is empty, and a request that was      *)
(* rejected, may be answered so, too (91-94).                              *)
NotModifiedIsTrue ==
  \A t \in Threads :
    LET r == thread[t] IN
    r.pc = "answered" /\ r.image = "null" =>
      /\ r.code = "NOT_MODIFIED" =>
           \E s \in Shifts : Disk[r.seen][r.file].mtime < r.target.date - s
      /\ r.code = "PRECONDITION_FAILED" =>
           \E s \in Shifts : Disk[r.seen][r.file].mtime > r.target.date - s

=============================================================================
