--------------------------- MODULE UploadsProofs ----------------------------
(***************************************************************************)
(* Chunked uploads for any number of uploads, chunks, calls and keys.       *)
(*                                                                         *)
(* A key is reserved once and never given back, so of all the calls of       *)
(* Complete with that key one gets past Reserve (KeysHeld); a call makes at   *)
(* most one file (FilesFit).  Where every upload has its key, the object of   *)
(* an upload is therefore written and rejected by one call only, and that    *)
(* call has no file as long as it does so.                                   *)
(***************************************************************************)
EXTENDS Uploads, TLAPS

\* A client never uses the key of one upload for another.
KeysTellUploads ==
  \A u, v \in Uploads : u # v => CompleteKeys[u] \cap CompleteKeys[v] \subseteq {None}

\* A client completes an upload with one key, whenever it repeats the call.
OneKeyEach == \A u \in Uploads : \E k \in Keys : CompleteKeys[u] = {k}

CallRecords ==
  [pc : {"idle", "reserving", "working", "writing", "inserting", "aborting",
         "reading", "stored", "inserted", "indexed", "completed", "recording", "done"},
   op : Operations \cup {None}, upload : Uploads \cup {None},
   key : Keys \cup {None}, index : 0..TotalChunks, content : Contents, answer : Answers]

Past == {"working", "reading", "stored", "inserted", "indexed", "completed", "recording"}

\* A Complete that has got past Reserve and has not ended.
Holds(r, k) == call[r].op = "complete" /\ call[r].key = k /\ call[r].pc \in Past

FileWith(k) == \E f \in files : call[f.id].key = k

\* What the program counter says of a call's arguments and local variables.
Fits(c) ==
  /\ c.pc = "idle" => c.op = None
  /\ c.pc # "idle" => c.op \in Operations
  /\ c.pc \in {"reading", "stored", "inserted", "indexed", "completed"} => c.op = "complete"
  /\ c.pc \in {"reserving", "working", "recording"} => c.op \in {"init", "complete"}
  /\ c.pc \in {"writing", "inserting"} => c.op = "chunk" /\ c.index \in Chunks /\ c.content \in {"good", "bad"}
  /\ c.pc \in {"reading", "stored"} => c.content \in {"good", "bad"}
  /\ c.pc = "aborting" => c.op = "abort"
  /\ c.pc = "reserving" => c.key \in Keys
  /\ c.op = "chunk" => c.index \in Chunks
  /\ c.op \in {"complete", "chunk", "abort"} => c.upload \in Uploads
  /\ c.op = "init" /\ c.pc = "recording" => c.upload \in Uploads
  /\ c.op = "complete" => c.key \in CompleteKeys[c.upload]
  /\ c.pc # "done" => c.answer = NoAnswer

CallsFit == \A r \in Calls : Fits(call[r])

\* The upload of a call exists, so its profile is settled.
Opened ==
  \A r \in Calls : call[r].upload # None => session[call[r].upload].state # "none"

FilesFit ==
  /\ \A f \in files : /\ call[f.id].op = "complete" /\ call[f.id].upload = f.upload
                      /\ call[f.id].pc \in {"inserted", "indexed", "completed", "recording", "done"}
                      /\ f.at = ObjectKey(f.upload, f.id)
  /\ \A f, g \in files : f.id = g.id => f = g
  /\ \A r \in Calls : call[r].op = "complete" /\ call[r].pc \in {"inserted", "indexed", "completed", "recording"} =>
       \E f \in files : f.id = r

KeysHeld ==
  \A k \in Keys :
    /\ idem["complete"][k].state = "absent" => ~ FileWith(k) /\ \A r \in Calls : ~ Holds(r, k)
    /\ \A r, q \in Calls : Holds(r, k) /\ Holds(q, k) => r = q
    /\ \A r \in Calls, f \in files : Holds(r, k) /\ call[f.id].key = k => f.id = r
    /\ idem["complete"][k].state = "completed" =>
         \E f \in files : f.id = idem["complete"][k].resource /\ call[f.id].key = k

UInv == TypeOK /\ CallsFit /\ Opened /\ FilesFit /\ KeysHeld /\ OneFilePerKey

----------------------------------------------------------------------------
(* How a call moves.                                                       *)

\* Calls are records.
LEMMA TypeOfCalls == ASSUME TypeOK PROVE call \in [Calls -> CallRecords]
BY DEF TypeOK, CallRecords

\* Goto changes the program counter of one call.
LEMMA GotoMoves ==
  ASSUME call \in [Calls -> CallRecords], NEW r \in Calls,
         NEW p \in {"working", "inserting", "stored", "inserted", "indexed", "completed", "recording"}, Goto(r, p)
  PROVE  /\ call' \in [Calls -> CallRecords]
         /\ \A q \in Calls : q # r => call'[q] = call[q]
         /\ call'[r] = [call[r] EXCEPT !.pc = p]
         /\ call'[r].pc = p /\ \A v \in {"op", "upload", "key", "index", "content", "answer"} : call'[r][v] = call[r][v]
<1> DEFINE c == [call[r] EXCEPT !.pc = p]
<1>1. call[r] \in CallRecords
  OBVIOUS
<1>2. c \in CallRecords
  BY <1>1 DEF CallRecords
<1>3. call' = [call EXCEPT ![r] = c]
  BY DEF Goto
<1>4. QED
  BY <1>1, <1>2, <1>3 DEF CallRecords

\* Answer ends one call.
LEMMA AnswerMoves ==
  ASSUME call \in [Calls -> CallRecords], NEW r \in Calls,
         NEW kind \in {"ok", "conflict", "error"}, NEW resource \in Uploads \cup Calls \cup {None},
         Answer(r, kind, resource)
  PROVE  /\ call' \in [Calls -> CallRecords]
         /\ \A q \in Calls : q # r => call'[q] = call[q]
         /\ call'[r].pc = "done" /\ call'[r].answer = [kind |-> kind, resource |-> resource]
         /\ \A v \in {"op", "upload", "key", "index", "content"} : call'[r][v] = call[r][v]
<1> DEFINE a == [kind |-> kind, resource |-> resource]
           c == [[call[r] EXCEPT !.pc = "done"] EXCEPT !.answer = a]
<1>1. call[r] \in CallRecords /\ a \in Answers
  BY DEF Answers
<1>2. c \in CallRecords
  BY <1>1 DEF CallRecords
<1>3. call' = [call EXCEPT ![r] = c]
  BY DEF Answer
<1>4. QED
  BY <1>1, <1>2, <1>3 DEF CallRecords

\* RejectObject ends one call too.
LEMMA RejectMoves ==
  ASSUME call \in [Calls -> CallRecords], NEW r \in Calls, RejectObject(r)
  PROVE  /\ call' \in [Calls -> CallRecords]
         /\ \A q \in Calls : q # r => call'[q] = call[q]
         /\ call'[r].pc = "done" /\ call'[r].answer.kind = "error" /\ call'[r].content = "absent"
         /\ \A v \in {"op", "upload", "key", "index"} : call'[r][v] = call[r][v]
<1> DEFINE a == [kind |-> "error", resource |-> None]
           c == [[[call[r] EXCEPT !.pc = "done"] EXCEPT !.content = "absent"] EXCEPT !.answer = a]
<1>1. call[r] \in CallRecords /\ a \in Answers
  BY DEF Answers
<1>2. c \in CallRecords
  BY <1>1 DEF CallRecords, Contents
<1>3. call' = [call EXCEPT ![r] = c]
  BY DEF RejectObject
<1>4. QED
  BY <1>1, <1>2, <1>3 DEF CallRecords

\* Sessions that exist keep existing, in their profiles.
SessionsKept ==
  \A u \in Uploads : session[u].state # "none" =>
    session'[u].state # "none" /\ session'[u].profile = session[u].profile

HasIndexed == {"inserted", "indexed", "completed", "recording"}

\* A call that begins without a key of Complete.
Begins(r) ==
  /\ call[r].pc = "idle"
  /\ call'[r].pc \notin HasIndexed
  /\ call'[r].op = "complete" /\ call'[r].pc \in Past => call'[r].key = None

\* A call that goes on, past neither Reserve nor CreateIndex, or ends.
GoesOn(r) ==
  /\ call'[r].op = call[r].op /\ call'[r].key = call[r].key
  /\ call[r].op = "complete" => call'[r].upload = call[r].upload
  /\ call'[r].pc \in Past /\ call[r].op = "complete" => call[r].pc \in Past
  /\ call'[r].pc \in HasIndexed /\ call[r].op = "complete" => call[r].pc \in HasIndexed
  /\ call[r].pc \in HasIndexed => call'[r].pc \in HasIndexed \cup {"done"}
  /\ call[r].pc = "done" => call'[r].pc = "done"

\* Such a step leaves files and keys as they are.
LEMMA QuietStep ==
  ASSUME UInv, TypeOK', NEW r \in Calls, \A q \in Calls : q # r => call'[q] = call[q],
         files' = files, idem'["complete"] = idem["complete"], SessionsKept,
         Fits(call'[r]), call'[r].upload # None => session'[call'[r].upload].state # "none",
         Begins(r) \/ GoesOn(r)
  PROVE  UInv'
<1> USE UploadsAssumption DEF UInv
<1>1. CallsFit'
  BY DEF CallsFit, Fits
<1>2. Opened'
  <2> SUFFICES ASSUME NEW q \in Calls, call'[q].upload # None
               PROVE  session'[call'[q].upload].state # "none"
    BY DEF Opened
  <2>1. CASE q = r
    BY <2>1
  <2>2. CASE q # r
    BY <2>2 DEF Opened, SessionsKept, TypeOK
  <2>3. QED
    BY <2>1, <2>2
<1>3. \A f \in files : /\ call'[f.id].op = "complete" /\ call'[f.id].upload = f.upload /\ call'[f.id].key = call[f.id].key
                       /\ call'[f.id].pc \in {"inserted", "indexed", "completed", "recording", "done"}
  <2> SUFFICES ASSUME NEW f \in files
               PROVE  /\ call'[f.id].op = "complete" /\ call'[f.id].upload = f.upload /\ call'[f.id].key = call[f.id].key
                      /\ call'[f.id].pc \in {"inserted", "indexed", "completed", "recording", "done"}
    OBVIOUS
  <2>1. /\ f.id \in Calls /\ call[f.id].op = "complete" /\ call[f.id].upload = f.upload
        /\ call[f.id].pc \in {"inserted", "indexed", "completed", "recording", "done"}
    BY DEF FilesFit, TypeOK
  <2>2. CASE f.id = r
    BY <2>1, <2>2 DEF Begins, GoesOn, HasIndexed
  <2>3. CASE f.id # r
    BY <2>1, <2>3
  <2>4. QED
    BY <2>2, <2>3
<1>4. \A q \in Calls, k \in Keys : Holds(q, k)' => Holds(q, k)
  BY DEF Holds, Begins, GoesOn
<1>5. \A q \in Calls : call'[q].op = "complete" /\ call'[q].pc \in {"inserted", "indexed", "completed", "recording"} =>
        call[q].op = "complete" /\ call[q].pc \in {"inserted", "indexed", "completed", "recording"}
  BY DEF Begins, GoesOn, HasIndexed
<1>6. FilesFit'
  <2>1. \A f \in files : f.at = ObjectKey(f.upload, f.id)'
    <3> SUFFICES ASSUME NEW f \in files
                 PROVE  f.at = ObjectKey(f.upload, f.id)'
      OBVIOUS
    <3>1. f.upload \in Uploads /\ f.id \in Calls /\ call[f.id].upload = f.upload /\ f.at = ObjectKey(f.upload, f.id)
      BY DEF FilesFit, TypeOK
    <3>2. session'[f.upload].profile = session[f.upload].profile
      BY <3>1 DEF SessionsKept, Opened
    <3>3. QED
      BY <3>1, <3>2 DEF ObjectKey
  <2>2. QED
    BY <1>3, <1>5, <2>1 DEF FilesFit
<1>7. KeysHeld'
  <2>1. \A k \in Keys : FileWith(k)' <=> FileWith(k)
    BY <1>3 DEF FileWith
  <2>2. QED
    BY <1>3, <1>4, <2>1 DEF KeysHeld
<1>8. OneFilePerKey'
  BY <1>3 DEF OneFilePerKey
<1>9. QED
  BY <1>1, <1>2, <1>6, <1>7, <1>8

\* What GetKey can make of a call.
LEMMA GetKeyMakes ==
  ASSUME TypeOK, NEW r \in Calls, NEW op \in {"init", "complete"}, NEW u \in Uploads \cup {None},
         NEW k \in Keys \cup {None}, GetKey(r, op, u, k)
  PROVE  \E c \in CallRecords :
           /\ call' = [call EXCEPT ![r] = c]
           /\ c.op = op /\ c.upload = u /\ c.key = k
           /\ \/ c.pc = "working" /\ k = None /\ c.answer = NoAnswer
              \/ c.pc = "reserving" /\ k # None /\ c.answer = NoAnswer
              \/ c.pc = "done" /\ c.answer.kind = "conflict"
              \/ /\ c.pc = "done" /\ k # None /\ KeyRecord(op, k).state = "completed"
                 /\ c.answer.resource = KeyRecord(op, k).resource
<1> DEFINE Replay == [kind |-> "ok", resource |-> KeyRecord(op, k).resource]
           Refuse == [kind |-> "conflict", resource |-> None]
<1>1. NoAnswer \in Answers /\ Refuse \in Answers /\ Refuse.kind = "conflict"
  BY DEF NoAnswer, Answers
<1>2. ASSUME NEW pc \in {"working", "reserving", "done"}, NEW a \in Answers
      PROVE  LET c == Asked(op, u, k, pc, a) IN
               c \in CallRecords /\ c.op = op /\ c.upload = u /\ c.key = k /\ c.pc = pc /\ c.answer = a
  <2>1. 0 \in 0..TotalChunks
    BY UploadsAssumption
  <2>2. QED
    BY <2>1 DEF Asked, CallRecords, Operations, Contents
<1>3. k \in Keys => Replay \in Answers /\ Replay.resource = KeyRecord(op, k).resource
  BY DEF KeyRecord, TypeOK, Answers
<1> HIDE DEF Replay, Refuse
<1>4. CASE k = None /\ call' = [call EXCEPT ![r] = Asked(op, u, k, "working", NoAnswer)]
  <2> DEFINE c == Asked(op, u, k, "working", NoAnswer)
  <2>1. /\ c \in CallRecords /\ c.op = op /\ c.upload = u /\ c.key = k
        /\ c.pc = "working" /\ c.answer = NoAnswer
    BY <1>1, <1>2
  <2>2. call' = [call EXCEPT ![r] = c]
    BY <1>4
  <2> HIDE DEF c
  <2>3. QED
    BY <1>1, <1>3, <1>4, <2>1, <2>2
<1>5. CASE k # None /\ call' = [call EXCEPT ![r] = Asked(op, u, k, "reserving", NoAnswer)]
  <2> DEFINE c == Asked(op, u, k, "reserving", NoAnswer)
  <2>1. /\ c \in CallRecords /\ c.op = op /\ c.upload = u /\ c.key = k
        /\ c.pc = "reserving" /\ c.answer = NoAnswer
    BY <1>1, <1>2
  <2>2. call' = [call EXCEPT ![r] = c]
    BY <1>5
  <2> HIDE DEF c
  <2>3. QED
    BY <1>1, <1>3, <1>5, <2>1, <2>2
<1>6. CASE call' = [call EXCEPT ![r] = Asked(op, u, k, "done", Refuse)]
  <2> DEFINE c == Asked(op, u, k, "done", Refuse)
  <2>1. /\ c \in CallRecords /\ c.op = op /\ c.upload = u /\ c.key = k
        /\ c.pc = "done" /\ c.answer = Refuse
    BY <1>1, <1>2
  <2>2. call' = [call EXCEPT ![r] = c]
    BY <1>6
  <2> HIDE DEF c
  <2>3. QED
    BY <1>1, <1>3, <1>6, <2>1, <2>2
<1>7. CASE k # None /\ KeyRecord(op, k).state = "completed" /\ call' = [call EXCEPT ![r] = Asked(op, u, k, "done", Replay)]
  <2> DEFINE c == Asked(op, u, k, "done", Replay)
  <2>1. /\ c \in CallRecords /\ c.op = op /\ c.upload = u /\ c.key = k
        /\ c.pc = "done" /\ c.answer = Replay
    BY <1>2, <1>3, <1>7
  <2>2. call' = [call EXCEPT ![r] = c]
    BY <1>7
  <2> HIDE DEF c
  <2>3. QED
    BY <1>1, <1>3, <1>7, <2>1, <2>2
<1>8. QED
  BY <1>4, <1>5, <1>6, <1>7 DEF GetKey, Replay, Refuse

\* One call gets a new record.
LEMMA CallMoves ==
  ASSUME call \in [Calls -> CallRecords], NEW r \in Calls, NEW c \in CallRecords,
         call' = [call EXCEPT ![r] = c]
  PROVE  /\ call' \in [Calls -> CallRecords]
         /\ \A q \in Calls : q # r => call'[q] = call[q]
         /\ call'[r] = c
OBVIOUS

\* A step that changes nothing but calls keeps the types.
LEMMA TypeOfStep ==
  ASSUME TypeOK, call' \in [Calls -> CallRecords],
         UNCHANGED <<session, chunkRow, chunk, objects, files, idem>>
  PROVE  TypeOK'
BY DEF TypeOK, CallRecords

----------------------------------------------------------------------------
(* Calls that begin.                                                       *)

\* Init and Complete begin with their key.
LEMMA KeyedCallBegins ==
  ASSUME UInv, NEW r \in Calls, NEW op \in {"init", "complete"}, NEW u \in Uploads \cup {None},
         NEW k \in Keys \cup {None}, GetKey(r, op, u, k), call[r].pc = "idle",
         op = "complete" => u \in Uploads /\ k \in CompleteKeys[u],
         u # None => session[u].state # "none",
         UNCHANGED <<session, chunkRow, chunk, objects, files, idem>>
  PROVE  UInv'
<1>1. call \in [Calls -> CallRecords] /\ TypeOK
  BY TypeOfCalls DEF UInv
<1>2. PICK c \in CallRecords :
        /\ call' = [call EXCEPT ![r] = c]
        /\ c.op = op /\ c.upload = u /\ c.key = k
        /\ \/ c.pc = "working" /\ k = None /\ c.answer = NoAnswer
           \/ c.pc = "reserving" /\ k # None /\ c.answer = NoAnswer
           \/ c.pc = "done"
  BY <1>1, GetKeyMakes
<1>3. /\ call' \in [Calls -> CallRecords]
      /\ \A q \in Calls : q # r => call'[q] = call[q]
      /\ call'[r] = c
  BY <1>1, <1>2, CallMoves
<1>4. TypeOK'
  BY <1>1, <1>3, TypeOfStep
<1>5. Fits(c)
  BY <1>2 DEF Fits, Operations
<1>6. Begins(r)
  BY <1>2, <1>3 DEF Begins, Past, HasIndexed
<1>7. SessionsKept
  BY DEF SessionsKept
<1>8. QED
  BY <1>2, <1>3, <1>4, <1>5, <1>6, <1>7, QuietStep

\* Init begins.
LEMMA StartInitKeeps ==
  ASSUME UInv, NEW r \in Calls, StartInit(r)
  PROVE  UInv'
<1>1. PICK k \in InitKeys : GetKey(r, "init", None, k)
  BY DEF StartInit
<1>2. k \in Keys \cup {None}
  BY UploadsAssumption
<1>3. QED
  BY <1>1, <1>2, KeyedCallBegins DEF StartInit

\* Complete begins.
LEMMA StartCompleteKeeps ==
  ASSUME UInv, NEW r \in Calls, NEW u \in Uploads, StartComplete(r, u)
  PROVE  UInv'
<1>1. PICK k \in CompleteKeys[u] : GetKey(r, "complete", u, k)
  BY DEF StartComplete
<1>2. k \in Keys \cup {None}
  BY UploadsAssumption
<1>3. QED
  BY <1>1, <1>2, KeyedCallBegins DEF StartComplete

\* PutChunk begins, or is refused.
LEMMA StartChunkKeeps ==
  ASSUME UInv, NEW r \in Calls, NEW u \in Uploads, NEW i \in Chunks, NEW x \in {"good", "bad"},
         StartChunk(r, u, i, x)
  PROVE  UInv'
<1>1. call \in [Calls -> CallRecords] /\ TypeOK
  BY TypeOfCalls DEF UInv
<1> DEFINE refusal == [kind |-> "conflict", resource |-> None]
           w == [Asked("chunk", u, None, "writing", NoAnswer) EXCEPT !.index = i, !.content = x]
           d == Asked("chunk", u, None, "done", refusal)
<1>2. NoAnswer \in Answers /\ refusal \in Answers /\ 0 \in 0..TotalChunks /\ 0 \in Chunks /\ i \in 0..TotalChunks
  BY UploadsAssumption DEF NoAnswer, Answers, Chunks
<1>3. /\ w \in CallRecords /\ w.op = "chunk" /\ w.upload = u /\ w.pc = "writing" /\ w.answer = NoAnswer
      /\ w.index = i /\ w.content = x
  BY <1>2 DEF Asked, CallRecords, Operations, Contents
<1>4. d \in CallRecords /\ d.op = "chunk" /\ d.upload = u /\ d.pc = "done" /\ d.index = 0
  BY <1>2 DEF Asked, CallRecords, Operations, Contents
<1>5. call' = [call EXCEPT ![r] = w] \/ call' = [call EXCEPT ![r] = d]
  BY DEF StartChunk
<1> HIDE DEF w, d
<1>6. PICK c \in CallRecords :
        /\ call' = [call EXCEPT ![r] = c] /\ c.op = "chunk" /\ c.upload = u
        /\ \/ c.pc = "writing" /\ c.answer = NoAnswer /\ c.index = i /\ c.content = x
           \/ c.pc = "done" /\ c.index = 0
  BY <1>3, <1>4, <1>5
<1>7. /\ call' \in [Calls -> CallRecords]
      /\ \A q \in Calls : q # r => call'[q] = call[q]
      /\ call'[r] = c
  BY <1>1, <1>6, CallMoves
<1>8. TypeOK'
  BY <1>1, <1>7, TypeOfStep DEF StartChunk
<1>9. Fits(c)
  BY <1>2, <1>6 DEF Fits, Operations
<1>10. Begins(r)
  BY <1>6, <1>7 DEF Begins, Past, HasIndexed, StartChunk
<1>11. SessionsKept
  BY DEF SessionsKept, StartChunk
<1>12. QED
  BY <1>6, <1>7, <1>8, <1>9, <1>10, <1>11, QuietStep DEF StartChunk

\* Abort begins with the state of the session.
LEMMA StartAbortKeeps ==
  ASSUME UInv, NEW r \in Calls, NEW u \in Uploads, StartAbort(r, u)
  PROVE  UInv'
<1>1. call \in [Calls -> CallRecords] /\ TypeOK
  BY TypeOfCalls DEF UInv
<1> DEFINE c == Asked("abort", u, None, "aborting", NoAnswer)
<1>2. c \in CallRecords /\ c.op = "abort" /\ c.upload = u /\ c.pc = "aborting" /\ c.answer = NoAnswer
  BY UploadsAssumption DEF Asked, CallRecords, Operations, Contents, NoAnswer, Answers
<1>3. call' = [call EXCEPT ![r] = c]
  BY DEF StartAbort
<1> HIDE DEF c
<1>4. /\ call' \in [Calls -> CallRecords]
      /\ \A q \in Calls : q # r => call'[q] = call[q]
      /\ call'[r] = c
  BY <1>1, <1>2, <1>3, CallMoves
<1>5. /\ session' \in [Uploads -> [state : {"none", "uploading", "completed", "aborted"},
                                   profile : Profiles \cup {None}, file : Calls \cup {None}]]
      /\ session'[u].state = "aborted" /\ session'[u].profile = session[u].profile
      /\ \A v \in Uploads : v # u => session'[v] = session[v]
  <2> DEFINE S == [state : {"none", "uploading", "completed", "aborted"},
                   profile : Profiles \cup {None}, file : Calls \cup {None}]
             s == [session[u] EXCEPT !.state = "aborted"]
  <2>1. session \in [Uploads -> S] /\ session[u] \in S
    BY <1>1 DEF TypeOK
  <2>2. s \in S /\ s.state = "aborted" /\ s.profile = session[u].profile
    BY <2>1
  <2>3. session' = [session EXCEPT ![u] = s]
    BY DEF StartAbort
  <2> HIDE DEF s, S
  <2>4. session' \in [Uploads -> S] /\ session'[u] = s /\ \A v \in Uploads : v # u => session'[v] = session[v]
    BY <2>1, <2>2, <2>3
  <2>5. QED
    BY <2>2, <2>4 DEF S
<1>6. TypeOK'
  BY <1>1, <1>4, <1>5 DEF StartAbort, TypeOK, CallRecords
<1>7. Fits(c)
  BY <1>2 DEF Fits, Operations
<1>8. Begins(r)
  BY <1>2, <1>4 DEF Begins, Past, HasIndexed, StartAbort
<1>9. SessionsKept
  BY <1>5 DEF SessionsKept
<1>10. QED
  BY <1>2, <1>4, <1>5, <1>6, <1>7, <1>8, <1>9, QuietStep DEF StartAbort

----------------------------------------------------------------------------
(* Calls that go on.                                                       *)

\* What the steps of a call leave alone.
Quiet == files' = files /\ idem'["complete"] = idem["complete"] /\ SessionsKept

\* A call that ends.
LEMMA EndKeeps ==
  ASSUME UInv, TypeOK', NEW r \in Calls, call[r].pc # "idle", NEW kind \in {"ok", "conflict", "error"},
         NEW resource \in Uploads \cup Calls \cup {None}, Answer(r, kind, resource), Quiet
  PROVE  UInv'
<1>1. call \in [Calls -> CallRecords] /\ TypeOK
  BY TypeOfCalls DEF UInv
<1>2. /\ call' \in [Calls -> CallRecords]
      /\ \A q \in Calls : q # r => call'[q] = call[q]
      /\ call'[r].pc = "done" /\ call'[r].op = call[r].op /\ call'[r].upload = call[r].upload
      /\ call'[r].key = call[r].key /\ call'[r].index = call[r].index /\ call'[r].content = call[r].content
  BY <1>1, AnswerMoves
<1>3. Fits(call[r]) /\ (call[r].upload # None => session[call[r].upload].state # "none")
  BY DEF UInv, CallsFit, Opened
<1>4. Fits(call'[r])
  BY <1>2, <1>3 DEF Fits
<1>5. call[r].upload # None => session'[call[r].upload].state # "none"
  BY <1>1, <1>3 DEF Quiet, SessionsKept, CallRecords
<1>6. GoesOn(r)
  BY <1>2 DEF GoesOn, Past, HasIndexed
<1>7. QED
  BY <1>2, <1>4, <1>5, <1>6, QuietStep DEF Quiet

\* A call that goes to its next step.
LEMMA GotoKeeps ==
  ASSUME UInv, TypeOK', NEW r \in Calls,
         NEW p \in {"working", "inserting", "stored", "indexed", "completed", "recording"}, Goto(r, p), Quiet,
         \/ p = "working" /\ call[r].pc = "reserving" /\ call[r].op = "init"
         \/ p = "inserting" /\ call[r].pc = "writing"
         \/ p = "stored" /\ call[r].pc = "reading"
         \/ p = "indexed" /\ call[r].pc = "inserted"
         \/ p = "completed" /\ call[r].pc = "indexed"
         \/ p = "recording" /\ call[r].pc = "completed"
  PROVE  UInv'
<1>1. call \in [Calls -> CallRecords] /\ TypeOK
  BY TypeOfCalls DEF UInv
<1>2. /\ call' \in [Calls -> CallRecords]
      /\ \A q \in Calls : q # r => call'[q] = call[q]
      /\ call'[r].pc = p /\ call'[r].op = call[r].op /\ call'[r].upload = call[r].upload
      /\ call'[r].key = call[r].key /\ call'[r].index = call[r].index /\ call'[r].content = call[r].content
      /\ call'[r].answer = call[r].answer
  BY <1>1, GotoMoves
<1>3. Fits(call[r]) /\ (call[r].upload # None => session[call[r].upload].state # "none")
  BY DEF UInv, CallsFit, Opened
<1>4. Fits(call'[r])
  BY <1>2, <1>3 DEF Fits
<1>5. call[r].upload # None => session'[call[r].upload].state # "none"
  BY <1>1, <1>3 DEF Quiet, SessionsKept, CallRecords
<1>6. GoesOn(r)
  BY <1>2, <1>3 DEF GoesOn, Past, HasIndexed, Fits
<1>7. QED
  BY <1>2, <1>4, <1>5, <1>6, QuietStep DEF Quiet

\* Objects are under keys.
LEMMA ObjectKeyTyped ==
  ASSUME NEW u \in Uploads, NEW r \in Calls
  PROVE  ObjectKey(u, r) \in ObjectKeys
BY DEF ObjectKey, ObjectKeys

\* Chunks can go.
LEMMA WithoutChunksTyped ==
  ASSUME TypeOK, NEW u \in Uploads, WithoutChunks(u)
  PROVE  chunk' \in [Uploads -> [Chunks -> Contents]]
BY DEF TypeOK, WithoutChunks, Contents

\* Init inserts its session.
LEMMA InsertSessionKeeps ==
  ASSUME UInv, NEW r \in Calls, InsertSession(r)
  PROVE  UInv'
<1>1. call \in [Calls -> CallRecords] /\ TypeOK /\ Fits(call[r])
  BY TypeOfCalls DEF UInv, CallsFit
<1>2. PICK u \in Uploads, p \in Profiles :
        /\ session[u].state = "none"
        /\ session' = [session EXCEPT ![u] = [state |-> "uploading", profile |-> p, file |-> None]]
        /\ call' = [call EXCEPT ![r].pc = "recording", ![r].upload = u]
  BY UploadsAssumption DEF InsertSession
<1> DEFINE c == [[call[r] EXCEPT !.pc = "recording"] EXCEPT !.upload = u]
<1>3. /\ c \in CallRecords /\ c.pc = "recording" /\ c.op = call[r].op /\ c.upload = u /\ c.key = call[r].key
      /\ c.answer = call[r].answer
  BY <1>1 DEF CallRecords
<1>4. call' = [call EXCEPT ![r] = c]
  BY <1>2
<1> HIDE DEF c
<1>5. /\ call' \in [Calls -> CallRecords]
      /\ \A q \in Calls : q # r => call'[q] = call[q]
      /\ call'[r] = c
  BY <1>1, <1>3, <1>4, CallMoves
<1>6. /\ session' \in [Uploads -> [state : {"none", "uploading", "completed", "aborted"},
                                   profile : Profiles \cup {None}, file : Calls \cup {None}]]
      /\ session'[u].state = "uploading"
      /\ \A v \in Uploads : v # u => session'[v] = session[v]
  BY <1>1, <1>2 DEF TypeOK
<1>7. TypeOK'
  BY <1>1, <1>5, <1>6 DEF InsertSession, TypeOK, CallRecords
<1>8. Fits(c)
  BY <1>1, <1>3 DEF Fits, Operations, InsertSession
<1>9. GoesOn(r)
  BY <1>3, <1>5 DEF GoesOn, Past, HasIndexed, InsertSession
<1>10. SessionsKept
  BY <1>2, <1>6 DEF SessionsKept
<1>11. QED
  BY <1>3, <1>5, <1>6, <1>7, <1>8, <1>9, <1>10, QuietStep DEF InsertSession

\* PutChunk renames its file.
LEMMA WriteChunkKeeps ==
  ASSUME UInv, NEW r \in Calls, WriteChunk(r)
  PROVE  UInv'
<1>1. call \in [Calls -> CallRecords] /\ TypeOK /\ Fits(call[r])
  BY TypeOfCalls DEF UInv, CallsFit
<1>2. call' \in [Calls -> CallRecords]
  BY <1>1, GotoMoves DEF WriteChunk
<1>3. call[r].upload \in Uploads /\ call[r].index \in Chunks /\ call[r].content \in Contents
  BY <1>1 DEF Fits, WriteChunk, Contents
<1>4. chunk' \in [Uploads -> [Chunks -> Contents]]
  BY <1>1, <1>3 DEF TypeOK, WriteChunk
<1>5. TypeOK'
  BY <1>1, <1>2, <1>4 DEF WriteChunk, TypeOK, CallRecords
<1>6. QED
  BY <1>5, GotoKeeps DEF WriteChunk, Quiet, SessionsKept

\* PutChunk inserts its row.
LEMMA InsertChunkKeeps ==
  ASSUME UInv, NEW r \in Calls, InsertChunk(r)
  PROVE  UInv'
<1>1. call \in [Calls -> CallRecords] /\ TypeOK /\ Fits(call[r])
  BY TypeOfCalls DEF UInv, CallsFit
<1>2. call[r].upload \in Uploads /\ call[r].index \in Chunks
  BY <1>1 DEF Fits, InsertChunk
<1>3. call' \in [Calls -> CallRecords]
  BY <1>1, <1>2, AnswerMoves DEF InsertChunk
<1>4. chunkRow' \in [Uploads -> SUBSET Chunks]
  BY <1>1, <1>2 DEF TypeOK, InsertChunk
<1>5. TypeOK'
  BY <1>1, <1>3, <1>4 DEF InsertChunk, TypeOK, CallRecords
<1>6. QED
  BY <1>2, <1>5, EndKeeps DEF InsertChunk, Quiet, SessionsKept

\* Abort removes the chunks.
LEMMA AbortChunksKeeps ==
  ASSUME UInv, NEW r \in Calls, AbortChunks(r)
  PROVE  UInv'
<1>1. call \in [Calls -> CallRecords] /\ TypeOK /\ Fits(call[r])
  BY TypeOfCalls DEF UInv, CallsFit
<1>2. call[r].upload \in Uploads
  BY <1>1 DEF Fits, AbortChunks
<1>3. call' \in [Calls -> CallRecords]
  BY <1>1, <1>2, AnswerMoves DEF AbortChunks
<1>4. chunk' \in [Uploads -> [Chunks -> Contents]]
  BY <1>1, <1>2, WithoutChunksTyped DEF AbortChunks
<1>5. TypeOK'
  BY <1>1, <1>3, <1>4 DEF AbortChunks, TypeOK, CallRecords
<1>6. QED
  BY <1>2, <1>5, EndKeeps DEF AbortChunks, Quiet, SessionsKept

\* A call stops.
LEMMA CallStopsKeeps ==
  ASSUME UInv, NEW r \in Calls, CallStops(r)
  PROVE  UInv'
<1>1. call \in [Calls -> CallRecords] /\ TypeOK /\ Fits(call[r])
  BY TypeOfCalls DEF UInv, CallsFit
<1>2. call' \in [Calls -> CallRecords]
  BY <1>1, AnswerMoves DEF CallStops
<1>3. TypeOK'
  BY <1>1, <1>2, TypeOfStep DEF CallStops
<1>4. QED
  BY <1>3, EndKeeps DEF CallStops, Quiet, SessionsKept

\* A call of Complete that starts to read, or has read a chunk.
LEMMA ReadingKeeps ==
  ASSUME UInv, NEW r \in Calls, call[r].pc \in {"working", "reading"}, call[r].op = "complete",
         NEW c \in CallRecords, call' = [call EXCEPT ![r] = c],
         c.pc = "reading", c.op = call[r].op, c.upload = call[r].upload, c.key = call[r].key,
         c.content \in {"good", "bad"}, c.answer = call[r].answer,
         UNCHANGED <<session, chunkRow, chunk, objects, files, idem>>
  PROVE  UInv'
<1>1. call \in [Calls -> CallRecords] /\ TypeOK /\ Fits(call[r])
  BY TypeOfCalls DEF UInv, CallsFit
<1>2. /\ call' \in [Calls -> CallRecords]
      /\ \A q \in Calls : q # r => call'[q] = call[q]
      /\ call'[r] = c
  BY <1>1, CallMoves
<1>3. TypeOK'
  BY <1>1, <1>2, TypeOfStep
<1>4. Fits(c)
  BY <1>1 DEF Fits
<1>5. call'[r].upload # None => session'[call'[r].upload].state # "none"
  BY <1>2 DEF UInv, Opened
<1>6. GoesOn(r)
  BY <1>2 DEF GoesOn, Past, HasIndexed
<1>7. SessionsKept
  BY DEF SessionsKept
<1>8. QED
  BY <1>2, <1>3, <1>4, <1>5, <1>6, <1>7, QuietStep

\* Complete looks for missing chunks.
LEMMA FindMissingKeeps ==
  ASSUME UInv, NEW r \in Calls, FindMissing(r)
  PROVE  UInv'
<1>1. call \in [Calls -> CallRecords] /\ TypeOK /\ Fits(call[r])
  BY TypeOfCalls DEF UInv, CallsFit
<1> DEFINE c == [[call[r] EXCEPT !.pc = "reading"] EXCEPT !.content = "good"]
<1>2. CASE call' = [call EXCEPT ![r].pc = "reading", ![r].content = "good"]
  <2>1. /\ c \in CallRecords /\ c.pc = "reading" /\ c.op = call[r].op /\ c.upload = call[r].upload
        /\ c.key = call[r].key /\ c.content = "good" /\ c.answer = call[r].answer
    BY <1>1 DEF CallRecords, Contents
  <2>2. call' = [call EXCEPT ![r] = c]
    BY <1>2
  <2> HIDE DEF c
  <2>3. QED
    BY <2>1, <2>2, ReadingKeeps DEF FindMissing
<1>3. CASE Answer(r, "error", None)
  <2>1. call' \in [Calls -> CallRecords]
    BY <1>1, <1>3, AnswerMoves
  <2>2. TypeOK'
    BY <1>1, <2>1, TypeOfStep DEF FindMissing
  <2>3. QED
    BY <1>3, <2>2, EndKeeps DEF FindMissing, Quiet, SessionsKept
<1>4. QED
  BY <1>2, <1>3 DEF FindMissing

\* Complete reads a chunk.
LEMMA ReadChunkKeeps ==
  ASSUME UInv, NEW r \in Calls, ReadChunk(r)
  PROVE  UInv'
<1>1. call \in [Calls -> CallRecords] /\ TypeOK /\ Fits(call[r])
  BY TypeOfCalls DEF UInv, CallsFit
<1> DEFINE x == IF chunk[call[r].upload][call[r].index] = "bad" THEN "bad" ELSE call[r].content
           c == [[call[r] EXCEPT !.index = @ + 1] EXCEPT !.content = x]
<1>2. call[r].op = "complete" /\ call[r].content \in {"good", "bad"}
  BY <1>1 DEF Fits, ReadChunk
<1>3. call[r].index + 1 \in 0..TotalChunks
  BY <1>1, UploadsAssumption DEF ReadChunk, CallRecords
<1>4. x \in {"good", "bad"}
  BY <1>2
<1>5. call' = [call EXCEPT ![r] = c]
  BY DEF ReadChunk
<1> HIDE DEF x
<1>6. /\ c \in CallRecords /\ c.pc = call[r].pc /\ c.op = call[r].op /\ c.upload = call[r].upload
      /\ c.key = call[r].key /\ c.content = x /\ c.answer = call[r].answer
  BY <1>1, <1>3, <1>4 DEF CallRecords, Contents
<1>7. call[r].pc = "reading" /\ UNCHANGED <<session, chunkRow, chunk, objects, files, idem>>
  BY DEF ReadChunk
<1> HIDE DEF c
<1>8. QED
  BY <1>2, <1>4, <1>5, <1>6, <1>7, ReadingKeeps

\* The backend has the object.
LEMMA StoreObjectKeeps ==
  ASSUME UInv, NEW r \in Calls, StoreObject(r)
  PROVE  UInv'
<1>1. call \in [Calls -> CallRecords] /\ TypeOK /\ Fits(call[r])
  BY TypeOfCalls DEF UInv, CallsFit
<1>2. call[r].upload \in Uploads /\ call[r].content \in {"good", "bad"}
  BY <1>1 DEF Fits, StoreObject
<1>3. ObjectKey(call[r].upload, r) \in ObjectKeys
  BY <1>2, ObjectKeyTyped
<1>4. objects' \subseteq [at : ObjectKeys, content : {"good", "bad"}]
  BY <1>1, <1>2, <1>3 DEF TypeOK, StoreObject, Stored
<1>5. call' \in [Calls -> CallRecords]
  BY <1>1, GotoMoves DEF StoreObject
<1>6. TypeOK'
  BY <1>1, <1>4, <1>5 DEF StoreObject, TypeOK, CallRecords
<1>7. QED
  BY <1>6, GotoKeeps DEF StoreObject, Quiet, SessionsKept

\* The backend has the object and answers with an error.
LEMMA StoreUnansweredKeeps ==
  ASSUME UInv, NEW r \in Calls, StoreUnanswered(r)
  PROVE  UInv'
<1>1. call \in [Calls -> CallRecords] /\ TypeOK /\ Fits(call[r])
  BY TypeOfCalls DEF UInv, CallsFit
<1>2. call[r].upload \in Uploads /\ call[r].content \in {"good", "bad"}
  BY <1>1 DEF Fits, StoreUnanswered
<1>3. ObjectKey(call[r].upload, r) \in ObjectKeys
  BY <1>2, ObjectKeyTyped
<1>4. objects' \subseteq [at : ObjectKeys, content : {"good", "bad"}]
  BY <1>1, <1>2, <1>3 DEF TypeOK, StoreUnanswered, Stored
<1>5. call' \in [Calls -> CallRecords]
  BY <1>1, AnswerMoves DEF StoreUnanswered
<1>6. TypeOK'
  BY <1>1, <1>4, <1>5 DEF StoreUnanswered, TypeOK, CallRecords
<1>7. QED
  BY <1>6, EndKeeps DEF StoreUnanswered, Quiet, SessionsKept

\* Complete rejects the object.
LEMMA RejectObjectKeeps ==
  ASSUME UInv, NEW r \in Calls, RejectObject(r)
  PROVE  UInv'
<1>1. call \in [Calls -> CallRecords] /\ TypeOK /\ Fits(call[r])
  BY TypeOfCalls DEF UInv, CallsFit
<1>2. objects' \subseteq [at : ObjectKeys, content : {"good", "bad"}]
  BY <1>1 DEF TypeOK, RejectObject, Removed
<1>3. /\ call' \in [Calls -> CallRecords]
      /\ \A q \in Calls : q # r => call'[q] = call[q]
      /\ call'[r].pc = "done" /\ call'[r].op = call[r].op /\ call'[r].upload = call[r].upload
      /\ call'[r].key = call[r].key /\ call'[r].index = call[r].index
  BY <1>1, RejectMoves
<1>4. TypeOK'
  BY <1>1, <1>2, <1>3 DEF RejectObject, TypeOK, CallRecords
<1>5. Fits(call'[r])
  BY <1>1, <1>3 DEF Fits, RejectObject
<1>6. call[r].upload # None => session[call[r].upload].state # "none"
  BY DEF UInv, Opened
<1>7. GoesOn(r)
  BY <1>1, <1>3 DEF GoesOn, Past, HasIndexed, Fits, RejectObject
<1>8. QED
  BY <1>3, <1>4, <1>5, <1>6, <1>7, QuietStep DEF RejectObject, SessionsKept

\* Complete reads its row back.
LEMMA ReadBackKeeps ==
  ASSUME UInv, NEW r \in Calls, ReadBack(r)
  PROVE  UInv'
<1>1. call \in [Calls -> CallRecords] /\ TypeOK
  BY TypeOfCalls DEF UInv
<1>2. call' \in [Calls -> CallRecords]
  BY <1>1, GotoMoves DEF ReadBack
<1>3. TypeOK'
  BY <1>1, <1>2, TypeOfStep DEF ReadBack
<1>4. QED
  BY <1>3, GotoKeeps DEF ReadBack, Quiet, SessionsKept

\* Complete updates the session.
LEMMA MarkCompletedKeeps ==
  ASSUME UInv, NEW r \in Calls, MarkCompleted(r)
  PROVE  UInv'
<1>1. call \in [Calls -> CallRecords] /\ TypeOK /\ Fits(call[r])
  BY TypeOfCalls DEF UInv, CallsFit
<1> DEFINE u == call[r].upload
<1>2. u \in Uploads
  BY <1>1 DEF Fits, MarkCompleted
<1>3. session[u].state # "none"
  BY <1>2, UploadsAssumption DEF UInv, Opened
<1> DEFINE s == [state |-> "completed", profile |-> session[u].profile, file |-> r]
<1>4. session' = [session EXCEPT ![u] = s]
  BY DEF MarkCompleted
<1> HIDE DEF u
<1>5. /\ session' \in [Uploads -> [state : {"none", "uploading", "completed", "aborted"},
                                   profile : Profiles \cup {None}, file : Calls \cup {None}]]
      /\ session'[u].state = "completed" /\ session'[u].file = r /\ session'[u].profile = session[u].profile
      /\ \A v \in Uploads : v # u => session'[v] = session[v]
  BY <1>1, <1>2, <1>4 DEF TypeOK
<1>6. call' \in [Calls -> CallRecords] /\ r # None
  BY <1>1, GotoMoves, UploadsAssumption DEF MarkCompleted
<1>7. UNCHANGED <<chunkRow, chunk, objects, files, idem>>
  BY DEF MarkCompleted
<1>8. TypeOK'
  BY <1>1, <1>5, <1>6, <1>7 DEF TypeOK, CallRecords
<1>9. SessionsKept
  BY <1>2, <1>5 DEF SessionsKept
<1>10. QED
  BY <1>7, <1>8, <1>9, GotoKeeps DEF MarkCompleted, Quiet

\* Complete removes the chunks.
LEMMA RemoveChunksKeeps ==
  ASSUME UInv, NEW r \in Calls, RemoveChunks(r)
  PROVE  UInv'
<1>1. call \in [Calls -> CallRecords] /\ TypeOK /\ Fits(call[r])
  BY TypeOfCalls DEF UInv, CallsFit
<1>2. call[r].upload \in Uploads
  BY <1>1 DEF Fits, RemoveChunks
<1>3. call' \in [Calls -> CallRecords]
  BY <1>1, GotoMoves DEF RemoveChunks
<1>4. chunk' \in [Uploads -> [Chunks -> Contents]]
  BY <1>1, <1>2, WithoutChunksTyped DEF RemoveChunks
<1>5. TypeOK'
  BY <1>1, <1>3, <1>4 DEF RemoveChunks, TypeOK, CallRecords
<1>6. QED
  BY <1>5, GotoKeeps DEF RemoveChunks, Quiet, SessionsKept


----------------------------------------------------------------------------
(* The steps that touch keys and files.                                    *)

\* Reserve gives a key to one call, or refuses.
LEMMA ReserveKeeps ==
  ASSUME UInv, NEW r \in Calls, Reserve(r)
  PROVE  UInv'
<1> USE DEF UInv
<1> DEFINE o == call[r].op
           k == call[r].key
           held == [state |-> "reserved", resource |-> None]
<1>1. call \in [Calls -> CallRecords] /\ TypeOK /\ Fits(call[r])
  BY TypeOfCalls DEF CallsFit
<1>2. call[r].pc = "reserving" /\ o \in {"init", "complete"} /\ k \in Keys
  BY <1>1 DEF Fits, Reserve
<1>3. CASE Answer(r, "conflict", None) /\ UNCHANGED idem
  <2>1. call' \in [Calls -> CallRecords]
    BY <1>1, <1>3, AnswerMoves
  <2>2. TypeOK'
    BY <1>1, <1>3, <2>1, TypeOfStep DEF Reserve
  <2>3. QED
    BY <1>2, <1>3, <2>2, EndKeeps DEF Reserve, Quiet, SessionsKept
<1>4. CASE idem[o][k].state = "absent" /\ idem' = [idem EXCEPT ![o][k] = held] /\ Goto(r, "working")
  <2> DEFINE I == [state : {"absent", "reserved", "completed"}, resource : Uploads \cup Calls \cup {None}]
  <2>1. idem \in [{"init", "complete"} -> [Keys -> I]] /\ held \in I
    BY <1>1 DEF TypeOK
  <2> HIDE DEF I, held
  <2>2. /\ idem' \in [{"init", "complete"} -> [Keys -> I]]
        /\ idem'[o][k] = held
        /\ \A p \in {"init", "complete"}, j \in Keys : p # o \/ j # k => idem'[p][j] = idem[p][j]
        /\ \A p \in {"init", "complete"} : p # o => idem'[p] = idem[p]
    BY <1>2, <1>4, <2>1
  <2>3. /\ call' \in [Calls -> CallRecords]
        /\ \A q \in Calls : q # r => call'[q] = call[q]
        /\ call'[r].pc = "working" /\ call'[r].op = o /\ call'[r].key = k /\ call'[r].upload = call[r].upload
        /\ call'[r].answer = call[r].answer
    BY <1>1, <1>4, GotoMoves
  <2>4. TypeOK'
    BY <1>1, <2>2, <2>3 DEF Reserve, TypeOK, CallRecords, I
  <2>5. CASE o = "init"
    BY <1>2, <1>4, <2>2, <2>4, <2>5, GotoKeeps DEF Reserve, Quiet, SessionsKept
  <2>6. CASE o = "complete"
    <3>1. files' = files /\ session' = session
      BY DEF Reserve
    <3>2. CallsFit'
      <4>1. Fits(call'[r])
        BY <1>1, <1>2, <2>3, <2>6 DEF Fits, Operations
      <4>2. QED
        BY <2>3, <4>1 DEF CallsFit
    <3>3. Opened'
      BY <2>3, <3>1 DEF Opened
    <3>4. \A f \in files : f.id \in Calls /\ f.id # r /\ call'[f.id] = call[f.id]
      BY <1>1, <1>2, <2>3 DEF FilesFit, TypeOK
    <3>5. FilesFit'
      BY <2>3, <3>1, <3>4 DEF FilesFit, ObjectKey
    <3>6. \A q \in Calls, j \in Keys : Holds(q, j)' <=> IF q = r THEN j = k ELSE Holds(q, j)
      BY <1>2, <2>3, <2>6 DEF Holds, Past
    <3>7. \A j \in Keys : FileWith(j)' <=> FileWith(j)
      BY <3>1, <3>4 DEF FileWith
    <3>8. ~ FileWith(k) /\ \A q \in Calls : ~ Holds(q, k)
      BY <1>2, <1>4, <2>6 DEF KeysHeld
    <3>9. held.state = "reserved"
      BY DEF held
    <3>10. KeysHeld'
      <4> SUFFICES ASSUME NEW j \in Keys
                   PROVE  /\ idem'["complete"][j].state = "absent" => ~ FileWith(j)' /\ \A q \in Calls : ~ Holds(q, j)'
                          /\ \A p, q \in Calls : Holds(p, j)' /\ Holds(q, j)' => p = q
                          /\ \A q \in Calls, f \in files' : Holds(q, j)' /\ call'[f.id].key = j => f.id = q
                          /\ idem'["complete"][j].state = "completed" =>
                               \E f \in files' : f.id = idem'["complete"][j].resource /\ call'[f.id].key = j
        BY DEF KeysHeld
      <4>1. CASE j = k
        <5>1. idem'["complete"][j].state = "reserved"
          BY <2>2, <2>6, <3>9, <4>1
        <5>2. \A p, q \in Calls : Holds(p, j)' /\ Holds(q, j)' => p = q
          BY <3>6, <3>8, <4>1
        <5>3. \A f \in files' : call'[f.id].key # j
          BY <3>1, <3>4, <3>8, <4>1 DEF FileWith
        <5>4. QED
          BY <5>1, <5>2, <5>3
      <4>2. CASE j # k
        <5>1. idem'["complete"][j] = idem["complete"][j]
          BY <2>2, <4>2
        <5>2. \A q \in Calls : Holds(q, j)' => Holds(q, j)
          BY <3>6, <4>2
        <5>3. QED
          BY <3>1, <3>4, <3>7, <5>1, <5>2 DEF KeysHeld
      <4>3. QED
        BY <4>1, <4>2
    <3>11. OneFilePerKey'
      BY <3>1, <3>4 DEF OneFilePerKey
    <3>12. QED
      BY <2>4, <3>2, <3>3, <3>5, <3>10, <3>11
  <2>7. QED
    BY <1>2, <2>5, <2>6
<1>5. QED
  BY <1>3, <1>4 DEF Reserve, KeyRecord


\* Init and Complete record their answer with their key.
LEMMA RecordAnswerKeeps ==
  ASSUME UInv, NEW r \in Calls, RecordAnswer(r)
  PROVE  UInv'
<1> USE DEF UInv
<1> DEFINE o == call[r].op
           k == call[r].key
           x == IF o = "init" THEN call[r].upload ELSE r
           done == [state |-> "completed", resource |-> x]
<1>1. call \in [Calls -> CallRecords] /\ TypeOK /\ Fits(call[r])
  BY TypeOfCalls DEF CallsFit
<1>2. /\ call[r].pc = "recording" /\ o \in {"init", "complete"} /\ k \in Keys \cup {None}
      /\ x \in Uploads \cup Calls \cup {None} /\ Answer(r, "ok", x)
      /\ UNCHANGED <<session, chunkRow, chunk, objects, files>>
      /\ \/ UNCHANGED idem
         \/ k # None /\ idem' = [idem EXCEPT ![o][k] = done]
  BY <1>1 DEF Fits, RecordAnswer, CallRecords
<1> HIDE DEF x
<1>3. /\ call' \in [Calls -> CallRecords]
      /\ \A q \in Calls : q # r => call'[q] = call[q]
      /\ call'[r].pc = "done" /\ call'[r].op = o /\ call'[r].key = k /\ call'[r].upload = call[r].upload
      /\ call'[r].index = call[r].index
  BY <1>1, <1>2, AnswerMoves
<1>4. CASE UNCHANGED idem
  <2>1. TypeOK'
    BY <1>1, <1>2, <1>3, <1>4, TypeOfStep
  <2>2. QED
    BY <1>2, <1>4, <2>1, EndKeeps DEF Quiet, SessionsKept
<1>5. CASE k # None /\ idem' = [idem EXCEPT ![o][k] = done]
  <2> DEFINE I == [state : {"absent", "reserved", "completed"}, resource : Uploads \cup Calls \cup {None}]
  <2>1. idem \in [{"init", "complete"} -> [Keys -> I]] /\ done \in I /\ done.state = "completed" /\ done.resource = x
    BY <1>1, <1>2 DEF TypeOK
  <2> HIDE DEF I, done
  <2>2. /\ idem' \in [{"init", "complete"} -> [Keys -> I]]
        /\ idem'[o][k] = done
        /\ \A p \in {"init", "complete"}, j \in Keys : p # o \/ j # k => idem'[p][j] = idem[p][j]
        /\ \A p \in {"init", "complete"} : p # o => idem'[p] = idem[p]
    BY <1>2, <1>5, <2>1
  <2>3. TypeOK'
    BY <1>1, <1>2, <1>3, <2>2 DEF TypeOK, CallRecords, I
  <2>4. CASE o = "init"
    BY <1>2, <2>2, <2>3, <2>4, EndKeeps DEF Quiet, SessionsKept
  <2>5. CASE o = "complete"
    <3>1. files' = files /\ session' = session
      BY <1>2
    <3>2. CallsFit'
      <4>1. Fits(call'[r])
        BY <1>1, <1>2, <1>3, <2>5 DEF Fits, Operations
      <4>2. QED
        BY <1>3, <4>1 DEF CallsFit
    <3>3. Opened'
      BY <1>3, <3>1 DEF Opened
    <3>4. \A f \in files : /\ f.id \in Calls /\ call'[f.id].op = call[f.id].op /\ call'[f.id].key = call[f.id].key
                           /\ call'[f.id].upload = call[f.id].upload
                           /\ call'[f.id].pc \in {call[f.id].pc, "done"}
      BY <1>1, <1>3 DEF TypeOK
    <3>5. FilesFit'
      BY <1>3, <3>1, <3>4 DEF FilesFit, ObjectKey
    <3>6. \A q \in Calls, j \in Keys : Holds(q, j)' => Holds(q, j)
      BY <1>3 DEF Holds, Past
    <3>7. \A j \in Keys : FileWith(j)' <=> FileWith(j)
      BY <3>1, <3>4 DEF FileWith
    <3>8. x = r /\ \E f \in files : f.id = r
      BY <1>2, <2>5 DEF FilesFit, x
    <3>9. KeysHeld'
      <4> SUFFICES ASSUME NEW j \in Keys
                   PROVE  /\ idem'["complete"][j].state = "absent" => ~ FileWith(j)' /\ \A q \in Calls : ~ Holds(q, j)'
                          /\ \A p, q \in Calls : Holds(p, j)' /\ Holds(q, j)' => p = q
                          /\ \A q \in Calls, f \in files' : Holds(q, j)' /\ call'[f.id].key = j => f.id = q
                          /\ idem'["complete"][j].state = "completed" =>
                               \E f \in files' : f.id = idem'["complete"][j].resource /\ call'[f.id].key = j
        BY DEF KeysHeld
      <4>1. CASE j = k
        <5>1. idem'["complete"][j].state = "completed" /\ idem'["complete"][j].resource = r
          BY <2>1, <2>2, <2>5, <3>8, <4>1
        <5>2. QED
          BY <1>3, <3>1, <3>4, <3>6, <3>8, <4>1, <5>1 DEF KeysHeld
      <4>2. CASE j # k
        <5>1. idem'["complete"][j] = idem["complete"][j]
          BY <2>2, <4>2
        <5>2. QED
          BY <3>1, <3>4, <3>6, <3>7, <5>1 DEF KeysHeld
      <4>3. QED
        BY <4>1, <4>2
    <3>10. OneFilePerKey'
      BY <3>1, <3>4 DEF OneFilePerKey
    <3>11. QED
      BY <2>3, <3>2, <3>3, <3>5, <3>9, <3>10
  <2>6. QED
    BY <1>2, <2>4, <2>5
<1>6. QED
  BY <1>2, <1>4, <1>5

\* CreateIndex makes the file of the one call that holds its key.
LEMMA CreateIndexKeeps ==
  ASSUME UInv, NEW r \in Calls, CreateIndex(r)
  PROVE  UInv'
<1> USE DEF UInv
<1> DEFINE u == call[r].upload
           new == [id |-> r, upload |-> u, at |-> ObjectKey(u, r)]
<1>1. call \in [Calls -> CallRecords] /\ TypeOK /\ Fits(call[r])
  BY TypeOfCalls DEF CallsFit
<1>2. call[r].pc = "stored" /\ call[r].op = "complete" /\ u \in Uploads
  BY <1>1 DEF Fits, CreateIndex
<1>3. /\ call' \in [Calls -> CallRecords]
      /\ \A q \in Calls : q # r => call'[q] = call[q]
      /\ call'[r].pc = "inserted" /\ call'[r].op = call[r].op /\ call'[r].key = call[r].key /\ call'[r].upload = u
      /\ call'[r].index = call[r].index /\ call'[r].answer = call[r].answer
  BY <1>1, GotoMoves DEF CreateIndex
<1>4. ObjectKey(u, r) \in ObjectKeys
  BY <1>2, ObjectKeyTyped
<1>5. new \in [id : Calls, upload : Uploads, at : ObjectKeys] /\ new.id = r /\ new.upload = u /\ new.at = ObjectKey(u, r)
  BY <1>2, <1>4
<1>6. files' = files \cup {new} /\ UNCHANGED <<session, chunkRow, chunk, objects, idem>>
  BY DEF CreateIndex
<1> HIDE DEF new, u
<1>7. TypeOK'
  BY <1>1, <1>3, <1>5, <1>6 DEF TypeOK, CallRecords
<1>8. CallsFit'
  <2>1. Fits(call'[r])
    BY <1>1, <1>2, <1>3 DEF Fits, Operations, u
  <2>2. QED
    BY <1>3, <2>1 DEF CallsFit
<1>9. Opened'
  BY <1>3, <1>6 DEF Opened, u
<1>10. \A f \in files : f.id \in Calls /\ f.id # r /\ call'[f.id] = call[f.id]
  BY <1>1, <1>2, <1>3 DEF FilesFit, TypeOK
<1>11. FilesFit'
  <2>1. \A v \in Uploads, q \in Calls : ObjectKey(v, q)' = ObjectKey(v, q)
    BY <1>6 DEF ObjectKey
  <2>2. \A f \in files' : /\ call'[f.id].op = "complete" /\ call'[f.id].upload = f.upload
                         /\ call'[f.id].pc \in {"inserted", "indexed", "completed", "recording", "done"}
                         /\ f.at = ObjectKey(f.upload, f.id)'
    <3>1. \A f \in files : f.upload \in Uploads
      BY <1>1 DEF TypeOK
    <3>2. QED
      BY <1>2, <1>3, <1>5, <1>6, <1>10, <2>1, <3>1 DEF FilesFit
  <2>3. \A f, g \in files' : f.id = g.id => f = g
    BY <1>5, <1>6, <1>10 DEF FilesFit
  <2>4. \A q \in Calls : call'[q].op = "complete" /\ call'[q].pc \in {"inserted", "indexed", "completed", "recording"} =>
          \E f \in files' : f.id = q
    BY <1>3, <1>5, <1>6 DEF FilesFit
  <2>5. QED
    BY <2>2, <2>3, <2>4 DEF FilesFit
<1>12. \A q \in Calls, j \in Keys : Holds(q, j)' <=> Holds(q, j)
  BY <1>2, <1>3 DEF Holds, Past
<1>13. \A j \in Keys : j = call[r].key => Holds(r, j)
  BY <1>2 DEF Holds, Past
<1>14. \A f \in files' : f \in files \/ f.id = r
  BY <1>5, <1>6
<1>15. KeysHeld'
  <2> SUFFICES ASSUME NEW j \in Keys
               PROVE  /\ idem'["complete"][j].state = "absent" => ~ FileWith(j)' /\ \A q \in Calls : ~ Holds(q, j)'
                      /\ \A p, q \in Calls : Holds(p, j)' /\ Holds(q, j)' => p = q
                      /\ \A q \in Calls, f \in files' : Holds(q, j)' /\ call'[f.id].key = j => f.id = q
                      /\ idem'["complete"][j].state = "completed" =>
                           \E f \in files' : f.id = idem'["complete"][j].resource /\ call'[f.id].key = j
    BY DEF KeysHeld
  <2>1. idem'["complete"][j].state = "absent" => ~ FileWith(j)' /\ \A q \in Calls : ~ Holds(q, j)'
    BY <1>3, <1>6, <1>10, <1>12, <1>13, <1>14 DEF KeysHeld, FileWith
  <2>2. \A p, q \in Calls : Holds(p, j)' /\ Holds(q, j)' => p = q
    BY <1>12 DEF KeysHeld
  <2>3. \A q \in Calls, f \in files' : Holds(q, j)' /\ call'[f.id].key = j => f.id = q
    BY <1>3, <1>10, <1>12, <1>13, <1>14 DEF KeysHeld
  <2>4. idem'["complete"][j].state = "completed" =>
          \E f \in files' : f.id = idem'["complete"][j].resource /\ call'[f.id].key = j
    BY <1>6, <1>10 DEF KeysHeld
  <2>5. QED
    BY <2>1, <2>2, <2>3, <2>4
<1>16. OneFilePerKey'
  <2>1. \A f \in files : call[f.id].key # None => call[f.id].key # call[r].key
    <3> SUFFICES ASSUME NEW f \in files, call[f.id].key # None, call[f.id].key = call[r].key
                 PROVE  FALSE
      OBVIOUS
    <3>1. call[r].key \in Keys
      BY <1>1 DEF CallRecords
    <3>2. Holds(r, call[r].key)
      BY <1>13, <3>1
    <3>3. QED
      BY <1>10, <3>1, <3>2 DEF KeysHeld
  <2>2. QED
    BY <1>3, <1>5, <1>6, <1>10, <2>1 DEF OneFilePerKey
<1>17. QED
  BY <1>7, <1>8, <1>9, <1>11, <1>15, <1>16

----------------------------------------------------------------------------
(* The invariant.                                                          *)

\* Nothing has been asked yet.
LEMMA InitHolds == Init => UInv
<1> SUFFICES ASSUME Init PROVE UInv
  OBVIOUS
<1>1. IdleCall \in CallRecords /\ IdleCall.pc = "idle" /\ IdleCall.op = None /\ IdleCall.answer = NoAnswer /\ IdleCall.upload = None
  <2>1. 0 \in 0..TotalChunks
    BY UploadsAssumption
  <2>2. QED
    BY <2>1 DEF IdleCall, CallRecords, Contents, NoAnswer, Answers
<1>2. call \in [Calls -> CallRecords] /\ \A r \in Calls : call[r] = IdleCall
  BY <1>1 DEF Init
<1>3. TypeOK
  <2>1. session \in [Uploads -> [state : {"none", "uploading", "completed", "aborted"},
                                profile : Profiles \cup {None}, file : Calls \cup {None}]]
        /\ \A u \in Uploads : session[u].state = "none"
    BY DEF Init
  <2>2. chunkRow \in [Uploads -> SUBSET Chunks] /\ chunk \in [Uploads -> [Chunks -> Contents]]
    BY DEF Init, Contents
  <2>3. idem \in [{"init", "complete"} ->
                 [Keys -> [state : {"absent", "reserved", "completed"}, resource : Uploads \cup Calls \cup {None}]]]
    BY DEF Init
  <2>4. QED
    BY <1>2, <2>1, <2>2, <2>3 DEF Init, TypeOK, CallRecords
<1>4. CallsFit
  BY <1>1, <1>2, UploadsAssumption DEF CallsFit, Fits
<1>5. Opened /\ FilesFit /\ OneFilePerKey
  BY <1>1, <1>2 DEF Init, Opened, FilesFit, OneFilePerKey
<1>6. KeysHeld
  BY <1>1, <1>2 DEF Init, KeysHeld, FileWith, Holds, Past
<1>7. QED
  BY <1>3, <1>4, <1>5, <1>6 DEF UInv

\* Every step keeps the invariant.
LEMMA NextKeeps == ASSUME UInv, Next PROVE UInv'
BY StartInitKeeps, StartCompleteKeeps, StartAbortKeeps, StartChunkKeeps, ReserveKeeps, RecordAnswerKeeps,
   InsertSessionKeeps, WriteChunkKeeps, InsertChunkKeeps, AbortChunksKeeps, FindMissingKeeps, ReadChunkKeeps,
   StoreObjectKeeps, StoreUnansweredKeeps, RejectObjectKeeps, CreateIndexKeeps, ReadBackKeeps,
   MarkCompletedKeeps, RemoveChunksKeeps, CallStopsKeeps DEF Next

\* A step that changes nothing keeps it.
LEMMA StutterKeeps == ASSUME UInv, UNCHANGED vars PROVE UInv'
BY DEF vars, UInv, TypeOK, CallsFit, Opened, FilesFit, KeysHeld, FileWith, Holds, OneFilePerKey, ObjectKey

\* The inductive invariant: types, program counters that fit their calls, files
\* that belong to calls, and keys that one call holds.
THEOREM Invariance == Spec => []UInv
<1>1. UInv /\ [Next]_vars => UInv'
  BY NextKeeps, StutterKeeps
<1>2. QED
  BY InitHolds, <1>1, PTL DEF Spec

\* Sessions, rows, records and calls of uploads/service keep their shape, for any
\* number of uploads, chunks and calls.
THEOREM Types == Spec => []TypeOK
BY Invariance, PTL DEF UInv

\* For any number of repetitions of Complete with one idempotency key, and any
\* stops between their steps, there is at most one file.
THEOREM KeysMakeOneFile == Spec => []OneFilePerKey
BY Invariance, PTL DEF UInv


----------------------------------------------------------------------------
(* Answers, objects and chunks.                                            *)

\* What one call can do.
Step(r) ==
  \/ StartInit(r)
  \/ \E u \in Uploads : StartComplete(r, u) \/ StartAbort(r, u)
  \/ \E u \in Uploads, i \in Chunks, c \in {"good", "bad"} : StartChunk(r, u, i, c)
  \/ Reserve(r) \/ RecordAnswer(r) \/ InsertSession(r)
  \/ WriteChunk(r) \/ InsertChunk(r) \/ AbortChunks(r)
  \/ FindMissing(r) \/ ReadChunk(r)
  \/ StoreObject(r) \/ StoreUnanswered(r) \/ RejectObject(r)
  \/ CreateIndex(r) \/ ReadBack(r) \/ MarkCompleted(r) \/ RemoveChunks(r)
  \/ CallStops(r)

\* What a step changes of its call, and does not change of the others.
Moved(r) ==
  /\ \A q \in Calls : q # r => call'[q] = call[q]
  /\ call[r].pc # "idle" =>
       /\ call'[r].op = call[r].op
       /\ call[r].op # "init" => call'[r].upload = call[r].upload
       /\ call[r].op = "chunk" => call'[r].index = call[r].index
       /\ call[r].pc \in HasIndexed \cup {"done"} => call'[r].content \in {call[r].content, "absent"}

\* One call moves at a time.
LEMMA StepMoves == ASSUME UInv, NEW r \in Calls, Step(r) PROVE Moved(r)
<1>1. call \in [Calls -> CallRecords] /\ TypeOK /\ Fits(call[r]) /\ call[r] \in CallRecords
  BY TypeOfCalls DEF UInv, CallsFit
<1>2. ASSUME NEW c, call' = [call EXCEPT ![r] = c], call[r].pc = "idle" PROVE Moved(r)
  BY <1>1, <1>2 DEF Moved
<1>3. ASSUME NEW p \in {"working", "inserting", "stored", "inserted", "indexed", "completed", "recording"}, Goto(r, p) PROVE Moved(r)
  BY <1>1, <1>3, GotoMoves DEF Moved
<1>4. ASSUME NEW kind \in {"ok", "conflict", "error"}, NEW resource \in Uploads \cup Calls \cup {None},
             Answer(r, kind, resource)
      PROVE  Moved(r)
  BY <1>1, <1>4, AnswerMoves DEF Moved
<1>5. CASE StartInit(r)
  BY <1>2, <1>5 DEF StartInit, GetKey
<1>6. CASE \E u \in Uploads : StartComplete(r, u)
  BY <1>2, <1>6 DEF StartComplete, GetKey
<1>7. CASE \E u \in Uploads : StartAbort(r, u)
  BY <1>2, <1>7 DEF StartAbort
<1>8. CASE \E u \in Uploads, i \in Chunks, c \in {"good", "bad"} : StartChunk(r, u, i, c)
  BY <1>2, <1>8 DEF StartChunk
<1>9. CASE Reserve(r)
  BY <1>3, <1>4, <1>9 DEF Reserve
<1>10. CASE RecordAnswer(r)
  <2>1. (IF call[r].op = "init" THEN call[r].upload ELSE r) \in Uploads \cup Calls \cup {None}
    BY <1>1 DEF CallRecords
  <2>2. QED
    BY <1>4, <1>10, <2>1 DEF RecordAnswer
<1>11. CASE InsertSession(r)
  <2>1. PICK u \in Uploads : call' = [call EXCEPT ![r].pc = "recording", ![r].upload = u]
    BY <1>11 DEF InsertSession
  <2> DEFINE c == [[call[r] EXCEPT !.pc = "recording"] EXCEPT !.upload = u]
  <2>2. c.op = call[r].op /\ call[r].op = "init" /\ call[r].pc = "working"
    BY <1>1, <1>11 DEF CallRecords, InsertSession
  <2>3. call' = [call EXCEPT ![r] = c]
    BY <2>1
  <2> HIDE DEF c
  <2>4. QED
    BY <1>1, <2>2, <2>3 DEF Moved, HasIndexed
<1>12. CASE WriteChunk(r) \/ StoreObject(r) \/ CreateIndex(r) \/ ReadBack(r) \/ MarkCompleted(r) \/ RemoveChunks(r)
  BY <1>3, <1>12 DEF WriteChunk, StoreObject, CreateIndex, ReadBack, MarkCompleted, RemoveChunks
<1>13. CASE InsertChunk(r) \/ AbortChunks(r)
  <2>1. call[r].upload \in Uploads
    BY <1>1, <1>13 DEF Fits, InsertChunk, AbortChunks
  <2>2. QED
    BY <1>4, <1>13, <2>1 DEF InsertChunk, AbortChunks
<1>14. CASE StoreUnanswered(r) \/ RejectObject(r) \/ CallStops(r)
  <2>1. CASE RejectObject(r)
    BY <1>1, <2>1, RejectMoves DEF Moved
  <2>2. QED
    BY <1>4, <1>14, <2>1 DEF StoreUnanswered, CallStops
<1>15. CASE FindMissing(r)
  <2>0. call[r].pc = "working"
    BY <1>15 DEF FindMissing
  <2> DEFINE c == [[call[r] EXCEPT !.pc = "reading"] EXCEPT !.content = "good"]
  <2>1. c.op = call[r].op /\ c.upload = call[r].upload /\ c.index = call[r].index
    BY <1>1 DEF CallRecords
  <2>2. call' = [call EXCEPT ![r] = c] \/ Answer(r, "error", None)
    BY <1>15 DEF FindMissing
  <2> HIDE DEF c
  <2>3. QED
    BY <1>1, <1>4, <2>0, <2>1, <2>2 DEF Moved, HasIndexed
<1>16. CASE ReadChunk(r)
  <2> DEFINE x == IF chunk[call[r].upload][call[r].index] = "bad" THEN "bad" ELSE call[r].content
             c == [[call[r] EXCEPT !.index = @ + 1] EXCEPT !.content = x]
  <2>1. c.op = call[r].op /\ c.upload = call[r].upload /\ call[r].op = "complete" /\ call[r].pc = "reading"
    BY <1>1, <1>16 DEF CallRecords, Fits, ReadChunk
  <2>2. call' = [call EXCEPT ![r] = c]
    BY <1>16 DEF ReadChunk
  <2> HIDE DEF c
  <2>3. QED
    BY <1>1, <2>1, <2>2 DEF Moved, HasIndexed
<1>17. QED
  BY <1>5, <1>6, <1>7, <1>8, <1>9, <1>10, <1>11, <1>12, <1>13, <1>14, <1>15, <1>16 DEF Step

\* No step removes a file.
LEMMA FilesStay == ASSUME NEW r \in Calls, Step(r) PROVE files \subseteq files'
BY DEF Step, StartInit, StartComplete, StartAbort, StartChunk, Reserve, RecordAnswer, InsertSession, WriteChunk,
       InsertChunk, AbortChunks, FindMissing, ReadChunk, StoreObject, StoreUnanswered, RejectObject, CreateIndex, ReadBack,
       MarkCompleted, RemoveChunks, CallStops


\* Complete says "ok" when it records its file, or when its key names one.
LEMMA OkAnswers ==
  ASSUME UInv, CallsFit', NEW r \in Calls, Step(r), call'[r].op = "complete", call'[r].answer.kind = "ok"
  PROVE  RecordAnswer(r) \/ \E u \in Uploads : StartComplete(r, u)
<1>1. call \in [Calls -> CallRecords] /\ TypeOK /\ Fits(call[r]) /\ call[r] \in CallRecords
  BY TypeOfCalls DEF UInv, CallsFit
<1>2. call'[r].pc = "done"
  BY DEF CallsFit, Fits, NoAnswer
<1>3. ASSUME NEW p \in {"working", "inserting", "stored", "inserted", "indexed", "completed", "recording"}, Goto(r, p) PROVE FALSE
  BY <1>1, <1>2, <1>3, GotoMoves
<1>4. ASSUME NEW kind \in {"conflict", "error"}, Answer(r, kind, None) PROVE FALSE
  <2>1. call'[r].answer = [kind |-> kind, resource |-> None]
    BY <1>1, <1>4, AnswerMoves
  <2>2. call'[r].answer.kind = kind
    BY <2>1
  <2>3. QED
    BY <1>4, <2>2
<1>5. CASE StartInit(r)
  <2>1. PICK k \in InitKeys : GetKey(r, "init", None, k)
    BY <1>5 DEF StartInit
  <2>2. k \in Keys \cup {None}
    BY UploadsAssumption
  <2>3. PICK c \in CallRecords : call' = [call EXCEPT ![r] = c] /\ c.op = "init"
    BY <1>1, <2>1, <2>2, GetKeyMakes
  <2>4. QED
    BY <1>1, <2>3
<1>6. CASE \E u \in Uploads : StartAbort(r, u)
  <2>1. PICK u \in Uploads : call' = [call EXCEPT ![r] = Asked("abort", u, None, "aborting", NoAnswer)]
    BY <1>6 DEF StartAbort
  <2>2. Asked("abort", u, None, "aborting", NoAnswer).op = "abort"
    BY DEF Asked
  <2>3. QED
    BY <1>1, <2>1, <2>2
<1>7. CASE \E u \in Uploads, i \in Chunks, c \in {"good", "bad"} : StartChunk(r, u, i, c)
  <2>1. PICK u \in Uploads, i \in Chunks, x \in {"good", "bad"} : StartChunk(r, u, i, x)
    BY <1>7
  <2> DEFINE w == [Asked("chunk", u, None, "writing", NoAnswer) EXCEPT !.index = i, !.content = x]
             d == Asked("chunk", u, None, "done", [kind |-> "conflict", resource |-> None])
  <2>2. w.op = "chunk" /\ d.op = "chunk"
    BY DEF Asked
  <2>3. call' = [call EXCEPT ![r] = w] \/ call' = [call EXCEPT ![r] = d]
    BY <2>1 DEF StartChunk
  <2> HIDE DEF w, d
  <2>4. QED
    BY <1>1, <2>2, <2>3
<1>8. CASE Reserve(r)
  BY <1>3, <1>4, <1>8 DEF Reserve
<1>9. CASE InsertSession(r)
  <2>1. Moved(r) /\ call[r].op = "init" /\ call[r].pc = "working"
    BY <1>9, StepMoves DEF InsertSession
  <2>2. QED
    BY <2>1 DEF Moved
<1>10. CASE WriteChunk(r) \/ StoreObject(r) \/ CreateIndex(r) \/ ReadBack(r) \/ MarkCompleted(r) \/ RemoveChunks(r)
  BY <1>3, <1>10 DEF WriteChunk, StoreObject, CreateIndex, ReadBack, MarkCompleted, RemoveChunks
<1>11. CASE InsertChunk(r) \/ AbortChunks(r)
  <2>1. Moved(r) /\ call[r].op \in {"chunk", "abort"} /\ call[r].pc # "idle"
    BY <1>1, <1>11, StepMoves DEF Fits, InsertChunk, AbortChunks
  <2>2. QED
    BY <2>1 DEF Moved
<1>12. CASE StoreUnanswered(r) \/ RejectObject(r) \/ CallStops(r)
  <2>1. CASE RejectObject(r)
    BY <1>1, <2>1, RejectMoves
  <2>2. QED
    BY <1>4, <1>12, <2>1 DEF StoreUnanswered, CallStops
<1>13. CASE FindMissing(r)
  <2> DEFINE c == [[call[r] EXCEPT !.pc = "reading"] EXCEPT !.content = "good"]
  <2>1. c.pc = "reading"
    BY <1>1 DEF CallRecords
  <2>2. call' = [call EXCEPT ![r] = c] \/ Answer(r, "error", None)
    BY <1>13 DEF FindMissing
  <2> HIDE DEF c
  <2>3. QED
    BY <1>1, <1>2, <1>4, <2>1, <2>2
<1>14. CASE ReadChunk(r)
  <2> DEFINE x == IF chunk[call[r].upload][call[r].index] = "bad" THEN "bad" ELSE call[r].content
             c == [[call[r] EXCEPT !.index = @ + 1] EXCEPT !.content = x]
  <2>1. c.pc = "reading"
    BY <1>1, <1>14 DEF CallRecords, ReadChunk
  <2>2. call' = [call EXCEPT ![r] = c]
    BY <1>14 DEF ReadChunk
  <2> HIDE DEF c
  <2>3. QED
    BY <1>1, <1>2, <2>1, <2>2
<1>15. QED
  BY <1>5, <1>6, <1>7, <1>8, <1>9, <1>10, <1>11, <1>12, <1>13, <1>14 DEF Step

\* The answers of Complete stay true, and new ones are.
LEMMA AnswersKept ==
  ASSUME KeysTellUploads, UInv, UInv', AnswersOwnUpload, NEW r \in Calls, Step(r)
  PROVE  AnswersOwnUpload'
<1> SUFFICES ASSUME NEW q \in Calls, call'[q].op = "complete", call'[q].answer.kind = "ok"
             PROVE  \E f \in files' : f.id = call'[q].answer.resource /\ f.upload = call'[q].upload
  BY DEF AnswersOwnUpload
<1>1. call \in [Calls -> CallRecords] /\ TypeOK /\ Fits(call[r]) /\ call[r] \in CallRecords
  BY TypeOfCalls DEF UInv, CallsFit
<1>2. Moved(r) /\ files \subseteq files'
  BY StepMoves, FilesStay
<1>3. CASE q # r
  BY <1>2, <1>3 DEF Moved, AnswersOwnUpload
<1>4. CASE q = r /\ RecordAnswer(r)
  <2>1. call[r].op = "complete" /\ call[r].pc = "recording"
    BY <1>2, <1>4 DEF Moved, RecordAnswer
  <2>2. Answer(r, "ok", r)
    BY <1>4, <2>1 DEF RecordAnswer
  <2>3. call'[r].answer = [kind |-> "ok", resource |-> r] /\ call'[r].upload = call[r].upload
    BY <1>1, <2>2, AnswerMoves
  <2>4. PICK f \in files : f.id = r
    BY <2>1 DEF UInv, FilesFit
  <2>5. f.upload = call[r].upload
    BY <2>4 DEF UInv, FilesFit
  <2>6. QED
    BY <1>2, <1>4, <2>3, <2>4, <2>5
<1>5. CASE q = r /\ \E u \in Uploads : StartComplete(r, u)
  <2>0. PICK u \in Uploads : StartComplete(r, u)
    BY <1>5
  <2>1. PICK k \in CompleteKeys[u] : GetKey(r, "complete", u, k)
    BY <2>0 DEF StartComplete
  <2>2. k \in Keys \cup {None}
    BY UploadsAssumption
  <2>3. PICK c \in CallRecords :
          /\ call' = [call EXCEPT ![r] = c]
          /\ c.op = "complete" /\ c.upload = u /\ c.key = k
          /\ \/ c.pc = "working" /\ k = None /\ c.answer = NoAnswer
             \/ c.pc = "reserving" /\ k # None /\ c.answer = NoAnswer
             \/ c.pc = "done" /\ c.answer.kind = "conflict"
             \/ /\ c.pc = "done" /\ k # None /\ KeyRecord("complete", k).state = "completed"
                /\ c.answer.resource = KeyRecord("complete", k).resource
    BY <1>1, <2>1, <2>2, GetKeyMakes
  <2>4. call'[r] = c
    BY <1>1, <2>3
  <2>5. k \in Keys /\ idem["complete"][k].state = "completed" /\ c.answer.resource = idem["complete"][k].resource
    BY <1>5, <2>2, <2>3, <2>4 DEF NoAnswer, KeyRecord
  <2>6. PICK f \in files : f.id = idem["complete"][k].resource /\ call[f.id].key = k
    BY <2>5 DEF UInv, KeysHeld
  <2>7. f.id \in Calls /\ f.upload \in Uploads /\ call[f.id].op = "complete" /\ call[f.id].upload = f.upload
    BY <1>1 DEF UInv, FilesFit, TypeOK
  <2>8. k \in CompleteKeys[f.upload]
    BY <2>6, <2>7 DEF UInv, CallsFit, Fits
  <2>9. f.upload = u
    BY <2>1, <2>5, <2>7, <2>8, UploadsAssumption DEF KeysTellUploads
  <2>10. QED
    BY <1>2, <1>5, <2>3, <2>4, <2>5, <2>6, <2>9
<1>6. QED
  BY <1>3, <1>4, <1>5, OkAnswers DEF UInv

\* Where no key is used for two uploads, whatever Complete answers, after any
\* repetitions and stops, is a file of the upload it was called for.
THEOREM AnswersAreOwn == ASSUME KeysTellUploads PROVE Spec => []AnswersOwnUpload
<1>1. Init => AnswersOwnUpload
  BY DEF Init, AnswersOwnUpload, IdleCall, NoAnswer
<1>2. UInv /\ UInv' /\ AnswersOwnUpload /\ [Next]_vars => AnswersOwnUpload'
  <2>1. ASSUME UInv, UInv', AnswersOwnUpload, Next PROVE AnswersOwnUpload'
    <3>1. PICK r \in Calls : Step(r)
      BY <2>1 DEF Next, Step
    <3>2. QED
      BY <2>1, <3>1, AnswersKept
  <2>2. ASSUME AnswersOwnUpload, UNCHANGED vars PROVE AnswersOwnUpload'
    BY <2>2 DEF vars, AnswersOwnUpload
  <2>3. QED
    BY <2>1, <2>2
<1>3. QED
  BY <1>1, <1>2, Invariance, PTL DEF Spec


\* Sessions keep their profiles.
LEMMA SessionsStay == ASSUME UInv, NEW r \in Calls, Step(r) PROVE SessionsKept
<1>1. TypeOK /\ Fits(call[r])
  BY DEF UInv, CallsFit
<1>2. CASE \E u \in Uploads : StartAbort(r, u)
  <2>1. PICK u \in Uploads : StartAbort(r, u)
    BY <1>2
  <2> DEFINE s == [session[u] EXCEPT !.state = "aborted"]
  <2>2. session[u] \in [state : {"none", "uploading", "completed", "aborted"},
                        profile : Profiles \cup {None}, file : Calls \cup {None}]
    BY <1>1 DEF TypeOK
  <2>3. s.state = "aborted" /\ s.profile = session[u].profile
    BY <2>2
  <2>4. session' = [session EXCEPT ![u] = s]
    BY <2>1 DEF StartAbort
  <2> HIDE DEF s
  <2>5. QED
    BY <1>1, <2>3, <2>4 DEF SessionsKept, TypeOK
<1>3. CASE InsertSession(r)
  BY <1>1, <1>3 DEF SessionsKept, InsertSession, TypeOK
<1>4. CASE MarkCompleted(r)
  <2> DEFINE s == [state |-> "completed", profile |-> session[call[r].upload].profile, file |-> r]
  <2>1. session' = [session EXCEPT ![call[r].upload] = s]
    BY <1>4 DEF MarkCompleted
  <2>2. s.state = "completed" /\ s.profile = session[call[r].upload].profile
    OBVIOUS
  <2> HIDE DEF s
  <2>3. QED
    BY <1>1, <2>1, <2>2 DEF SessionsKept, TypeOK
<1>5. CASE UNCHANGED session
  BY <1>5 DEF SessionsKept
<1>6. QED
  BY <1>2, <1>3, <1>4, <1>5 DEF Step, StartInit, StartComplete, StartChunk, Reserve, RecordAnswer, WriteChunk,
     InsertChunk, AbortChunks, FindMissing, ReadChunk, StoreObject, StoreUnanswered, RejectObject, CreateIndex, ReadBack,
     RemoveChunks, CallStops

\* Three steps write objects, and one makes files.
LEMMA ObjectSteps ==
  ASSUME NEW r \in Calls, Step(r)
  PROVE  /\ UNCHANGED objects \/ StoreObject(r) \/ StoreUnanswered(r) \/ RejectObject(r)
         /\ UNCHANGED files \/ CreateIndex(r)
BY DEF Step, StartInit, StartComplete, StartAbort, StartChunk, Reserve, RecordAnswer, InsertSession, WriteChunk,
       InsertChunk, AbortChunks, FindMissing, ReadChunk, StoreObject, StoreUnanswered, RejectObject, CreateIndex, ReadBack,
       MarkCompleted, RemoveChunks, CallStops

\* A call has stored its object after StoreObject only.
LEMMA StoredByStore ==
  ASSUME UInv, NEW r \in Calls, Step(r), call'[r].pc = "stored"
  PROVE  StoreObject(r)
<1>1. call \in [Calls -> CallRecords] /\ TypeOK /\ Fits(call[r]) /\ call[r] \in CallRecords
  BY TypeOfCalls DEF UInv, CallsFit
<1>2. ASSUME NEW p \in {"working", "inserting", "inserted", "indexed", "completed", "recording"}, Goto(r, p) PROVE FALSE
  BY <1>1, <1>2, GotoMoves
<1>3. ASSUME NEW kind \in {"ok", "conflict", "error"}, NEW resource \in Uploads \cup Calls \cup {None},
             Answer(r, kind, resource)
      PROVE  FALSE
  BY <1>1, <1>3, AnswerMoves
<1>4. ASSUME NEW op \in {"init", "complete"}, NEW u \in Uploads \cup {None}, NEW k \in Keys \cup {None},
             GetKey(r, op, u, k)
      PROVE  FALSE
  <2>1. PICK c \in CallRecords : call' = [call EXCEPT ![r] = c] /\ c.pc \in {"working", "reserving", "done"}
    BY <1>1, <1>4, GetKeyMakes
  <2>2. QED
    BY <1>1, <2>1
<1>5. CASE StartInit(r) \/ \E u \in Uploads : StartComplete(r, u)
  BY <1>4, <1>5, UploadsAssumption DEF StartInit, StartComplete
<1>6. CASE \E u \in Uploads : StartAbort(r, u)
  <2>1. PICK u \in Uploads : call' = [call EXCEPT ![r] = Asked("abort", u, None, "aborting", NoAnswer)]
    BY <1>6 DEF StartAbort
  <2>2. Asked("abort", u, None, "aborting", NoAnswer).pc = "aborting"
    BY DEF Asked
  <2>3. QED
    BY <1>1, <2>1, <2>2
<1>7. CASE \E u \in Uploads, i \in Chunks, c \in {"good", "bad"} : StartChunk(r, u, i, c)
  <2>1. PICK u \in Uploads, i \in Chunks, x \in {"good", "bad"} : StartChunk(r, u, i, x)
    BY <1>7
  <2> DEFINE w == [Asked("chunk", u, None, "writing", NoAnswer) EXCEPT !.index = i, !.content = x]
             d == Asked("chunk", u, None, "done", [kind |-> "conflict", resource |-> None])
  <2>2. w.pc = "writing" /\ d.pc = "done"
    BY DEF Asked
  <2>3. call' = [call EXCEPT ![r] = w] \/ call' = [call EXCEPT ![r] = d]
    BY <2>1 DEF StartChunk
  <2> HIDE DEF w, d
  <2>4. QED
    BY <1>1, <2>2, <2>3
<1>8. CASE Reserve(r)
  BY <1>2, <1>3, <1>8 DEF Reserve
<1>9. CASE RecordAnswer(r)
  <2>1. (IF call[r].op = "init" THEN call[r].upload ELSE r) \in Uploads \cup Calls \cup {None}
    BY <1>1 DEF CallRecords
  <2>2. QED
    BY <1>3, <1>9, <2>1 DEF RecordAnswer
<1>10. CASE InsertSession(r)
  <2>1. PICK u \in Uploads : call' = [call EXCEPT ![r].pc = "recording", ![r].upload = u]
    BY <1>10 DEF InsertSession
  <2> DEFINE c == [[call[r] EXCEPT !.pc = "recording"] EXCEPT !.upload = u]
  <2>2. c.pc = "recording"
    BY <1>1 DEF CallRecords
  <2>3. call' = [call EXCEPT ![r] = c]
    BY <2>1
  <2> HIDE DEF c
  <2>4. QED
    BY <1>1, <2>2, <2>3
<1>11. CASE WriteChunk(r) \/ CreateIndex(r) \/ ReadBack(r) \/ MarkCompleted(r) \/ RemoveChunks(r)
  BY <1>2, <1>11 DEF WriteChunk, CreateIndex, ReadBack, MarkCompleted, RemoveChunks
<1>12. CASE InsertChunk(r) \/ AbortChunks(r)
  <2>1. call[r].upload \in Uploads
    BY <1>1, <1>12 DEF Fits, InsertChunk, AbortChunks
  <2>2. QED
    BY <1>3, <1>12, <2>1 DEF InsertChunk, AbortChunks
<1>13. CASE StoreUnanswered(r) \/ RejectObject(r) \/ CallStops(r)
  <2>1. CASE RejectObject(r)
    BY <1>1, <2>1, RejectMoves
  <2>2. QED
    BY <1>3, <1>13, <2>1 DEF StoreUnanswered, CallStops
<1>14. CASE FindMissing(r)
  <2> DEFINE c == [[call[r] EXCEPT !.pc = "reading"] EXCEPT !.content = "good"]
  <2>1. c.pc = "reading"
    BY <1>1 DEF CallRecords
  <2>2. call' = [call EXCEPT ![r] = c] \/ Answer(r, "error", None)
    BY <1>14 DEF FindMissing
  <2> HIDE DEF c
  <2>3. QED
    BY <1>1, <1>3, <2>1, <2>2
<1>15. CASE ReadChunk(r)
  <2> DEFINE x == IF chunk[call[r].upload][call[r].index] = "bad" THEN "bad" ELSE call[r].content
             c == [[call[r] EXCEPT !.index = @ + 1] EXCEPT !.content = x]
  <2>1. c.pc = "reading"
    BY <1>1, <1>15 DEF CallRecords, ReadChunk
  <2>2. call' = [call EXCEPT ![r] = c]
    BY <1>15 DEF ReadChunk
  <2> HIDE DEF c
  <2>3. QED
    BY <1>1, <2>1, <2>2
<1>16. QED
  BY <1>5, <1>6, <1>7, <1>8, <1>9, <1>10, <1>11, <1>12, <1>13, <1>14, <1>15 DEF Step

\* The backend has the object of every call that got its answer.
ObjectsHeld ==
  \A r \in Calls : call[r].pc = "stored" =>
    [at |-> ObjectKey(call[r].upload, r), content |-> call[r].content] \in objects

\* While a call reads, has stored an object or has inserted its row, no other call
\* has stored an object of that upload, and no file of it is another call's.
LEMMA Alone ==
  ASSUME OneKeyEach, UInv, NEW r \in Calls, call[r].pc \in {"reading", "stored", "inserted"}
  PROVE  /\ \A q \in Calls : call[q].pc = "stored" /\ call[q].upload = call[r].upload => q = r
         /\ \A f \in files : f.upload = call[r].upload => f.id = r /\ call[r].pc = "inserted"
<1> DEFINE u == call[r].upload
           k == call[r].key
<1>1. TypeOK /\ \A q \in Calls : Fits(call[q])
  BY DEF UInv, CallsFit
<1>2. call[r].op = "complete" /\ u \in Uploads /\ k \in CompleteKeys[u]
  BY <1>1 DEF Fits
<1>3. k \in Keys /\ CompleteKeys[u] = {k}
  BY <1>2 DEF OneKeyEach
<1>4. Holds(r, k)
  BY <1>2 DEF Holds, Past
<1>5. ASSUME NEW q \in Calls, call[q].pc = "stored", call[q].upload = u PROVE q = r
  <2>1. call[q].op = "complete" /\ call[q].key = k
    BY <1>1, <1>3, <1>5 DEF Fits
  <2>2. Holds(q, k)
    BY <1>5, <2>1 DEF Holds, Past
  <2>3. QED
    BY <1>3, <1>4, <2>2 DEF UInv, KeysHeld
<1>6. ASSUME NEW f \in files, f.upload = u PROVE f.id = r /\ call[r].pc = "inserted"
  <2>1. f.id \in Calls /\ call[f.id].op = "complete" /\ call[f.id].upload = u
        /\ call[f.id].pc \in {"inserted", "indexed", "completed", "recording", "done"}
    BY <1>1, <1>6 DEF UInv, FilesFit, TypeOK
  <2>2. call[f.id].key = k
    BY <1>1, <1>3, <2>1 DEF Fits
  <2>3. f.id = r
    BY <1>3, <1>4, <2>2 DEF UInv, KeysHeld
  <2>4. QED
    BY <2>1, <2>3
<1>7. QED
  BY <1>5, <1>6


\* No step loses the object of a call that waits for its file, or of a file, but
\* for the one step in which a call rejects the object of its own row.
LEMMA ContentKept ==
  ASSUME OneKeyEach, UInv, ObjectsHeld, IndexedFilesHaveContent, NEW r \in Calls, Step(r)
  PROVE  ObjectsHeld' /\ IndexedFilesHaveContent'
<1>1. call \in [Calls -> CallRecords] /\ TypeOK /\ \A q \in Calls : Fits(call[q])
  BY TypeOfCalls DEF UInv, CallsFit
<1>2. Moved(r) /\ SessionsKept
  BY StepMoves, SessionsStay
<1>3. \A v \in Uploads, q \in Calls : session[v].state # "none" => ObjectKey(v, q)' = ObjectKey(v, q)
  BY <1>2 DEF SessionsKept, ObjectKey
<1>4. \A v \in Uploads, q \in Calls : ObjectKey(v, q).upload = v
  BY DEF ObjectKey
<1>5. \A q \in Calls : call[q].pc = "stored" => call[q].upload \in Uploads /\ session[call[q].upload].state # "none"
  BY <1>1, UploadsAssumption DEF Fits, UInv, Opened
<1>6. \A f \in files : /\ f.id \in Calls /\ f.upload \in Uploads /\ f.at = ObjectKey(f.upload, f.id)
                       /\ call[f.id].pc \in HasIndexed \cup {"done"}
  BY <1>1 DEF UInv, FilesFit, TypeOK, HasIndexed
<1> DEFINE k == ObjectKey(call[r].upload, r)
           Whole(f) == DeletedUnread(f)' \/ [at |-> f.at, content |-> "good"] \in objects'
           Held(q) == [at |-> ObjectKey(call[q].upload, q), content |-> call[q].content] \in objects'
<1>7. \A f \in files : DeletedUnread(f) => DeletedUnread(f)'
  <2> SUFFICES ASSUME NEW f \in files, DeletedUnread(f) PROVE DeletedUnread(f)'
    OBVIOUS
  <2>1. f.id # r => call'[f.id] = call[f.id]
    BY <1>2, <1>6 DEF Moved
  <2>2. f.id = r => call'[r].content = "absent"
    BY <1>2, <1>6 DEF Moved, DeletedUnread, HasIndexed
  <2>3. QED
    BY <2>1, <2>2 DEF DeletedUnread
<1>8. ASSUME call[r].pc \in {"reading", "stored", "inserted"}, \A o \in objects : o.at # k => o \in objects',
             call[r].pc = "inserted" => call'[r].content = "absent"
      PROVE  /\ \A f \in files : Whole(f)
             /\ \A q \in Calls : q # r /\ call[q].pc = "stored" => Held(q)
  <2>1. call[r].upload \in Uploads
    BY <1>1, <1>8 DEF Fits
  <2>2. \A f \in files : f.at = k => DeletedUnread(f)'
    BY <1>4, <1>6, <1>8, <2>1, Alone DEF DeletedUnread
  <2>3. \A q \in Calls : q # r /\ call[q].pc = "stored" => ObjectKey(call[q].upload, q) # k
    BY <1>4, <1>5, <1>8, <2>1, Alone
  <2> HIDE DEF k
  <2>4. \A f \in files : [at |-> f.at, content |-> "good"].at = f.at
    OBVIOUS
  <2>5. \A q \in Calls : [at |-> ObjectKey(call[q].upload, q), content |-> call[q].content].at = ObjectKey(call[q].upload, q)
    OBVIOUS
  <2>6. ASSUME NEW f \in files PROVE Whole(f)
    <3>1. CASE DeletedUnread(f) \/ f.at = k
      BY <1>7, <2>2, <3>1
    <3>2. CASE [at |-> f.at, content |-> "good"] \in objects /\ f.at # k
      BY <1>8, <2>4, <3>2
    <3>3. QED
      BY <3>1, <3>2 DEF IndexedFilesHaveContent
  <2>7. ASSUME NEW q \in Calls, q # r, call[q].pc = "stored" PROVE Held(q)
    BY <1>8, <2>3, <2>5, <2>7 DEF ObjectsHeld
  <2>8. QED
    BY <2>6, <2>7
<1>9. /\ \A f \in files : Whole(f)
      /\ \A q \in Calls : q # r /\ call[q].pc = "stored" => Held(q)
  <2>1. CASE UNCHANGED objects
    <3>1. \A f \in files : Whole(f)
      BY <1>7, <2>1 DEF IndexedFilesHaveContent
    <3>2. \A q \in Calls : call[q].pc = "stored" => Held(q)
      BY <2>1 DEF ObjectsHeld
    <3>3. QED
      BY <3>1, <3>2
  <2>2. CASE StoreObject(r) \/ StoreUnanswered(r)
    <3>1. call[r].pc = "reading" /\ \A o \in objects : o.at # k => o \in objects'
      BY <2>2 DEF StoreObject, StoreUnanswered, Stored
    <3>2. QED
      BY <1>8, <3>1
  <2>3. CASE RejectObject(r)
    <3>1. call[r].pc \in {"stored", "inserted"} /\ \A o \in objects : o.at # k => o \in objects'
      BY <2>3 DEF RejectObject, Removed
    <3>2. call'[r].content = "absent"
      BY <1>1, <2>3, RejectMoves
    <3>3. QED
      BY <1>8, <3>1, <3>2
  <2>4. QED
    BY <2>1, <2>2, <2>3, ObjectSteps
<1> HIDE DEF Whole
<1>10. ObjectsHeld'
  <2> SUFFICES ASSUME NEW q \in Calls, call'[q].pc = "stored"
               PROVE  [at |-> ObjectKey(call[q].upload, q)', content |-> call'[q].content] \in objects'
                      /\ call'[q].upload = call[q].upload
    BY DEF ObjectsHeld, ObjectKey
  <2>1. CASE q # r
    <3>1. call'[q] = call[q]
      BY <1>2, <2>1 DEF Moved
    <3>2. ObjectKey(call[q].upload, q)' = ObjectKey(call[q].upload, q)'
      OBVIOUS
    <3>3. [at |-> ObjectKey(call[q].upload, q), content |-> call[q].content] \in objects'
      BY <1>9, <2>1, <3>1
    <3>4. call[q].upload \in Uploads /\ session[call[q].upload].state # "none"
      BY <1>5, <3>1
    <3>5. QED
      BY <1>3, <3>1, <3>3, <3>4 DEF ObjectKey
  <2>2. CASE q = r
    <3>1. StoreObject(r)
      BY <2>2, StoredByStore
    <3>2. call'[r].upload = call[r].upload /\ call'[r].content = call[r].content
      BY <1>1, <3>1, GotoMoves DEF StoreObject
    <3>3. [at |-> k, content |-> call[r].content] \in objects' /\ session' = session
      BY <3>1 DEF StoreObject, Stored
    <3>4. QED
      BY <2>2, <3>2, <3>3 DEF ObjectKey
  <2>3. QED
    BY <2>1, <2>2
<1>11. IndexedFilesHaveContent'
  <2>1. CASE UNCHANGED files
    BY <1>9, <2>1 DEF IndexedFilesHaveContent, Whole
  <2>2. CASE CreateIndex(r)
    <3> DEFINE new == [id |-> r, upload |-> call[r].upload, at |-> k]
    <3>1. files' = files \cup {new} /\ objects' = objects /\ call[r].pc = "stored" /\ call[r].content = "good"
      BY <2>2 DEF CreateIndex
    <3>2. new.at = k
      OBVIOUS
    <3>3. [at |-> k, content |-> "good"] \in objects
      BY <3>1 DEF ObjectsHeld
    <3> HIDE DEF new, k
    <3>4. QED
      BY <1>9, <3>1, <3>2, <3>3 DEF IndexedFilesHaveContent, Whole
  <2>3. QED
    BY <2>1, <2>2, ObjectSteps
<1>12. QED
  BY <1>10, <1>11

\* Where an upload is completed with one key, its object is written and rejected
\* by one call, and every file keeps the bytes that Init declared, or is the one
\* whose own Complete could not read the row back and deleted the object.
THEOREM FilesKeepContent == ASSUME OneKeyEach PROVE Spec => []IndexedFilesHaveContent
<1> DEFINE C == ObjectsHeld /\ IndexedFilesHaveContent
<1>1. Init => C
  <2> SUFFICES ASSUME Init PROVE C
    OBVIOUS
  <2>1. \A r \in Calls : call[r].pc = "idle"
    BY DEF Init, IdleCall
  <2>2. QED
    BY <2>1 DEF Init, ObjectsHeld, IndexedFilesHaveContent
<1>2. UInv /\ C /\ [Next]_vars => C'
  <2>1. ASSUME UInv, C, Next PROVE C'
    <3>1. PICK r \in Calls : Step(r)
      BY <2>1 DEF Next, Step
    <3>2. QED
      BY <2>1, <3>1, ContentKept
  <2>2. ASSUME C, UNCHANGED vars PROVE C'
    BY <2>2 DEF vars, ObjectsHeld, IndexedFilesHaveContent, DeletedUnread, ObjectKey
  <2>3. QED
    BY <2>1, <2>2
<1>3. QED
  BY <1>1, <1>2, Invariance, PTL DEF Spec


\* A call of PutChunk writes its chunk, inserts its row, or has neither.
LEMMA ChunkSteps ==
  ASSUME UInv, NEW r \in Calls, Step(r), call'[r].op = "chunk"
  PROVE  WriteChunk(r) \/ InsertChunk(r) \/ (call'[r].pc # "inserting" /\ call'[r].answer.kind # "ok")
<1>1. call \in [Calls -> CallRecords] /\ TypeOK /\ Fits(call[r]) /\ call[r] \in CallRecords
  BY TypeOfCalls DEF UInv, CallsFit
<1>2. CASE call[r].pc # "idle"
  <2>1. call[r].op = "chunk"
    BY <1>2, StepMoves DEF Moved
  <2>2. call[r].pc \in {"writing", "inserting", "done"}
    BY <1>1, <1>2, <2>1 DEF Fits, CallRecords
  <2>3. WriteChunk(r) \/ InsertChunk(r) \/ CallStops(r)
    BY <2>2 DEF Step, StartInit, StartComplete, StartAbort, StartChunk, Reserve, RecordAnswer, InsertSession,
       AbortChunks, FindMissing, ReadChunk, StoreObject, StoreUnanswered, RejectObject, CreateIndex, ReadBack,
       MarkCompleted, RemoveChunks
  <2>4. CASE CallStops(r)
    <3>1. call'[r].pc = "done" /\ call'[r].answer = [kind |-> "error", resource |-> None]
      BY <1>1, <2>4, AnswerMoves DEF CallStops
    <3>2. QED
      BY <3>1
  <2>5. QED
    BY <2>3, <2>4
<1>3. CASE call[r].pc = "idle"
  <2>1. \/ StartInit(r) \/ \E u \in Uploads : StartComplete(r, u) \/ StartAbort(r, u)
        \/ \E u \in Uploads, i \in Chunks, c \in {"good", "bad"} : StartChunk(r, u, i, c)
    BY <1>3 DEF Step, Reserve, RecordAnswer, InsertSession, WriteChunk, InsertChunk, AbortChunks, FindMissing,
       ReadChunk, StoreObject, StoreUnanswered, RejectObject, CreateIndex, ReadBack, MarkCompleted, RemoveChunks, CallStops
  <2>2. ASSUME NEW op \in {"init", "complete"}, NEW u \in Uploads \cup {None}, NEW k \in Keys \cup {None},
               GetKey(r, op, u, k)
        PROVE  FALSE
    <3>1. PICK c \in CallRecords : call' = [call EXCEPT ![r] = c] /\ c.op = op
      BY <1>1, <2>2, GetKeyMakes
    <3>2. QED
      BY <1>1, <3>1
  <2>3. CASE StartInit(r) \/ \E u \in Uploads : StartComplete(r, u)
    BY <2>2, <2>3, UploadsAssumption DEF StartInit, StartComplete
  <2>4. CASE \E u \in Uploads : StartAbort(r, u)
    <3>1. PICK u \in Uploads : call' = [call EXCEPT ![r] = Asked("abort", u, None, "aborting", NoAnswer)]
      BY <2>4 DEF StartAbort
    <3>2. Asked("abort", u, None, "aborting", NoAnswer).op = "abort"
      BY DEF Asked
    <3>3. QED
      BY <1>1, <3>1, <3>2
  <2>5. CASE \E u \in Uploads, i \in Chunks, c \in {"good", "bad"} : StartChunk(r, u, i, c)
    <3>1. PICK u \in Uploads, i \in Chunks, x \in {"good", "bad"} : StartChunk(r, u, i, x)
      BY <2>5
    <3> DEFINE w == [Asked("chunk", u, None, "writing", NoAnswer) EXCEPT !.index = i, !.content = x]
               d == Asked("chunk", u, None, "done", [kind |-> "conflict", resource |-> None])
    <3>2. w.pc = "writing" /\ w.answer = NoAnswer /\ d.pc = "done" /\ d.answer = [kind |-> "conflict", resource |-> None]
      BY DEF Asked
    <3>3. w.answer.kind # "ok" /\ d.answer.kind # "ok"
      BY <3>2 DEF NoAnswer
    <3>4. call' = [call EXCEPT ![r] = w] \/ call' = [call EXCEPT ![r] = d]
      BY <3>1 DEF StartChunk
    <3> HIDE DEF w, d
    <3>5. QED
      BY <1>1, <3>2, <3>3, <3>4
  <2>6. QED
    BY <2>1, <2>3, <2>4, <2>5
<1>4. QED
  BY <1>2, <1>3

\* A chunk is on disk, or was given up.
Kept(u, i) ==
  Aborted(u) \/ chunk[u][i] # "absent" \/ \E f \in files : f.upload = u

\* Chunks are kept from the rename on, acknowledged or not.
ChunksKept ==
  \A r \in Calls :
    call[r].op = "chunk" /\ (call[r].pc = "inserting" \/ call[r].answer.kind = "ok") =>
      Kept(call[r].upload, call[r].index)

\* No step loses a chunk that is kept.
LEMMA KeptStays ==
  ASSUME UInv, NEW r \in Calls, Step(r), NEW u \in Uploads, NEW i \in Chunks, Kept(u, i)
  PROVE  Kept(u, i)'
<1>1. TypeOK /\ Fits(call[r]) /\ Moved(r) /\ files \subseteq files'
  BY StepMoves, FilesStay DEF UInv, CallsFit
<1>2. Aborted(u) => Aborted(u)'
  <2> SUFFICES ASSUME NEW q \in Calls, call[q].op = "abort", call[q].upload = u
               PROVE  call'[q].op = "abort" /\ call'[q].upload = u
    BY DEF Aborted
  <2>1. call[q].pc # "idle"
    BY UploadsAssumption DEF UInv, CallsFit, Fits
  <2>2. QED
    BY <1>1, <2>1 DEF Moved
<1>3. (\E f \in files : f.upload = u) => \E f \in files' : f.upload = u
  BY <1>1
<1>4. ASSUME chunk[u][i] # "absent" PROVE Kept(u, i)'
  <2>1. CASE UNCHANGED chunk
    BY <1>4, <2>1 DEF Kept
  <2>2. CASE WriteChunk(r)
    <3>1. call[r].content \in {"good", "bad"}
      BY <1>1, <2>2 DEF Fits, WriteChunk
    <3>2. chunk'[u][i] # "absent"
      BY <1>1, <1>4, <2>2, <3>1 DEF WriteChunk, TypeOK
    <3>3. QED
      BY <3>2 DEF Kept
  <2>3. CASE AbortChunks(r)
    <3>1. call[r].op = "abort" /\ call[r].pc = "aborting"
      BY <1>1, <2>3 DEF Fits, AbortChunks
    <3>2. CASE call[r].upload = u
      BY <1>2, <3>1, <3>2 DEF Kept, Aborted
    <3>3. CASE call[r].upload # u
      BY <1>1, <1>4, <2>3, <3>3 DEF AbortChunks, WithoutChunks, TypeOK, Kept
    <3>4. QED
      BY <3>2, <3>3
  <2>4. CASE RemoveChunks(r)
    <3>1. call[r].op = "complete" /\ call[r].pc = "completed"
      BY <1>1, <2>4 DEF Fits, RemoveChunks
    <3>2. CASE call[r].upload = u
      <4>1. PICK f \in files : f.id = r
        BY <3>1 DEF UInv, FilesFit
      <4>2. f.upload = u
        BY <3>2, <4>1 DEF UInv, FilesFit
      <4>3. QED
        BY <1>3, <4>1, <4>2 DEF Kept
    <3>3. CASE call[r].upload # u
      BY <1>1, <1>4, <2>4, <3>3 DEF RemoveChunks, WithoutChunks, TypeOK, Kept
    <3>4. QED
      BY <3>2, <3>3
  <2>5. QED
    BY <2>1, <2>2, <2>3, <2>4 DEF Step, StartInit, StartComplete, StartAbort, StartChunk, Reserve, RecordAnswer,
       InsertSession, InsertChunk, FindMissing, ReadChunk, StoreObject, StoreUnanswered, RejectObject, CreateIndex, ReadBack,
       MarkCompleted, CallStops
<1>5. QED
  BY <1>2, <1>3, <1>4 DEF Kept

\* The chunks of calls that go on are kept too.
LEMMA ChunksStay ==
  ASSUME UInv, ChunksKept, NEW r \in Calls, Step(r)
  PROVE  ChunksKept'
<1> SUFFICES ASSUME NEW q \in Calls, call'[q].op = "chunk", call'[q].pc = "inserting" \/ call'[q].answer.kind = "ok"
             PROVE  Kept(call[q].upload, call[q].index)'
  BY DEF ChunksKept, Kept, Aborted
<1>1. call \in [Calls -> CallRecords] /\ TypeOK /\ (\A p \in Calls : Fits(call[p])) /\ Moved(r)
  BY TypeOfCalls, StepMoves DEF UInv, CallsFit
<1>2. ASSUME call[q].op = "chunk", call[q].pc = "inserting" \/ call[q].answer.kind = "ok",
             call'[q].upload = call[q].upload, call'[q].index = call[q].index
      PROVE  Kept(call[q].upload, call[q].index)'
  <2>1. call[q].upload \in Uploads /\ call[q].index \in Chunks
    BY <1>1, <1>2 DEF Fits
  <2>2. Kept(call[q].upload, call[q].index)
    BY <1>2 DEF ChunksKept
  <2> DEFINE u == call[q].upload
             i == call[q].index
  <2>3. Kept(u, i) /\ u \in Uploads /\ i \in Chunks
    BY <2>1, <2>2
  <2>4. call'[q].upload = u /\ call'[q].index = i
    BY <1>2
  <2>5. PICK v \in Uploads, j \in Chunks : v = u /\ j = i
    BY <2>3
  <2>6. Kept(v, j)'
    BY <2>3, <2>5, KeptStays
  <2>7. call'[q].upload = v /\ call'[q].index = j
    BY <2>4, <2>5
  <2>8. QED
    BY <2>6, <2>7 DEF Kept, Aborted
<1>3. CASE q # r
  BY <1>1, <1>2, <1>3 DEF Moved
<1>4. CASE q = r /\ InsertChunk(r)
  <2>1. call[r].op = "chunk" /\ call[r].pc = "inserting"
    BY <1>1, <1>4 DEF Fits, InsertChunk
  <2>2. call'[r].upload = call[r].upload /\ call'[r].index = call[r].index
    BY <1>1, <2>1 DEF Moved
  <2>3. QED
    BY <1>2, <1>4, <2>1, <2>2
<1>5. CASE q = r /\ WriteChunk(r)
  <2>1. /\ call[r].op = "chunk" /\ call[r].pc = "writing" /\ call[r].upload \in Uploads /\ call[r].index \in Chunks
        /\ call[r].content \in {"good", "bad"}
    BY <1>1, <1>5 DEF Fits, WriteChunk
  <2>2. call'[r].upload = call[r].upload /\ call'[r].index = call[r].index
    BY <1>1, <2>1 DEF Moved
  <2>3. chunk'[call[r].upload][call[r].index] # "absent"
    BY <1>1, <1>5, <2>1 DEF WriteChunk, TypeOK
  <2>4. QED
    BY <1>5, <2>2, <2>3 DEF Kept
<1>6. QED
  BY <1>3, <1>4, <1>5, ChunkSteps

\* A chunk that PutChunk has acknowledged is on disk until a file of its upload is
\* indexed, whatever calls stop or race, unless a client aborts the upload.
THEOREM ChunksOutlive == Spec => []ChunksOutliveTheIndex
<1>1. Init => ChunksKept
  BY UploadsAssumption DEF Init, ChunksKept, IdleCall
<1>2. UInv /\ ChunksKept /\ [Next]_vars => ChunksKept'
  <2>1. ASSUME UInv, ChunksKept, Next PROVE ChunksKept'
    <3>1. PICK r \in Calls : Step(r)
      BY <2>1 DEF Next, Step
    <3>2. QED
      BY <2>1, <3>1, ChunksStay
  <2>2. ASSUME ChunksKept, UNCHANGED vars PROVE ChunksKept'
    BY <2>2 DEF vars, ChunksKept, Kept, Aborted
  <2>3. QED
    BY <2>1, <2>2
<1>3. ChunksKept => ChunksOutliveTheIndex
  BY DEF ChunksKept, ChunksOutliveTheIndex, Kept
<1>4. QED
  BY <1>1, <1>2, <1>3, Invariance, PTL DEF Spec


=============================================================================
