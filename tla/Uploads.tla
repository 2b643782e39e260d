------------------------------ MODULE Uploads ------------------------------
(***************************************************************************)
(* Chunked uploads: Init, PutChunk, Complete and Abort of uploads/service,  *)
(* the idempotency keys that make Init and Complete repeatable, the chunk   *)
(* directory, the backend, and the file rows that Complete creates.         *)
(*                                                                         *)
(* Every HTTP call is a process.  A call runs one SQL statement, one file   *)
(* operation or one backend operation per step, with nothing held between   *)
(* them, and it may stop between any two: the client hangs up, a statement  *)
(* fails, the process dies.  Nothing is undone when a call stops, so a crash *)
(* is the stop of every call and needs no action of its own.                *)
(***************************************************************************)
EXTENDS Naturals, FiniteSets

CONSTANTS
  Uploads,        \* ids of upload sessions
  TotalChunks,    \* chunks of every upload
  Profiles,       \* storage profiles
  LocalProfiles,  \* those whose backend stores under the key it is given
  Calls,          \* the HTTP calls ever made (a bound); a call creates at most one file
  Keys,           \* values of the header Idempotency-Key
  InitProfiles,   \* for each upload, the profiles that its Init may name
  InitKeys,       \* the keys, or None, that clients send with Init
  CompleteKeys,   \* for each upload, the keys, or None, that they send with Complete
  None

ASSUME UploadsAssumption ==
  /\ TotalChunks \in Nat \ {0}
  /\ LocalProfiles \subseteq Profiles
  /\ None \notin Uploads \cup Keys \cup Calls \cup Profiles \cup {"init", "complete", "chunk", "abort"}
  /\ InitProfiles \in [Uploads -> SUBSET Profiles]
  /\ InitKeys \subseteq Keys \cup {None}
  /\ CompleteKeys \in [Uploads -> SUBSET (Keys \cup {None})]

VARIABLES
  session,   \* upload_sessions: state, profile and file of every upload
  chunkRow,  \* upload_chunks: the indexes with a row, of every upload
  chunk,     \* the directory of every upload: what <index>.chunk holds
  objects,   \* what the backends hold: [at, content] records
  files,     \* files: [id, upload, at] records
  idem,      \* idempotency_keys: the record of every operation and key
  call       \* every HTTP call: program counter, arguments, local variables, answer

vars == <<session, chunkRow, chunk, objects, files, idem, call>>

Chunks == 0..(TotalChunks - 1)

----------------------------------------------------------------------------

\* A chunk holds its part of the file the client declared, or something else
\* (whose hash the client declared for the chunk all the same).
Contents == {"absent", "good", "bad"}

Operations == {"init", "complete", "chunk", "abort"}

\* What a call says in the end: "ok" with the upload or the file it names.
Answers == [kind : {"none", "ok", "conflict", "error"}, resource : Uploads \cup Calls \cup {None}]

NoAnswer == [kind |-> "none", resource |-> None]

\* The key of the object: a local backend keeps the name objects/<upload>, a
\* Telegram backend names a message of its own for every send.
ObjectKeys == [upload : Uploads, sent : Calls \cup {None}]

ObjectKey(u, r) ==
  [upload |-> u, sent |-> IF session[u].profile \in LocalProfiles THEN None ELSE r]

Stored(k, c) == {o \in objects : o.at # k} \cup {[at |-> k, content |-> c]}

Removed(k) == {o \in objects : o.at # k}

IdleCall == [pc |-> "idle", op |-> None, upload |-> None, key |-> None, index |-> 0,
             content |-> "absent", answer |-> NoAnswer]

Init ==
  /\ session = [u \in Uploads |-> [state |-> "none", profile |-> None, file |-> None]]
  /\ chunkRow = [u \in Uploads |-> {}]
  /\ chunk = [u \in Uploads |-> [i \in Chunks |-> "absent"]]
  /\ objects = {}
  /\ files = {}
  /\ idem = [op \in {"init", "complete"} |->
               [k \in Keys |-> [state |-> "absent", resource |-> None]]]
  /\ call = [r \in Calls |-> IdleCall]

----------------------------------------------------------------------------
(* Steps of one call.                                                      *)

Goto(r, pc) == call' = [call EXCEPT ![r].pc = pc]

Answer(r, kind, resource) ==
  call' = [call EXCEPT ![r].pc = "done", ![r].answer = [kind |-> kind, resource |-> resource]]

\* Any step of a call may be its last: the request context ended, or a
\* statement or a file operation failed.
CallStops(r) ==
  /\ call[r].pc \notin {"idle", "done"}
  /\ Answer(r, "error", None)
  /\ UNCHANGED <<session, chunkRow, chunk, objects, files, idem>>

----------------------------------------------------------------------------
(* Idempotency keys.                                                       *)

\* Mutant: the record is looked up by its operation alone.
KeyRecord_AnyKey(op, k) ==
  LET done == {j \in Keys : idem[op][j].state = "completed"} IN
  idem[op][IF done = {} THEN k ELSE CHOOSE j \in done : TRUE]

KeyRecord(op, k) == idem[op][k]

\* A call that has begun: op for upload u with key k.
Asked(op, u, k, pc, answer) ==
  [pc |-> pc, op |-> op, upload |-> u, key |-> k, index |-> 0, content |-> "absent", answer |-> answer]

\* What idem.Get makes of a new call: without a key the work starts at once, a
\* completed key answers what it answered before, a reserved one is a conflict.
GetKey(r, op, u, k) ==
  \/ /\ k = None
     /\ call' = [call EXCEPT ![r] = Asked(op, u, k, "working", NoAnswer)]
  \/ /\ k # None
     /\ KeyRecord(op, k).state = "absent"
     /\ call' = [call EXCEPT ![r] = Asked(op, u, k, "reserving", NoAnswer)]
  \/ /\ k # None
     /\ KeyRecord(op, k).state = "reserved"
     /\ call' = [call EXCEPT ![r] = Asked(op, u, k, "done", [kind |-> "conflict", resource |-> None])]
  \/ /\ k # None
     /\ KeyRecord(op, k).state = "completed"
     /\ call' = [call EXCEPT ![r] = Asked(op, u, k, "done",
                                        [kind |-> "ok", resource |-> KeyRecord(op, k).resource])]

StartInit(r) ==
  /\ call[r].pc = "idle"
  /\ \E k \in InitKeys : GetKey(r, "init", None, k)
  /\ UNCHANGED <<session, chunkRow, chunk, objects, files, idem>>

StartComplete(r, u) ==
  /\ call[r].pc = "idle"
  /\ session[u].state # "none"
  /\ \E k \in CompleteKeys[u] : GetKey(r, "complete", u, k)
  /\ UNCHANGED <<session, chunkRow, chunk, objects, files, idem>>

\* Mutant: Reserve does not look at the rows it affected.
Reserve_Always(r) ==
  /\ call[r].pc = "reserving"
  /\ idem' = [idem EXCEPT ![call[r].op][call[r].key] = [state |-> "reserved", resource |-> None]]
  /\ Goto(r, "working")
  /\ UNCHANGED <<session, chunkRow, chunk, objects, files>>

\* INSERT ... ON CONFLICT DO NOTHING: only one call gets the key.
Reserve(r) ==
  /\ call[r].pc = "reserving"
  /\ \/ /\ KeyRecord(call[r].op, call[r].key).state = "absent"
        /\ idem' = [idem EXCEPT ![call[r].op][call[r].key] = [state |-> "reserved", resource |-> None]]
        /\ Goto(r, "working")
     \/ /\ KeyRecord(call[r].op, call[r].key).state # "absent"
        /\ Answer(r, "conflict", None)
        /\ UNCHANGED idem
  /\ UNCHANGED <<session, chunkRow, chunk, objects, files>>

\* The end of Init and Complete: UPDATE ... WHERE state = 'reserved', with the
\* upload or the file to answer.
RecordAnswer(r) ==
  LET resource == IF call[r].op = "init" THEN call[r].upload ELSE r IN
  /\ call[r].pc = "recording"
  /\ \/ /\ call[r].key = None
        /\ UNCHANGED idem
     \/ /\ call[r].key # None
        /\ KeyRecord(call[r].op, call[r].key).state = "reserved"
        /\ idem' = [idem EXCEPT ![call[r].op][call[r].key] =
                      [state |-> "completed", resource |-> resource]]
  /\ Answer(r, "ok", resource)
  /\ UNCHANGED <<session, chunkRow, chunk, objects, files>>

----------------------------------------------------------------------------
(* Init: the row of the session, and its directory.                        *)

InsertSession(r) ==
  /\ call[r].pc = "working"
  /\ call[r].op = "init"
  /\ \E u \in Uploads : \E p \in InitProfiles[u] :
       /\ session[u].state = "none"
       /\ session' = [session EXCEPT ![u] = [state |-> "uploading", profile |-> p, file |-> None]]
       /\ call' = [call EXCEPT ![r].pc = "recording", ![r].upload = u]
  /\ UNCHANGED <<chunkRow, chunk, objects, files, idem>>

----------------------------------------------------------------------------
(* PutChunk: the session must be uploading, when it is looked at.          *)

StartChunk(r, u, i, c) ==
  /\ call[r].pc = "idle"
  /\ session[u].state # "none"
  /\ \/ /\ session[u].state = "uploading"
        /\ call' = [call EXCEPT ![r] = [Asked("chunk", u, None, "writing", NoAnswer)
                                          EXCEPT !.index = i, !.content = c]]
     \/ /\ session[u].state # "uploading"
        /\ call' = [call EXCEPT ![r] = Asked("chunk", u, None, "done", [kind |-> "conflict", resource |-> None])]
  /\ UNCHANGED <<session, chunkRow, chunk, objects, files, idem>>

\* MkdirAll, and the rename of the temporary file that was read and hashed.
WriteChunk(r) ==
  /\ call[r].pc = "writing"
  /\ chunk' = [chunk EXCEPT ![call[r].upload][call[r].index] = call[r].content]
  /\ Goto(r, "inserting")
  /\ UNCHANGED <<session, chunkRow, objects, files, idem>>

InsertChunk(r) ==
  /\ call[r].pc = "inserting"
  /\ chunkRow' = [chunkRow EXCEPT ![call[r].upload] = @ \cup {call[r].index}]
  /\ Answer(r, "ok", call[r].upload)
  /\ UNCHANGED <<session, chunk, objects, files, idem>>

----------------------------------------------------------------------------
(* Abort.                                                                  *)

StartAbort(r, u) ==
  /\ call[r].pc = "idle"
  /\ session[u].state # "none"
  /\ session' = [session EXCEPT ![u].state = "aborted"]
  /\ call' = [call EXCEPT ![r] = Asked("abort", u, None, "aborting", NoAnswer)]
  /\ UNCHANGED <<chunkRow, chunk, objects, files, idem>>

WithoutChunks(u) == chunk' = [chunk EXCEPT ![u] = [i \in Chunks |-> "absent"]]

AbortChunks(r) ==
  /\ call[r].pc = "aborting"
  /\ WithoutChunks(call[r].upload)
  /\ Answer(r, "ok", call[r].upload)
  /\ UNCHANGED <<session, chunkRow, objects, files, idem>>

----------------------------------------------------------------------------
(* Complete.                                                               *)

\* A chunk is missing when it has no row or its file is not there.
Missing(u) == {i \in Chunks : i \notin chunkRow[u] \/ chunk[u][i] = "absent"}

\* load and MissingChunks.  The state of the session is not looked at.
FindMissing(r) ==
  /\ call[r].pc = "working"
  /\ call[r].op = "complete"
  /\ \/ /\ Missing(call[r].upload) = {}
        /\ call' = [call EXCEPT ![r].pc = "reading", ![r].content = "good"]
     \/ /\ Missing(call[r].upload) # {}
        /\ Answer(r, "error", None)
  /\ UNCHANGED <<session, chunkRow, chunk, objects, files, idem>>

\* storage.Put reads the chunks in order, each as it is at that moment.
ReadChunk(r) ==
  LET c == chunk[call[r].upload][call[r].index] IN
  /\ call[r].pc = "reading"
  /\ call[r].index < TotalChunks
  /\ c # "absent"
  /\ call' = [call EXCEPT ![r].index = @ + 1, ![r].content = IF c = "bad" THEN "bad" ELSE @]
  /\ UNCHANGED <<session, chunkRow, chunk, objects, files, idem>>

\* Mutant: the chunks are removed as soon as the backend has the object.
StoreObject_RemovesChunks(r) ==
  /\ call[r].pc = "reading"
  /\ call[r].index = TotalChunks
  /\ objects' = Stored(ObjectKey(call[r].upload, r), call[r].content)
  /\ WithoutChunks(call[r].upload)
  /\ Goto(r, "stored")
  /\ UNCHANGED <<session, chunkRow, files, idem>>

\* The backend has the whole object: a rename, or the answer of the Bot API.
StoreObject(r) ==
  /\ call[r].pc = "reading"
  /\ call[r].index = TotalChunks
  /\ objects' = Stored(ObjectKey(call[r].upload, r), call[r].content)
  /\ Goto(r, "stored")
  /\ UNCHANGED <<session, chunkRow, chunk, files, idem>>

\* A Telegram send that was delivered and reported as an error.
StoreUnanswered(r) ==
  /\ call[r].pc = "reading"
  /\ call[r].index = TotalChunks
  /\ session[call[r].upload].profile \notin LocalProfiles
  /\ objects' = Stored(ObjectKey(call[r].upload, r), call[r].content)
  /\ Answer(r, "error", None)
  /\ UNCHANGED <<session, chunkRow, chunk, files, idem>>

\* The hash is not the one that Init declared, or CreateIndex failed: Complete
\* deletes the object.  CreateIndex fails before its INSERT, or after it, when the
\* row cannot be read back: then the row stays.  Where the context is over, or the
\* deletion fails, nothing is deleted, and the call has merely stopped.
RejectObject(r) ==
  /\ call[r].pc \in {"stored", "inserted"}
  /\ objects' = Removed(ObjectKey(call[r].upload, r))
  /\ call' = [call EXCEPT ![r].pc = "done", ![r].content = "absent",
                          ![r].answer = [kind |-> "error", resource |-> None]]
  /\ UNCHANGED <<session, chunkRow, chunk, files, idem>>

\* Mutant: the hash of the object is not compared.
CreateIndex_Unverified(r) ==
  /\ call[r].pc = "stored"
  /\ files' = files \cup {[id |-> r, upload |-> call[r].upload, at |-> ObjectKey(call[r].upload, r)]}
  /\ Goto(r, "inserted")
  /\ UNCHANGED <<session, chunkRow, chunk, objects, idem>>

\* The INSERT of CreateIndex, which is committed at once.
CreateIndex(r) ==
  /\ call[r].pc = "stored"
  /\ call[r].content = "good"
  /\ files' = files \cup {[id |-> r, upload |-> call[r].upload, at |-> ObjectKey(call[r].upload, r)]}
  /\ Goto(r, "inserted")
  /\ UNCHANGED <<session, chunkRow, chunk, objects, idem>>

\* The Get that ends CreateIndex: a statement of its own.
ReadBack(r) ==
  /\ call[r].pc = "inserted"
  /\ Goto(r, "indexed")
  /\ UNCHANGED <<session, chunkRow, chunk, objects, files, idem>>

\* Mutant: the session does not get the id of its file.
MarkCompleted_NoFile(r) ==
  /\ call[r].pc = "indexed"
  /\ session' = [session EXCEPT ![call[r].upload].state = "completed"]
  /\ Goto(r, "completed")
  /\ UNCHANGED <<chunkRow, chunk, objects, files, idem>>

\* UPDATE ... WHERE id = ?: whatever state the session has come to.
MarkCompleted(r) ==
  /\ call[r].pc = "indexed"
  /\ session' = [session EXCEPT ![call[r].upload] =
                   [state |-> "completed", profile |-> @.profile, file |-> r]]
  /\ Goto(r, "completed")
  /\ UNCHANGED <<chunkRow, chunk, objects, files, idem>>

RemoveChunks(r) ==
  /\ call[r].pc = "completed"
  /\ WithoutChunks(call[r].upload)
  /\ Goto(r, "recording")
  /\ UNCHANGED <<session, chunkRow, objects, files, idem>>

----------------------------------------------------------------------------

Next ==
  \E r \in Calls :
    \/ StartInit(r)
    \/ \E u \in Uploads : StartComplete(r, u) \/ StartAbort(r, u)
    \/ \E u \in Uploads, i \in Chunks, c \in {"good", "bad"} : StartChunk(r, u, i, c)
    \/ Reserve(r)
    \/ RecordAnswer(r)
    \/ InsertSession(r)
    \/ WriteChunk(r)
    \/ InsertChunk(r)
    \/ AbortChunks(r)
    \/ FindMissing(r)
    \/ ReadChunk(r)
    \/ StoreObject(r)
    \/ StoreUnanswered(r)
    \/ RejectObject(r)
    \/ CreateIndex(r)
    \/ ReadBack(r)
    \/ MarkCompleted(r)
    \/ RemoveChunks(r)
    \/ CallStops(r)

Spec == Init /\ [][Next]_vars

----------------------------------------------------------------------------
(* Properties.                                                             *)

\* Sessions, rows, records and calls have their shape, and a session names a
\* file exactly when some Complete has gone as far as its UPDATE.
TypeOK ==
  /\ session \in [Uploads -> [state : {"none", "uploading", "completed", "aborted"},
                              profile : Profiles \cup {None}, file : Calls \cup {None}]]
  /\ chunkRow \in [Uploads -> SUBSET Chunks]
  /\ chunk \in [Uploads -> [Chunks -> Contents]]
  /\ objects \subseteq [at : ObjectKeys, content : {"good", "bad"}]
  /\ files \subseteq [id : Calls, upload : Uploads, at : ObjectKeys]
  /\ idem \in [{"init", "complete"} ->
               [Keys -> [state : {"absent", "reserved", "completed"},
                         resource : Uploads \cup Calls \cup {None}]]]
  /\ call \in [Calls -> [pc : {"idle", "reserving", "working", "writing", "inserting", "aborting",
                               "reading", "stored", "inserted", "indexed", "completed", "recording", "done"},
                         op : Operations \cup {None}, upload : Uploads \cup {None},
                         key : Keys \cup {None}, index : 0..TotalChunks,
                         content : Contents, answer : Answers]]
  /\ \A u \in Uploads : session[u].state = "completed" => session[u].file # None

\* However often a client repeats Complete with one key, and wherever the calls
\* stop, the key makes at most one file.
OneFilePerKey ==
  \A f, g \in files : call[f.id].key # None /\ call[f.id].key = call[g.id].key => f = g

\* The Complete that inserted this row could not read it back, and deleted the
\* object: the one way in which a call loses the bytes of its own file.
DeletedUnread(f) == call[f.id].content = "absent"

\* Every other file that Complete has indexed keeps the bytes that Init declared:
\* no repeated, late or failing call replaces or deletes the object.
IndexedFilesHaveContent ==
  \A f \in files : DeletedUnread(f) \/ [at |-> f.at, content |-> "good"] \in objects

\* A Complete that answers with a file answers with one made from the upload it
\* was called for.
AnswersOwnUpload ==
  \A r \in Calls :
    call[r].op = "complete" /\ call[r].answer.kind = "ok" =>
      \E f \in files : f.id = call[r].answer.resource /\ f.upload = call[r].upload

Aborted(u) == \E r \in Calls : call[r].op = "abort" /\ call[r].upload = u

\* Chunks that were acknowledged are on disk until the file is indexed: a
\* Complete that stops half way can be repeated, unless a client aborts.
ChunksOutliveTheIndex ==
  \A r \in Calls :
    call[r].op = "chunk" /\ call[r].answer.kind = "ok" /\ ~ Aborted(call[r].upload) =>
      \/ chunk[call[r].upload][call[r].index] # "absent"
      \/ \E f \in files : f.upload = call[r].upload

============================================================================
