-------------------------------- MODULE Pool --------------------------------
(***************************************************************************)
(* The connection pool.  It has one connection (SetMaxOpenConns), so a call  *)
(* waits while another call has rows or a transaction open, and would wait   *)
(* for itself if it asked for a second connection.                          *)
(*                                                                         *)
(* A call is the sequence of what it does with the pool, for up to MaxItems  *)
(* rows in the loops; what it reads and writes is in the other modules.     *)
(***************************************************************************)
EXTENDS Naturals, Sequences, SequencesExt

CONSTANTS
  Callers,     \* HTTP calls and goroutines
  Operations,  \* what they do: some of the names below
  MaxItems,    \* rows a loop goes through (a bound)
  None

VARIABLES
  conn,   \* who has the connection
  caller  \* every caller: the rest of its operation

vars == <<conn, caller>>

----------------------------------------------------------------------------
(* What an operation does: "run" is a statement whose connection goes back   *)
(* at once; "open" makes rows or a transaction, which keep it until "close"; *)
(* "inside" is a statement of the open transaction; "io" is a call of a      *)
(* storage backend or of Telegram.                                          *)

Repeat(steps, n) == FlattenSeq([i \in 1..n |-> steps])

\* Rows that are read to a list and closed.
ReadAll == <<"open", "close">>

Transaction(n) == <<"open">> \o Repeat(<<"inside">>, n) \o <<"close">>

\* A bug for TLC to find: the object is deleted in the transaction.
PurgeFile_InTransaction == <<"run", "open", "io", "inside", "inside", "inside", "close">>

PurgeFile == <<"run", "io">> \o Transaction(3)

\* A bug for TLC to find: the rows stay open while the files are purged.
PurgeBatch_OpenRows(n) == <<"open">> \o Repeat(PurgeFile, n) \o <<"run", "close">>

PurgeBatch(n) == ReadAll \o Repeat(PurgeFile, n) \o <<"run">>

\* Two lists of descendants, an item and an UPDATE for each.
DeleteFolder(n) == Transaction(4 + 2 * n)

RestoreBatch(n) == Transaction(3 + 2 * n)

\* The items of a batch are read with s.db while its row is being read.
TrashList(n) == <<"open">> \o Repeat(ReadAll, n) \o <<"close">>

\* The Get comes after the commit.
Lease == Transaction(2) \o <<"run">>

\* Get, Begin, repo.Get; copy and Put; SwitchStorage; Delete; Finish.
Run == <<"run", "run", "run", "io", "io", "run", "io", "run">>

RunPending(n) == <<"run">> \o ReadAll \o Repeat(Run, n)

\* Get, Reserve, load, and load again; the chunks; Put with its job; CreateIndex,
\* the session, the key.
Complete == Repeat(<<"run">>, 4) \o ReadAll
              \o <<"run", "run", "run", "io", "run", "run">> \o Repeat(<<"run">>, 4)

\* Resolve, the file and the row of the post, the reply.
Delivery(n) == ReadAll \o Repeat(<<"run">>, n) \o Transaction(3) \o <<"io">>

\* Enabled, the batch, the file and its folder for every item.
GalleryList(n) == <<"run">> \o ReadAll \o Repeat(<<"run", "run">>, n)

\* Two SELECTs, the row, the object.
Download == <<"run", "run", "run", "io">>

\* Every configuration is decrypted between two rows.
LoadEnabled == ReadAll

Script(operation, n) ==
  CASE operation = "PurgeBatch"   -> PurgeBatch(n)
    [] operation = "DeleteFolder" -> DeleteFolder(n)
    [] operation = "RestoreBatch" -> RestoreBatch(n)
    [] operation = "TrashList"    -> TrashList(n)
    [] operation = "Lease"        -> Lease
    [] operation = "RunPending"   -> RunPending(n)
    [] operation = "Complete"     -> Complete
    [] operation = "Delivery"     -> Delivery(n)
    [] operation = "GalleryList"  -> GalleryList(n)
    [] operation = "Download"     -> Download
    [] operation = "LoadEnabled"  -> LoadEnabled

----------------------------------------------------------------------------

Init == conn = None /\ caller = [c \in Callers |-> <<>>]

Begins(c, operation, n) ==
  /\ caller[c] = <<>>
  /\ caller' = [caller EXCEPT ![c] = Script(operation, n)]
  /\ UNCHANGED conn

NextStep(c, step) == caller[c] # <<>> /\ Head(caller[c]) = step

Advance(c) == caller' = [caller EXCEPT ![c] = Tail(@)]

\* A statement, or a call of a backend.
Runs(c) ==
  /\ NextStep(c, "run") /\ conn = None
  /\ Advance(c) /\ UNCHANGED conn

Opens(c) ==
  /\ NextStep(c, "open") /\ conn = None
  /\ Advance(c) /\ conn' = c

Inside(c) ==
  /\ NextStep(c, "inside") /\ conn = c
  /\ Advance(c) /\ UNCHANGED conn

CallsBackend(c) ==
  /\ NextStep(c, "io")
  /\ Advance(c) /\ UNCHANGED conn

Closes(c) ==
  /\ NextStep(c, "close") /\ conn = c
  /\ Advance(c) /\ conn' = None

\* A bug for TLC to find: an error leaves the rows open.
Fails_KeepsRows(c) ==
  /\ caller[c] # <<>>
  /\ caller' = [caller EXCEPT ![c] = <<>>]
  /\ UNCHANGED conn

\* An error, or the end of the context: rows and transactions are closed by the
\* deferred calls.
Fails(c) ==
  /\ caller[c] # <<>>
  /\ caller' = [caller EXCEPT ![c] = <<>>]
  /\ conn' = IF conn = c THEN None ELSE conn

Next ==
  \E c \in Callers :
    \/ \E operation \in Operations, n \in 0..MaxItems : Begins(c, operation, n)
    \/ Runs(c) \/ Opens(c) \/ Inside(c) \/ CallsBackend(c) \/ Closes(c) \/ Fails(c)

Spec == Init /\ [][Next]_vars

----------------------------------------------------------------------------
(* Properties.                                                             *)

\* No call that has the connection needs another one to go on: it would wait
\* for itself, and everybody else for it.
NoSelfWait ==
  \A c \in Callers : conn = c => ~ NextStep(c, "run") /\ ~ NextStep(c, "open")

\* Nobody keeps the only connection while a backend or Telegram is called: a
\* slow upload must not hold up the whole server.
FreeDuringIO == \A c \in Callers : conn = c => ~ NextStep(c, "io")

\* The connection is held by a call that has still to give it back.
TypeOK ==
  /\ conn \in Callers \cup {None}
  /\ conn # None => Contains(caller[conn], "close")
  /\ \A c \in Callers :
       ToSet(caller[c]) \subseteq {"run", "open", "inside", "io", "close"}

=============================================================================
