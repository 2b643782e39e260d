# CList in TLA+

CList is a self-hosted file list: a Go server keeps an index of files and folders
in SQLite and the bytes of the files in storage backends, a directory or messages
of a Telegram channel. This directory specifies the parts of it in which several
actors change the same state, checks them with TLC on small instances, and proves
with TLAPS, for any instance, every safety property that a passing run checks: what
must hold of the bytes of a file, of repeated uploads, of the trash, of the leases of
jobs, of channel posts, sessions and passwords, of the data directory, of lists,
downloads and the database connection. What is left to TLC alone is liveness.

| file | contents |
|---|---|
| `FileIndex.tla` | the abstract specification: what a file promises to whoever does not see migrations |
| `FileStorage.tla` | rows, objects, migration jobs, purges and crashes: who may move or delete the bytes of a file |
| `FileStorageProofs.tla` | the inductive invariants of `FileStorage`, its theorems, and the refinement of `FileIndex` |
| `Uploads.tla`, `UploadsProofs.tla` | chunked uploads and the idempotency keys that make their calls repeatable |
| `Jobs.tla`, `JobsProofs.tla` | the job table as a queue with leases: workers, `Orchestrator.Put`, `ResolveUncertain` |
| `TrashTree.tla`, `TrashTreeProofs.tla` | the folder tree, trash batches, moves, restores and purges |
| `Access.tla`, `AccessProofs.tla` | first-time setup, logins and their throttle, sessions, recovery keys |
| `Webhook.tla` | channel posts that become files and are replied to |
| `DataDir.tla` | master key, database, storage profiles, the start, backup and restore |
| `Listing.tla`, `ListingProofs.tla` | the list of files and the gallery, page by page, while files and folders change |
| `Downloads.tla`, `DownloadsProofs.tla` | downloads, previews and ranges over `FileStorage`, and the passwords in front of them |
| `Pool.tla` | what every operation does with the single database connection |
| `Server.tla`, `ServerProofs.tla` | the parts that share no state side by side, and their properties as theorems of the whole |
| `MC*.tla`, `*.cfg` | the instances that TLC checks |
| `PROJECT.json` | runs, mutants, the lines every definition stands for, hazards, findings, theorems |

## The system

### Components, their state and their operations

- **Files and folders** (`internal/files`, `internal/db/repository`). Tables `files`
  and `folders`: a state (`active`, `trashed`, `purged`), a parent, an owner, a
  visibility, and for a file the profile and key of its object. Operations: create,
  rename, move, set visibility, list. Right when the folders form a forest and a
  name is used once in a folder (a unique index sees to the second).
- **Trash** (`internal/trash`). `trash_batches` and `trash_items`; `DeleteFile`,
  `DeleteFolder` (with everything below, by a recursive query) and `RestoreBatch`
  are transactions; `PurgeFile` and `PurgeBatch` are not, since they delete objects
  on a backend. Right when everything trashed can be taken out again and nothing
  purged comes back.
- **Migrations** (`internal/migration`). Rows of `jobs`; `Start` queues one, a
  goroutine of `main.go` calls `RunPending` every two seconds, which recovers
  expired jobs and runs up to eight of them one after the other: copy to a temporary
  file, store on the target, switch the row, delete the source. Right when the row
  always points to the bytes.
- **Uploads** (`internal/uploads`, `api/upload_handlers.go`,
  `api/compat_handlers.go`). `upload_sessions`, `upload_chunks`, a directory of
  chunk files; `Init`, `PutChunk`, `Get`, `Complete`, `Abort`. Right when a repeated
  call neither makes a second file nor spoils the first.
- **Idempotency keys** (`db/repository/idempotency.go`). `Get`, `Reserve`, `Complete`.
- **Jobs** (`internal/jobs`). `Enqueue`, `Begin`, `Lease`, `Heartbeat`, `Finish`,
  `RecoverExpired`, `Requeue`, and `Worker.RunOnce`. Right when a job has one runner
  while its lease holds, and ends once.
- **Orchestrator** (`storage/orchestrator.go`). `Put` wraps a store in a job;
  `ResolveUncertain` is the administrator's decision on a send of unknown result.
- **Backends** (`storage/local`, `storage/telegram`, `storage/streaming`), the
  **registry** that finds them and the **profiles** that configure them
  (`storage_profiles`, with configurations encrypted by the master key). Right when
  every enabled profile can be reached and exactly one is the default.
- **Webhook** (`internal/webhook`). `telegram_messages`; a channel post becomes a
  file and is answered with a link. Right when a post that is delivered again makes
  no second file and no second reply.
- **Gallery, downloads, previews**: they change no state, but they read it in several
  statements: visibility inherited from the folders, pages behind a cursor, the row
  before the object, a range of its bytes. Right when what they show was so at some
  instant, and is complete.
- **Authentication** (`internal/auth`): the administrator's settings, sessions,
  guests, vaults with recovery keys, API tokens, passwords of files and pages, and a
  counter of failed logins in memory. Right when a session lives no longer than its
  secret, and the setup happens once.
- **Master key** (`internal/crypto`), **database** opening and schema migrations
  (`internal/db`), **backup and restore** commands (`cmd/clist`). Right when key and
  database fit, whatever was cut off.
- Health, audit, configuration, HTTP routing, and the **web** front end.

### How they interact

All state is in one SQLite file, the chunk directory and the backends. Handlers and
the migration goroutine call the services directly; there are no queues in memory
and no callbacks. The pool has **one** connection (`db/db.go`), so one SQL statement,
or one transaction, is atomic, and everything a handler does in several statements,
or outside SQLite, can be interleaved with every other handler. A handler runs under
the request's context: when the client hangs up every later statement and backend
call fails, while plain file operations still run. Nothing is undone then.

### What is hard

Steps of two handlers between two statements (purge and restore, two moves, two
Completes); a crash between the switch of a row and the end of its job; leases that
run out under a live runner; a send whose answer is lost; calls that clients repeat
and posts that Telegram repeats; conditions read once and used later; lists read in
several statements; files cut off by a crash; the only connection, when it is asked
for twice. `PROJECT.json` lists every hazard at its line
with the properties that watch it, or the reason why none does.

## The modules

The definitions bear the names of the code where there is one; `PROJECT.json` gives
for each the lines it stands for. Names, owners, sizes and times are abstracted: an
operation that fails for one of them changes nothing and is left out, and a lease or
a backoff is "not yet over" or "over".

### FileIndex

The abstract specification. A file is active, trashed or purged, and its
bytes are there or not; `doomed` are the files a purge has taken up. There are no
profiles, keys, jobs or runners: `Lose` is the only action that takes bytes away, and
only from a doomed file. `FileStorage` maps its state to these three
(`State`, `Present`, `Doomed`) and is shown to implement it
(`ImplementsFileIndex == Index!Spec`): a migration in all its steps is invisible,
except that the copy of a migration may bring back bytes a purge has deleted
(`Rescue`).

### FileStorage

`row[f]` is the row of `files`: state, profile, key. `objects` is what the backends
hold, `[at, content]`, where the content is the file whose bytes they are or
`Damaged`. A local backend stores under the key it is asked for (`objects/<upload>`,
`migrations/<job>`), a Telegram backend answers with a message of its own for every
send (`PutLocation`). `jobs` are the migrations, `runner` is the goroutine with the
local variables of `Run`, `purger[u]` is a purge request. `purgeAsked` and `restarts`
are history and bound.

`Run` is the actions `RunBegin`, `RunLoad`, `RunCopy`, `RunPut`, `RunSwitch`,
`RunDeleteSource`, `RunSucceed`, and for its error paths `RunFail`, `RunReject`,
`RunPutUnanswered`, `RunCleanupPending`. Each is one statement or one backend call,
and `Finish` is part of the step it follows when nothing observable is between them.
The runner works under `context.Background()`; its own statements are taken to
succeed. A purge may fail or be abandoned at every step. `Restart` is a crash:
rows and objects stay, goroutines and requests are gone. `Start` reads the row and
inserts the job in one step; a change of the row in between leads to a state that
the same change just after the insert leads to.

Files are those that came from an upload: a file of the webhook has no hash, so `Run`
cannot compare one.

### Uploads

Every HTTP call is a process `call[r]`. `GetKey`, `Reserve` and `RecordAnswer` are the
idempotency keys; `InsertSession` is `Init`; `StartChunk`, `WriteChunk`, `InsertChunk`
are `PutChunk`; `StartAbort`, `AbortChunks` are `Abort`; `FindMissing`, `ReadChunk`
(one chunk at a time, as `chunkSequence` opens them), `StoreObject`, `RejectObject`,
`CreateIndex`, `MarkCompleted`, `RemoveChunks` are `Complete`. `CallStops` may end a
call at any step: it stands for a failed statement, a client that hung up, and, for
all calls at once, a crash. A chunk is `good` (the part the client declared) or `bad`.
A file has the id of the call that created it.

`FileService.CreateIndex` is two statements: the INSERT (`CreateIndex`) and the SELECT
that returns the row (`ReadBack`, `files/service.go:101`). Complete takes an error of
the second for an error of the first and deletes the object of a row that is committed
and active: `RejectObject` at `inserted`. This is a defect that needs one call and no
overlap; `IndexedFilesHaveContent` excepts these files by name (`DeletedUnread`), and
only these.

### Jobs

`job[j]` is a row: state, lease, and whether its backoff is over. `WorkJobs` have a
handler, a job of `PutCalls` belongs to a call of `Put`. `RunOnce` is `RunRecover`,
`RunLease`, `Heartbeat`, `HandlerReturns`, `RunFinish` (or `RunUnhandled`); the
heartbeat is a goroutine of its own, which may tick until the handler's end is known.
`main.go` starts no `Worker` and no route calls `ResolveUncertain`; the module has
them as the package offers them, and `JobsHangUp.cfg` leaves them out.

### TrashTree

`folder`, `file` and `batch` are the tables; `mover[m]` is a `FolderService.Move`
between its SELECTs, `purger[p]` a `PurgeBatch` between its files. `Descendants(d)`
is the result of the recursive query of `DeleteFolder`: the least set that holds `d`
and, with a folder, its active children. (With a cycle the query would not end;
`Acyclic` says that there is none.) What a purge does to an object is
`FileStorage`'s matter; the two modules share the actions on rows.

### Access

`admin` are the two settings of the account, `vault[v]` a recovery key, `session[s]` a
row of `sessions`, `failures[a]` the throttle's entry in memory, `request[r]` an HTTP
call between two steps. `Initialize`, `Verify`, `RecordFailure`, `ClearFailures`,
`NewSession`, `VerifyOld`, `ChangePassword`, `Recover`, `RevokeVault` are each one
statement, transaction or critical section; hashing lies between them. `late` in a
session records that its secret had changed before it was written: the code cannot
see that, and `SessionsFollowTheirSecret` excepts these sessions and no others.
`guesses` is history. `Restart` forgets the throttle.

### Webhook

`message[m]` is the row of `telegram_messages` that recognises a post, `file[f]` a file
that a post made, `delivery[d]` a call of `ServeHTTP`, `post` what Telegram still wants
to deliver, `replies` what the channel has seen. `Resolve`, `Recognise`, `Insert`,
`Reply` are the handler. A delivery fails at any step, before or after its effect
(`DeliveryFails`), and Telegram then delivers again; the answer itself may be lost.
`Trash`, `Restore` and `Purge` are what else happens to the file.

### DataDir

`key` is the file of the master key (`Short`: it exists without its content), `db` the
database (`Part`: cut off) with its schema version, profiles and the profiles that
hold files, `server` the process with its program counter and registry, `create` a
`ProfileService.Create` between its INSERT and the registration, `tool` a backup or
restore command, `backup` its output. `ServerDies` and `ToolDies` cut everything off
between any two steps. A restore that is killed while it copies the database leaves a
file that SQLite refuses (`Part`), an empty one, which `Open` makes a new database of,
or one that has lost its last pages and opens all the same (`Remains`): `Open` sets
PRAGMAs and pings, it checks no integrity. In the last case rows of profiles and of
files are missing (`lost`); that rows of `schema_migrations` may be missing too, and
that a query may meet the damage later, is left out. A restore runs while no start does: the code does not check
this, so `RestoreBegin` and `ReadKey` state it as an assumption about the operator.

### Listing

`client` pages through the files of the manager or through the gallery, `page` is the
request between two statements. `FilesPage` is the one statement of
`FileService.List`; the gallery is `ListBatch`, then for every file
`ResolveVisibility` and one `WalkUp` per folder, then `GalleryPage`. Between them
files are trashed, restored, purged and moved, and visibilities change, `MaxChanges`
times. `steady`, `seen`, `amid` and `torn` are history: the files that were to be listed
all the time; those that were visible at some instant of their own walk, from the read
of their row to the end of the climb; whether a change has fallen into the walk that
goes on; and the files into whose walk two or more have fallen.

### Downloads

Extends `FileStorage`: its steps go on while `call[c]` asks for a password
(`StartDownload`, `CheckSession`), reads the row (`GetFile`) and opens the object
(`Download`, `Preview`, `PreviewDocx`). The preview of a DOCX reads up to `DocxLimit`
bytes and one more, fails for a longer document and for what is no document, and
serves the text of what it has read; how long that text is, and which limits inside
the archive refuse it, is left out. `Parsed` is `parseRange`, `OpenLocal` and `OpenTelegram` are
the backends' ideas of a range; `ServedIsExact` compares what they give with the bytes
the header names, for every header and every size up to `MaxSize`. `secret` and
`guest` are the passwords of files and of the gallery, and the sessions they open.

### Pool

An operation is the sequence of what it does with the pool (`"run"`, `"open"`,
`"inside"`, `"close"`, `"io"`), translated from its statements, its transactions and
its `rows` that are open; `conn` is who has the one connection. What the statements
read and write is in the other modules; here the question is who waits for whom.

### Server

Instantiates the parts that share no state: `Jobs` (which it extends), `Access`,
`Webhook`, `DataDir`, `Listing`, `Downloads` twice (`Download` with migrations and
purges, `Gate` with passwords and the gallery) and `Pool`. Since no step of one can
enable, disable or disturb a step of another, an interleaving of them shows nothing
that their own behaviours do not; a behaviour is therefore one `part`, and the others
stay as they start (`AtRest` picks one start for those that have several). The
properties of the parts stand here again, each for the behaviours of its part, and
so do the assumptions on their constants, which TLC evaluates on the run.

## What TLC checks

| run | instance | question |
|---|---|---|
| `file_storage` | 1 file, 2 profiles, 2 jobs, 1 purge, 1 crash | are bytes lost only to a purge, or a rerun; does a clean migration leave one copy; does every migration end |
| `file_storage_no_crash` | 2 files, 2 jobs, 2 purges, no crash | without a crash only a purge of that very file loses its bytes; no shared objects; purged is final; is a migration invisible (`FileIndex`) |
| `uploads` | 2 uploads of 1 chunk, one local, one on Telegram, 5 calls, a key each | does a repeated call make one file, of its own upload, whose bytes stay; are chunks kept until then |
| `trash_tree` | 3 folders, 1 file, 2 batches, 1 move, 1 purge | forest, complete batches, purged is final, folders go whole |
| `server` | the parts below, each in behaviours of its own | leases and ends of jobs; setup, sessions, throttle; posts; start, backup, restore, profiles; pages; ranges and passwords; the connection |
| `file_storage_rerun` (violated) | 1 file, 1 job, 1 crash | is the source safe when a migration is interrupted |
| `file_storage_purge_race` (violated) | 1 file, 1 purge, no jobs | has an active file its bytes |
| `uploads_compat` (violated) | 2 uploads, 1 key | is a Complete answered with its own upload |
| `uploads_two_completes` (violated) | 1 upload, 2 keys | do the bytes of an indexed file stay |
| `jobs_hang_up` (violated) | 1 Put, nobody else | is a send of unknown result left to the administrator |
| `trash_tree_two_moves` (violated) | 2 folders, 2 moves | do the folders stay a forest |
| `trash_list` (violated) | 2 callers, 2 rows | does the list of the trash get the connection it needs |

**The run `server`** checks `Server`; `MCServer` adds only that the workers are alike.
The instances are

| part | instance |
|---|---|
| `jobs` | 2 worker jobs, 1 Put, 2 workers, 1 administrator, 1 crash |
| `manage` | 2 calls at once, 1 session, 1 account, 2 passwords, 1 vault, 2 wrong passwords allowed |
| `hook` | 2 documents and a post that is none, 2 files, 2 deliveries at once |
| `data` | 2 keys, 2 schema scripts, 1 profile beside `local-default`; deaths without limit |
| `paging` | 3 files, a folder in a folder, pages of 1, 2 changes |
| `download` | 1 file of 0 to 2 bytes, DOCX up to 1, a local, a Telegram and a streaming profile, 1 migration, 1 purge, 1 call |
| `gate` | the same file without migrations, and the gallery, 1 password, 1 guest session |
| `connection` | 2 callers, 2 rows in every loop, all operations but the list of the trash |

It has 1 166 642 distinct states. `Downloads` composes reading with the whole of
`FileStorage`; `TrashTree` and `Uploads` are larger and have runs of their own.

**Bounds.** Every interaction in the code is between two actors at a time, a pair of
requests, or a request and the runner, over one file, folder or key; the instances
give every pair room to meet, and a second file where one could be mistaken for
another. Two jobs are what it takes to migrate a file away and back, one crash what
it takes to run a job twice. One chunk is enough for
an upload to be missing it, replaced by a bad one or read while it is removed. Five
calls are Init, the chunk, two Completes and an Abort or a second chunk of one upload,
or Init, the chunk and a Complete of one, with Init and a Complete of the other that
must not be answered with the first one's file. The key of Init is the same mechanism
as that of Complete; the instance sends Init without one, the theorems hold for any
`InitKeys`.
Three folders are the least with a descendant that is not a child. Two
deliveries overlap, and a third follows any of them; two keys are the one that fits
and one that does not; two scripts leave a schema that is half applied. Three files
and pages of one have a first page, a middle and a last one; a folder in a folder
makes visibility inherited twice. A file of 0, 1 or 2 bytes has an empty range, a
range of one byte at either end and a proper part. Unbounded
counters (`MaxJobs`, `MaxRestarts`, `MaxBatches`, `MaxChanges`, the number of `Calls`)
are constants named in the modules. The instances can be used up, since their
files, jobs or posts are finitely many, so the runs switch the deadlock check off.

**Fairness.** Only `EveryMigrationEnds` needs it. `WF(~ AtRemoteCall /\ Running)`: the
ticker of `main.go` keeps calling `RunPending`, which goes through its queue, and a
statement or a file operation of `Run` returns (a statement waits for the only
connection, which nobody keeps while a backend answers: `FreeDuringIO`). A call of a
remote backend need not return: `Run` works under `context.Background()`
(`main.go:137-146`), the Telegram and streaming backends are made without an HTTP
client of their own (`main.go:108,114`), and `http.DefaultClient` has no timeout
(`client.go:24-25`, `streaming.go:54-56`). So nothing is assumed of such a step, and
the property says: every queued migration ends, or the runner is at one remote call for
ever (`<>[]AtRemoteCall`) and no migration runs any more. `WF(LeaseExpires(j))`: time
passes. No request is fair: clients come and go as they like.

**The violated properties** are statements of the repository's documents or of its
own error values that the code does not keep. Each is a finding in `PROJECT.json`
with the quotation, and each has a passing sibling that says what does hold:
`OnlyPurgeOrRerunLosesContent` names the exception of the rerun,
`OnlyPurgeLosesContent` holds without crashes, `IndexedFilesHaveContent` and
`AnswersOwnUpload` hold for clients that use a key of its own for every upload, `Acyclic` holds for
one move at a time, `UncertainWaits` holds once a job is uncertain, and `NoSelfWait`
holds in the run `server` for every operation but the list of the trash.

**Exceptions written into the properties** are behaviours the code has and no
document excludes: a session whose login had read the secret before it changed
outlives the change (`late`); a guest's session outlives a change of the password that
opened it; the walk of one file up its folders, during which more than one thing
changes, may see a tree that never was (`torn`: that file, and no other, is excepted);
jobs whose lease ran out under a live runner lose the guarantees of the lease; a file
whose row could not be read back after its INSERT has lost its object
(`DeletedUnread`); a default profile may be missing from a database of which a killed
restore has lost rows (`lost`), and that they are lost is noticed by nobody; what is
active below a subfolder that is in the trash already stays active when the folder
above it is deleted (`FoldersGoWhole` speaks of what is reached through active
folders, as the recursive query does).

**Mutants.** Every property of a passing run comes with a mutant of a modelled
definition (`<Name>_<Change>`, just before the original): a plausible bug for which
TLC finds the property violated.

## What is proved

`FileStorageProofs` proves, for any number of files, profiles, jobs, requests and
crashes, and for any subset of local profiles:

- `TypeCorrect`: `Spec => []TypeOK`;
- `ContentSafe`: `Spec => []OnlyPurgeOrRerunLosesContent`;
- `ObjectsUnshared`: `Spec => []NoSharedObject`;
- `PurgedStays`: `Spec => PurgedIsFinal`.

The only assumptions are `FileStorageAssumption` (naturals are naturals, `None` and
`Damaged` are no file, local profiles are profiles) and `KeysAssumption` (`None` is no
storage key).

`OnlyPurgeOrRerunLosesContent` is not inductive: nothing in it says that the place a
purge or the runner is about to delete belongs to its own file, or that the new place
differs from the old. `IInv` adds

- `KeysOwned`: every key has one owner, the file whose upload or migration made it,
  and rows, purges and the runner hold only keys their file owns; so deleting for one
  file cannot hurt another;
- `EarlierKeys`: while the runner has not yet stored, every key in use is from an
  earlier attempt; only a local backend gives the key of an earlier attempt again
  (`RerunOntoLocal`), so otherwise `PlacesDiffer`;
- `RowFollows` and `TargetHolds`: before the switch the row is at the source, after it
  at the target, which holds the verified bytes;
- `RunnerBusy`, `PurgersBusy`, `RunnerPlaces`, `JobsFresh`: the local variables fit
  the program counters.

There is one lemma per action (`TrashStep` ... `RestartStep`), `StepHolds` collects
them and `Invariance` is the temporal step. `RowsHold`, the last conjunct, is the
property itself.

- `CopiesTidy`: `Spec => []SuccessLeavesOneCopy`. `CopiesInv` adds to `IInv` what is
  missing for it. A file is `Tidy` while no purge has asked for it and each of its
  migrations waits for its first attempt, is on it, or has succeeded with it. A tidy
  file has its bytes where its row says and, between Put and the deletion of the
  source, at the other end of its migration, nowhere else (`OneCopy`); every other
  object of a file comes from a failure, a rerun or a purge, which make it untidy for
  good. `Marked` and `Retried` tell that they do.

Two theorems assume `MaxRestarts = 0`:

- `ImplementsIndex`: `Spec => ImplementsFileIndex`, the refinement;
- `PurgeOnlyLoses`: `Spec => []OnlyPurgeLosesContent`.

A crash is what makes both false (`file_storage_rerun`), so the assumption cannot go.
`CInv` adds to `CopiesInv` that a running job is the runner's and on its first attempt
(`Once`), so that no rerun excuses a loss. Every action then maps to a step of
`FileIndex` or to a stutter (`StepSeen`).

`UploadsProofs` proves, for any number of uploads, chunks, calls and keys, from
`UploadsAssumption`:

- `Types`: `Spec => []TypeOK`;
- `KeysMakeOneFile`: `Spec => []OneFilePerKey`;
- `ChunksOutlive`: `Spec => []ChunksOutliveTheIndex`;
- `AnswersAreOwn`: `Spec => []AnswersOwnUpload`, assuming `KeysTellUploads`, that no key
  is used for two uploads; `uploads_compat` shows what happens otherwise;
- `FilesKeepContent`: `Spec => []IndexedFilesHaveContent`, assuming `OneKeyEach`, that an
  upload is completed with one key; `uploads_two_completes` shows what happens
  otherwise. The files of `DeletedUnread` are excepted by the property itself.

`OneFilePerKey` needs to know that at most one call is past `Reserve` with a key, that
nobody is while the key is absent, and that a file made with a key belongs to the call
that holds it (`KeysHeld`); for that, that files belong to calls that are past
`CreateIndex` (`FilesFit`) and that program counters fit the operation (`CallsFit`).
With one key per upload the call that reads the chunks is alone with the object of
its upload (lemma `Alone`), so the object it has stored is there until it is indexed
(`ObjectsHeld`) and nobody overwrites or rejects it later.

`TrashTreeProofs` proves, for any number of folders, files, batches, moves and purges,
from `TrashTreeAssumption`:

- `Types`: `Spec => []TypeOK`;
- `TrashIsListed`: `Spec => []TrashedIsListed`;
- `PurgedForGood`: `Spec => PurgedStays`;
- `FoldersGoTogether`: `Spec => FoldersGoWhole` (what the recursive query finds is closed
  under active children, `GoesWhole`, and hangs together below the deleted folder,
  `DescendantsHang`);
- `TreeStaysATree`: `Spec => []Acyclic`, assuming `OneMover`, that moves of folders are
  made one at a time; `trash_tree_two_moves` shows what happens otherwise.

`TInv` says that what is in the trash is in exactly one open batch and what is not is
in none (`Listed`), and that parents exist (`Rooted`). For the tree, a move that is
walking up carries the set of folders it has passed (`Walked`): from the new parent
on, every folder in it has its parent in the set, at the root or where the walk
stands, and the folder to be moved is not among them; what else happens meanwhile
gives parents to new folders only or takes them away, which keeps this true. When the
walk reaches the root, hanging the folder below the new parent makes no cycle.

`AccessProofs` proves the properties of `Access`, for any number of calls, sessions,
accounts, passwords and vaults and any limit, from `Bounds` (the calls are finitely
many and the limit is positive) and `Distinct` (`None` is neither an account nor a scope). A call
that has verified a password acts for the account that is stored (`Acting`), and live
sessions belong to it (`OwnSessions`). For the throttle, the wrong passwords that have
been tried are at most those counted and those of the calls that are yet to count
(`Throttled`), and these are at most all the other calls.

`JobsProofs` proves, for any number of jobs, workers, calls of `Put`, administrators
and crashes, from `JobsAssumption` (jobs of workers and of `Put` are told apart):

- `TypeCorrect`: `Spec => []TypeOK`;
- `LeaseExcludes`: `Spec => []OneRunnerPerLease`;
- `UncertainStays`: `Spec => UncertainWaits`;
- `FinishedStays`: `Spec => FinishedOnce`, assuming `OneAdmin`, administrators who
  resolve one at a time. Of two who both find a job uncertain, the later one
  replaces what the earlier one said, and a worker may hold the job in between; the
  run `server` has one.

`OneRunnerPerLease` needs to know why a job that is held is never offered again. For
jobs whose lease never ran out, `IInv` adds: recoveries take back only jobs on record
as expired (`LeasesRanOut`); a job that is held is running or closed (`HeldIsBegun`);
a job that a `Put` is sending is running (`SendsRun`); a job becomes uncertain by the
last statement of its `Put` (`UncertainPut`), so an administrator works on jobs whose
`Put` is over (`AdminsHave`) and can queue only one that nobody holds. `AloneResolves`
is what one administrator at a time adds. `RowChanges` says which statements can
change a row, and the two action properties follow from it.

`ListingProofs` proves the invariant of lists in pages, for any number of files, any
size of the page and any number of changes, from `Bounds` (public ids are positive and
finitely many, a page holds a file, two folders that are not the root):
`ListInv` is inductive (`ListStarts`, `ListStep`) and gives the properties
(`ListSafe`). The client's items, the items of the page in the making and the batch
still to be decided are ascending, one after another (`Order`); up to the cursor,
whatever was to be listed all the time is in one of the three (`Whole`). A walk up the
folders that has come half way would give the answer of the folder it has reached
(`Walk`), which is so as long as at most one change falls into that walk: then either
the folders passed or those ahead are as they were when the walk began. Changes between
walks, or in the walks of other files, disturb neither.

`DownloadsProofs` builds on `FileStorageProofs` and shows, with `MaxRestarts = 0` (its
instances in `Server` have no crashes), that `DInv` is inductive for any number of
files, calls, migrations, purges, gates, sessions and limits. What a call has read of a row may
be old when it opens the object. That does no harm: a place that a row has named is
never put to again (`Settled`, from the owners and ages of keys in `IInv`), so what
is found there, if anything, is the file's own (`OnlyOf`, `PlacesClean`). A call that
finds nothing has an old row, or its file was asked for by a purge. For the passwords,
sessions are opened with the password that was set (`Earned`), and a call that was
asked for one carries such a session of its own gate (`Admitted`).

`ServerProofs` states the properties of the run `server` for the whole,
`ServerSpec`:

| part | theorems |
|---|---|
| `manage` | `SessionsFollow`, `GuessesStayBounded`, `OneAdministrator` |
| `hook` | `PostsMakeOneFile`, `PostsGetOneReply`, `AnswersAreTrue` |
| `data` | `ServesReadableData`, `EnabledAreReachable`, `DefaultIsOne`, `PairsAreSound` |
| `paging` | `PagingMissesNothing`, `GalleryShowsTheVisible` |
| `download`, `gate` | `ServesExactBytes`, `ExplainsWhatIsMissing`, `AdmitsGuests` |
| `connection` | `NobodyWaitsForItself`, `BackendsKeepNoConnection` |
| all | `PartsKeepShape` |

(The properties of the part `jobs` are the theorems of `JobsProofs`.) The assumptions
are those of `Server`: `ServerAssumption`, `DataAssumption`, `PagingAssumption`,
`DownloadsAssumption`, `PoolAssumption`. They say that `None` and the marks of cut-off
files are no values, that sets that are counted are finite, and which limits are
positive. `ServerStep` shows that a step of the server is, for the variables of each
part, a step of that part or a stutter. So the invariants of `AccessProofs`,
`ListingProofs` and `DownloadsProofs`, taken by instances with the server's constants
and variables, hold here. Three parts have their invariant in this module:

- `HookInv`: before the row of a post in `telegram_messages` there is no file, no reply
  and nobody about to reply; after it there is a file and at most one delivery that
  may reply (`RowFirst`, `Delivered`, `OneReplier`).
- `DataInv`: every database, the backup's as well, is what scripts and
  `ProfileService` can make of one, or what a killed restore leaves of such a one
  (`AllWellMade`); from the step on that gives it to
  the server, the key is the one on disk, and what the server serves is in its
  registry (`ServerFits`); a backup in progress is of a directory whose key does not
  change, and a restore has the directory for itself until it has written the key
  (`ToolFits`).
- `PoolInv`: the script of each of the ten operations, for any number of rows in its
  loops, asks for the connection exactly when its step before has left it free
  (`WholeScript`), and so does what is left of it (`Keeps`). The list of the trash is
  not among the ten, `PoolAssumption` excludes it: `trash_list` shows that it waits for
  itself.

A note on induction: the library's induction theorems cannot be used here, since they
take operators as parameters. Where the proofs need it, they take a least
counterexample instead (`Least`, from `WFMin`): for the order of a batch
(`OrderExists`) and for the concatenated scripts of `Pool` (`FlattenExists`).

**Only model-checked:** the liveness property `EveryMigrationEnds` of `FileStorage`
(liveness under fairness is out of the prover's reach), and that the violated
properties are violated. What holds in `FileStorage` after crashes is proved with the
exception of reruns only, and the refinement and the downloads without crashes, since
otherwise they are false or not checked either. The model leaves out what the section
below lists, and no proof is about that.

## The plan

Done: all modules, and every safety property of the passing runs as a theorem.

Next, in this order:

1. `Downloads` with crashes: after one, `MissingIsExplained` needs the exception of the
   reruns, as `OnlyPurgeOrRerunLosesContent` has it. First as a run, then as a theorem.
2. The refinement of `FileIndex` with crashes, for an abstract specification in which
   a rerun onto a local backend may lose bytes.
3. The theorems that assume one key per upload or one mover, from the weaker
   assumption that only overlapping calls are so restricted.
4. A deadline for the calls of remote backends, should the code get one: `EveryMigrationEnds`
   then holds without its first disjunct.
5. A document or a test that says what a key that stays reserved after a failed
   Complete should do; the model can then state it.

## Not modelled

- Health, audit and configuration: reads, an insert that nothing reads, environment
  variables. HTTP routing and middleware: no state; it decided which handlers the
  modules have.
- Authentication beyond `Access` and `Downloads`: API tokens and CSRF tokens are looked
  up and compared; the scope `home` opens sessions and protects no route; hashing is
  the comparison of values.
- `Rename` of files and folders, and the list of folders, which is the loop of the
  list of files. Who owns what: an operation without the right fails and changes
  nothing.
- The goroutine that streams the body of a Put through a pipe (it ends with the
  request), the HTTP encoding of Telegram and its retry delays.
- Posts that are not documents and are delivered again: they are answered with an
  error each time and change nothing.
- What SQLite does with a damaged database that opens, beyond missing rows.
- `LoadEnabled` registering `local-default` a second time, which puts the same backend
  in the same place; `VACUUM INTO` cut off in the middle, which leaves an output
  without a key, and restore refuses that.
- A start that overlaps a restore: assumed away, see `DataDir`.
- `file_secrets` as the purge leaves them in `FileStorage` (they are in `Downloads`),
  `telegram_messages` there (they are in `Webhook`) and `last_error`.
- A job in `cleanup_pending`, and a `storage.put` job in `retry_wait`: no code takes them
  up, so there is no step to model; `PROJECT.json` lists both as hazards.
- The front end, except for the key it sends with every Complete.
