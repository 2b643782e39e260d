---------------------------- MODULE FileStorage ----------------------------
(***************************************************************************)
(* Where the bytes of a file are, and who may move or delete them.         *)
(*                                                                         *)
(* A row of the table `files` names a storage profile and a key; the bytes *)
(* are an object of that profile's backend (a directory, or messages of a  *)
(* Telegram channel).  Three kinds of actor touch both:                    *)
(*                                                                         *)
(*   - the trash: one SQLite transaction each, trashed <-> active;         *)
(*   - the migration runner: ONE goroutine that takes queued jobs in order *)
(*     and copies, switches and cleans up in separate steps;               *)
(*   - purge requests: HTTP handlers that read the row, delete the object  *)
(*     and then mark the row, in separate steps.                           *)
(*                                                                         *)
(* The connection pool has one connection, so one SQL statement, or one    *)
(* transaction, is one step; whatever a handler does in several statements *)
(* or on a backend is several steps, and the process may die between them. *)
(***************************************************************************)
EXTENDS Naturals, FiniteSets

CONSTANTS
  Files,          \* public ids of uploaded files
  Profiles,       \* storage profiles
  LocalProfiles,  \* those whose backend stores under the key it is given
  MaxJobs,        \* migration jobs the database may ever hold (a bound)
  BatchLimit,     \* jobs one RunPending takes (8 in the code)
  Requests,       \* concurrent purge requests
  MaxRestarts,    \* crashes of the process (a bound)
  None,           \* SQL NULL
  Damaged         \* the content of an object that a Put stored wrongly

ASSUME FileStorageAssumption ==
  /\ LocalProfiles \subseteq Profiles
  /\ MaxJobs \in Nat
  /\ BatchLimit \in Nat \ {0}
  /\ MaxRestarts \in Nat
  /\ None \notin Files \cup Profiles
  /\ Damaged \notin Files

VARIABLES
  row,         \* files: state, profile and key of every file
  objects,     \* what the backends hold: [at, content] records
  jobs,        \* jobs: the rows with kind = 'storage.migration'
  runner,      \* the migration goroutine: program counter and local variables
  purger,      \* every purge request: program counter and local variables
  purgeAsked,  \* history: the files some purge has called backend.Delete for
  restarts     \* crashes so far

vars == <<row, objects, jobs, runner, purger, purgeAsked, restarts>>

Jobs == 1..MaxJobs

----------------------------------------------------------------------------
(* Locations and objects.                                                  *)

\* The key an upload is stored under, whatever its backend calls it.
UploadKey(f) == [kind |-> "objects", id |-> f]

\* Mutant: one key for all the jobs.
MigrationKey_Shared(j) == [kind |-> "migrations", id |-> 1]

\* The key Run asks for.  A local backend uses it as it is.
MigrationKey(j) == [kind |-> "migrations", id |-> j]

\* The key a Telegram backend answers with: a message of its own for every
\* send, so it is named by the attempt that sent it.
MessageKey(j, a) == [kind |-> "message", id |-> <<j, a>>]

Keys == [kind : {"objects"}, id : Files]
          \cup [kind : {"migrations"}, id : Jobs]
          \cup [kind : {"message"}, id : Jobs \X Nat]

ASSUME KeysAssumption == None \notin Keys

Locations == [profile : Profiles, key : Keys]

At(f) == [profile |-> row[f].profile, key |-> row[f].key]

Whole(f, l) == [at |-> l, content |-> f]

\* Put replaces what the key held before; Delete of an absent key succeeds.
Stored(l, c) == {o \in objects : o.at # l} \cup {[at |-> l, content |-> c]}

Removed(l) == {o \in objects : o.at # l}

\* Where attempt a of job j stores on profile p.
PutLocation(p, j, a) ==
  [profile |-> p, key |-> IF p \in LocalProfiles THEN MigrationKey(j) ELSE MessageKey(j, a)]

----------------------------------------------------------------------------
(* Types and the initial state: every upload is over, nothing is queued.   *)

FileStates == {"active", "trashed", "purged"}

JobStates == {"none", "queued", "running", "retry_wait", "succeeded", "failed",
              "cleanup_pending"}

FinalStates == {"succeeded", "failed", "cleanup_pending"}

Rows == [state : FileStates, profile : Profiles, key : Keys \cup {None}]

JobRows == [state : JobStates, lease : {"none", "held", "expired"},
            attempts : Nat, file : Files \cup {None}, target : Profiles \cup {None}]

RunnerPCs == {"idle", "begun", "loaded", "copied", "stored", "switched", "cleaned"}

IdleRunner == [pc |-> "idle", queue |-> {}, job |-> None, source |-> None,
               target |-> None, verified |-> FALSE]

IdlePurger == [pc |-> "idle", file |-> None, at |-> None]

Init ==
  /\ \E p \in [Files -> Profiles] :
       /\ row = [f \in Files |-> [state |-> "active", profile |-> p[f], key |-> UploadKey(f)]]
       /\ objects = {Whole(f, [profile |-> p[f], key |-> UploadKey(f)]) : f \in Files}
  /\ jobs = [j \in Jobs |-> [state |-> "none", lease |-> "none", attempts |-> 0,
                             file |-> None, target |-> None]]
  /\ runner = IdleRunner
  /\ purger = [u \in Requests |-> IdlePurger]
  /\ purgeAsked = {}
  /\ restarts = 0

----------------------------------------------------------------------------
(* The trash.  Each operation is one transaction.                          *)

DeleteFile(f) ==
  /\ row[f].state = "active"
  /\ row' = [row EXCEPT ![f].state = "trashed"]
  /\ UNCHANGED <<objects, jobs, runner, purger, purgeAsked, restarts>>

\* RestoreBatch of the batch that holds f: UPDATE ... WHERE state = 'trashed'.
RestoreFile(f) ==
  /\ row[f].state = "trashed"
  /\ row' = [row EXCEPT ![f].state = "active"]
  /\ UNCHANGED <<objects, jobs, runner, purger, purgeAsked, restarts>>

----------------------------------------------------------------------------
(* Purging: the request u reads the row, deletes the object, marks the row. *)

\* Mutant: any file can be purged.
PurgeRead_AnyState(u, f) ==
  /\ purger[u].pc = "idle"
  /\ row[f].state # "purged"
  /\ purger' = [purger EXCEPT ![u] = [pc |-> "deleting", file |-> f, at |-> At(f)]]
  /\ UNCHANGED <<row, objects, jobs, runner, purgeAsked, restarts>>

PurgeRead(u, f) ==
  /\ purger[u].pc = "idle"
  /\ row[f].state = "trashed"
  /\ purger' = [purger EXCEPT ![u] = [pc |-> "deleting", file |-> f, at |-> At(f)]]
  /\ UNCHANGED <<row, objects, jobs, runner, purgeAsked, restarts>>

PurgeDelete(u) ==
  /\ purger[u].pc = "deleting"
  /\ objects' = Removed(purger[u].at)
  /\ purgeAsked' = purgeAsked \cup {purger[u].file}
  /\ purger' = [purger EXCEPT ![u].pc = "marking"]
  /\ UNCHANGED <<row, jobs, runner, restarts>>

\* recordError: the file stays where it was.  The backend may have deleted the
\* object all the same (a Telegram answer that was lost).
PurgeDeleteFails(u) ==
  /\ purger[u].pc = "deleting"
  /\ objects' \in {objects, Removed(purger[u].at)}
  /\ purgeAsked' = purgeAsked \cup {purger[u].file}
  /\ purger' = [purger EXCEPT ![u] = IdlePurger]
  /\ UNCHANGED <<row, jobs, runner, restarts>>

\* Mutant: the purged row keeps its storage key.
PurgeMark_KeepsKey(u) ==
  /\ purger[u].pc = "marking"
  /\ row' = [row EXCEPT ![purger[u].file].state = "purged"]
  /\ purger' = [purger EXCEPT ![u] = IdlePurger]
  /\ UNCHANGED <<objects, jobs, runner, purgeAsked, restarts>>

\* The closing transaction.  Its UPDATE names the file and not its state.
PurgeMark(u) ==
  /\ purger[u].pc = "marking"
  /\ row' = [row EXCEPT ![purger[u].file] =
               [state |-> "purged", profile |-> @.profile, key |-> None]]
  /\ purger' = [purger EXCEPT ![u] = IdlePurger]
  /\ UNCHANGED <<objects, jobs, runner, purgeAsked, restarts>>

\* The client hangs up: the request context ends and every later call fails.
PurgeAbandoned(u) ==
  /\ purger[u].pc # "idle"
  /\ purger' = [purger EXCEPT ![u] = IdlePurger]
  /\ UNCHANGED <<row, objects, jobs, runner, purgeAsked, restarts>>

----------------------------------------------------------------------------
(* Migration jobs.                                                         *)

\* Start: the file is active, the target is another profile; Enqueue takes the
\* next row (jobs are numbered in the order of created_at, id).
Start(f, p) ==
  /\ row[f].state = "active"
  /\ p # row[f].profile
  /\ \E j \in Jobs :
       /\ jobs[j].state = "none"
       /\ \A k \in Jobs : k < j => jobs[k].state # "none"
       /\ jobs' = [jobs EXCEPT ![j] = [state |-> "queued", lease |-> "none", attempts |-> 0,
                                       file |-> f, target |-> p]]
  /\ UNCHANGED <<row, objects, runner, purger, purgeAsked, restarts>>

\* UPDATE jobs SET state, lease_until, attempts: what the job is about stays.
SetJob(j, s, l, a) ==
  jobs' = [jobs EXCEPT ![j] = [state |-> s, lease |-> l, attempts |-> a,
                               file |-> @.file, target |-> @.target]]

LeaseExpires(j) ==
  /\ jobs[j].lease = "held"
  /\ jobs' = [jobs EXCEPT ![j].lease = "expired"]
  /\ UNCHANGED <<row, objects, runner, purger, purgeAsked, restarts>>

\* Mutant: nothing recovers a job that a crash left running.
Recovered_Never(job) == job

\* RecoverExpired: a running job whose lease is over waits for its retry, now.
Recovered(job) ==
  IF job.state = "running" /\ job.lease = "expired"
  THEN [state |-> "retry_wait", lease |-> "none", attempts |-> job.attempts,
        file |-> job.file, target |-> job.target]
  ELSE job

\* The oldest BatchLimit jobs of those that are due.
Picked(due) == {j \in due : Cardinality({k \in due : k <= j}) <= BatchLimit}

RunPending ==
  /\ runner.pc = "idle"
  /\ runner.queue = {}
  /\ jobs' = [j \in Jobs |-> Recovered(jobs[j])]
  /\ LET queue == Picked({j \in Jobs : Recovered(jobs[j]).state \in {"queued", "retry_wait"}})
     IN  queue # {} /\ runner' = [runner EXCEPT !.queue = queue]
  /\ UNCHANGED <<row, objects, purger, purgeAsked, restarts>>

\* Run's Get and Begin; the queue is taken in order.
RunBegin ==
  /\ runner.pc = "idle"
  /\ \E j \in runner.queue :
       /\ \A k \in runner.queue : j <= k
       /\ jobs[j].state \in {"queued", "retry_wait"}
       /\ SetJob(j, "running", "held", jobs[j].attempts + 1)
       /\ runner' = [runner EXCEPT !.pc = "begun", !.queue = @ \ {j}, !.job = j]
  /\ UNCHANGED <<row, objects, purger, purgeAsked, restarts>>

\* repo.Get and the check of the state; row[f] may change from here on.
RunLoad ==
  LET f == jobs[runner.job].file IN
  /\ runner.pc = "begun"
  /\ row[f].state = "active"
  /\ runner' = [runner EXCEPT !.pc = "loaded", !.source = At(f)]
  /\ UNCHANGED <<row, objects, jobs, purger, purgeAsked, restarts>>

\* source.Open and copyAndHash into the temporary file: only bytes whose hash
\* is the row's get through.
RunCopy ==
  /\ runner.pc = "loaded"
  /\ Whole(jobs[runner.job].file, runner.source) \in objects
  /\ runner' = [runner EXCEPT !.pc = "copied"]
  /\ UNCHANGED <<row, objects, jobs, purger, purgeAsked, restarts>>

\* target.Put answers with the hash and size of what it stored.
RunPut ==
  LET job == jobs[runner.job]
      l   == PutLocation(job.target, runner.job, job.attempts)
  IN
  /\ runner.pc = "copied"
  /\ \E c \in {job.file, Damaged} :
       /\ objects' = Stored(l, c)
       /\ runner' = [runner EXCEPT !.pc = "stored", !.target = l, !.verified = (c = job.file)]
  /\ UNCHANGED <<row, jobs, purger, purgeAsked, restarts>>

Finish(j, s) == SetJob(j, s, "none", jobs[j].attempts)

NextJob == runner' = [IdleRunner EXCEPT !.queue = runner.queue]

\* fail: the file is not active, a profile is gone, a read, the hash or the Put
\* failed.
RunFail ==
  /\ runner.pc \in {"begun", "loaded", "copied"}
  /\ Finish(runner.job, "failed")
  /\ NextJob
  /\ UNCHANGED <<row, objects, purger, purgeAsked, restarts>>

\* A Telegram send that was delivered and reported as an error.
RunPutUnanswered ==
  LET job == jobs[runner.job] IN
  /\ runner.pc = "copied"
  /\ job.target \notin LocalProfiles
  /\ objects' = Stored(PutLocation(job.target, runner.job, job.attempts), job.file)
  /\ Finish(runner.job, "failed")
  /\ NextJob
  /\ UNCHANGED <<row, purger, purgeAsked, restarts>>

\* Mutant: the hash of what Put stored is not compared.
RunSwitch_Unverified ==
  LET f == jobs[runner.job].file IN
  /\ runner.pc = "stored"
  /\ row[f].state = "active"
  /\ row' = [row EXCEPT ![f] = [state |-> @.state, profile |-> runner.target.profile,
                                key |-> runner.target.key]]
  /\ runner' = [runner EXCEPT !.pc = "switched"]
  /\ UNCHANGED <<objects, jobs, purger, purgeAsked, restarts>>

\* Mutant: SwitchStorage without its WHERE state = 'active'.
RunSwitch_AnyState ==
  LET f == jobs[runner.job].file IN
  /\ runner.pc = "stored"
  /\ runner.verified
  /\ row' = [row EXCEPT ![f] = [state |-> @.state, profile |-> runner.target.profile,
                                key |-> runner.target.key]]
  /\ runner' = [runner EXCEPT !.pc = "switched"]
  /\ UNCHANGED <<objects, jobs, purger, purgeAsked, restarts>>

\* SwitchStorage: UPDATE ... WHERE state = 'active', after the hash comparison.
RunSwitch ==
  LET f == jobs[runner.job].file IN
  /\ runner.pc = "stored"
  /\ runner.verified
  /\ row[f].state = "active"
  /\ row' = [row EXCEPT ![f] = [state |-> @.state, profile |-> runner.target.profile,
                                key |-> runner.target.key]]
  /\ runner' = [runner EXCEPT !.pc = "switched"]
  /\ UNCHANGED <<objects, jobs, purger, purgeAsked, restarts>>

\* Mutant: the source goes in place of the new object.
RunReject_DeletesSource ==
  /\ runner.pc = "stored"
  /\ runner.verified => row[jobs[runner.job].file].state # "active"
  /\ objects' \in {objects, Removed(runner.source)}
  /\ Finish(runner.job, "failed")
  /\ NextJob
  /\ UNCHANGED <<row, purger, purgeAsked, restarts>>

\* The hashes differ, or SwitchStorage changed no row: the new object is
\* deleted, whether or not that succeeds.
RunReject ==
  /\ runner.pc = "stored"
  /\ runner.verified => row[jobs[runner.job].file].state # "active"
  /\ objects' \in {objects, Removed(runner.target)}
  /\ Finish(runner.job, "failed")
  /\ NextJob
  /\ UNCHANGED <<row, purger, purgeAsked, restarts>>

\* Mutant: the source is forgotten.
RunDeleteSource_Forgotten ==
  /\ runner.pc = "switched"
  /\ runner' = [runner EXCEPT !.pc = "cleaned"]
  /\ UNCHANGED <<row, objects, jobs, purger, purgeAsked, restarts>>

\* Mutant: the key to delete is read again, after the switch.
RunDeleteSource_Reread ==
  /\ runner.pc = "switched"
  /\ objects' = Removed(At(jobs[runner.job].file))
  /\ runner' = [runner EXCEPT !.pc = "cleaned"]
  /\ UNCHANGED <<row, jobs, purger, purgeAsked, restarts>>

RunDeleteSource ==
  /\ runner.pc = "switched"
  /\ objects' = Removed(runner.source)
  /\ runner' = [runner EXCEPT !.pc = "cleaned"]
  /\ UNCHANGED <<row, jobs, purger, purgeAsked, restarts>>

RunCleanupPending ==
  /\ runner.pc = "switched"
  /\ objects' \in {objects, Removed(runner.source)}
  /\ Finish(runner.job, "cleanup_pending")
  /\ NextJob
  /\ UNCHANGED <<row, purger, purgeAsked, restarts>>

RunSucceed ==
  /\ runner.pc = "cleaned"
  /\ Finish(runner.job, "succeeded")
  /\ NextJob
  /\ UNCHANGED <<row, objects, purger, purgeAsked, restarts>>

\* The process dies and starts again: rows and objects stay, goroutines do not.
Restart ==
  /\ restarts < MaxRestarts
  /\ restarts' = restarts + 1
  /\ runner' = IdleRunner
  /\ purger' = [u \in Requests |-> IdlePurger]
  /\ UNCHANGED <<row, objects, jobs, purgeAsked>>

----------------------------------------------------------------------------

Purging ==
  \E u \in Requests :
    \/ \E f \in Files : PurgeRead(u, f)
    \/ PurgeDelete(u)
    \/ PurgeDeleteFails(u)
    \/ PurgeMark(u)
    \/ PurgeAbandoned(u)

Running ==
  \/ RunPending
  \/ RunBegin
  \/ RunLoad
  \/ RunCopy
  \/ RunPut
  \/ RunPutUnanswered
  \/ RunFail
  \/ RunSwitch
  \/ RunReject
  \/ RunDeleteSource
  \/ RunCleanupPending
  \/ RunSucceed

Next ==
  \/ \E f \in Files : DeleteFile(f) \/ RestoreFile(f)
  \/ \E f \in Files, p \in Profiles : Start(f, p)
  \/ \E j \in Jobs : LeaseExpires(j)
  \/ Purging
  \/ Running
  \/ Restart

Spec == Init /\ [][Next]_vars

\* Run has come to a call of a remote backend: Open, Put, the Delete of a rejected
\* object (after SwitchStorage) or of the source.  It has no deadline.
AtRemoteCall ==
  \/ runner.pc \in {"loaded", "switched"} /\ runner.source.profile \notin LocalProfiles
  \/ runner.pc \in {"copied", "stored"} /\ jobs[runner.job].target \notin LocalProfiles

\* The ticker keeps calling RunPending, statements and local files answer, and
\* time passes.  A remote backend may never answer.
FairSpec ==
  /\ Spec
  /\ WF_vars(~ AtRemoteCall /\ Running)
  /\ \A j \in Jobs : WF_vars(LeaseExpires(j))

----------------------------------------------------------------------------
(* Properties.                                                             *)

\* Every row, job and local variable has its shape, and a row has no storage
\* key exactly when the file is purged (purge.go clears it, nothing else does).
TypeOK ==
  /\ row \in [Files -> Rows]
  /\ \A f \in Files : IF row[f].state = "purged" THEN row[f].key = None ELSE row[f].key \in Keys
  /\ objects \subseteq [at : Locations, content : Files \cup {Damaged}]
  /\ jobs \in [Jobs -> JobRows]
  /\ \A j \in Jobs : jobs[j].state # "none" => jobs[j].file \in Files /\ jobs[j].target \in Profiles
  /\ runner \in [pc : RunnerPCs, queue : SUBSET Jobs, job : Jobs \cup {None},
                 source : Locations \cup {None}, target : Locations \cup {None},
                 verified : BOOLEAN]
  /\ purger \in [Requests -> [pc : {"idle", "deleting", "marking"}, file : Files \cup {None},
                              at : Locations \cup {None}]]
  /\ purgeAsked \subseteq Files
  /\ restarts \in Nat

Kept(f) == row[f].state # "purged"

Intact(f) == Whole(f, At(f)) \in objects

\* Run has begun a job twice and its target is a local backend: the second Put
\* goes to the key of the first.
RerunOntoLocal(f) ==
  \E j \in Jobs :
    jobs[j].file = f /\ jobs[j].target \in LocalProfiles /\ jobs[j].attempts > 1

\* The bytes a row points to are there and are the file's, unless a purge of
\* that very file has called Delete or a migration of it onto a local backend
\* was run again after a crash.  Failed copies, damaged Puts, cleanups and
\* files trashed in mid-migration lose nothing.
OnlyPurgeOrRerunLosesContent ==
  \A f \in Files : Kept(f) /\ ~ Intact(f) => f \in purgeAsked \/ RerunOntoLocal(f)

\* What README.md promises without the exception: only a purge deletes.
OnlyPurgeLosesContent ==
  \A f \in Files : Kept(f) /\ ~ Intact(f) => f \in purgeAsked

\* A file that is out of the trash has its bytes, whatever purges ran.
ActiveFilesHaveContent ==
  \A f \in Files : row[f].state = "active" => Intact(f)

\* No two files ever come to share one object, so that deleting the bytes of
\* one cannot delete those of the other.
NoSharedObject ==
  \A f, g \in Files : f # g /\ Kept(f) /\ Kept(g) => At(f) # At(g)

Undisturbed(f) ==
  /\ f \notin purgeAsked
  /\ \A j \in Jobs : jobs[j].file = f => jobs[j].attempts <= 1 /\ jobs[j].state \in {"queued", "succeeded"}

\* A migration that succeeds at its first attempt moves the bytes: when every
\* job of a file has done so, exactly one copy of it is stored anywhere.
SuccessLeavesOneCopy ==
  \A f \in Files : Undisturbed(f) => {o \in objects : o.content = f} = {Whole(f, At(f))}

\* A purged row never changes again: no late switch of a migration, no restore
\* and no second purge brings anything back.
PurgedIsFinal ==
  [][\A f \in Files : row[f].state = "purged" => row'[f] = row[f]]_vars

\* Every migration ends, also one that a crash left running, unless the runner is
\* for ever at one call of a remote backend: then no later migration begins.
EveryMigrationEnds ==
  \/ <>[]AtRemoteCall
  \/ \A j \in Jobs : jobs[j].state = "queued" ~> jobs[j].state \in FinalStates

----------------------------------------------------------------------------
(* What all this is for.                                                   *)

InHand(f) == \E u \in Requests : purger[u].pc # "idle" /\ purger[u].file = f

State == [f \in Files |-> row[f].state]

Present == {f \in Files : Intact(f)}

Doomed == {f \in Files : InHand(f) \/ f \in purgeAsked}

Index == INSTANCE FileIndex WITH state <- State, present <- Present, doomed <- Doomed

\* Without a crash, FileStorage implements FileIndex: no step of a migration can
\* be seen from outside, whatever purges, deletes and restores do meanwhile,
\* and only what a purge found in the trash ever loses its bytes.
ImplementsFileIndex == Index!Spec

============================================================================
