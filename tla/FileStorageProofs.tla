------------------------- MODULE FileStorageProofs -------------------------
(***************************************************************************)
(* What the migration runner, the trash and the purges may do to the bytes *)
(* of a file, for any number of files, profiles, jobs, requests and        *)
(* crashes.                                                                *)
(*                                                                         *)
(* The argument: every key has one owner, the file whose upload or whose   *)
(* migration made it, and every step that deletes or overwrites an object  *)
(* does so at a key its own file owns (KeysOwned).  So only the file's own *)
(* purges and migrations matter.  A purge of f is recorded in purgeAsked.  *)
(* A migration deletes its source after the switch, or its target before   *)
(* it, and these are two places unless the target's key is one an earlier  *)
(* attempt of the same job made (EarlierKeys), which only a local backend  *)
(* gives out twice: RerunOntoLocal.                                        *)
(*                                                                         *)
(* The same invariant, with the number of copies a file has at every stage  *)
(* of its migrations (OneCopy), gives that a migration leaves one copy; and, *)
(* without crashes (Once), that FileStorage implements FileIndex.           *)
(***************************************************************************)
EXTENDS FileStorage, TLAPS

Migrating == jobs[runner.job].file

Exempt(f) == f \in purgeAsked \/ RerunOntoLocal(f)

\* The file whose upload, or whose migration, stores under the key k.
Owns(f, k) ==
  \/ k = UploadKey(f)
  \/ k.kind = "migrations" /\ jobs[k.id].file = f
  \/ k.kind = "message" /\ jobs[k.id[1]].file = f

\* A key made by a migration was made by an attempt that has begun.
Begun(k) ==
  /\ k.kind = "migrations" => jobs[k.id].attempts >= 1
  /\ k.kind = "message" => k.id[2] <= jobs[k.id[1]].attempts

\* ... and, while the runner has not put yet, by an earlier attempt than this.
Earlier(k) ==
  /\ k.kind = "migrations" /\ k.id = runner.job => jobs[k.id].attempts > 1
  /\ k.kind = "message" /\ k.id[1] = runner.job => k.id[2] < jobs[k.id[1]].attempts

JobsFresh ==
  \A j \in Jobs : jobs[j].state = "none" => jobs[j].file = None /\ jobs[j].attempts = 0

RunnerBusy ==
  runner.pc # "idle" => /\ runner.job \in Jobs
                        /\ jobs[runner.job].state = "running"
                        /\ jobs[runner.job].attempts >= 1

PurgersBusy ==
  \A u \in Requests : purger[u].pc # "idle" => purger[u].file \in Files /\ purger[u].at \in Locations

RunnerPlaces ==
  /\ runner.pc \in {"loaded", "copied", "stored", "switched", "cleaned"} => runner.source \in Locations
  /\ runner.pc \in {"stored", "switched", "cleaned"} =>
       runner.target = PutLocation(jobs[runner.job].target, runner.job, jobs[runner.job].attempts)

KeysOwned ==
  /\ \A f \in Files : Kept(f) => Owns(f, row[f].key) /\ Begun(row[f].key)
  /\ runner.pc \in {"loaded", "copied", "stored", "switched"} => Owns(Migrating, runner.source.key)
  /\ \A u \in Requests : purger[u].pc # "idle" => Owns(purger[u].file, purger[u].at.key)

EarlierKeys ==
  /\ runner.pc \in {"begun", "loaded", "copied", "stored"} =>
       \A f \in Files : Kept(f) => Earlier(row[f].key)
  /\ runner.pc \in {"loaded", "copied", "stored"} => Earlier(runner.source.key)

\* Before the switch the row still has the source, after it the target.
RowFollows ==
  /\ runner.pc \in {"loaded", "copied", "stored"} /\ Kept(Migrating) => At(Migrating) = runner.source
  /\ runner.pc = "switched" /\ Kept(Migrating) => At(Migrating) = runner.target

PlacesDiffer ==
  runner.pc \in {"stored", "switched"} => runner.target # runner.source \/ RerunOntoLocal(Migrating)

TargetHolds ==
  runner.pc = "stored" /\ runner.verified /\ ~ Exempt(Migrating) =>
    Whole(Migrating, runner.target) \in objects

RowsHold == \A f \in Files : Kept(f) /\ ~ Exempt(f) => Intact(f)

IInv ==
  /\ TypeOK
  /\ JobsFresh
  /\ RunnerBusy
  /\ PurgersBusy
  /\ RunnerPlaces
  /\ KeysOwned
  /\ EarlierKeys
  /\ RowFollows
  /\ PlacesDiffer
  /\ TargetHolds
  /\ RowsHold

\* Run works on a job whose file was named by Start.
LEMMA FileOfRunner ==
  ASSUME IInv, runner.pc # "idle"
  PROVE  Migrating \in Files
BY DEF IInv, TypeOK, RunnerBusy, Migrating

\* DeleteFile and RestoreFile change a state and no place.
LEMMA TrashStep ==
  ASSUME IInv, NEW f \in Files, DeleteFile(f) \/ RestoreFile(f)
  PROVE  IInv'
<1> USE FileStorageAssumption DEF IInv, DeleteFile, RestoreFile
<1>1. TypeOK'
  <2>1. row[f] \in Rows /\ row[f].state # "purged" /\ row[f].key \in Keys
    BY DEF TypeOK
  <2>2. PICK s \in {"active", "trashed"} : row' = [row EXCEPT ![f].state = s]
    OBVIOUS
  <2>3. row' \in [Files -> Rows]
    BY <2>1, <2>2 DEF TypeOK, Rows, FileStates
  <2>4. \A g \in Files : IF row'[g].state = "purged" THEN row'[g].key = None ELSE row'[g].key \in Keys
    BY <2>1, <2>2 DEF TypeOK
  <2>5. QED
    BY <2>3, <2>4 DEF TypeOK
<1>2. \A g \in Files : row'[g].profile = row[g].profile /\ row'[g].key = row[g].key /\ (Kept(g)' <=> Kept(g))
  BY DEF TypeOK, Rows, Kept
<1>3. JobsFresh' /\ RunnerBusy' /\ PurgersBusy' /\ RunnerPlaces' /\ PlacesDiffer' /\ TargetHolds'
  BY DEF JobsFresh, RunnerBusy, PurgersBusy, RunnerPlaces, PlacesDiffer, TargetHolds, Exempt, RerunOntoLocal, Migrating, PutLocation
<1>4. KeysOwned' /\ EarlierKeys'
  <2>1. \A g \in Files : row'[g].key = row[g].key /\ (Kept(g)' <=> Kept(g))
    BY <1>2
  <2>2. \A g \in Files : Kept(g)' => Owns(g, row[g].key)' /\ Begun(row[g].key)'
    BY <2>1 DEF KeysOwned, Owns, Begun
  <2>3. \A u \in Requests : (purger[u].pc # "idle")' => Owns(purger[u].file, purger[u].at.key)'
    BY DEF KeysOwned, Owns
  <2>4. KeysOwned'
    BY <2>2, <2>3 DEF KeysOwned, Owns, Migrating
  <2>5. EarlierKeys'
    BY <2>1 DEF EarlierKeys, Earlier
  <2>6. QED
    BY <2>4, <2>5
<1>5. RowFollows'
  BY <1>2, FileOfRunner DEF RowFollows, At, Migrating
<1>6. RowsHold'
  BY <1>2 DEF RowsHold, Exempt, RerunOntoLocal, Intact, At
<1>7. QED
  BY <1>1, <1>3, <1>4, <1>5, <1>6

\* PurgeFile takes note of a place its file owns.
LEMMA PurgeReadStep ==
  ASSUME IInv, NEW u \in Requests, NEW f \in Files, PurgeRead(u, f)
  PROVE  IInv'
<1> USE FileStorageAssumption DEF IInv, PurgeRead
<1>1. row[f] \in Rows /\ row[f].key \in Keys /\ At(f) \in Locations
  BY DEF TypeOK, At, Locations, Rows
<1>2. TypeOK'
  BY <1>1 DEF TypeOK
<1>3. JobsFresh' /\ RunnerBusy' /\ RunnerPlaces' /\ PlacesDiffer' /\ TargetHolds' /\ EarlierKeys' /\ RowFollows' /\ RowsHold'
  BY DEF JobsFresh, RunnerBusy, RunnerPlaces, PlacesDiffer, TargetHolds, EarlierKeys, RowFollows, RowsHold,
         Exempt, RerunOntoLocal, Migrating, PutLocation, Earlier, Kept, At, Intact
<1>4. PurgersBusy'
  BY <1>1 DEF PurgersBusy, TypeOK
<1>5. KeysOwned'
  <2>1. Owns(f, At(f).key)
    BY DEF KeysOwned, Kept, At
  <2>2. ASSUME NEW v \in Requests, purger'[v].pc # "idle"
        PROVE  Owns(purger'[v].file, purger'[v].at.key)
    <3>1. CASE v = u
      BY <2>1, <3>1 DEF TypeOK
    <3>2. CASE v # u
      BY <2>2, <3>2 DEF KeysOwned, TypeOK
    <3>3. QED
      BY <3>1, <3>2
  <2>3. QED
    BY <2>2 DEF KeysOwned, Kept, Owns, Begun, Migrating
<1>6. QED
  BY <1>2, <1>3, <1>4, <1>5

\* Deleting at a place the file f owns leaves every other file's bytes alone.
LEMMA RemovedKeepsOthers ==
  ASSUME IInv, NEW f \in Files, NEW l \in Locations, Owns(f, l.key),
         NEW g \in Files, g # f, Kept(g), Intact(g)
  PROVE  Whole(g, At(g)) \in Removed(l)
<1>1. Owns(g, row[g].key) /\ row[g].key \in Keys
  BY DEF IInv, KeysOwned, TypeOK, Kept
<1>2. row[g].key # l.key
  BY <1>1 DEF Owns, UploadKey
<1>3. QED
  BY <1>2 DEF Removed, Whole, At, Intact

\* Who owns which key stays true of a step that leaves jobs and runner alone and
\* gives no key to a row or a purge.
LEMMA KeysStay ==
  ASSUME KeysOwned, UNCHANGED <<jobs, runner>>,
         \A f \in Files : Kept(f)' => Kept(f) /\ row'[f].key = row[f].key,
         \A u \in Requests : (purger[u].pc # "idle")' =>
           purger[u].pc # "idle" /\ purger'[u].file = purger[u].file /\ purger'[u].at = purger[u].at
  PROVE  KeysOwned'
<1>1. \A f \in Files : Kept(f)' => Owns(f, row[f].key)' /\ Begun(row[f].key)'
  BY DEF KeysOwned, Owns, Begun
<1>2. runner'.pc \in {"loaded", "copied", "stored", "switched"} => Owns(Migrating, runner.source.key)'
  BY DEF KeysOwned, Owns, Migrating
<1>3. \A u \in Requests : (purger[u].pc # "idle")' => Owns(purger[u].file, purger[u].at.key)'
  BY DEF KeysOwned, Owns
<1>4. QED
  BY <1>1, <1>2, <1>3 DEF KeysOwned

\* A purge deletes at a place of its own file, and says so in purgeAsked.
LEMMA PurgeDeleteStep ==
  ASSUME IInv, NEW u \in Requests, PurgeDelete(u) \/ PurgeDeleteFails(u)
  PROVE  IInv'
<1> USE FileStorageAssumption DEF IInv, PurgeDelete, PurgeDeleteFails
<1> DEFINE f == purger[u].file
           l == purger[u].at
<1>1. f \in Files /\ l \in Locations /\ Owns(f, l.key)
  BY DEF PurgersBusy, KeysOwned
<1>2. objects' \in {objects, Removed(l)} /\ purgeAsked' = purgeAsked \cup {f}
  OBVIOUS
<1>3. TypeOK'
  BY <1>1, <1>2 DEF TypeOK, IdlePurger, Removed
<1>4. JobsFresh' /\ RunnerBusy' /\ RunnerPlaces' /\ PlacesDiffer' /\ EarlierKeys' /\ RowFollows'
  <2>1. UNCHANGED <<row, jobs, runner>>
    OBVIOUS
  <2>2. JobsFresh' /\ RunnerBusy' /\ EarlierKeys'
    BY <2>1 DEF JobsFresh, RunnerBusy, EarlierKeys, Earlier, Kept
  <2>3. RunnerPlaces' /\ PlacesDiffer' /\ RowFollows'
    BY <2>1 DEF RunnerPlaces, PlacesDiffer, RowFollows, RerunOntoLocal, Migrating, PutLocation, Kept, At
  <2>4. QED
    BY <2>2, <2>3
<1>5. PurgersBusy' /\ KeysOwned'
  <2>1. \A v \in Requests : /\ purger'[v].pc # "idle" => purger[v].pc # "idle"
                            /\ purger'[v].pc # "idle" => purger'[v].file = purger[v].file
                                                         /\ purger'[v].at = purger[v].at
    BY DEF TypeOK, IdlePurger
  <2>2. UNCHANGED <<row, jobs, runner>>
    OBVIOUS
  <2>3. PurgersBusy'
    BY <2>1 DEF PurgersBusy, TypeOK, IdlePurger
  <2>4. KeysOwned'
    BY <2>1, <2>2, KeysStay DEF Kept
  <2>5. QED
    BY <2>3, <2>4
<1>6. TargetHolds'
  <2> SUFFICES ASSUME runner.pc = "stored", runner.verified, ~ Exempt(Migrating)'
               PROVE  Whole(Migrating, runner.target) \in objects'
    BY DEF TargetHolds, Migrating, Whole
  <2>1. Migrating # f /\ Whole(Migrating, runner.target) \in objects
    BY <1>2 DEF TargetHolds, Exempt, RerunOntoLocal, Migrating
  <2>2. Owns(Migrating, runner.target.key)
    BY FileOfRunner DEF RunnerPlaces, PutLocation, Owns, MigrationKey, MessageKey, Migrating
  <2>3. runner.target.key # l.key
    BY <1>1, <2>1, <2>2, FileOfRunner DEF Owns, UploadKey
  <2>4. QED
    BY <1>2, <2>1, <2>3 DEF Removed, Whole
<1>7. RowsHold'
  <2> SUFFICES ASSUME NEW g \in Files, Kept(g), ~ Exempt(g)'
               PROVE  Whole(g, At(g)) \in objects'
    BY DEF RowsHold, Kept, Intact, At, Whole
  <2>1. g # f /\ Intact(g)
    BY <1>2 DEF RowsHold, Exempt, RerunOntoLocal
  <2>2. QED
    BY <1>1, <1>2, <2>1, RemovedKeepsOthers DEF Intact
<1>8. QED
  BY <1>3, <1>4, <1>5, <1>6, <1>7

\* Marking the row purged takes its key away, also from a migration under way.
LEMMA PurgeMarkStep ==
  ASSUME IInv, NEW u \in Requests, PurgeMark(u)
  PROVE  IInv'
<1> USE FileStorageAssumption DEF IInv, PurgeMark
<1> PICK f \in Files : f = purger[u].file
  BY DEF PurgersBusy
<1>1. row[f] \in Rows
  BY DEF TypeOK
<1>2. row' = [row EXCEPT ![f] = [state |-> "purged", profile |-> row[f].profile, key |-> None]]
  BY <1>1 DEF TypeOK, Rows
<1>3. \A g \in Files : g # f => row'[g] = row[g] /\ (Kept(g)' <=> Kept(g))
  BY <1>2 DEF TypeOK, Kept
<1>4. row'[f] = [state |-> "purged", profile |-> row[f].profile, key |-> None] /\ ~ Kept(f)'
  BY <1>1, <1>2 DEF TypeOK, Kept
<1>5. TypeOK'
  <2>1. row'[f] \in Rows
    BY <1>1, <1>4 DEF Rows, FileStates
  <2>2. row' \in [Files -> Rows]
    BY <1>2, <2>1, <1>4 DEF TypeOK
  <2>3. \A g \in Files : IF row'[g].state = "purged" THEN row'[g].key = None ELSE row'[g].key \in Keys
    BY <1>3, <1>4 DEF TypeOK
  <2>4. purger' \in [Requests -> [pc : {"idle", "deleting", "marking"}, file : Files \cup {None},
                                  at : Locations \cup {None}]]
    BY DEF TypeOK, IdlePurger
  <2>5. QED
    BY <2>2, <2>3, <2>4 DEF TypeOK
<1>6. JobsFresh' /\ RunnerBusy' /\ RunnerPlaces' /\ PlacesDiffer' /\ TargetHolds'
  BY DEF JobsFresh, RunnerBusy, RunnerPlaces, PlacesDiffer, TargetHolds, Exempt, RerunOntoLocal, Migrating, PutLocation
<1>7. PurgersBusy'
  BY DEF PurgersBusy, TypeOK, IdlePurger
<1>8. KeysOwned' /\ EarlierKeys'
  <2>1. \A g \in Files : Kept(g)' => Kept(g) /\ row'[g] = row[g]
    BY <1>3, <1>4
  <2>2. \A v \in Requests : purger'[v].pc # "idle" => purger'[v] = purger[v]
    BY DEF TypeOK, IdlePurger
  <2>3. UNCHANGED <<jobs, runner>>
    OBVIOUS
  <2>4. KeysOwned'
    BY <2>1, <2>2, <2>3, KeysStay
  <2>5. EarlierKeys'
    BY <2>1 DEF EarlierKeys, Earlier
  <2>6. QED
    BY <2>4, <2>5
<1>9. RowFollows'
  BY <1>3, <1>4, FileOfRunner DEF RowFollows, At, Migrating
<1>10. RowsHold'
  <2>1. \A g \in Files : Kept(g)' => Kept(g) /\ row'[g] = row[g]
    BY <1>3, <1>4
  <2>2. QED
    BY <2>1 DEF RowsHold, Exempt, RerunOntoLocal, Intact, At, Whole
<1>11. QED
  BY <1>5, <1>6, <1>7, <1>8, <1>9, <1>10

\* A purge that stops forgets what it has read.
LEMMA PurgeAbandonedStep ==
  ASSUME IInv, NEW u \in Requests, PurgeAbandoned(u)
  PROVE  IInv'
<1> USE FileStorageAssumption DEF IInv, PurgeAbandoned
<1>1. TypeOK'
  BY DEF TypeOK, IdlePurger
<1>2. JobsFresh' /\ RunnerBusy' /\ RunnerPlaces' /\ PlacesDiffer' /\ TargetHolds' /\ EarlierKeys' /\ RowFollows' /\ RowsHold'
  BY DEF JobsFresh, RunnerBusy, RunnerPlaces, PlacesDiffer, TargetHolds, EarlierKeys, RowFollows, RowsHold,
         Exempt, RerunOntoLocal, Migrating, PutLocation, Earlier, Kept, At, Intact
<1>3. PurgersBusy' /\ KeysOwned'
  <2>1. UNCHANGED <<row, jobs, runner>> /\ \A v \in Requests : purger'[v].pc # "idle" => purger'[v] = purger[v]
    BY DEF TypeOK, IdlePurger
  <2>2. PurgersBusy'
    BY <2>1 DEF PurgersBusy, TypeOK, IdlePurger
  <2>3. KeysOwned'
    BY <2>1, KeysStay DEF Kept
  <2>4. QED
    BY <2>2, <2>3
<1>4. QED
  BY <1>1, <1>2, <1>3

----------------------------------------------------------------------------
(* Steps of the jobs table.                                                *)

\* A job never changes what it is about, and its attempts only grow.
JobsKept ==
  \A j \in Jobs : jobs[j].state # "none" =>
    /\ jobs'[j].file = jobs[j].file
    /\ jobs'[j].target = jobs[j].target
    /\ jobs'[j].attempts >= jobs[j].attempts

\* What is known of jobs and keys stays known when a step of the runner leaves
\* the files and the targets of the jobs alone.
LEMMA JobsKeptFacts ==
  ASSUME IInv, TypeOK', JobsKept
  PROVE  /\ \A f \in Files, k \in Keys : Owns(f, k) => Owns(f, k)' /\ (Begun(k) => Begun(k)')
         /\ \A f \in Files : RerunOntoLocal(f) => RerunOntoLocal(f)'
<1> USE FileStorageAssumption DEF IInv
<1>1. \A f \in Files, j \in Jobs : jobs[j].file = f => jobs[j].state # "none"
  BY DEF JobsFresh
<1>2. \A j \in Jobs : jobs[j].attempts \in Nat /\ jobs'[j].attempts \in Nat
  BY DEF TypeOK, JobRows
<1>3. ASSUME NEW f \in Files, NEW k \in Keys, Owns(f, k)
      PROVE  Owns(f, k)' /\ (Begun(k) => Begun(k)')
  <2>1. CASE k.kind = "objects"
    BY <1>3, <2>1 DEF Owns, Begun, UploadKey
  <2>2. CASE k.kind = "migrations"
    <3>1. k.id \in Jobs /\ jobs[k.id].file = f
      BY <1>3, <2>2 DEF Keys, Owns, UploadKey
    <3>2. QED
      BY <1>1, <1>2, <2>2, <3>1 DEF JobsKept, Owns, Begun
  <2>3. CASE k.kind = "message"
    <3>1. k.id[1] \in Jobs /\ k.id[2] \in Nat /\ jobs[k.id[1]].file = f
      BY <1>3, <2>3 DEF Keys, Owns, UploadKey
    <3>2. QED
      BY <1>1, <1>2, <2>3, <3>1 DEF JobsKept, Owns, Begun
  <2>4. QED
    BY <2>1, <2>2, <2>3 DEF Keys
<1>4. ASSUME NEW f \in Files, RerunOntoLocal(f)
      PROVE  RerunOntoLocal(f)'
  <2>1. PICK j \in Jobs : jobs[j].file = f /\ jobs[j].target \in LocalProfiles /\ jobs[j].attempts > 1
    BY <1>4 DEF RerunOntoLocal
  <2>2. QED
    BY <1>1, <1>2, <2>1 DEF JobsKept, RerunOntoLocal
<1>5. QED
  BY <1>3, <1>4

\* What does not depend on the runner survives a step of the jobs table that
\* leaves the rows and the purges alone and loses no object of a file.
LEMMA JobsStep ==
  ASSUME IInv, TypeOK', JobsKept, UNCHANGED <<row, purger, purgeAsked>>,
         \A f \in Files : Kept(f) /\ ~ Exempt(f) => Whole(f, At(f)) \in objects'
  PROVE  /\ PurgersBusy'
         /\ \A f \in Files : Kept(f)' => Owns(f, row[f].key)' /\ Begun(row[f].key)'
         /\ \A u \in Requests : (purger[u].pc # "idle")' => Owns(purger[u].file, purger[u].at.key)'
         /\ RowsHold'
<1> USE FileStorageAssumption DEF IInv
<1>1. PurgersBusy'
  BY DEF PurgersBusy
<1>2. \A f \in Files : Kept(f)' => Owns(f, row[f].key)' /\ Begun(row[f].key)'
  <2> SUFFICES ASSUME NEW f \in Files, Kept(f)'
               PROVE  Owns(f, row[f].key)' /\ Begun(row[f].key)'
    OBVIOUS
  <2>1. row[f].key \in Keys /\ Owns(f, row[f].key) /\ Begun(row[f].key)
    BY DEF KeysOwned, Kept, TypeOK
  <2>2. QED
    BY <2>1, JobsKeptFacts DEF Owns, Begun
<1>3. \A u \in Requests : (purger[u].pc # "idle")' => Owns(purger[u].file, purger[u].at.key)'
  <2> SUFFICES ASSUME NEW u \in Requests, (purger[u].pc # "idle")'
               PROVE  Owns(purger[u].file, purger[u].at.key)'
    OBVIOUS
  <2>1. purger[u].file \in Files /\ purger[u].at.key \in Keys /\ Owns(purger[u].file, purger[u].at.key)
    BY DEF KeysOwned, PurgersBusy, Locations
  <2>2. QED
    BY <2>1, JobsKeptFacts DEF Owns
<1>4. RowsHold'
  <2> SUFFICES ASSUME NEW f \in Files, Kept(f), ~ Exempt(f)'
               PROVE  Whole(f, At(f)) \in objects'
    BY DEF RowsHold, Kept, Intact, At, Whole
  <2>1. ~ Exempt(f)
    BY JobsKeptFacts DEF Exempt
  <2>2. QED
    BY <2>1
<1>5. QED
  BY <1>1, <1>2, <1>3, <1>4

\* A new job names a file, and no key is its own yet.
LEMMA StartStep ==
  ASSUME IInv, NEW f \in Files, NEW p \in Profiles, Start(f, p)
  PROVE  IInv'
<1> USE FileStorageAssumption DEF IInv, Start
<1>1. PICK j \in Jobs :
        /\ jobs[j].state = "none"
        /\ jobs' = [jobs EXCEPT ![j] = [state |-> "queued", lease |-> "none", attempts |-> 0,
                                        file |-> f, target |-> p]]
  OBVIOUS
<1>2. TypeOK'
  BY <1>1 DEF TypeOK, JobRows, JobStates
<1>3. \A k \in Jobs : jobs[k].state # "none" => jobs'[k] = jobs[k]
  BY <1>1 DEF TypeOK
<1>4. JobsKept
  BY <1>3 DEF JobsKept, TypeOK, JobRows
<1>5. JobsFresh'
  BY <1>1 DEF JobsFresh, TypeOK
<1>6. runner.pc # "idle" => jobs'[runner.job] = jobs[runner.job]
  BY <1>3 DEF RunnerBusy
<1>7. RunnerBusy' /\ RunnerPlaces' /\ RowFollows'
  BY <1>6 DEF RunnerBusy, RunnerPlaces, RowFollows, Migrating, Kept, At, PutLocation
<1>8. PlacesDiffer' /\ TargetHolds'
  BY <1>4, <1>2, <1>6, JobsKeptFacts, FileOfRunner DEF PlacesDiffer, TargetHolds, Exempt, Migrating, Whole
<1>9. EarlierKeys'
  BY <1>6 DEF EarlierKeys, Earlier, Kept
<1>10. runner.pc \in {"loaded", "copied", "stored", "switched"} => Owns(Migrating, runner.source.key)'
  <2>1. runner.pc \in {"loaded", "copied", "stored", "switched"} =>
          Owns(Migrating, runner.source.key) /\ runner.source.key \in Keys
    BY DEF KeysOwned, RunnerPlaces, Locations
  <2>2. QED
    BY <1>2, <1>4, <1>6, <2>1, JobsKeptFacts, FileOfRunner DEF Owns, Migrating
<1>11. KeysOwned' /\ PurgersBusy' /\ RowsHold'
  BY <1>2, <1>4, <1>10, JobsStep DEF KeysOwned, RowsHold, Intact, Whole, At
<1>12. QED
  BY <1>2, <1>5, <1>7, <1>8, <1>9, <1>11

\* Steps that leave the job being run and the runner's local variables alone.
LEMMA RunnerKept ==
  ASSUME IInv, TypeOK', JobsKept, UNCHANGED <<row, objects, purger, purgeAsked>>,
         runner.pc # "idle" => jobs'[runner.job].state = "running" /\
                               jobs'[runner.job].attempts = jobs[runner.job].attempts,
         \A v \in {"pc", "job", "source", "target", "verified"} : runner'[v] = runner[v],
         JobsFresh'
  PROVE  IInv'
<1> USE FileStorageAssumption DEF IInv
<1>1. /\ runner'.pc = runner.pc /\ runner'.job = runner.job /\ runner'.source = runner.source
      /\ runner'.target = runner.target /\ runner'.verified = runner.verified
  OBVIOUS
<1>2. runner.pc # "idle" => /\ jobs'[runner.job].state = "running"
                            /\ jobs'[runner.job].attempts = jobs[runner.job].attempts
                            /\ jobs'[runner.job].file = jobs[runner.job].file
                            /\ jobs'[runner.job].target = jobs[runner.job].target
  BY DEF JobsKept, RunnerBusy
<1>3. RunnerBusy' /\ RunnerPlaces' /\ RowFollows'
  BY <1>1, <1>2 DEF RunnerBusy, RunnerPlaces, RowFollows, Migrating, Kept, At, PutLocation
<1>4. PlacesDiffer' /\ TargetHolds'
  BY <1>1, <1>2, JobsKeptFacts, FileOfRunner DEF PlacesDiffer, TargetHolds, Exempt, Migrating, Whole
<1>5. EarlierKeys'
  BY <1>1, <1>2 DEF EarlierKeys, Earlier, Kept
<1>6. runner.pc \in {"loaded", "copied", "stored", "switched"} => Owns(Migrating, runner.source.key)'
  <2>1. runner.pc \in {"loaded", "copied", "stored", "switched"} =>
          Owns(Migrating, runner.source.key) /\ runner.source.key \in Keys
    BY DEF KeysOwned, RunnerPlaces, Locations
  <2>2. QED
    BY <1>1, <1>2, <2>1, JobsKeptFacts, FileOfRunner DEF Owns, Migrating
<1>7. KeysOwned' /\ PurgersBusy' /\ RowsHold'
  BY <1>1, <1>6, JobsStep DEF KeysOwned, RowsHold, Intact, Whole, At
<1>8. QED
  BY <1>3, <1>4, <1>5, <1>7

\* A lease that runs out changes nothing that the runner relies on.
LEMMA LeaseExpiresStep ==
  ASSUME IInv, NEW j \in Jobs, LeaseExpires(j)
  PROVE  IInv'
<1> USE FileStorageAssumption DEF IInv, LeaseExpires
<1>1. TypeOK'
  BY DEF TypeOK, JobRows
<1>2. \A k \in Jobs : /\ jobs'[k].state = jobs[k].state /\ jobs'[k].attempts = jobs[k].attempts
                      /\ jobs'[k].file = jobs[k].file /\ jobs'[k].target = jobs[k].target
  BY DEF TypeOK, JobRows
<1>3. JobsKept /\ JobsFresh'
  BY <1>2 DEF JobsKept, JobsFresh, TypeOK, JobRows
<1>4. QED
  BY <1>1, <1>2, <1>3, RunnerKept DEF RunnerBusy

\* Recovering and picking jobs happens while no job is being run.
LEMMA RunPendingStep ==
  ASSUME IInv, RunPending
  PROVE  IInv'
<1> USE FileStorageAssumption DEF IInv, RunPending
<1>1. \A j \in Jobs : jobs'[j] \in JobRows
  BY DEF TypeOK, Recovered, JobRows, JobStates
<1>2. \A j \in Jobs : /\ jobs'[j].attempts = jobs[j].attempts /\ jobs'[j].file = jobs[j].file
                      /\ jobs'[j].target = jobs[j].target
                      /\ jobs'[j].state = "none" <=> jobs[j].state = "none"
  BY DEF Recovered
<1>3. runner'.queue \subseteq Jobs /\ runner' = [runner EXCEPT !.queue = runner'.queue]
  BY DEF TypeOK, Picked
<1>4. TypeOK'
  BY <1>1, <1>2, <1>3 DEF TypeOK
<1>5. JobsKept /\ JobsFresh'
  BY <1>2 DEF JobsKept, JobsFresh, TypeOK, JobRows
<1>6. \A v \in {"pc", "job", "source", "target", "verified"} : runner'[v] = runner[v]
  BY <1>3 DEF TypeOK
<1>7. QED
  BY <1>4, <1>5, <1>6, RunnerKept

\* Begin counts an attempt: every key made so far is older than this attempt.
LEMMA RunBeginStep ==
  ASSUME IInv, RunBegin
  PROVE  IInv'
<1> USE FileStorageAssumption DEF IInv, RunBegin
<1>1. PICK j \in Jobs :
        /\ jobs[j].state \in {"queued", "retry_wait"}
        /\ SetJob(j, "running", "held", jobs[j].attempts + 1)
        /\ runner' = [runner EXCEPT !.pc = "begun", !.queue = @ \ {j}, !.job = j]
  BY DEF TypeOK
<1>2. jobs'[j] = [state |-> "running", lease |-> "held", attempts |-> jobs[j].attempts + 1,
                  file |-> jobs[j].file, target |-> jobs[j].target]
  BY <1>1 DEF SetJob, TypeOK
<1>3. \A k \in Jobs : k # j => jobs'[k] = jobs[k]
  BY <1>1 DEF SetJob, TypeOK
<1>4. jobs[j] \in JobRows /\ jobs[j].attempts \in Nat
  BY DEF TypeOK, JobRows
<1>5. TypeOK'
  <2>1. jobs'[j] \in JobRows
    BY <1>2, <1>4 DEF JobRows, JobStates
  <2>2. jobs' \in [Jobs -> JobRows]
    BY <1>1, <1>2, <2>1 DEF TypeOK, SetJob
  <2>3. \A k \in Jobs : jobs'[k].state # "none" => jobs'[k].file \in Files /\ jobs'[k].target \in Profiles
    BY <1>1, <1>2, <1>3 DEF TypeOK
  <2>4. runner' \in [pc : RunnerPCs, queue : SUBSET Jobs, job : Jobs \cup {None},
                     source : Locations \cup {None}, target : Locations \cup {None},
                     verified : BOOLEAN]
    BY <1>1 DEF TypeOK, RunnerPCs
  <2>5. QED
    BY <2>2, <2>3, <2>4 DEF TypeOK
<1>6. JobsKept /\ JobsFresh'
  <2>1. \A k \in Jobs : jobs[k].attempts \in Nat
    BY DEF TypeOK, JobRows
  <2>2. /\ jobs'[j].file = jobs[j].file /\ jobs'[j].target = jobs[j].target
        /\ jobs'[j].attempts >= jobs[j].attempts /\ jobs'[j].state # "none"
    BY <1>2, <1>4
  <2>3. JobsKept
    BY <1>3, <2>1, <2>2 DEF JobsKept
  <2>4. JobsFresh'
    BY <1>3, <2>2 DEF JobsFresh
  <2>5. QED
    BY <2>3, <2>4
<1>7. runner'.pc = "begun" /\ runner'.job = j
  BY <1>1 DEF TypeOK
<1>8. RunnerBusy' /\ RunnerPlaces' /\ RowFollows' /\ PlacesDiffer' /\ TargetHolds'
  BY <1>2, <1>4, <1>7 DEF RunnerBusy, RunnerPlaces, RowFollows, PlacesDiffer, TargetHolds
<1>9. KeysOwned' /\ PurgersBusy' /\ RowsHold'
  BY <1>5, <1>6, <1>7, JobsStep DEF KeysOwned, RowsHold, Intact, Whole, At
<1>10. EarlierKeys'
  <2> SUFFICES ASSUME NEW f \in Files, Kept(f)
               PROVE  Earlier(row[f].key)'
    BY <1>7 DEF EarlierKeys, Kept
  <2>1. row[f].key \in Keys /\ Begun(row[f].key)
    BY DEF KeysOwned, Kept, TypeOK
  <2>2. row[f].key.kind = "message" => row[f].key.id[1] \in Jobs /\ row[f].key.id[2] \in Nat
    BY <2>1 DEF Keys
  <2>3. QED
    BY <1>2, <1>4, <1>7, <2>1, <2>2 DEF Earlier, Begun
<1>11. QED
  BY <1>5, <1>6, <1>8, <1>9, <1>10

----------------------------------------------------------------------------
(* Steps of the runner.                                                    *)

\* The runner goes on with its job: keys keep their owners and their age.
LEMMA StillRunning ==
  ASSUME IInv, UNCHANGED <<row, jobs, purger>>, runner'.job = runner.job,
         runner'.pc \in {"loaded", "copied", "stored", "switched", "cleaned"},
         runner.pc \in {"begun", "loaded", "copied", "stored", "switched"},
         Owns(Migrating, runner'.source.key)
  PROVE  /\ KeysOwned'
         /\ (\/ runner'.pc \in {"switched", "cleaned"}
             \/ runner.pc \in {"begun", "loaded", "copied"} /\ Earlier(runner'.source.key)) => EarlierKeys'
<1> USE DEF IInv
<1>1. \A f \in Files : Kept(f)' => Owns(f, row[f].key)' /\ Begun(row[f].key)'
  BY DEF KeysOwned, Owns, Begun, Kept
<1>2. \A u \in Requests : (purger[u].pc # "idle")' => Owns(purger[u].file, purger[u].at.key)'
  BY DEF KeysOwned, Owns
<1>3. Owns(Migrating, runner.source.key)'
  BY DEF Owns, Migrating
<1>4. KeysOwned'
  BY <1>1, <1>2, <1>3 DEF KeysOwned
<1>5. ASSUME runner.pc \in {"begun", "loaded", "copied"}, Earlier(runner'.source.key)
      PROVE  EarlierKeys'
  <2>1. \A f \in Files : Kept(f)' => Earlier(row[f].key)'
    BY <1>5 DEF EarlierKeys, Earlier, Kept
  <2>2. Earlier(runner.source.key)'
    BY <1>5 DEF Earlier
  <2>3. QED
    BY <2>1, <2>2 DEF EarlierKeys
<1>6. QED
  BY <1>4, <1>5 DEF EarlierKeys

\* The row's place becomes the source, which the file owns.
LEMMA RunLoadStep ==
  ASSUME IInv, RunLoad
  PROVE  IInv'
<1> USE FileStorageAssumption DEF IInv, RunLoad
<1>1. Migrating \in Files /\ Kept(Migrating) /\ row[Migrating].key \in Keys /\ At(Migrating) \in Locations
  BY FileOfRunner DEF Kept, TypeOK, Rows, At, Locations, Migrating
<1>2. runner' = [runner EXCEPT !.pc = "loaded", !.source = At(Migrating)]
  BY DEF Migrating
<1>3. runner'.pc = "loaded" /\ runner'.source = At(Migrating) /\ runner'.job = runner.job
  BY <1>2 DEF TypeOK
<1>4. TypeOK'
  BY <1>1, <1>2 DEF TypeOK, RunnerPCs
<1>5. JobsFresh' /\ RunnerBusy' /\ PurgersBusy' /\ RunnerPlaces' /\ PlacesDiffer' /\ TargetHolds' /\ RowsHold'
  BY <1>1, <1>3 DEF JobsFresh, RunnerBusy, PurgersBusy, RunnerPlaces, PlacesDiffer, TargetHolds, RowsHold,
                    Kept, Exempt, RerunOntoLocal, Intact, At
<1>6. RowFollows'
  BY <1>3 DEF RowFollows, Migrating, At, Kept
<1>7. KeysOwned' /\ EarlierKeys'
  <2>1. runner'.source.key = row[Migrating].key
    BY <1>3 DEF At
  <2>2. Owns(Migrating, row[Migrating].key) /\ Earlier(row[Migrating].key)
    BY <1>1 DEF KeysOwned, EarlierKeys
  <2>3. QED
    BY <1>3, <2>1, <2>2, StillRunning
<1>8. QED
  BY <1>4, <1>5, <1>6, <1>7

\* Copying to the temporary file touches no object.
LEMMA RunCopyStep ==
  ASSUME IInv, RunCopy
  PROVE  IInv'
<1> USE FileStorageAssumption DEF IInv, RunCopy
<1>1. /\ runner'.pc = "copied" /\ runner'.source = runner.source /\ runner'.job = runner.job
      /\ runner'.target = runner.target
  BY DEF TypeOK
<1>2. TypeOK'
  BY DEF TypeOK, RunnerPCs
<1>3. JobsFresh' /\ RunnerBusy' /\ PurgersBusy' /\ RunnerPlaces' /\ PlacesDiffer' /\ TargetHolds' /\ RowsHold'
  BY <1>1 DEF JobsFresh, RunnerBusy, PurgersBusy, RunnerPlaces, PlacesDiffer, TargetHolds, RowsHold,
              Kept, Exempt, RerunOntoLocal, Intact, At
<1>4. RowFollows'
  BY <1>1 DEF RowFollows, Kept, Migrating, At
<1>5. KeysOwned' /\ EarlierKeys'
  <2>1. Owns(Migrating, runner.source.key) /\ Earlier(runner.source.key)
    BY DEF KeysOwned, EarlierKeys
  <2>2. QED
    BY <1>1, <2>1, StillRunning
<1>6. QED
  BY <1>2, <1>3, <1>4, <1>5

\* Where the runner puts: a place of the migrated file, and not where the file
\* is unless a local backend gives out the key of an earlier attempt again.
LEMMA PutPlace ==
  ASSUME IInv, runner.pc = "copied"
  PROVE  LET l == PutLocation(jobs[runner.job].target, runner.job, jobs[runner.job].attempts) IN
         /\ l \in Locations
         /\ Owns(Migrating, l.key)
         /\ l # runner.source \/ RerunOntoLocal(Migrating)
<1> USE FileStorageAssumption DEF IInv
<1> DEFINE job == jobs[runner.job]
           l   == PutLocation(job.target, runner.job, job.attempts)
<1>1. runner.job \in Jobs /\ job.target \in Profiles /\ job.attempts \in Nat
  BY DEF RunnerBusy, TypeOK, JobRows
<1>2. l.profile = job.target /\ l.key = IF job.target \in LocalProfiles THEN MigrationKey(runner.job)
                                                                     ELSE MessageKey(runner.job, job.attempts)
  BY DEF PutLocation
<1>3. l \in Locations
  BY <1>1 DEF PutLocation, Locations, Keys, MigrationKey, MessageKey
<1>4. Owns(Migrating, l.key)
  BY <1>2 DEF Owns, MigrationKey, MessageKey, Migrating
<1>5. Earlier(runner.source.key)
  BY DEF EarlierKeys
<1>6. ASSUME l = runner.source
      PROVE  RerunOntoLocal(Migrating)
  <2>1. CASE job.target \in LocalProfiles
    BY <1>1, <1>2, <1>5, <1>6, <2>1 DEF Earlier, MigrationKey, RerunOntoLocal, Migrating
  <2>2. CASE job.target \notin LocalProfiles
    BY <1>1, <1>2, <1>5, <1>6, <2>2 DEF Earlier, MessageKey
  <2>3. QED
    BY <2>1, <2>2
<1>7. QED
  BY <1>3, <1>4, <1>6

\* Deleting at, or putting to, a place the migrated file owns and is not at
\* keeps the bytes of every file.
LEMMA ElsewhereKeepsRows ==
  ASSUME IInv, runner.pc # "idle", NEW l \in Locations, Owns(Migrating, l.key),
         Kept(Migrating) => At(Migrating) # l \/ Exempt(Migrating),
         Removed(l) \subseteq objects'
  PROVE  \A g \in Files : Kept(g) /\ ~ Exempt(g) => Whole(g, At(g)) \in objects'
<1> SUFFICES ASSUME NEW g \in Files, Kept(g), ~ Exempt(g)
             PROVE  Whole(g, At(g)) \in Removed(l)
  OBVIOUS
<1>1. Intact(g)
  BY DEF IInv, RowsHold
<1>2. CASE g = Migrating
  BY <1>1, <1>2 DEF Removed, Whole, Intact
<1>3. CASE g # Migrating
  BY <1>1, <1>3, FileOfRunner, RemovedKeepsOthers
<1>4. QED
  BY <1>2, <1>3

\* Put stores at a place of the job's file, away from the source unless the job
\* is run again onto a local backend.
LEMMA RunPutStep ==
  ASSUME IInv, RunPut
  PROVE  IInv'
<1> USE FileStorageAssumption DEF IInv, RunPut
<1> PICK l : l = PutLocation(jobs[runner.job].target, runner.job, jobs[runner.job].attempts)
  OBVIOUS
<1>1. l \in Locations /\ Owns(Migrating, l.key) /\ (l # runner.source \/ RerunOntoLocal(Migrating))
  BY PutPlace
<1>2. PICK c \in {Migrating, Damaged} :
        /\ objects' = Stored(l, c)
        /\ runner' = [runner EXCEPT !.pc = "stored", !.target = l, !.verified = (c = Migrating)]
  BY DEF Migrating
<1>3. /\ runner'.pc = "stored" /\ runner'.source = runner.source /\ runner'.job = runner.job
      /\ runner'.target = l /\ (runner'.verified => c = Migrating)
  BY <1>2 DEF TypeOK
<1>4. Migrating \in Files /\ Migrating' = Migrating
  BY <1>3, FileOfRunner DEF Migrating
<1>5. TypeOK'
  <2>1. objects' \subseteq [at : Locations, content : Files \cup {Damaged}]
    BY <1>1, <1>2, <1>4 DEF TypeOK, Stored
  <2>2. runner' \in [pc : RunnerPCs, queue : SUBSET Jobs, job : Jobs \cup {None},
                     source : Locations \cup {None}, target : Locations \cup {None},
                     verified : BOOLEAN]
    BY <1>1, <1>2 DEF TypeOK, RunnerPCs
  <2>3. QED
    BY <2>1, <2>2 DEF TypeOK
<1>6. JobsFresh' /\ RunnerBusy' /\ PurgersBusy' /\ RunnerPlaces'
  BY <1>3 DEF JobsFresh, RunnerBusy, PurgersBusy, RunnerPlaces
<1>7. PlacesDiffer'
  BY <1>1, <1>3, <1>4 DEF PlacesDiffer, RerunOntoLocal
<1>8. RowFollows' /\ KeysOwned' /\ EarlierKeys'
  <2>1. RowFollows'
    BY <1>3, <1>4 DEF RowFollows, Kept, At
  <2>2. Owns(Migrating, runner.source.key) /\ Earlier(runner.source.key)
    BY DEF KeysOwned, EarlierKeys
  <2>3. QED
    BY <1>3, <2>1, <2>2, StillRunning
<1>9. TargetHolds'
  BY <1>2, <1>3, <1>4 DEF TargetHolds, Stored, Whole
<1>10. RowsHold'
  <2>1. Kept(Migrating) => At(Migrating) # l \/ Exempt(Migrating)
    BY <1>1 DEF RowFollows, Exempt
  <2>2. Removed(l) \subseteq objects'
    BY <1>2 DEF Stored, Removed
  <2>3. QED
    BY <1>1, <2>1, <2>2, ElsewhereKeepsRows DEF RowsHold, Kept, Exempt, RerunOntoLocal, Intact, At, Whole
<1>11. QED
  BY <1>5, <1>6, <1>7, <1>8, <1>9, <1>10

\* Run returns: the job ends and the goroutine takes the next one.
LEMMA RunEnds ==
  ASSUME IInv, runner.pc # "idle", NEW s \in FinalStates, Finish(runner.job, s), NextJob,
         UNCHANGED <<row, purger, purgeAsked, restarts>>,
         objects' \subseteq [at : Locations, content : Files \cup {Damaged}],
         \A f \in Files : Kept(f) /\ ~ Exempt(f) => Whole(f, At(f)) \in objects'
  PROVE  IInv'
<1> USE FileStorageAssumption DEF IInv, NextJob, IdleRunner
<1> PICK j \in Jobs : j = runner.job /\ jobs[j].state = "running"
  BY DEF RunnerBusy
<1>1. jobs'[j] = [state |-> s, lease |-> "none", attempts |-> jobs[j].attempts,
                  file |-> jobs[j].file, target |-> jobs[j].target]
  BY DEF Finish, SetJob, TypeOK
<1>2. \A k \in Jobs : k # j => jobs'[k] = jobs[k]
  BY DEF Finish, SetJob, TypeOK
<1>3. s \in JobStates /\ s # "none" /\ jobs[j] \in JobRows
  BY DEF FinalStates, JobStates, TypeOK
<1>4. jobs' \in [Jobs -> JobRows]
  <2>1. jobs'[j] \in JobRows
    BY <1>1, <1>3 DEF JobRows
  <2>2. QED
    BY <1>2, <2>1 DEF Finish, SetJob, TypeOK
<1>5. runner'.pc = "idle" /\ runner' \in [pc : RunnerPCs, queue : SUBSET Jobs, job : Jobs \cup {None},
                                          source : Locations \cup {None}, target : Locations \cup {None},
                                          verified : BOOLEAN]
  BY DEF TypeOK, RunnerPCs
<1>6. TypeOK'
  BY <1>1, <1>2, <1>4, <1>5 DEF TypeOK
<1>7. JobsKept /\ JobsFresh'
  BY <1>1, <1>2, <1>3 DEF JobsKept, JobsFresh, TypeOK, JobRows
<1>8. RunnerBusy' /\ RunnerPlaces' /\ EarlierKeys' /\ RowFollows' /\ PlacesDiffer' /\ TargetHolds'
  BY <1>5 DEF RunnerBusy, RunnerPlaces, EarlierKeys, RowFollows, PlacesDiffer, TargetHolds
<1>9. KeysOwned' /\ PurgersBusy' /\ RowsHold'
  BY <1>5, <1>6, <1>7, JobsStep DEF KeysOwned
<1>10. QED
  BY <1>6, <1>7, <1>8, <1>9

\* fail ends the job and touches no object.
LEMMA RunFailStep ==
  ASSUME IInv, RunFail
  PROVE  IInv'
BY RunEnds DEF RunFail, FinalStates, IInv, RowsHold, Intact, TypeOK

\* A send whose answer is lost stores at a key that no row will ever name.
LEMMA RunPutUnansweredStep ==
  ASSUME IInv, RunPutUnanswered
  PROVE  IInv'
<1> USE FileStorageAssumption DEF IInv, RunPutUnanswered
<1> PICK l : l = PutLocation(jobs[runner.job].target, runner.job, jobs[runner.job].attempts)
  OBVIOUS
<1>1. l \in Locations /\ Owns(Migrating, l.key) /\ (l # runner.source \/ RerunOntoLocal(Migrating))
  BY PutPlace
<1>2. objects' = Stored(l, Migrating)
  BY DEF Migrating
<1>3. objects' \subseteq [at : Locations, content : Files \cup {Damaged}]
  BY <1>1, <1>2, FileOfRunner DEF TypeOK, Stored
<1>4. Kept(Migrating) => At(Migrating) # l \/ Exempt(Migrating)
  BY <1>1 DEF RowFollows, Exempt
<1>5. \A f \in Files : Kept(f) /\ ~ Exempt(f) => Whole(f, At(f)) \in objects'
  BY <1>1, <1>2, <1>4, ElsewhereKeepsRows DEF Stored, Removed
<1>6. QED
  BY <1>3, <1>5, RunEnds DEF FinalStates

\* The row follows the verified copy to its new place.
LEMMA RunSwitchStep ==
  ASSUME IInv, RunSwitch
  PROVE  IInv'
<1> USE FileStorageAssumption DEF IInv, RunSwitch
<1> PICK f \in Files : f = Migrating
  BY FileOfRunner
<1>1. row[f] \in Rows /\ row[f].state = "active" /\ Kept(f)
  BY DEF TypeOK, Kept, Migrating
<1>2. runner.target \in Locations /\ runner.source \in Locations /\ Owns(f, runner.target.key)
      /\ Begun(runner.target.key)
  <2>1. runner.job \in Jobs /\ jobs[runner.job].target \in Profiles /\ jobs[runner.job].attempts \in Nat
        /\ jobs[runner.job].attempts >= 1
    BY DEF RunnerBusy, TypeOK, JobRows
  <2>2. runner.target = PutLocation(jobs[runner.job].target, runner.job, jobs[runner.job].attempts)
    BY DEF RunnerPlaces
  <2>3. QED
    BY <2>1, <2>2 DEF PutLocation, Locations, Keys, MigrationKey, MessageKey, Owns, Begun, Migrating, RunnerPlaces
<1>3. row' = [row EXCEPT ![f] = [state |-> "active", profile |-> runner.target.profile, key |-> runner.target.key]]
  BY <1>1 DEF TypeOK, Migrating
<1>4. row'[f] = [state |-> "active", profile |-> runner.target.profile, key |-> runner.target.key]
  BY <1>1, <1>3 DEF TypeOK
<1>5. \A g \in Files : g # f => row'[g] = row[g]
  BY <1>3 DEF TypeOK
<1>6. /\ runner'.pc = "switched" /\ runner'.source = runner.source /\ runner'.job = runner.job
      /\ runner'.target = runner.target
  BY DEF TypeOK
<1>7. At(f)' = runner.target /\ Kept(f)'
  BY <1>2, <1>4 DEF At, Locations, Kept
<1>8. TypeOK'
  <2>1. row'[f] \in Rows /\ row'[f].key \in Keys
    BY <1>2, <1>4 DEF Rows, FileStates, Locations
  <2>2. row' \in [Files -> Rows]
    BY <1>3, <1>4, <2>1 DEF TypeOK
  <2>3. \A g \in Files : IF row'[g].state = "purged" THEN row'[g].key = None ELSE row'[g].key \in Keys
    BY <1>4, <1>5, <2>1 DEF TypeOK
  <2>4. runner' \in [pc : RunnerPCs, queue : SUBSET Jobs, job : Jobs \cup {None},
                     source : Locations \cup {None}, target : Locations \cup {None},
                     verified : BOOLEAN]
    BY DEF TypeOK, RunnerPCs
  <2>5. QED
    BY <2>2, <2>3, <2>4 DEF TypeOK
<1>9. JobsFresh' /\ RunnerBusy' /\ PurgersBusy' /\ RunnerPlaces' /\ TargetHolds' /\ EarlierKeys'
  BY <1>6 DEF JobsFresh, RunnerBusy, PurgersBusy, RunnerPlaces, TargetHolds, EarlierKeys
<1>10. PlacesDiffer'
  BY <1>6 DEF PlacesDiffer, RerunOntoLocal, Migrating
<1>11. RowFollows'
  BY <1>6, <1>7 DEF RowFollows, Migrating
<1>12. KeysOwned'
  <2>1. \A g \in Files : Kept(g)' => Owns(g, row[g].key)' /\ Begun(row[g].key)'
    <3> SUFFICES ASSUME NEW g \in Files, Kept(g)'
                 PROVE  Owns(g, row[g].key)' /\ Begun(row[g].key)'
      OBVIOUS
    <3>1. CASE g = f
      <4>1. PICK k : k = runner.target.key
        OBVIOUS
      <4>2. (row[g].key)' = k
        BY <1>4, <3>1, <4>1
      <4>3. Owns(g, k)' /\ Begun(k)'
        BY <1>2, <3>1, <4>1 DEF Owns, Begun
      <4>4. QED
        BY <4>2, <4>3
    <3>2. CASE g # f
      <4>1. PICK k : k = row[g].key
        OBVIOUS
      <4>2. (row[g].key)' = k /\ Kept(g)
        BY <1>5, <3>2, <4>1 DEF Kept
      <4>3. Owns(g, k) /\ Begun(k)
        BY <4>1, <4>2 DEF KeysOwned
      <4>4. Owns(g, k)' /\ Begun(k)'
        BY <4>3 DEF Owns, Begun
      <4>5. QED
        BY <4>2, <4>4
    <3>3. QED
      BY <3>1, <3>2
  <2>2. \A u \in Requests : (purger[u].pc # "idle")' => Owns(purger[u].file, purger[u].at.key)'
    BY DEF KeysOwned, Owns
  <2>3. Owns(Migrating, runner.source.key)'
    BY <1>6 DEF KeysOwned, Owns, Migrating
  <2>4. QED
    BY <2>1, <2>2, <2>3 DEF KeysOwned
<1>13. RowsHold'
  <2> SUFFICES ASSUME NEW g \in Files, Kept(g)', ~ Exempt(g)
               PROVE  Whole(g, At(g)') \in objects
    BY DEF RowsHold, Intact, Whole, Exempt, RerunOntoLocal
  <2>1. CASE g = f
    BY <1>7, <2>1 DEF TargetHolds
  <2>2. CASE g # f
    BY <1>5, <2>2 DEF RowsHold, Kept, Intact, At
  <2>3. QED
    BY <2>1, <2>2
<1>14. QED
  BY <1>8, <1>9, <1>10, <1>11, <1>12, <1>13

\* A rejected copy is deleted where no row points, reruns excepted.
LEMMA RunRejectStep ==
  ASSUME IInv, RunReject
  PROVE  IInv'
<1> USE FileStorageAssumption DEF IInv, RunReject
<1>1. runner.target \in Locations /\ Owns(Migrating, runner.target.key)
  <2>1. runner.job \in Jobs /\ jobs[runner.job].target \in Profiles /\ jobs[runner.job].attempts \in Nat
    BY DEF RunnerBusy, TypeOK, JobRows
  <2>2. QED
    BY <2>1 DEF RunnerPlaces, PutLocation, Locations, Keys, MigrationKey, MessageKey, Owns, Migrating
<1>2. Kept(Migrating) => At(Migrating) # runner.target \/ Exempt(Migrating)
  BY DEF RowFollows, PlacesDiffer, Exempt
<1>3. objects' \subseteq objects /\ Removed(runner.target) \subseteq objects'
  BY DEF Removed
<1>4. \A f \in Files : Kept(f) /\ ~ Exempt(f) => Whole(f, At(f)) \in objects'
  BY <1>1, <1>2, <1>3, ElsewhereKeepsRows
<1>5. QED
  BY <1>3, <1>4, RunEnds DEF TypeOK, FinalStates

\* After the switch the source is a place where the file no longer is.
LEMMA SourceElsewhere ==
  ASSUME IInv, runner.pc = "switched"
  PROVE  /\ runner.source \in Locations /\ Owns(Migrating, runner.source.key)
         /\ Kept(Migrating) => At(Migrating) # runner.source \/ Exempt(Migrating)
BY DEF IInv, RunnerPlaces, KeysOwned, RowFollows, PlacesDiffer, Exempt

\* The source is deleted only after the row has left it, reruns excepted.
LEMMA RunDeleteSourceStep ==
  ASSUME IInv, RunDeleteSource
  PROVE  IInv'
<1> USE FileStorageAssumption DEF IInv, RunDeleteSource
<1>1. /\ runner'.pc = "cleaned" /\ runner'.source = runner.source /\ runner'.job = runner.job
      /\ runner'.target = runner.target
  BY DEF TypeOK
<1>2. TypeOK'
  BY DEF TypeOK, RunnerPCs, Removed
<1>3. JobsFresh' /\ RunnerBusy' /\ PurgersBusy' /\ RunnerPlaces' /\ PlacesDiffer' /\ TargetHolds'
      /\ RowFollows' /\ EarlierKeys'
  BY <1>1 DEF JobsFresh, RunnerBusy, PurgersBusy, RunnerPlaces, PlacesDiffer, TargetHolds, RowFollows, EarlierKeys
<1>4. KeysOwned'
  BY <1>1, SourceElsewhere, StillRunning
<1>5. \A f \in Files : Kept(f) /\ ~ Exempt(f) => Whole(f, At(f)) \in objects'
  BY SourceElsewhere, ElsewhereKeepsRows
<1>6. RowsHold'
  BY <1>5 DEF RowsHold, Kept, Exempt, RerunOntoLocal, Intact, At, Whole
<1>7. QED
  BY <1>2, <1>3, <1>4, <1>6

\* A source that could not be deleted, or was, and the job waits for a clean-up.
LEMMA RunCleanupPendingStep ==
  ASSUME IInv, RunCleanupPending
  PROVE  IInv'
<1> USE DEF RunCleanupPending
<1>1. objects' \subseteq objects /\ Removed(runner.source) \subseteq objects'
  BY DEF Removed
<1>2. \A f \in Files : Kept(f) /\ ~ Exempt(f) => Whole(f, At(f)) \in objects'
  BY <1>1, SourceElsewhere, ElsewhereKeepsRows
<1>3. QED
  BY <1>1, <1>2, RunEnds DEF IInv, TypeOK, FinalStates

\* Finish(Succeeded) ends the job.
LEMMA RunSucceedStep ==
  ASSUME IInv, RunSucceed
  PROVE  IInv'
BY RunEnds DEF RunSucceed, FinalStates, IInv, RowsHold, Intact, TypeOK

\* After a crash nothing is being run and nothing is being purged.
LEMMA RestartStep ==
  ASSUME IInv, Restart
  PROVE  IInv'
<1> USE FileStorageAssumption DEF IInv, Restart
<1>1. runner'.pc = "idle" /\ \A u \in Requests : purger'[u].pc = "idle"
  BY DEF IdleRunner, IdlePurger
<1>2. TypeOK'
  BY DEF TypeOK, IdleRunner, IdlePurger, RunnerPCs
<1>3. JobsFresh' /\ RunnerBusy' /\ PurgersBusy' /\ RunnerPlaces' /\ PlacesDiffer' /\ TargetHolds'
      /\ RowFollows' /\ EarlierKeys' /\ RowsHold'
  BY <1>1 DEF JobsFresh, RunnerBusy, PurgersBusy, RunnerPlaces, PlacesDiffer, TargetHolds, RowFollows,
              EarlierKeys, RowsHold, Kept, Exempt, RerunOntoLocal, Intact, At
<1>4. KeysOwned'
  BY <1>1 DEF KeysOwned, Owns, Begun, Kept
<1>5. QED
  BY <1>2, <1>3, <1>4

----------------------------------------------------------------------------
(* The theorems.                                                           *)

\* Every file starts under the key of its own upload.
LEMMA InitHolds == Init => IInv
<1> SUFFICES ASSUME Init PROVE IInv
  OBVIOUS
<1> USE FileStorageAssumption DEF Init
<1> PICK p \in [Files -> Profiles] :
      /\ row = [f \in Files |-> [state |-> "active", profile |-> p[f], key |-> UploadKey(f)]]
      /\ objects = {Whole(f, [profile |-> p[f], key |-> UploadKey(f)]) : f \in Files}
  OBVIOUS
<1>1. \A f \in Files : UploadKey(f) \in Keys /\ [profile |-> p[f], key |-> UploadKey(f)] \in Locations
  BY DEF UploadKey, Keys, Locations
<1>2. TypeOK
  <2>1. row \in [Files -> Rows] /\ \A f \in Files : row[f].key \in Keys /\ row[f].state # "purged"
    BY <1>1 DEF Rows, FileStates
  <2>2. objects \subseteq [at : Locations, content : Files \cup {Damaged}]
    BY <1>1 DEF Whole
  <2>3. jobs \in [Jobs -> JobRows] /\ \A j \in Jobs : jobs[j].state = "none"
    BY DEF JobRows, JobStates
  <2>4. QED
    BY <2>1, <2>2, <2>3 DEF TypeOK, IdleRunner, IdlePurger, RunnerPCs
<1>3. JobsFresh /\ RunnerBusy /\ PurgersBusy /\ RunnerPlaces /\ PlacesDiffer /\ TargetHolds /\ RowFollows /\ EarlierKeys
  BY DEF JobsFresh, RunnerBusy, PurgersBusy, RunnerPlaces, PlacesDiffer, TargetHolds, RowFollows, EarlierKeys,
         IdleRunner, IdlePurger
<1>4. KeysOwned
  BY DEF KeysOwned, Owns, Begun, UploadKey, IdleRunner, IdlePurger
<1>5. RowsHold
  BY DEF RowsHold, Intact, At, Whole
<1>6. QED
  BY <1>2, <1>3, <1>4, <1>5 DEF IInv

\* Every step of the trash, the purges, the runner and a crash keeps IInv.
LEMMA StepHolds == IInv /\ [Next]_vars => IInv'
<1> SUFFICES ASSUME IInv, [Next]_vars PROVE IInv'
  OBVIOUS
<1>1. CASE \E f \in Files : DeleteFile(f) \/ RestoreFile(f)
  BY <1>1, TrashStep
<1>2. CASE \E f \in Files, p \in Profiles : Start(f, p)
  BY <1>2, StartStep
<1>3. CASE \E j \in Jobs : LeaseExpires(j)
  BY <1>3, LeaseExpiresStep
<1>4. CASE Purging
  BY <1>4, PurgeReadStep, PurgeDeleteStep, PurgeMarkStep, PurgeAbandonedStep DEF Purging
<1>5. CASE Running
  BY <1>5, RunPendingStep, RunBeginStep, RunLoadStep, RunCopyStep, RunPutStep, RunPutUnansweredStep, RunFailStep,
     RunSwitchStep, RunRejectStep, RunDeleteSourceStep, RunCleanupPendingStep, RunSucceedStep DEF Running
<1>6. CASE Restart
  BY <1>6, RestartStep
<1>7. CASE UNCHANGED vars
  <2> USE <1>7 DEF vars, IInv
  <2>1. TypeOK' /\ JobsFresh' /\ RunnerBusy' /\ PurgersBusy' /\ RunnerPlaces'
    BY DEF TypeOK, JobsFresh, RunnerBusy, PurgersBusy, RunnerPlaces
  <2>2. KeysOwned' /\ EarlierKeys' /\ RowFollows'
    BY DEF KeysOwned, EarlierKeys, RowFollows, Owns, Begun, Earlier, Migrating, Kept, At
  <2>3. PlacesDiffer' /\ TargetHolds' /\ RowsHold'
    BY DEF PlacesDiffer, TargetHolds, RowsHold, Exempt, RerunOntoLocal, Migrating, Kept, Intact, At, Whole
  <2>4. QED
    BY <2>1, <2>2, <2>3
<1>8. QED
  BY <1>1, <1>2, <1>3, <1>4, <1>5, <1>6, <1>7 DEF Next

\* The ownership of keys and the places of the runner stay as IInv says, for any
\* number of files, jobs, purges and crashes.
THEOREM Invariance == Spec => []IInv
BY InitHolds, StepHolds, PTL DEF Spec

\* Rows, jobs and local variables keep their shape, whatever the instance.
THEOREM TypeCorrect == Spec => []TypeOK
<1>1. IInv => TypeOK
  BY DEF IInv
<1>2. QED
  BY <1>1, Invariance, PTL

\* The bytes of a file that is not purged are lost only to a purge of that file
\* or to a second run of a migration of it onto a local backend.
THEOREM ContentSafe == Spec => []OnlyPurgeOrRerunLosesContent
<1>1. IInv => OnlyPurgeOrRerunLosesContent
  BY DEF IInv, RowsHold, Exempt, OnlyPurgeOrRerunLosesContent
<1>2. QED
  BY <1>1, Invariance, PTL

\* Two files never share an object.
THEOREM ObjectsUnshared == Spec => []NoSharedObject
<1>1. IInv => NoSharedObject
  <2> SUFFICES ASSUME IInv, NEW f \in Files, NEW g \in Files, Kept(f), Kept(g), row[f].key = row[g].key
               PROVE  f = g
    BY DEF NoSharedObject, At
  <2>1. Owns(f, row[f].key) /\ Owns(g, row[f].key)
    BY DEF IInv, KeysOwned
  <2>2. QED
    BY <2>1 DEF Owns, UploadKey
<1>2. QED
  BY <1>1, Invariance, PTL

\* A purged row never changes again.
THEOREM PurgedStays == Spec => PurgedIsFinal
<1>1. ASSUME IInv, [Next]_vars, NEW f \in Files, row[f].state = "purged"
      PROVE  row'[f] = row[f]
  <2>1. row \in [Files -> Rows] /\ row[f] = [state |-> "purged", profile |-> row[f].profile, key |-> None]
    BY <1>1 DEF IInv, TypeOK, Rows
  <2>2. CASE \E g \in Files : DeleteFile(g) \/ RestoreFile(g)
    BY <1>1, <2>1, <2>2 DEF DeleteFile, RestoreFile
  <2>3. CASE Purging
    BY <1>1, <2>1, <2>3 DEF Purging, PurgeRead, PurgeDelete, PurgeDeleteFails, PurgeMark, PurgeAbandoned
  <2>4. CASE Running
    BY <1>1, <2>1, <2>4 DEF Running, RunPending, RunBegin, RunLoad, RunCopy, RunPut, RunPutUnanswered, RunFail,
                            RunSwitch, RunReject, RunDeleteSource, RunCleanupPending, RunSucceed
  <2>5. CASE Restart \/ (\E g \in Files, p \in Profiles : Start(g, p)) \/ (\E j \in Jobs : LeaseExpires(j)) \/ UNCHANGED vars
    BY <2>5 DEF Restart, Start, LeaseExpires, vars
  <2>6. QED
    BY <1>1, <2>2, <2>3, <2>4, <2>5 DEF Next
<1>2. IInv /\ [Next]_vars => [\A f \in Files : row[f].state = "purged" => row'[f] = row[f]]_vars
  BY <1>1
<1>3. QED
  BY <1>2, Invariance, PTL DEF Spec, PurgedIsFinal

----------------------------------------------------------------------------
(* How many copies of a file there are.  A file is tidy as long as no purge *)
(* has asked for it and every job of it waits for its first attempt, is at  *)
(* it, or has succeeded with it.  A tidy file has its bytes where its row   *)
(* says and, between Put and the deletion of the source, at the other end   *)
(* of its migration: nowhere else.                                          *)

\* A purge that marks its file has called Delete for it.
Marked ==
  /\ \A u \in Requests : purger[u].pc = "marking" => purger[u].file \in purgeAsked
  /\ \A f \in Files : ~ Kept(f) => f \in purgeAsked

Retried == \A j \in Jobs : jobs[j].state \in {"retry_wait", "running"} => jobs[j].attempts >= 1

AtWork(j) == runner.pc # "idle" /\ runner.job = j

Tidy(f) ==
  /\ f \notin purgeAsked
  /\ \A j \in Jobs : jobs[j].file = f =>
       /\ jobs[j].attempts <= 1
       /\ jobs[j].state \in {"queued", "succeeded"} \/ (jobs[j].state = "running" /\ AtWork(j))

CopyAt(f, l) ==
  \/ l = At(f)
  \/ runner.pc = "stored" /\ runner.verified /\ Migrating = f /\ l = runner.target
  \/ runner.pc = "switched" /\ Migrating = f /\ l = runner.source

OneCopy ==
  \A f \in Files : Tidy(f) => \A l \in Locations : Whole(f, l) \in objects <=> CopyAt(f, l)

CopiesInv == IInv /\ Marked /\ Retried /\ OneCopy

\* A tidy file has a row with a place, and no second attempt excuses a loss.
LEMMA TidyFacts ==
  ASSUME IInv, Marked, NEW f \in Files, Tidy(f)
  PROVE  Kept(f) /\ ~ RerunOntoLocal(f)
BY DEF IInv, Marked, Tidy, RerunOntoLocal, TypeOK, JobRows

\* The copies of a tidy file are at places it owns.
LEMMA CopiesOwned ==
  ASSUME CopiesInv, NEW f \in Files, Tidy(f), NEW l \in Locations, Whole(f, l) \in objects
  PROVE  Owns(f, l.key)
<1> USE DEF CopiesInv, IInv
<1>1. CASE l = At(f)
  BY <1>1, TidyFacts DEF KeysOwned, At
<1>2. CASE runner.pc = "stored" /\ Migrating = f /\ l = runner.target
  BY <1>2 DEF RunnerPlaces, PutLocation, Owns, MigrationKey, MessageKey, Migrating
<1>3. CASE runner.pc = "switched" /\ Migrating = f /\ l = runner.source
  BY <1>3 DEF KeysOwned
<1>4. QED
  BY <1>1, <1>2, <1>3 DEF OneCopy, CopyAt

\* What a step puts or deletes at a place of one file is no copy of another.
LEMMA OthersCopies ==
  ASSUME CopiesInv, NEW f \in Files, NEW l \in Locations, Owns(f, l.key),
         Removed(l) \subseteq objects',
         \A o \in objects' : o \in objects \/ (o.at = l /\ o.content \in {f, Damaged}),
         NEW g \in Files, g # f, Tidy(g), NEW m \in Locations
  PROVE  Whole(g, m) \in objects' <=> Whole(g, m) \in objects
<1>1. Whole(g, m) \in objects' => Whole(g, m) \in objects
  BY FileStorageAssumption DEF Whole
<1>2. ASSUME Whole(g, m) \in objects
      PROVE  Whole(g, m) \in objects'
  <2>1. Owns(g, m.key)
    BY <1>2, CopiesOwned
  <2>2. m # l
    BY <2>1 DEF Owns, UploadKey
  <2>3. QED
    BY <1>2, <2>2 DEF Removed, Whole
<1>3. QED
  BY <1>1, <1>2

\* A file is tidy after a step of the trash or of the purges only if it was, and
\* its copies are where they were.
LEMMA TrashCopies ==
  ASSUME CopiesInv, NEW f \in Files, DeleteFile(f) \/ RestoreFile(f)
  PROVE  Marked' /\ Retried' /\ OneCopy'
<1> USE DEF CopiesInv, DeleteFile, RestoreFile
<1>1. \A g \in Files : At(g)' = At(g) /\ (Kept(g)' <=> Kept(g))
  BY DEF IInv, TypeOK, Rows, At, Kept
<1>2. Marked' /\ Retried'
  BY <1>1 DEF Marked, Retried
<1>3. \A g \in Files : Tidy(g)' => Tidy(g)
  BY DEF Tidy, AtWork
<1>4. \A g \in Files, l \in Locations : CopyAt(g, l)' <=> CopyAt(g, l)
  BY <1>1 DEF CopyAt, Migrating
<1>5. QED
  BY <1>2, <1>3, <1>4 DEF OneCopy, Whole

\* A purge that calls Delete unsettles its own file and no other's copies.
LEMMA PurgingCopies ==
  ASSUME CopiesInv, Purging
  PROVE  Marked' /\ Retried' /\ OneCopy'
<1> USE DEF CopiesInv, IInv
<1> PICK u \in Requests : \/ \E f \in Files : PurgeRead(u, f)
                          \/ PurgeDelete(u) \/ PurgeDeleteFails(u)
                          \/ PurgeMark(u) \/ PurgeAbandoned(u)
  BY DEF Purging
<1>1. UNCHANGED <<jobs, runner>> /\ purgeAsked \subseteq purgeAsked'
  BY DEF PurgeRead, PurgeDelete, PurgeDeleteFails, PurgeMark, PurgeAbandoned
<1>2. Retried'
  BY <1>1 DEF Retried
<1>3. \A g \in Files : Tidy(g)' => Tidy(g)
  BY <1>1 DEF Tidy, AtWork
<1>4. \A v \in Requests : v # u => purger'[v] = purger[v]
  BY DEF TypeOK, PurgeRead, PurgeDelete, PurgeDeleteFails, PurgeMark, PurgeAbandoned
<1>5. purger'[u].pc = "marking" => purger'[u].file \in purgeAsked'
  BY DEF TypeOK, PurgeRead, PurgeDelete, PurgeDeleteFails, PurgeMark, PurgeAbandoned, IdlePurger
<1>6. \A g \in Files : g \notin purgeAsked' => row'[g] = row[g]
  <2>1. CASE PurgeMark(u)
    BY <2>1 DEF PurgeMark, Marked, PurgersBusy, TypeOK
  <2>2. QED
    BY <2>1 DEF PurgeRead, PurgeDelete, PurgeDeleteFails, PurgeAbandoned
<1>7. Marked'
  BY <1>1, <1>4, <1>5, <1>6 DEF Marked, Kept
<1>8. ASSUME NEW g \in Files, Tidy(g)', NEW l \in Locations
      PROVE  Whole(g, l) \in objects' <=> CopyAt(g, l)'
  <2>1. Tidy(g) /\ g \notin purgeAsked' /\ row'[g] = row[g]
    BY <1>3, <1>6, <1>8 DEF Tidy
  <2>2. CopyAt(g, l)' <=> CopyAt(g, l)
    BY <1>1, <2>1 DEF CopyAt, At, Migrating
  <2>3. CASE PurgeDelete(u) \/ PurgeDeleteFails(u)
    <3>1. /\ purger[u].at \in Locations /\ purger[u].file \in Files /\ Owns(purger[u].file, purger[u].at.key)
          /\ g # purger[u].file /\ objects' \in {objects, Removed(purger[u].at)}
      BY <2>1, <2>3 DEF PurgersBusy, KeysOwned, PurgeDelete, PurgeDeleteFails
    <3>2. Removed(purger[u].at) \subseteq objects' /\ objects' \subseteq objects
      BY <3>1 DEF Removed
    <3>3. Whole(g, l) \in objects' <=> Whole(g, l) \in objects
      BY <2>1, <3>1, <3>2, OthersCopies
    <3>4. QED
      BY <2>1, <2>2, <3>3 DEF OneCopy
  <2>4. CASE ~ (PurgeDelete(u) \/ PurgeDeleteFails(u))
    <3>1. UNCHANGED objects
      BY <2>4 DEF PurgeRead, PurgeMark, PurgeAbandoned
    <3>2. QED
      BY <2>1, <2>2, <3>1 DEF OneCopy
  <2>5. QED
    BY <2>3, <2>4
<1>9. OneCopy'
  BY <1>8 DEF OneCopy, Whole
<1>10. QED
  BY <1>2, <1>7, <1>9

\* A new job waits for its first attempt; an expired lease changes no job's course.
LEMMA JobsCopies ==
  ASSUME CopiesInv,
         \/ \E f \in Files, p \in Profiles : Start(f, p)
         \/ \E j \in Jobs : LeaseExpires(j)
  PROVE  Marked' /\ Retried' /\ OneCopy'
<1> USE DEF CopiesInv, IInv
<1>1. UNCHANGED <<row, objects, runner, purger, purgeAsked>>
  BY DEF Start, LeaseExpires
<1>2. \A j \in Jobs : \/ /\ jobs'[j].state = jobs[j].state /\ jobs'[j].attempts = jobs[j].attempts
                         /\ jobs'[j].file = jobs[j].file
                      \/ jobs[j].state = "none" /\ jobs'[j].state = "queued"
  BY DEF Start, LeaseExpires, TypeOK, JobRows
<1>3. Marked' /\ Retried'
  BY <1>1, <1>2 DEF Marked, Retried, Kept
<1>4. \A f \in Files : Tidy(f)' => Tidy(f)
  <2> SUFFICES ASSUME NEW f \in Files, Tidy(f)', NEW j \in Jobs, jobs[j].file = f
               PROVE  /\ jobs[j].attempts <= 1
                      /\ jobs[j].state \in {"queued", "succeeded"} \/ (jobs[j].state = "running" /\ AtWork(j))
    BY <1>1 DEF Tidy
  <2>1. jobs[j].state # "none"
    BY FileStorageAssumption DEF JobsFresh
  <2>2. jobs'[j].state = jobs[j].state /\ jobs'[j].attempts = jobs[j].attempts /\ jobs'[j].file = f
    BY <1>2, <2>1
  <2>3. QED
    BY <1>1, <2>2 DEF Tidy, AtWork
<1>5. runner.pc # "idle" => jobs'[runner.job].file = jobs[runner.job].file
  BY <1>2 DEF RunnerBusy
<1>6. \A f \in Files, l \in Locations : CopyAt(f, l)' <=> CopyAt(f, l)
  BY <1>1, <1>5 DEF CopyAt, At, Migrating
<1>7. QED
  BY <1>1, <1>3, <1>4, <1>6 DEF OneCopy, Whole

\* Recovering a job, and beginning one again, leave its file untidy.
LEMMA PendingCopies ==
  ASSUME CopiesInv, RunPending \/ RunBegin
  PROVE  Marked' /\ Retried' /\ OneCopy'
<1> USE DEF CopiesInv, IInv
<1>1. UNCHANGED <<row, objects, purger, purgeAsked>> /\ runner.pc = "idle"
  BY DEF RunPending, RunBegin
<1>2. Marked'
  BY <1>1 DEF Marked, Kept
<1>3. \A j \in Jobs : jobs[j].attempts \in Nat
  BY DEF TypeOK, JobRows
<1>4. CASE RunPending
  <2>1. runner'.pc = "idle"
    BY <1>4 DEF RunPending, TypeOK
  <2>2. \A j \in Jobs : /\ jobs'[j].attempts = jobs[j].attempts /\ jobs'[j].file = jobs[j].file
                        /\ \/ jobs'[j].state = jobs[j].state
                           \/ jobs[j].state = "running" /\ jobs'[j].state = "retry_wait"
    BY <1>4 DEF RunPending, Recovered
  <2>3. Retried'
    BY <2>2 DEF Retried
  <2>4. \A f \in Files : Tidy(f)' => Tidy(f)
    BY <1>1, <2>1, <2>2 DEF Tidy, AtWork
  <2>5. \A f \in Files, l \in Locations : CopyAt(f, l)' <=> CopyAt(f, l)
    BY <1>1, <2>1 DEF CopyAt, At
  <2>6. QED
    BY <1>1, <1>2, <2>3, <2>4, <2>5 DEF OneCopy, Whole
<1>5. CASE RunBegin
  <2>1. PICK j \in Jobs :
          /\ jobs[j].state \in {"queued", "retry_wait"}
          /\ SetJob(j, "running", "held", jobs[j].attempts + 1)
          /\ runner' = [runner EXCEPT !.pc = "begun", !.queue = @ \ {j}, !.job = j]
    BY <1>5 DEF RunBegin, TypeOK
  <2>2. /\ jobs'[j].state = "running" /\ jobs'[j].attempts = jobs[j].attempts + 1 /\ jobs'[j].file = jobs[j].file
        /\ \A k \in Jobs : k # j => jobs'[k] = jobs[k]
    BY <2>1 DEF SetJob, TypeOK
  <2>3. runner'.pc = "begun" /\ runner'.job = j
    BY <2>1 DEF TypeOK
  <2>4. Retried'
    BY <1>3, <2>2 DEF Retried
  <2>5. \A f \in Files : Tidy(f)' => Tidy(f)
    <3> SUFFICES ASSUME NEW f \in Files, Tidy(f)', NEW k \in Jobs, jobs[k].file = f
                 PROVE  /\ jobs[k].attempts <= 1
                        /\ jobs[k].state \in {"queued", "succeeded"} \/ (jobs[k].state = "running" /\ AtWork(k))
      BY <1>1 DEF Tidy
    <3>1. CASE k = j
      <4>1. jobs'[j].attempts <= 1
        BY <2>2, <3>1 DEF Tidy
      <4>2. jobs[j].attempts = 0
        BY <1>3, <2>2, <4>1
      <4>3. QED
        BY <2>1, <3>1, <4>2 DEF Retried
    <3>2. CASE k # j
      BY <2>2, <2>3, <3>2 DEF Tidy, AtWork
    <3>3. QED
      BY <3>1, <3>2
  <2>6. \A f \in Files, l \in Locations : CopyAt(f, l)' <=> CopyAt(f, l)
    BY <1>1, <2>3 DEF CopyAt, At
  <2>7. QED
    BY <1>1, <1>2, <2>4, <2>5, <2>6 DEF OneCopy, Whole
<1>6. QED
  BY <1>4, <1>5

\* While the runner is at a job its other jobs and all the rows stay.
LEMMA RunnerTidy ==
  ASSUME CopiesInv, UNCHANGED <<jobs, purger, purgeAsked>>, runner.pc # "idle",
         runner'.pc # "idle", runner'.job = runner.job,
         \A f \in Files : row'[f].state = row[f].state
  PROVE  Marked' /\ Retried' /\ (\A f \in Files : Tidy(f)' <=> Tidy(f)) /\ Migrating' = Migrating
BY DEF CopiesInv, Marked, Retried, Tidy, AtWork, Kept, Migrating

\* Reading and copying touch no object, and neither does the end of a success.
LEMMA ReadCopies ==
  ASSUME CopiesInv, RunLoad \/ RunCopy
  PROVE  Marked' /\ Retried' /\ OneCopy'
<1> USE DEF CopiesInv, IInv
<1>1. /\ UNCHANGED <<row, objects, jobs, purger, purgeAsked>> /\ runner'.job = runner.job
      /\ runner.pc \in {"begun", "loaded"} /\ runner'.pc \in {"loaded", "copied"}
  BY DEF RunLoad, RunCopy, TypeOK
<1>2. Marked' /\ Retried' /\ \A f \in Files : Tidy(f)' <=> Tidy(f)
  BY <1>1, RunnerTidy
<1>3. \A f \in Files, l \in Locations : CopyAt(f, l)' <=> CopyAt(f, l)
  BY <1>1 DEF CopyAt, At
<1>4. QED
  BY <1>1, <1>2, <1>3 DEF OneCopy, Whole

\* Put adds the target to the places of its file if it stored the right bytes.
LEMMA PutCopies ==
  ASSUME CopiesInv, RunPut
  PROVE  Marked' /\ Retried' /\ OneCopy'
<1> USE DEF CopiesInv, IInv
<1> PICK l : l = PutLocation(jobs[runner.job].target, runner.job, jobs[runner.job].attempts)
  OBVIOUS
<1>1. l \in Locations /\ Owns(Migrating, l.key) /\ (l # runner.source \/ RerunOntoLocal(Migrating))
  BY PutPlace DEF RunPut
<1>2. PICK c \in {Migrating, Damaged} :
        /\ objects' = Stored(l, c)
        /\ runner' = [runner EXCEPT !.pc = "stored", !.target = l, !.verified = (c = Migrating)]
  BY DEF RunPut, Migrating
<1>3. /\ runner.pc = "copied" /\ runner'.pc = "stored" /\ runner'.job = runner.job /\ runner'.target = l
      /\ (runner'.verified <=> c = Migrating) /\ UNCHANGED <<row, jobs, purger, purgeAsked>>
  BY <1>2 DEF RunPut, TypeOK
<1>4. Migrating \in Files /\ Migrating # Damaged
  BY <1>3, FileOfRunner, FileStorageAssumption
<1>5. Marked' /\ Retried' /\ Migrating' = Migrating /\ \A f \in Files : Tidy(f)' <=> Tidy(f)
  BY <1>3, RunnerTidy
<1>6. ASSUME NEW f \in Files, Tidy(f), NEW m \in Locations
      PROVE  Whole(f, m) \in objects' <=> CopyAt(f, m)'
  <2>1. Whole(f, m) \in objects <=> m = At(f)
    BY <1>3, <1>6 DEF OneCopy, CopyAt
  <2>2. CASE f = Migrating
    <3>1. At(f) = runner.source /\ l # At(f)
      BY <1>1, <1>3, <1>6, <2>2, TidyFacts DEF RowFollows
    <3>2. CopyAt(f, m)' <=> m = At(f) \/ (c = f /\ m = l)
      BY <1>3, <1>5, <2>2 DEF CopyAt, At
    <3>3. Whole(f, m) \in objects' <=> m = At(f) \/ (c = f /\ m = l)
      BY <1>2, <2>1, <3>1 DEF Stored, Whole
    <3>4. QED
      BY <3>2, <3>3
  <2>3. CASE f # Migrating
    <3>1. Removed(l) \subseteq objects' /\ \A o \in objects' : o \in objects \/ (o.at = l /\ o.content \in {Migrating, Damaged})
      BY <1>2 DEF Removed, Stored
    <3>2. Whole(f, m) \in objects' <=> Whole(f, m) \in objects
      BY <1>1, <1>4, <1>6, <2>3, <3>1, OthersCopies
    <3>3. CopyAt(f, m)' <=> m = At(f)
      BY <1>3, <1>5, <2>3 DEF CopyAt, At
    <3>4. QED
      BY <2>1, <3>2, <3>3
  <2>4. QED
    BY <2>2, <2>3
<1>7. QED
  BY <1>5, <1>6 DEF OneCopy, Whole

\* The switch swaps the two ends of a migration: the copies stay.
LEMMA SwitchCopies ==
  ASSUME CopiesInv, RunSwitch
  PROVE  Marked' /\ Retried' /\ OneCopy'
<1> USE DEF CopiesInv, IInv, RunSwitch
<1>1. /\ runner.pc = "stored" /\ runner'.pc = "switched" /\ runner'.job = runner.job /\ runner.verified
      /\ runner'.source = runner.source /\ UNCHANGED <<objects, jobs, purger, purgeAsked>>
  BY DEF TypeOK
<1>2. Migrating \in Files
  BY <1>1, FileOfRunner
<1>3. \A g \in Files : g # Migrating => row'[g] = row[g]
  BY DEF TypeOK, Migrating
<1>4. row'[Migrating] = [state |-> row[Migrating].state, profile |-> runner.target.profile, key |-> runner.target.key]
  BY <1>2 DEF TypeOK, Migrating
<1>5. \A g \in Files : row'[g].state = row[g].state
  BY <1>3, <1>4
<1>6. Marked' /\ Retried' /\ Migrating' = Migrating /\ \A f \in Files : Tidy(f)' <=> Tidy(f)
  BY <1>1, <1>5, RunnerTidy
<1>7. ASSUME NEW f \in Files, Tidy(f), NEW m \in Locations
      PROVE  CopyAt(f, m)' <=> CopyAt(f, m)
  <2>1. CASE f = Migrating
    <3>1. At(f) = runner.source
      BY <1>1, <1>7, <2>1, TidyFacts DEF RowFollows
    <3>2. runner.target \in Locations
      <4>1. jobs[runner.job].target \in Profiles /\ runner.job \in Jobs /\ jobs[runner.job].attempts \in Nat
        BY <1>1 DEF RunnerBusy, TypeOK, JobRows
      <4>2. QED
        BY <1>1, <4>1 DEF RunnerPlaces, PutLocation, Locations, Keys, MigrationKey, MessageKey
    <3>3. [profile |-> row'[f].profile, key |-> row'[f].key] = runner.target
      BY <1>4, <2>1, <3>2 DEF Locations
    <3>4. CopyAt(f, m) <=> m = runner.source \/ m = runner.target
      BY <1>1, <2>1, <3>1 DEF CopyAt
    <3>5. CopyAt(f, m)' <=> m = runner.target \/ m = runner.source
      BY <1>1, <1>6, <2>1, <3>3 DEF CopyAt, At
    <3>6. QED
      BY <3>4, <3>5
  <2>2. CASE f # Migrating
    BY <1>3, <1>6, <2>2 DEF CopyAt, At
  <2>3. QED
    BY <2>1, <2>2
<1>8. QED
  BY <1>1, <1>6, <1>7 DEF OneCopy, Whole

\* Deleting the source leaves the one copy the row names.
LEMMA SourceCopies ==
  ASSUME CopiesInv, RunDeleteSource
  PROVE  Marked' /\ Retried' /\ OneCopy'
<1> USE DEF CopiesInv, IInv, RunDeleteSource
<1>1. /\ runner.pc = "switched" /\ runner'.pc = "cleaned" /\ runner'.job = runner.job
      /\ objects' = Removed(runner.source) /\ UNCHANGED <<row, jobs, purger, purgeAsked>>
  BY DEF TypeOK
<1>2. Migrating \in Files /\ runner.source \in Locations /\ Owns(Migrating, runner.source.key)
  BY <1>1, FileOfRunner, SourceElsewhere
<1>3. Marked' /\ Retried' /\ Migrating' = Migrating /\ \A f \in Files : Tidy(f)' <=> Tidy(f)
  BY <1>1, RunnerTidy
<1>4. ASSUME NEW f \in Files, Tidy(f), NEW m \in Locations
      PROVE  Whole(f, m) \in objects' <=> m = At(f)
  <2>1. CASE f = Migrating
    <3>1. At(f) # runner.source
      BY <1>1, <1>4, <2>1, TidyFacts DEF RowFollows, PlacesDiffer
    <3>2. Whole(f, m) \in objects <=> m = At(f) \/ m = runner.source
      BY <1>1, <1>4, <2>1 DEF OneCopy, CopyAt
    <3>3. QED
      BY <1>1, <3>1, <3>2 DEF Removed, Whole
  <2>2. CASE f # Migrating
    <3>1. Removed(runner.source) \subseteq objects' /\ objects' \subseteq objects
      BY <1>1 DEF Removed
    <3>2. Whole(f, m) \in objects' <=> Whole(f, m) \in objects
      BY <1>2, <1>4, <2>2, <3>1, OthersCopies
    <3>3. QED
      BY <1>1, <1>4, <2>2, <3>2 DEF OneCopy, CopyAt
  <2>3. QED
    BY <2>1, <2>2
<1>5. \A f \in Files, m \in Locations : CopyAt(f, m)' <=> m = At(f)
  BY <1>1 DEF CopyAt, At
<1>6. QED
  BY <1>3, <1>4, <1>5 DEF OneCopy, Whole

\* A job that ends otherwise than with success leaves its file untidy; one that
\* succeeds has its bytes where the row says.  Other files keep their copies.
LEMMA EndCopies ==
  ASSUME CopiesInv, NEW s \in FinalStates, runner.pc # "idle", Finish(runner.job, s), NextJob,
         UNCHANGED <<row, purger, purgeAsked>>,
         s = "succeeded" => runner.pc = "cleaned" /\ UNCHANGED objects,
         NEW l \in Locations, Owns(Migrating, l.key),
         Removed(l) \subseteq objects',
         \A o \in objects' : o \in objects \/ (o.at = l /\ o.content \in {Migrating, Damaged})
  PROVE  Marked' /\ Retried' /\ OneCopy'
<1> USE DEF CopiesInv, IInv
<1>1. runner.job \in Jobs /\ jobs[runner.job].state = "running" /\ Migrating \in Files
  BY FileOfRunner DEF RunnerBusy
<1>2. /\ jobs'[runner.job].state = s /\ jobs'[runner.job].attempts = jobs[runner.job].attempts
      /\ jobs'[runner.job].file = Migrating
      /\ \A j \in Jobs : j # runner.job => jobs'[j] = jobs[j]
  BY <1>1 DEF Finish, SetJob, TypeOK, Migrating
<1>3. runner'.pc = "idle"
  BY DEF NextJob, IdleRunner
<1>4. Marked' /\ Retried'
  BY <1>2 DEF Marked, Retried, Kept, FinalStates
<1>5. \A f \in Files : Tidy(f)' => Tidy(f)
  <2> SUFFICES ASSUME NEW f \in Files, Tidy(f)', NEW j \in Jobs, jobs[j].file = f
               PROVE  /\ jobs[j].attempts <= 1
                      /\ jobs[j].state \in {"queued", "succeeded"} \/ (jobs[j].state = "running" /\ AtWork(j))
    BY DEF Tidy
  <2>1. CASE j = runner.job
    BY <1>1, <1>2, <2>1 DEF Tidy, AtWork, Migrating
  <2>2. CASE j # runner.job
    BY <1>2, <1>3, <2>2 DEF Tidy, AtWork
  <2>3. QED
    BY <2>1, <2>2
<1>6. \A f \in Files, m \in Locations : CopyAt(f, m)' <=> m = At(f)
  BY <1>3 DEF CopyAt, At
<1>7. ASSUME NEW f \in Files, Tidy(f)', NEW m \in Locations
      PROVE  Whole(f, m) \in objects' <=> m = At(f)
  <2>1. Tidy(f)
    BY <1>5, <1>7
  <2>2. CASE f = Migrating
    <3>1. s = "succeeded"
      BY <1>1, <1>2, <1>3, <1>7, <2>2 DEF Tidy, AtWork, FinalStates
    <3>2. QED
      BY <2>1, <3>1 DEF OneCopy, CopyAt
  <2>3. CASE f # Migrating
    <3>1. Whole(f, m) \in objects' <=> Whole(f, m) \in objects
      BY <1>1, <2>1, <2>3, OthersCopies
    <3>2. QED
      BY <2>1, <2>3, <3>1 DEF OneCopy, CopyAt
  <2>4. QED
    BY <2>2, <2>3
<1>8. QED
  BY <1>4, <1>6, <1>7 DEF OneCopy, Whole

\* Where the runner puts is a place of the file it migrates, whenever it puts.
LEMMA OwnPlace ==
  ASSUME IInv, runner.pc # "idle"
  PROVE  LET l == PutLocation(jobs[runner.job].target, runner.job, jobs[runner.job].attempts)
         IN  l \in Locations /\ Owns(Migrating, l.key)
<1> USE DEF IInv
<1>1. runner.job \in Jobs /\ jobs[runner.job].target \in Profiles /\ jobs[runner.job].attempts \in Nat
  BY DEF RunnerBusy, TypeOK, JobRows
<1>2. QED
  BY <1>1 DEF PutLocation, Locations, Keys, MigrationKey, MessageKey, Owns, Migrating

\* However a job ends, the copies of tidy files are where they should be.
LEMMA EndsCopies ==
  ASSUME CopiesInv, RunFail \/ RunPutUnanswered \/ RunReject \/ RunCleanupPending \/ RunSucceed
  PROVE  Marked' /\ Retried' /\ OneCopy'
<1> USE DEF CopiesInv, FinalStates
<1> PICK l : l = PutLocation(jobs[runner.job].target, runner.job, jobs[runner.job].attempts)
  OBVIOUS
<1>1. runner.pc # "idle" /\ l \in Locations /\ Owns(Migrating, l.key)
  BY OwnPlace DEF RunFail, RunPutUnanswered, RunReject, RunCleanupPending, RunSucceed
<1>2. CASE RunFail \/ RunSucceed
  <2>1. UNCHANGED objects /\ Removed(l) \subseteq objects
    BY <1>2 DEF RunFail, RunSucceed, Removed
  <2>2. QED
    BY <1>1, <1>2, <2>1, EndCopies DEF RunFail, RunSucceed
<1>3. CASE RunPutUnanswered
  <2>1. objects' = Stored(l, Migrating)
    BY <1>3 DEF RunPutUnanswered, Migrating
  <2>2. Removed(l) \subseteq objects' /\ \A o \in objects' : o \in objects \/ (o.at = l /\ o.content \in {Migrating, Damaged})
    BY <2>1 DEF Removed, Stored
  <2>3. QED
    BY <1>1, <1>3, <2>2, EndCopies DEF RunPutUnanswered
<1>4. CASE RunReject
  <2>1. runner.target = l /\ objects' \in {objects, Removed(l)}
    BY <1>4 DEF RunReject, IInv, RunnerPlaces
  <2>2. Removed(l) \subseteq objects' /\ objects' \subseteq objects
    BY <2>1 DEF Removed
  <2>3. QED
    BY <1>1, <1>4, <2>2, EndCopies DEF RunReject
<1>5. CASE RunCleanupPending
  <2>1. runner.source \in Locations /\ Owns(Migrating, runner.source.key) /\ objects' \in {objects, Removed(runner.source)}
    BY <1>5, SourceElsewhere DEF RunCleanupPending
  <2>2. Removed(runner.source) \subseteq objects' /\ objects' \subseteq objects
    BY <2>1 DEF Removed
  <2>3. QED
    BY <1>1, <1>5, <2>1, <2>2, EndCopies DEF RunCleanupPending
<1>6. QED
  BY <1>2, <1>3, <1>4, <1>5

\* A crash under a migration leaves its job running and its file untidy.
LEMMA RestartCopies ==
  ASSUME CopiesInv, Restart
  PROVE  Marked' /\ Retried' /\ OneCopy'
<1> USE DEF CopiesInv, IInv, Restart
<1>1. runner'.pc = "idle" /\ \A u \in Requests : purger'[u].pc = "idle"
  BY DEF IdleRunner, IdlePurger
<1>2. Marked' /\ Retried'
  BY <1>1 DEF Marked, Retried, Kept
<1>3. \A f \in Files : Tidy(f)' => Tidy(f) /\ (runner.pc # "idle" => Migrating # f)
  BY <1>1 DEF Tidy, AtWork, RunnerBusy, Migrating
<1>4. \A f \in Files, l \in Locations : Tidy(f)' => (CopyAt(f, l)' <=> CopyAt(f, l))
  BY <1>1, <1>3 DEF CopyAt, At
<1>5. QED
  BY <1>2, <1>3, <1>4 DEF OneCopy, Whole

\* Every upload is stored once, under the key of its row.
LEMMA InitCopies == Init => CopiesInv
<1> SUFFICES ASSUME Init PROVE CopiesInv
  OBVIOUS
<1>1. IInv
  BY InitHolds
<1>2. Marked /\ Retried
  BY DEF Init, Marked, Retried, Kept, IdlePurger
<1>3. OneCopy
  <2>1. PICK p \in [Files -> Profiles] :
          /\ row = [f \in Files |-> [state |-> "active", profile |-> p[f], key |-> UploadKey(f)]]
          /\ objects = {Whole(f, [profile |-> p[f], key |-> UploadKey(f)]) : f \in Files}
    BY DEF Init
  <2>2. ASSUME NEW f \in Files, NEW l \in Locations
        PROVE  Whole(f, l) \in objects <=> l = At(f)
    BY <2>1 DEF Whole, At
  <2>3. runner.pc = "idle"
    BY DEF Init, IdleRunner
  <2>4. QED
    BY <2>2, <2>3 DEF OneCopy, CopyAt
<1>4. QED
  BY <1>1, <1>2, <1>3 DEF CopiesInv

\* Every step of the trash, the purges, the runner and a crash keeps the copies.
LEMMA CopiesStep == CopiesInv /\ [Next]_vars => CopiesInv'
<1> SUFFICES ASSUME CopiesInv, [Next]_vars PROVE Marked' /\ Retried' /\ OneCopy'
  BY StepHolds DEF CopiesInv
<1>1. CASE \E f \in Files : DeleteFile(f) \/ RestoreFile(f)
  BY <1>1, TrashCopies
<1>2. CASE \/ \E f \in Files, p \in Profiles : Start(f, p)
           \/ \E j \in Jobs : LeaseExpires(j)
  BY <1>2, JobsCopies
<1>3. CASE Purging
  BY <1>3, PurgingCopies
<1>4. CASE Running
  BY <1>4, PendingCopies, ReadCopies, PutCopies, SwitchCopies, SourceCopies, EndsCopies DEF Running
<1>5. CASE Restart
  BY <1>5, RestartCopies
<1>6. CASE UNCHANGED vars
  BY <1>6 DEF vars, CopiesInv, Marked, Retried, OneCopy, Tidy, AtWork, CopyAt, Migrating, Kept, At, Whole
<1>7. QED
  BY <1>1, <1>2, <1>3, <1>4, <1>5, <1>6 DEF Next

\* When every migration of a file has succeeded at its first attempt, one copy
\* of it is stored anywhere, however many others failed, were purged or crashed.
THEOREM CopiesTidy == Spec => []SuccessLeavesOneCopy
<1>1. ASSUME CopiesInv, NEW f \in Files, Undisturbed(f)
      PROVE  {o \in objects : o.content = f} = {Whole(f, At(f))}
  <2> USE <1>1 DEF CopiesInv, IInv
  <2>1. Tidy(f)
    BY DEF Undisturbed, Tidy
  <2>2. runner.pc # "idle" => Migrating # f
    BY DEF Undisturbed, RunnerBusy, Migrating
  <2>3. \A l \in Locations : Whole(f, l) \in objects <=> l = At(f)
    BY <2>1, <2>2 DEF OneCopy, CopyAt
  <2>4. At(f) \in Locations
    BY <2>1, TidyFacts DEF TypeOK, Kept, At, Locations, Rows
  <2>5. \A o \in objects : o.content = f => o.at \in Locations /\ o = Whole(f, o.at)
    BY DEF TypeOK, Whole
  <2>6. QED
    BY <2>3, <2>4, <2>5 DEF Whole
<1>2. CopiesInv => SuccessLeavesOneCopy
  BY <1>1 DEF SuccessLeavesOneCopy
<1>3. QED
  BY <1>2, InitCopies, CopiesStep, PTL DEF Spec

----------------------------------------------------------------------------
(* FileStorage implements FileIndex as long as the process does not die: a  *)
(* migration cannot be seen from outside.  IInv says that bytes go only at  *)
(* a place the migrated file owns and has left, unless a migration onto a   *)
(* local backend is run again.  Without a crash no job is begun twice       *)
(* (Once), so that exception falls away and every step of the runner but    *)
(* the switch leaves what a row points to as it was; the switch changes it  *)
(* only for a file that a purge has deleted.                                *)

\* A job that is running is the runner's, and it is the job's first attempt.
Once ==
  \A j \in Jobs :
    /\ jobs[j].attempts <= 1
    /\ jobs[j].state \in {"none", "queued"} => jobs[j].attempts = 0
    /\ jobs[j].state # "retry_wait"
    /\ jobs[j].state = "running" => runner.pc # "idle" /\ runner.job = j

CInv == CopiesInv /\ Once

\* Without a second attempt only a purge excuses the loss of bytes.
LEMMA OnlyPurgesExcuse ==
  ASSUME CInv
  PROVE  \A f \in Files : ~ RerunOntoLocal(f) /\ (Exempt(f) <=> f \in purgeAsked)
BY DEF CInv, CopiesInv, IInv, Once, Exempt, RerunOntoLocal, TypeOK, JobRows

\* The trash, the purges and the lease clock do not begin or end a job.
LEMMA OnceElsewhere ==
  ASSUME CInv, UNCHANGED runner,
         UNCHANGED jobs \/ (\E j \in Jobs : LeaseExpires(j))
                        \/ (\E f \in Files, p \in Profiles : Start(f, p))
  PROVE  Once'
<1> USE DEF CInv, CopiesInv, Once
<1>1. CASE UNCHANGED jobs
  BY <1>1
<1>2. CASE \E j \in Jobs : LeaseExpires(j)
  BY <1>2 DEF LeaseExpires, IInv, TypeOK, JobRows
<1>3. CASE \E f \in Files, p \in Profiles : Start(f, p)
  BY <1>3 DEF Start, IInv, TypeOK, JobRows
<1>4. QED
  BY <1>1, <1>2, <1>3

\* A job ends once, with the attempt it began with.
LEMMA OnceEnds ==
  ASSUME CInv, runner.pc # "idle", NEW s \in FinalStates, Finish(runner.job, s), NextJob
  PROVE  Once'
<1> USE DEF CInv, CopiesInv, IInv
<1>1. runner.job \in Jobs /\ jobs[runner.job].state = "running"
  BY DEF RunnerBusy
<1>2. \A j \in Jobs : j # runner.job => jobs'[j] = jobs[j] /\ jobs[j].state # "running"
  BY <1>1 DEF Finish, SetJob, TypeOK, Once
<1>3. jobs'[runner.job].state = s /\ jobs'[runner.job].attempts = jobs[runner.job].attempts
  BY <1>1 DEF Finish, SetJob, TypeOK
<1>4. QED
  BY <1>1, <1>2, <1>3 DEF Once, FinalStates

\* The runner begins queued jobs only, and RunPending finds none to recover.
LEMMA OnceRunning ==
  ASSUME CInv, Running
  PROVE  Once'
<1> USE DEF CInv, CopiesInv, IInv
<1>1. CASE RunPending
  <2>1. \A j \in Jobs : jobs'[j] = jobs[j]
    BY <1>1 DEF RunPending, Recovered, Once
  <2>2. runner'.pc = "idle"
    BY <1>1 DEF RunPending, TypeOK
  <2>3. QED
    BY <1>1, <2>1, <2>2 DEF Once, RunPending
<1>2. CASE RunBegin
  <2>1. PICK j \in Jobs :
          /\ jobs[j].state \in {"queued", "retry_wait"}
          /\ SetJob(j, "running", "held", jobs[j].attempts + 1)
          /\ runner' = [runner EXCEPT !.pc = "begun", !.queue = @ \ {j}, !.job = j]
    BY <1>2 DEF RunBegin, TypeOK
  <2>2. jobs[j].attempts = 0 /\ runner'.pc = "begun" /\ runner'.job = j
    BY <2>1 DEF Once, TypeOK
  <2>3. jobs'[j].state = "running" /\ jobs'[j].attempts = 1
    BY <2>1, <2>2 DEF SetJob, TypeOK
  <2>4. \A k \in Jobs : k # j => jobs'[k] = jobs[k] /\ jobs[k].state # "running"
    BY <1>2, <2>1 DEF SetJob, TypeOK, Once, RunBegin
  <2>5. QED
    BY <2>2, <2>3, <2>4 DEF Once
<1>3. CASE RunLoad \/ RunCopy \/ RunPut \/ RunSwitch \/ RunDeleteSource
  <2>1. UNCHANGED <<jobs, restarts>> /\ runner.pc # "idle" /\ runner'.pc # "idle" /\ runner'.job = runner.job
    BY <1>3 DEF RunLoad, RunCopy, RunPut, RunSwitch, RunDeleteSource, TypeOK
  <2>2. QED
    BY <2>1 DEF Once
<1>4. CASE RunPutUnanswered \/ RunFail \/ RunReject \/ RunCleanupPending \/ RunSucceed
  BY <1>4, OnceEnds DEF RunPutUnanswered, RunFail, RunReject, RunCleanupPending, RunSucceed, FinalStates
<1>5. QED
  BY <1>1, <1>2, <1>3, <1>4 DEF Running

\* Without crashes there is no restart.
LEMMA NeverRestarts ==
  ASSUME MaxRestarts = 0, CInv
  PROVE  ~ Restart
BY FileStorageAssumption DEF Restart, CInv, CopiesInv, IInv, TypeOK

\* No job is begun twice as long as the process lives.
LEMMA CInvStep ==
  ASSUME CInv, [Next]_vars, ~ Restart
  PROVE  CInv'
<1>1. CopiesInv'
  BY CopiesStep DEF CInv
<1>2. CASE Running
  BY <1>1, <1>2, OnceRunning DEF CInv
<1>3. CASE \/ \E f \in Files : DeleteFile(f) \/ RestoreFile(f)
           \/ \E f \in Files, p \in Profiles : Start(f, p)
           \/ \E j \in Jobs : LeaseExpires(j)
           \/ Purging
           \/ UNCHANGED vars
  <2>1. UNCHANGED runner
    BY <1>3 DEF DeleteFile, RestoreFile, Start, LeaseExpires, Purging, PurgeRead, PurgeDelete, PurgeDeleteFails,
                PurgeMark, PurgeAbandoned, vars
  <2>2. UNCHANGED jobs \/ (\E f \in Files, p \in Profiles : Start(f, p)) \/ (\E j \in Jobs : LeaseExpires(j))
    BY <1>3 DEF DeleteFile, RestoreFile, Purging, PurgeRead, PurgeDelete, PurgeDeleteFails, PurgeMark, PurgeAbandoned, vars
  <2>3. QED
    BY <1>1, <2>1, <2>2, OnceElsewhere DEF CInv
<1>4. QED
  BY <1>1, <1>2, <1>3 DEF Next

----------------------------------------------------------------------------
(* What the steps look like from outside.                                  *)

\* A purged row points to nothing, before a step and after it.
LEMMA PurgedHasNothing ==
  ASSUME TypeOK, TypeOK', NEW f \in Files
  PROVE  /\ ~ Kept(f) => ~ Intact(f)
         /\ ~ Kept(f)' => ~ Intact(f)'
BY KeysAssumption DEF TypeOK, Kept, Intact, Whole, At, Locations

\* A step that keeps states, what the rows point to and the purges is invisible.
LEMMA Invisible ==
  ASSUME TypeOK, TypeOK', UNCHANGED <<purger, purgeAsked>>,
         \A f \in Files : row'[f].state = row[f].state /\ (Intact(f)' <=> Intact(f))
  PROVE  UNCHANGED Index!vars
<1>1. UNCHANGED <<State, Present, Doomed>>
  BY DEF State, Present, Doomed, InHand
<1>2. QED
  BY <1>1 DEF Index!vars

\* Objects that come and go at a place the file f owns are no other file's, and
\* not f's either when f is elsewhere.
LEMMA OthersUnseen ==
  ASSUME IInv, NEW f \in Files, NEW l \in Locations, Owns(f, l.key), UNCHANGED row,
         Removed(l) \subseteq objects',
         \A o \in objects' : o \in objects \/ o.at = l,
         NEW g \in Files, g # f \/ At(g) # l, TypeOK'
  PROVE  Intact(g)' <=> Intact(g)
<1>1. CASE ~ Kept(g)
  BY <1>1, PurgedHasNothing DEF IInv, Kept
<1>2. CASE Kept(g)
  <2>1. Owns(g, row[g].key)
    BY <1>2 DEF IInv, KeysOwned
  <2>2. At(g) # l
    BY <2>1 DEF Owns, UploadKey, At
  <2>3. Whole(g, At(g)).at # l
    BY <2>2 DEF Whole
  <2>4. Whole(g, At(g)) \in objects' <=> Whole(g, At(g)) \in objects
    BY <2>3 DEF Removed
  <2>5. QED
    BY <2>4 DEF Intact, Whole, At
<1>3. QED
  BY <1>1, <1>2

\* Where the runner puts or deletes its file is not, or is purged.
LEMMA RunnerUnseen ==
  ASSUME CInv, TypeOK', runner.pc # "idle", NEW l \in Locations, Owns(Migrating, l.key),
         Kept(Migrating) => At(Migrating) # l, UNCHANGED <<row, purger, purgeAsked>>,
         Removed(l) \subseteq objects',
         \A o \in objects' : o \in objects \/ o.at = l
  PROVE  UNCHANGED Index!vars
<1>1. TypeOK /\ IInv /\ Migrating \in Files
  BY FileOfRunner DEF CInv, CopiesInv, IInv
<1>2. ASSUME NEW g \in Files
      PROVE  Intact(g)' <=> Intact(g)
  <2>1. CASE Kept(g)
    BY <1>1, <2>1, OthersUnseen
  <2>2. CASE ~ Kept(g)
    BY <1>1, <2>2, PurgedHasNothing DEF Kept
  <2>3. QED
    BY <2>1, <2>2
<1>3. QED
  BY <1>1, <1>2, Invisible

\* The copy that Put makes cannot be seen.
LEMMA PutUnseen ==
  ASSUME CInv, TypeOK', RunPut \/ RunPutUnanswered
  PROVE  UNCHANGED Index!vars
<1> PICK l : l = PutLocation(jobs[runner.job].target, runner.job, jobs[runner.job].attempts)
  OBVIOUS
<1>0. \A c : Removed(l) \subseteq Stored(l, c) /\ \A o \in Stored(l, c) : o \in objects \/ o.at = l
  BY DEF Stored, Removed
<1> USE DEF RunPut, RunPutUnanswered
<1>1. l \in Locations /\ Owns(Migrating, l.key) /\ l # runner.source /\ Migrating \in Files
  BY PutPlace, FileOfRunner, OnlyPurgesExcuse DEF CInv, CopiesInv
<1>2. Kept(Migrating) => At(Migrating) # l
  BY <1>1 DEF CInv, CopiesInv, IInv, RowFollows
<1>3. PICK c : objects' = Stored(l, c)
  OBVIOUS
<1>4. Removed(l) \subseteq objects' /\ \A o \in objects' : o \in objects \/ o.at = l
  BY <1>0, <1>3, Zenon
<1>5. runner.pc # "idle" /\ UNCHANGED <<row, purger, purgeAsked>>
  OBVIOUS
<1>6. QED
  BY <1>1, <1>2, <1>4, <1>5, RunnerUnseen

\* Deleting the rejected copy, or the source after the switch, cannot be seen.
LEMMA DeleteUnseen ==
  ASSUME CInv, TypeOK', RunReject \/ RunDeleteSource \/ RunCleanupPending
  PROVE  UNCHANGED Index!vars
<1> DEFINE l == IF runner.pc = "stored" THEN runner.target ELSE runner.source
<1> USE DEF RunReject, RunDeleteSource, RunCleanupPending
<1>1. runner.pc \in {"stored", "switched"} /\ Migrating \in Files /\ ~ RerunOntoLocal(Migrating)
  BY FileOfRunner, OnlyPurgesExcuse DEF CInv, CopiesInv
<1>2. runner.target # runner.source
  BY <1>1 DEF CInv, CopiesInv, IInv, PlacesDiffer
<1>3. Kept(Migrating) => At(Migrating) # l
  BY <1>1, <1>2 DEF CInv, CopiesInv, IInv, RowFollows
<1>4. l \in Locations /\ Owns(Migrating, l.key)
  <2>1. runner.source \in Locations /\ Owns(Migrating, runner.source.key)
    BY <1>1 DEF CInv, CopiesInv, IInv, RunnerPlaces, KeysOwned
  <2>2. jobs[runner.job].target \in Profiles /\ runner.job \in Jobs /\ jobs[runner.job].attempts \in Nat
    BY <1>1 DEF CInv, CopiesInv, IInv, RunnerBusy, TypeOK, JobRows
  <2>3. runner.target \in Locations /\ Owns(Migrating, runner.target.key)
    BY <1>1, <2>2, FileStorageAssumption
    DEF CInv, CopiesInv, IInv, RunnerPlaces, PutLocation, Locations, Keys, MigrationKey, MessageKey, Owns, Migrating
  <2>4. QED
    BY <2>1, <2>3
<1>5. objects' \in {objects, Removed(l)}
  BY <1>1
<1>6. QED
  BY <1>1, <1>3, <1>4, <1>5, RunnerUnseen DEF Removed

\* The switch cannot be seen, or it is of a file that a purge has deleted.
LEMMA SwitchSeen ==
  ASSUME CInv, TypeOK', RunSwitch
  PROVE  [Index!Next]_(Index!vars)
<1> PICK f \in Files : f = Migrating
  BY FileOfRunner DEF CInv, CopiesInv, RunSwitch
<1> USE DEF RunSwitch
<1>1. row[f].state = "active" /\ row'[f].state = "active"
  BY DEF CInv, CopiesInv, IInv, TypeOK, Migrating
<1>2. \A g \in Files : g # f => row'[g] = row[g]
  BY DEF CInv, CopiesInv, IInv, TypeOK, Migrating
<1>3. \A g \in Files : row'[g].state = row[g].state
  BY <1>1, <1>2
<1>4. \A g \in Files : g # f => (Intact(g)' <=> Intact(g))
  BY <1>2 DEF Intact, At, Whole
<1>5. UNCHANGED <<State, Doomed>>
  BY <1>3 DEF State, Doomed, InHand
<1>6. CASE f \notin purgeAsked
  <2>1. Intact(f)
    BY <1>1, <1>6, OnlyPurgesExcuse DEF CInv, CopiesInv, IInv, RowsHold, Kept
  <2>2. CInv /\ IInv' /\ ~ Exempt(f)'
    <3>1. IInv'
      BY RunSwitchStep DEF CInv, CopiesInv
    <3>2. ~ Exempt(f)
      BY <1>6, OnlyPurgesExcuse
    <3>3. QED
      BY <3>1, <3>2 DEF Exempt, RerunOntoLocal
  <2>3. Intact(f)'
    BY <1>1, <2>2 DEF IInv, RowsHold, Kept
  <2>4. QED
    BY <1>3, <1>4, <2>1, <2>3, Invisible DEF CInv, CopiesInv, IInv
<1>7. CASE f \in purgeAsked
  <2>1. State[f] = "active" /\ f \in Doomed
    BY <1>1, <1>7 DEF State, Doomed
  <2>2. Present' \in {Present \cup {f}, Present \ {f}}
    BY <1>4 DEF Present
  <2>3. Index!Rescue(f) \/ Index!Lose(f)
    BY <1>5, <2>1, <2>2 DEF Index!Rescue, Index!Lose
  <2>4. QED
    BY <2>3 DEF Index!Next
<1>8. QED
  BY <1>6, <1>7

\* Whatever else the runner does cannot be seen.
LEMMA RunnerSeen ==
  ASSUME CInv, TypeOK', Running
  PROVE  [Index!Next]_(Index!vars)
<1>1. CASE RunPending \/ RunBegin \/ RunLoad \/ RunCopy \/ RunFail \/ RunSucceed
  <2>1. UNCHANGED <<row, objects, purger, purgeAsked>>
    BY <1>1 DEF RunPending, RunBegin, RunLoad, RunCopy, RunFail, RunSucceed
  <2>2. \A f \in Files : row'[f].state = row[f].state /\ (Intact(f)' <=> Intact(f))
    BY <2>1 DEF Intact, At
  <2>3. QED
    BY <2>1, <2>2, Invisible DEF CInv, CopiesInv, IInv
<1>2. QED
  BY <1>1, PutUnseen, DeleteUnseen, SwitchSeen DEF Running

\* Deleting to the trash and restoring are seen as such.
LEMMA TrashSeen ==
  ASSUME CInv, NEW f \in Files, DeleteFile(f) \/ RestoreFile(f)
  PROVE  Index!Delete(f) \/ Index!Restore(f)
<1> USE DEF DeleteFile, RestoreFile
<1>1. \A g \in Files : row'[g].profile = row[g].profile /\ row'[g].key = row[g].key
  BY DEF CInv, CopiesInv, IInv, TypeOK, Rows
<1>2. UNCHANGED <<Present, Doomed>>
  BY <1>1 DEF Present, Doomed, InHand, Intact, At, Whole
<1>3. PICK s \in {"active", "trashed"} : row' = [row EXCEPT ![f].state = s] /\ row[f].state # s
  OBVIOUS
<1>4. \A g \in Files : row'[g].state = IF g = f THEN s ELSE row[g].state
  BY <1>3 DEF CInv, CopiesInv, IInv, TypeOK, Rows
<1>5. State' = [State EXCEPT ![f] = s]
  BY <1>4 DEF State
<1>6. row[f].state = IF s = "trashed" THEN "active" ELSE "trashed"
  BY <1>3, <1>4
<1>7. QED
  BY <1>2, <1>5, <1>6 DEF Index!Delete, Index!Restore, State

\* A purge takes a file up, loses its bytes, marks it or gives it up.
LEMMA PurgeSeen ==
  ASSUME CInv, TypeOK', Purging
  PROVE  [Index!Next]_(Index!vars)
<1> USE DEF CInv, CopiesInv, IInv
<1> PICK u \in Requests : \/ \E f \in Files : PurgeRead(u, f)
                          \/ PurgeDelete(u) \/ PurgeDeleteFails(u)
                          \/ PurgeMark(u) \/ PurgeAbandoned(u)
  BY DEF Purging
<1> PICK f : f = purger[u].file
  OBVIOUS
<1>1. \A v \in Requests : v # u => purger'[v] = purger[v]
  BY DEF TypeOK, PurgeRead, PurgeDelete, PurgeDeleteFails, PurgeMark, PurgeAbandoned
<1>2. purger[u].pc # "idle" => f \in Files /\ f \in Doomed
  BY DEF PurgersBusy, Doomed, InHand
<1>3. ASSUME NEW g \in Files, PurgeRead(u, g)
      PROVE  Index!Doom(g)
  <2>1. purger'[u].pc = "deleting" /\ purger'[u].file = g /\ purger[u].pc = "idle"
    BY <1>3 DEF PurgeRead, TypeOK
  <2>2. Doomed' = Doomed \cup {g}
    <3>1. \A h \in Files : InHand(h)' <=> InHand(h) \/ h = g
      BY <1>1, <2>1 DEF InHand
    <3>2. QED
      BY <1>3, <3>1 DEF Doomed, PurgeRead
  <2>3. UNCHANGED <<State, Present>>
    BY <1>3 DEF PurgeRead, State, Present, Intact, At
  <2>4. State[g] = "trashed"
    BY <1>3 DEF PurgeRead, State
  <2>5. QED
    BY <2>2, <2>3, <2>4 DEF Index!Doom
<1>4. CASE PurgeDelete(u) \/ PurgeDeleteFails(u)
  <2>1. /\ purger[u].pc = "deleting" /\ purgeAsked' = purgeAsked \cup {f}
        /\ objects' \in {objects, Removed(purger[u].at)} /\ UNCHANGED row
        /\ purger'[u].pc # "idle" => purger'[u].file = f
    BY <1>4 DEF PurgeDelete, PurgeDeleteFails, TypeOK, IdlePurger
  <2>2. \A g \in Files : g # f => (Intact(g)' <=> Intact(g))
    <3>1. purger[u].at \in Locations /\ Owns(f, purger[u].at.key)
      BY <2>1 DEF PurgersBusy, KeysOwned
    <3>2. Removed(purger[u].at) \subseteq objects' /\ objects' \subseteq objects
      BY <2>1 DEF Removed
    <3>3. QED
      BY <1>2, <2>1, <3>1, <3>2, OthersUnseen
  <2>3. Intact(f)' => Intact(f)
    BY <2>1 DEF Intact, Removed, At, Whole
  <2>4. Present' \in {Present, Present \ {f}}
    BY <2>2, <2>3 DEF Present
  <2>5. Doomed' = Doomed
    <3>1. \A g \in Files : g # f => (InHand(g)' <=> InHand(g))
      BY <1>1, <2>1 DEF InHand
    <3>2. QED
      BY <1>2, <2>1, <3>1 DEF Doomed
  <2>6. UNCHANGED State
    BY <2>1 DEF State
  <2>7. Index!Lose(f) \/ UNCHANGED Index!vars
    BY <1>2, <2>1, <2>4, <2>5, <2>6 DEF Index!Lose, Index!vars
  <2>8. QED
    BY <1>2, <2>1, <2>7 DEF Index!Next
<1>5. CASE PurgeMark(u)
  <2>1. f \in purgeAsked /\ f \in Files
    BY <1>2, <1>5 DEF PurgeMark, Marked
  <2>2. row' = [row EXCEPT ![f] = [state |-> "purged", profile |-> @.profile, key |-> None]]
    BY <1>5 DEF PurgeMark
  <2>3. row'[f].state = "purged" /\ \A g \in Files : g # f => row'[g] = row[g]
    BY <2>1, <2>2 DEF TypeOK
  <2>4. State' = [State EXCEPT ![f] = "purged"]
    BY <2>1, <2>3 DEF State
  <2>5. Present' = Present \ {f}
    <3>1. ~ Intact(f)'
      BY <2>1, <2>3, PurgedHasNothing DEF Kept
    <3>2. \A g \in Files : g # f => (Intact(g)' <=> Intact(g))
      BY <1>5, <2>3 DEF PurgeMark, Intact, At, Whole
    <3>3. QED
      BY <3>1, <3>2 DEF Present
  <2>6. Doomed' = Doomed
    <3>1. purger'[u].pc = "idle" /\ purgeAsked' = purgeAsked
      BY <1>5 DEF PurgeMark, TypeOK, IdlePurger
    <3>2. \A g \in Files : g # f => (InHand(g)' <=> InHand(g))
      BY <1>1, <3>1 DEF InHand
    <3>3. QED
      BY <2>1, <3>1, <3>2 DEF Doomed
  <2>7. Index!Purge(f)
    BY <1>2, <1>5, <2>4, <2>5, <2>6 DEF Index!Purge, PurgeMark
  <2>8. QED
    BY <2>1, <2>7 DEF Index!Next
<1>6. CASE PurgeAbandoned(u)
  <2>1. purger'[u].pc = "idle" /\ UNCHANGED <<row, objects, purgeAsked>>
    BY <1>6 DEF PurgeAbandoned, TypeOK, IdlePurger
  <2>2. Doomed' \in {Doomed, Doomed \ {f}}
    <3>1. \A g \in Files : g # f => (InHand(g)' <=> InHand(g))
      BY <1>1, <2>1 DEF InHand
    <3>2. InHand(f)' => InHand(f)
      BY <1>1, <2>1 DEF InHand
    <3>3. QED
      BY <2>1, <3>1, <3>2 DEF Doomed
  <2>3. UNCHANGED <<State, Present>>
    BY <2>1 DEF State, Present, Intact, At
  <2>4. Index!Spare(f) \/ UNCHANGED Index!vars
    BY <1>2, <1>6, <2>2, <2>3 DEF Index!Spare, Index!vars, PurgeAbandoned
  <2>5. QED
    BY <1>2, <1>6, <2>4 DEF Index!Next, PurgeAbandoned
<1>7. QED
  BY <1>3, <1>4, <1>5, <1>6 DEF Index!Next

----------------------------------------------------------------------------
(* The theorems.                                                           *)

\* At the start every file is active and has its bytes.
LEMMA InitSeen == Init => CInv /\ Index!Init
<1> SUFFICES ASSUME Init PROVE CInv /\ Index!Init
  OBVIOUS
<1>1. IInv
  BY InitHolds
<1>2. CopiesInv /\ Once
  <2>1. CopiesInv
    BY InitCopies
  <2>2. Once
    BY DEF Init, Once
  <2>3. QED
    BY <2>1, <2>2
<1>3. \A f \in Files : row[f].state = "active"
  BY DEF Init
<1>4. State = [f \in Files |-> "active"]
  BY <1>3 DEF State
<1>5. Doomed = {}
  BY DEF Init, Doomed, InHand, IdlePurger
<1>6. Present = Files
  BY <1>1, <1>2, <1>3, OnlyPurgesExcuse DEF CInv, CopiesInv, IInv, RowsHold, Kept, Present, Init
<1>7. QED
  BY <1>1, <1>2, <1>4, <1>5, <1>6 DEF CInv, CopiesInv, Index!Init

\* Every step of FileStorage is a step of FileIndex or invisible.
LEMMA StepSeen ==
  ASSUME MaxRestarts = 0, CInv, [Next]_vars
  PROVE  [Index!Next]_(Index!vars)
<1>1. TypeOK /\ TypeOK'
  BY CInvStep, NeverRestarts DEF CInv, CopiesInv, IInv
<1>2. CASE \E f \in Files : DeleteFile(f) \/ RestoreFile(f)
  BY <1>2, TrashSeen DEF Index!Next
<1>3. CASE \/ \E f \in Files, p \in Profiles : Start(f, p)
           \/ \E j \in Jobs : LeaseExpires(j)
           \/ UNCHANGED vars
  <2>1. UNCHANGED <<row, objects, purger, purgeAsked>>
    BY <1>3 DEF Start, LeaseExpires, vars
  <2>2. \A f \in Files : row'[f].state = row[f].state /\ (Intact(f)' <=> Intact(f))
    BY <2>1 DEF Intact, At
  <2>3. QED
    BY <1>1, <2>1, <2>2, Invisible
<1>4. CASE Purging
  BY <1>1, <1>4, PurgeSeen
<1>5. CASE Running
  BY <1>1, <1>5, RunnerSeen
<1>6. ~ Restart
  BY <1>1, FileStorageAssumption DEF Restart, TypeOK
<1>7. QED
  BY <1>2, <1>3, <1>4, <1>5, <1>6 DEF Next

\* Without a crash, whatever migrations, purges, deletes and restores are under
\* way, a file looks as FileIndex says: its bytes are lost only to a purge that
\* found it in the trash.
THEOREM ImplementsIndex ==
  ASSUME MaxRestarts = 0
  PROVE  Spec => ImplementsFileIndex
<1>1. CInv /\ [Next]_vars => CInv'
  BY CInvStep, NeverRestarts
<1>2. CInv /\ [Next]_vars => [Index!Next]_(Index!vars)
  BY StepSeen
<1>3. QED
  BY <1>1, <1>2, InitSeen, PTL DEF Spec, ImplementsFileIndex, Index!Spec

\* What README.md promises of deletion is true of a process that does not
\* crash: only a purge of a file loses its bytes.
THEOREM PurgeOnlyLoses ==
  ASSUME MaxRestarts = 0
  PROVE  Spec => []OnlyPurgeLosesContent
<1>1. CInv /\ [Next]_vars => CInv'
  BY CInvStep, NeverRestarts
<1>2. CInv => OnlyPurgeLosesContent
  BY OnlyPurgesExcuse DEF CInv, CopiesInv, IInv, RowsHold, OnlyPurgeLosesContent
<1>3. QED
  BY <1>1, <1>2, InitSeen, PTL DEF Spec

=============================================================================
