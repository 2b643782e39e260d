------------------------------ MODULE DataDir -------------------------------
(***************************************************************************)
(* The data directory: the master key, the database with its storage        *)
(* profiles, the start of the server, and the commands backup and restore.   *)
(*                                                                         *)
(* A start reads or makes the key, opens the database, applies the schema   *)
(* scripts and registers the enabled profiles, whose configurations are     *)
(* encrypted with the key.  The process dies between any two steps, and a   *)
(* copy that is cut off leaves a part of the file: of a key, one that is too *)
(* short; of a database, one that SQLite refuses, an empty file, which opens *)
(* as a new database, or one that opens and lacks rows, since Open only      *)
(* opens, pings and sets PRAGMAs.                                            *)
(*                                                                         *)
(* restore runs while the server is down, and no start overlaps it:         *)
(* RestoreBegin and ReadKey say so, the code does not check it.  backup runs *)
(* beside the server.                                                       *)
(***************************************************************************)
EXTENDS Naturals, FiniteSets

CONSTANTS
  Keys,          \* master keys, each made at most once (a bound)
  Scripts,       \* schema scripts; the first makes the profile LocalDefault
  LocalDefault,  \* the profile local-default, whose configuration is empty
  Profiles,      \* the profiles that Create makes
  Short,         \* what a key file holds that was cut off
  Part,          \* what a database holds that SQLite does not open
  None

VARIABLES
  key,       \* secrets/master.key: None, Short or a key
  db,        \* clist.db: None, Part or its content
  server,    \* the server: program counter, the key it read, its registry
  create,    \* a ProfileService.Create in progress
  tool,      \* the command that runs: its program counter
  backup,    \* the output of backup: snapshot and key as above
  made,      \* the keys made so far
  history    \* history: whether backup and data directory come of a sound one

vars == <<key, db, server, create, tool, backup, made, history>>

All == Profiles \cup {LocalDefault}

Row == [state : {"none", "enabled", "disabled", "lost"}, key : Keys \cup {None}, default : BOOLEAN]

NoRow == [state |-> "none", key |-> None, default |-> FALSE]

LostRow == [state |-> "lost", key |-> None, default |-> FALSE]

Contents == [scripts : 0..Scripts, profile : [All -> Row], stored : SUBSET All]

EmptyDb == [scripts |-> 0, profile |-> [p \in All |-> NoRow], stored |-> {}]

NoBackup == [db |-> None, key |-> None, done |-> FALSE]

Down == [pc |-> "down", key |-> None, registry |-> {}]

Init ==
  /\ key = None /\ db = None
  /\ server = Down
  /\ create = None
  /\ tool = "idle"
  /\ backup = NoBackup
  /\ made = {}
  /\ history = [backup |-> FALSE, restored |-> FALSE]

\* What reads as a database of a copy of d that was cut off in its last pages:
\* rows of profiles and of files are missing.  The rows of the scripts stay (an
\* abstraction: a script that is run again makes only what is missing).
Remains(d) ==
  {r \in Contents :
     /\ r.scripts = d.scripts /\ r.stored \subseteq d.stored
     /\ \A p \in All :
          \/ r.profile[p] = d.profile[p]
          \/ d.profile[p].state # "none" /\ r.profile[p] = LostRow}

Enabled(d) == {p \in All : d.profile[p].state = "enabled"}

\* DecryptConfig with k gives the configuration of every enabled profile.
Readable(d, k) == \A p \in Enabled(d) : d.profile[p].key \in {k, None}

Sound(d, k) == d \in Contents /\ k \in Keys /\ Readable(d, k)

----------------------------------------------------------------------------
(* The start: LoadOrCreate, Open, Apply, LoadEnabled.                      *)

\* A bug for TLC to find: a key is not looked at.
ReadKey_AnyLength ==
  /\ server.pc = "down"
  /\ tool \notin {"restoring_db", "restoring_key"}
  /\ \/ key = None /\ server' = [Down EXCEPT !.pc = "creating"]
     \/ key # None /\ server' = [Down EXCEPT !.pc = "keyed", !.key = key]
  /\ UNCHANGED <<key, db, create, tool, backup, made, history>>

\* A key of the wrong length ends the start.
ReadKey ==
  /\ server.pc = "down"
  /\ tool \notin {"restoring_db", "restoring_key"}
  /\ \/ key = None /\ server' = [Down EXCEPT !.pc = "creating"]
     \/ key \in Keys /\ server' = [Down EXCEPT !.pc = "keyed", !.key = key]
  /\ UNCHANGED <<key, db, create, tool, backup, made, history>>

\* O_CREATE and O_EXCL: the file is there before its content.
CreateKey ==
  /\ server.pc = "creating"
  /\ made # Keys
  /\ key' = Short
  /\ server' = [server EXCEPT !.pc = "writing"]
  /\ UNCHANGED <<db, create, tool, backup, made, history>>

WriteKey ==
  /\ server.pc = "writing"
  /\ \/ \E k \in Keys \ made :
          /\ made' = made \cup {k}
          /\ key' = k
          /\ server' = [server EXCEPT !.pc = "keyed", !.key = k]
     \/ \* the write fails and the file is removed
        /\ key' = None
        /\ server' = Down
        /\ UNCHANGED made
  /\ UNCHANGED <<db, create, tool, backup, history>>

\* A database that is not there is made empty; one that SQLite refuses ends the
\* start.
OpenDb ==
  /\ server.pc = "keyed"
  /\ db' = IF db = None THEN EmptyDb ELSE db
  /\ server' = IF db = Part THEN Down ELSE [server EXCEPT !.pc = "migrating"]
  /\ UNCHANGED <<key, create, tool, backup, made, history>>

\* One script and its row of schema_migrations, in one transaction.
ApplyMigration ==
  /\ server.pc = "migrating"
  /\ db.scripts < Scripts
  /\ db' = [db EXCEPT !.scripts = @ + 1,
                      !.profile[LocalDefault] =
                        IF db.scripts = 0
                          THEN [state |-> "enabled", key |-> None, default |-> TRUE]
                          ELSE @]
  /\ UNCHANGED <<key, server, create, tool, backup, made, history>>

\* A bug for TLC to find: only local-default is registered at the start.
LoadEnabled_DefaultOnly ==
  /\ server.pc = "migrating"
  /\ db.scripts = Scripts
  /\ server' = IF Readable(db, server.key)
                 THEN [server EXCEPT !.pc = "serving", !.registry = {LocalDefault}]
                 ELSE Down
  /\ UNCHANGED <<key, db, create, tool, backup, made, history>>

\* One profile that cannot be decrypted ends the start.
LoadEnabled ==
  /\ server.pc = "migrating"
  /\ db.scripts = Scripts
  /\ server' = IF Readable(db, server.key)
                 THEN [server EXCEPT !.pc = "serving",
                                     !.registry = {LocalDefault} \cup Enabled(db)]
                 ELSE Down
  /\ UNCHANGED <<key, db, create, tool, backup, made, history>>

ServerDies ==
  /\ server.pc # "down"
  /\ server' = Down
  /\ create' = None
  /\ UNCHANGED <<key, db, tool, backup, made, history>>

----------------------------------------------------------------------------
(* ProfileService while the server serves.                                 *)

InsertProfile(p, state) ==
  /\ server.pc = "serving"
  /\ create = None
  /\ db.profile[p].state = "none"
  /\ db' = [db EXCEPT !.profile[p] = [state |-> state, key |-> server.key, default |-> FALSE]]
  /\ create' = p
  /\ UNCHANGED <<key, server, tool, backup, made, history>>

\* Enabled or not.
RegisterProfile ==
  /\ create # None
  /\ server' = [server EXCEPT !.registry = @ \cup {create}]
  /\ create' = None
  /\ UNCHANGED <<key, db, tool, backup, made, history>>

\* A bug for TLC to find: a disabled profile may become the default.
SetDefault_Any(p) ==
  /\ server.pc = "serving"
  /\ db.profile[p].state # "none"
  /\ db' = [db EXCEPT !.profile =
              [q \in All |-> [state |-> @[q].state, key |-> @[q].key, default |-> q = p]]]
  /\ UNCHANGED <<key, server, create, tool, backup, made, history>>

\* Without an enabled row of that id the first UPDATE is rolled back.
SetDefault(p) ==
  /\ server.pc = "serving"
  /\ p \in Enabled(db)
  /\ db' = [db EXCEPT !.profile =
              [q \in All |-> [state |-> @[q].state, key |-> @[q].key, default |-> q = p]]]
  /\ UNCHANGED <<key, server, create, tool, backup, made, history>>

\* An upload resolves its backend in the registry and indexes a file.
StoreFile(p) ==
  /\ server.pc = "serving"
  /\ p \in server.registry
  /\ db' = [db EXCEPT !.stored = @ \cup {p}]
  /\ UNCHANGED <<key, server, create, tool, backup, made, history>>

----------------------------------------------------------------------------
(* backup: VACUUM INTO, then the key.                                      *)

\* Opening the database makes one where there is none.
BackupBegin ==
  /\ tool = "idle"
  /\ backup = NoBackup
  /\ db # Part
  /\ db' = IF db = None THEN EmptyDb ELSE db
  /\ tool' = "snapshot"
  /\ UNCHANGED <<key, server, create, backup, made, history>>

Snapshot ==
  /\ tool = "snapshot"
  /\ backup' = [NoBackup EXCEPT !.db = db]
  /\ history' = [history EXCEPT !.backup = Sound(db, key)]
  /\ tool' = "backup_key"
  /\ UNCHANGED <<key, db, server, create, made>>

\* A bug for TLC to find: a copy that failed half way counts as made.
BackupKey_CutOff ==
  /\ tool = "backup_key"
  /\ key # None
  /\ \/ backup.key = None /\ backup' = [backup EXCEPT !.key = Short] /\ UNCHANGED tool
     \/ /\ backup.key = Short /\ tool' = "idle"
        /\ \E k \in {key, Short} : backup' = [backup EXCEPT !.key = k, !.done = TRUE]
  /\ UNCHANGED <<key, db, server, create, made, history>>

\* copyFile: the file is there before its content.
BackupKey ==
  /\ tool = "backup_key"
  /\ key # None
  /\ \/ backup.key = None /\ backup' = [backup EXCEPT !.key = Short] /\ UNCHANGED tool
     \/ backup.key = Short /\ backup' = [backup EXCEPT !.key = key, !.done = TRUE] /\ tool' = "idle"
  /\ UNCHANGED <<key, db, server, create, made, history>>

\* No key, or a copy that fails: both outputs are removed.
BackupFails ==
  /\ tool = "backup_key"
  /\ backup' = NoBackup
  /\ tool' = "idle"
  /\ UNCHANGED <<key, db, server, create, made, history>>

----------------------------------------------------------------------------
(* restore, into a data directory without a database and a key.            *)

RestoreBegin ==
  /\ tool = "idle" /\ server.pc = "down"
  /\ backup.db # None /\ backup.key # None
  /\ db = None /\ key = None
  /\ tool' = "restoring_db"
  /\ UNCHANGED <<key, db, server, create, backup, made, history>>

RestoreDb ==
  /\ tool = "restoring_db"
  /\ \/ db = None /\ db' = Part /\ UNCHANGED tool
     \/ db = Part /\ db' = backup.db /\ tool' = "restoring_key"
  /\ UNCHANGED <<key, server, create, backup, made, history>>

RestoreKey ==
  /\ tool = "restoring_key"
  /\ \/ key = None /\ key' = Short /\ UNCHANGED <<tool, history>>
     \/ /\ key = Short /\ key' = backup.key /\ tool' = "idle"
        /\ history' = [history EXCEPT !.restored = backup.done /\ history.backup]
  /\ UNCHANGED <<db, server, create, backup, made>>

\* A copy fails: what was copied is removed.
RestoreFails ==
  /\ tool \in {"restoring_db", "restoring_key"}
  /\ db' = None /\ key' = None
  /\ tool' = "idle"
  /\ UNCHANGED <<server, create, backup, made, history>>

\* A restore that is killed leaves what it has copied so far.
ToolDies ==
  /\ tool # "idle"
  /\ tool' = "idle"
  /\ db' \in IF tool = "restoring_db" /\ db = Part THEN {Part, EmptyDb} \cup Remains(backup.db)
                                                 ELSE {db}
  /\ UNCHANGED <<key, server, create, backup, made, history>>

\* The operator begins with an empty data directory, or removes a backup.
NewDataDir ==
  /\ server.pc = "down" /\ tool = "idle"
  /\ key' = None /\ db' = None
  /\ history' = [history EXCEPT !.restored = FALSE]
  /\ UNCHANGED <<server, create, tool, backup, made>>

RemoveBackup ==
  /\ tool = "idle" /\ backup # NoBackup
  /\ backup' = NoBackup
  /\ UNCHANGED <<key, db, server, create, tool, made, history>>

Next ==
  \/ ReadKey \/ CreateKey \/ WriteKey \/ OpenDb \/ ApplyMigration \/ LoadEnabled \/ ServerDies
  \/ \E p \in Profiles, s \in {"enabled", "disabled"} : InsertProfile(p, s)
  \/ RegisterProfile
  \/ \E p \in All : SetDefault(p) \/ StoreFile(p)
  \/ BackupBegin \/ Snapshot \/ BackupKey \/ BackupFails
  \/ RestoreBegin \/ RestoreDb \/ RestoreKey \/ RestoreFails
  \/ ToolDies \/ NewDataDir \/ RemoveBackup

Spec == Init /\ [][Next]_vars

----------------------------------------------------------------------------
(* Properties.                                                             *)

TypeOK ==
  /\ key \in Keys \cup {Short, None}
  /\ db \in Contents \cup {Part, None}
  /\ server \in [pc : {"down", "creating", "writing", "keyed", "migrating", "serving"},
                 key : Keys \cup {None}, registry : SUBSET All]
  /\ create \in Profiles \cup {None}
  /\ tool \in {"idle", "snapshot", "backup_key", "restoring_db", "restoring_key"}
  /\ backup \in [db : Contents \cup {None}, key : Keys \cup {Short, None}, done : BOOLEAN]
  /\ made \subseteq Keys
  /\ history \in [backup : BOOLEAN, restored : BOOLEAN]

\* The server serves only a directory that it can read: all scripts applied, its
\* key the one on disk, every enabled profile that the database has decrypted by
\* it, whatever start, restore or backup was cut off before.  Rows that a killed
\* restore did not copy are not noticed: a server may serve without them.
ServesWhatItCanRead ==
  server.pc = "serving" => /\ db \in Contents /\ db.scripts = Scripts
                           /\ server.key = key /\ Sound(db, key)

\* Every enabled profile with files has its backend in the registry, also after
\* a Create that died between its two steps and a start.
StoredIsReachable ==
  server.pc = "serving" => db.stored \cap Enabled(db) \subseteq server.registry

\* There is exactly one default profile and it is enabled, in the database and
\* in every snapshot of it; none only where a killed restore lost a row.
OneDefault ==
  \A d \in {db, backup.db} :
    d \in Contents /\ d.scripts > 0 =>
      LET default == {q \in All : d.profile[q].default}
      IN  \/ \E p \in Enabled(d) : default = {p}
          \/ default = {} /\ \E p \in All : d.profile[p].state = "lost"

\* A backup that reports success while the directory is sound, and a restore
\* of it that reports success, give a sound pair of database and key.
PairsStaySound ==
  /\ backup.done /\ history.backup => Sound(backup.db, backup.key)
  /\ history.restored => Sound(db, key)

=============================================================================
