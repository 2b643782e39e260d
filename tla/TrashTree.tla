----------------------------- MODULE TrashTree -----------------------------
(***************************************************************************)
(* The folder tree and the trash.  Folders and files are rows with a        *)
(* parent; a delete puts what it takes into a batch, in one transaction; a  *)
(* restore takes a batch out again, in one transaction.  Two operations     *)
(* are not transactions: moving a folder walks up from the new parent with  *)
(* one SELECT per level before its UPDATE, and purging a batch goes from    *)
(* file to file before it marks the folders.                               *)
(*                                                                         *)
(* Names and owners are left out: a name conflict or a missing right makes  *)
(* an operation fail, and one that fails changes nothing.                   *)
(***************************************************************************)
EXTENDS Naturals, FiniteSets

CONSTANTS
  Folders,     \* ids of folders
  Files,       \* public ids of files
  MaxBatches,  \* trash batches ever made (a bound)
  Movers,      \* concurrent moves of folders
  Purgers,     \* concurrent purges of batches
  Root         \* SQL NULL, as a parent

ASSUME TrashTreeAssumption ==
  /\ IsFiniteSet(Folders)
  /\ Folders \cap Files = {}
  /\ Root \notin Folders \cup Files
  /\ MaxBatches \in Nat

VARIABLES
  folder,   \* folders: state and parent
  file,     \* files: state and folder
  batch,    \* trash_batches and trash_items
  mover,    \* every FolderService.Move in progress
  purger    \* every PurgeBatch in progress

vars == <<folder, file, batch, mover, purger>>

Batches == 1..MaxBatches

Parents == Folders \cup {Root}

States == {"none", "active", "trashed", "purged"}

IdleMover == [pc |-> "idle", id |-> Root, parent |-> Root, current |-> Root]

IdlePurger == [pc |-> "idle", batch |-> 0, files |-> {}, file |-> Root]

Init ==
  /\ folder = [d \in Folders |-> [state |-> "none", parent |-> Root]]
  /\ file = [f \in Files |-> [state |-> "none", parent |-> Root]]
  /\ batch = [b \in Batches |-> [items |-> {}, restored |-> FALSE]]
  /\ mover = [m \in Movers |-> IdleMover]
  /\ purger = [p \in Purgers |-> IdlePurger]

----------------------------------------------------------------------------
(* Folders and files.  Their parents are looked up, but not their states.   *)

Existing == {Root} \cup {d \in Folders : folder[d].state # "none"}

CreateFolder(d, parent) ==
  /\ folder[d].state = "none"
  /\ parent \in Existing
  /\ folder' = [folder EXCEPT ![d] = [state |-> "active", parent |-> parent]]
  /\ UNCHANGED <<file, batch, mover, purger>>

\* CreateIndex of an upload.
CreateFile(f, parent) ==
  /\ file[f].state = "none"
  /\ parent \in Existing
  /\ file' = [file EXCEPT ![f] = [state |-> "active", parent |-> parent]]
  /\ UNCHANGED <<folder, batch, mover, purger>>

MoveFile(f, parent) ==
  /\ file[f].state # "none"
  /\ parent \in Existing
  /\ file' = [file EXCEPT ![f].parent = parent]
  /\ UNCHANGED <<folder, batch, mover, purger>>

----------------------------------------------------------------------------
(* FolderService.Move.                                                     *)

MoveStart(m, d, parent) ==
  /\ mover[m].pc = "idle"
  /\ folder[d].state # "none"
  /\ parent \in Existing
  /\ d # parent
  /\ mover' = [mover EXCEPT ![m] = [pc |-> "walking", id |-> d, parent |-> parent, current |-> parent]]
  /\ UNCHANGED <<folder, file, batch, purger>>

\* Mutant: only the new parent itself is compared with the folder.
MoveWalk_OneLevel(m) ==
  /\ mover[m].pc = "walking"
  /\ mover[m].current # Root
  /\ mover[m].current # mover[m].id
  /\ mover' = [mover EXCEPT ![m].current = Root]
  /\ UNCHANGED <<folder, file, batch, purger>>

\* One level up, unless that is the folder being moved.
MoveWalk(m) ==
  /\ mover[m].pc = "walking"
  /\ mover[m].current # Root
  /\ mover[m].current # mover[m].id
  /\ mover' = [mover EXCEPT ![m].current = folder[mover[m].current].parent]
  /\ UNCHANGED <<folder, file, batch, purger>>

\* The walk met the folder, or 1024 levels, or an error.
MoveGivesUp(m) ==
  /\ mover[m].pc = "walking"
  /\ mover' = [mover EXCEPT ![m] = IdleMover]
  /\ UNCHANGED <<folder, file, batch, purger>>

\* UPDATE folders SET parent_id: nothing of what the walk saw is looked at again.
MoveUpdate(m) ==
  /\ mover[m].pc = "walking"
  /\ mover[m].current = Root
  /\ folder' = [folder EXCEPT ![mover[m].id].parent = mover[m].parent]
  /\ mover' = [mover EXCEPT ![m] = IdleMover]
  /\ UNCHANGED <<file, batch, purger>>

----------------------------------------------------------------------------
(* Deleting and restoring, one transaction each.                           *)

ActiveChildren(ds) == {d \in Folders : folder[d].state = "active" /\ folder[d].parent \in ds}

\* Mutant: the folder and what is directly in it.
Descendants_Direct(d) == {d} \cup ActiveChildren({d})

\* Folders that hold d and, with each of them, the active folders in it.
Subtrees(d) == {ds \in SUBSET Folders : d \in ds /\ ActiveChildren(ds) \subseteq ds}

\* The recursive query: the folder and the active folders below it, and no other.
Descendants(d) == {c \in Folders : \A ds \in Subtrees(d) : c \in ds}

ActiveFilesIn(ds) == {f \in Files : file[f].state = "active" /\ file[f].parent \in ds}

NextBatch(items) ==
  \E b \in Batches :
    /\ batch[b].items = {}
    /\ \A c \in Batches : c < b => batch[c].items # {}
    /\ batch' = [batch EXCEPT ![b].items = items]

SetFolders(ds, s) ==
  folder' = [d \in Folders |-> IF d \in ds THEN [folder[d] EXCEPT !.state = s] ELSE folder[d]]

SetFiles(fs, s) ==
  file' = [f \in Files |-> IF f \in fs THEN [file[f] EXCEPT !.state = s] ELSE file[f]]

DeleteFile(f) ==
  /\ file[f].state = "active"
  /\ NextBatch({f})
  /\ SetFiles({f}, "trashed")
  /\ UNCHANGED <<folder, mover, purger>>

\* Mutant: the files are trashed, and are no items of the batch.
DeleteFolder_ForgetsItems(d) ==
  /\ folder[d].state = "active"
  /\ NextBatch(Descendants(d))
  /\ SetFolders(Descendants(d), "trashed")
  /\ SetFiles(ActiveFilesIn(Descendants(d)), "trashed")
  /\ UNCHANGED <<mover, purger>>

DeleteFolder(d) ==
  LET ds == Descendants(d)
      fs == ActiveFilesIn(ds)
  IN
  /\ folder[d].state = "active"
  /\ NextBatch(ds \cup fs)
  /\ SetFolders(ds, "trashed")
  /\ SetFiles(fs, "trashed")
  /\ UNCHANGED <<mover, purger>>

\* Mutant: the UPDATEs of a restore without their state = 'trashed'.
RestoreBatch_AnyState(b) ==
  /\ batch[b].items # {} /\ ~ batch[b].restored
  /\ SetFolders(batch[b].items \cap Folders, "active")
  /\ SetFiles(batch[b].items \cap Files, "active")
  /\ batch' = [batch EXCEPT ![b].restored = TRUE]
  /\ UNCHANGED <<mover, purger>>

\* Mutant: the batch is not looked up.
RestoreBatch_Unknown(b) ==
  /\ ~ batch[b].restored
  /\ SetFolders({d \in batch[b].items \cap Folders : folder[d].state = "trashed"}, "active")
  /\ SetFiles({f \in batch[b].items \cap Files : file[f].state = "trashed"}, "active")
  /\ batch' = [batch EXCEPT ![b].restored = TRUE]
  /\ UNCHANGED <<mover, purger>>

RestoreBatch(b) ==
  /\ batch[b].items # {} /\ ~ batch[b].restored
  /\ SetFolders({d \in batch[b].items \cap Folders : folder[d].state = "trashed"}, "active")
  /\ SetFiles({f \in batch[b].items \cap Files : file[f].state = "trashed"}, "active")
  /\ batch' = [batch EXCEPT ![b].restored = TRUE]
  /\ UNCHANGED <<mover, purger>>

----------------------------------------------------------------------------
(* PurgeBatch.  What a purge does to the object is FileStorage's matter.    *)

PurgeList(p, b) ==
  /\ purger[p].pc = "idle"
  /\ batch[b].items # {}
  /\ purger' = [purger EXCEPT ![p] = [pc |-> "listed", batch |-> b, files |-> batch[b].items \cap Files,
                                      file |-> Root]]
  /\ UNCHANGED <<folder, file, batch, mover>>

\* PurgeFile of the next file: a purged one is done, a trashed one is purged.
PurgeFileRead(p) ==
  /\ purger[p].pc = "listed"
  /\ \E f \in purger[p].files :
       \/ /\ file[f].state = "purged"
          /\ purger' = [purger EXCEPT ![p].files = @ \ {f}]
       \/ /\ file[f].state = "trashed"
          /\ purger' = [purger EXCEPT ![p].pc = "marking", ![p].files = @ \ {f}, ![p].file = f]
  /\ UNCHANGED <<folder, file, batch, mover>>

PurgeFileMark(p) ==
  /\ purger[p].pc = "marking"
  /\ file' = [file EXCEPT ![purger[p].file] = [state |-> "purged", parent |-> Root]]
  /\ purger' = [purger EXCEPT ![p].pc = "listed", ![p].file = Root]
  /\ UNCHANGED <<folder, batch, mover>>

\* A file that was restored, a backend that failed, a client that hung up.
PurgeGivesUp(p) ==
  /\ purger[p].pc # "idle"
  /\ purger' = [purger EXCEPT ![p] = IdlePurger]
  /\ UNCHANGED <<folder, file, batch, mover>>

\* UPDATE folders ... WHERE id IN (the items): in whatever state they are by now.
PurgeFolders(p) ==
  /\ purger[p].pc = "listed"
  /\ purger[p].files = {}
  /\ folder' = [d \in Folders |-> IF d \in batch[purger[p].batch].items
                                  THEN [state |-> "purged", parent |-> Root] ELSE folder[d]]
  /\ purger' = [purger EXCEPT ![p] = IdlePurger]
  /\ UNCHANGED <<file, batch, mover>>

----------------------------------------------------------------------------

Next ==
  \/ \E d \in Folders, parent \in Parents : CreateFolder(d, parent)
  \/ \E f \in Files, parent \in Parents : CreateFile(f, parent) \/ MoveFile(f, parent)
  \/ \E m \in Movers :
       \/ \E d \in Folders, parent \in Parents : MoveStart(m, d, parent)
       \/ MoveWalk(m)
       \/ MoveGivesUp(m)
       \/ MoveUpdate(m)
  \/ \E f \in Files : DeleteFile(f)
  \/ \E d \in Folders : DeleteFolder(d)
  \/ \E b \in Batches : RestoreBatch(b)
  \/ \E p \in Purgers :
       \/ \E b \in Batches : PurgeList(p, b)
       \/ PurgeFileRead(p)
       \/ PurgeFileMark(p)
       \/ PurgeGivesUp(p)
       \/ PurgeFolders(p)

Spec == Init /\ [][Next]_vars

----------------------------------------------------------------------------
(* Properties.                                                             *)

\* Rows, batches and calls have their shape; a batch in use has items.
TypeOK ==
  /\ folder \in [Folders -> [state : States, parent : Parents]]
  /\ file \in [Files -> [state : States, parent : Parents]]
  /\ batch \in [Batches -> [items : SUBSET (Folders \cup Files), restored : BOOLEAN]]
  /\ \A b \in Batches : batch[b].restored => batch[b].items # {}
  /\ mover \in [Movers -> [pc : {"idle", "walking"}, id : Parents, parent : Parents, current : Parents]]
  /\ purger \in [Purgers -> [pc : {"idle", "listed", "marking"}, batch : Batches \cup {0},
                             files : SUBSET Files, file : Files \cup {Root}]]

\* No folder is its own ancestor: a set of folders whose parents are all in the
\* set is empty.  Deletes, restores and purges in the middle of a walk make no
\* cycle; only a second move can.
Acyclic ==
  \A ds \in SUBSET Folders : ds # {} => \E d \in ds : folder[d].parent \notin ds

ItemState(i) == IF i \in Folders THEN folder[i].state ELSE file[i].state

OpenBatches(i) == {b \in Batches : i \in batch[b].items /\ ~ batch[b].restored}

\* What is in the trash can be taken out of it again: every trashed file or
\* folder is an item of one, and only one, batch that is not restored.
TrashedIsListed ==
  \A i \in Folders \cup Files : ItemState(i) = "trashed" => Cardinality(OpenBatches(i)) = 1

\* Nothing purged comes back, neither by a restore of its batch nor by a late
\* step of a purge or a move.
PurgedStays ==
  [][\A i \in Folders \cup Files : ItemState(i) = "purged" => ItemState(i)' = "purged"]_vars

ParentOf(i) == IF i \in Folders THEN folder[i].parent ELSE file[i].parent

\* What this step puts into the trash.
Going == {i \in Folders \cup Files : ItemState(i) = "active" /\ ItemState(i)' = "trashed"}

\* What goes to the trash goes with everything active that is directly in it, and
\* so with all that it reaches through active folders; and nothing goes that is
\* not reached in this way from the one item that was deleted.  What is active
\* below a subfolder that is in the trash already, or purged, is not reached: it
\* stays active.
FoldersGoWhole ==
  [][/\ \A i \in Folders \cup Files : ItemState(i) = "active" /\ ParentOf(i) \in Going => i \in Going
     /\ \A i, j \in Going : ParentOf(i) \notin Going /\ ParentOf(j) \notin Going => i = j]_vars

============================================================================
