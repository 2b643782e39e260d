-------------------------- MODULE TrashTreeProofs --------------------------
(***************************************************************************)
(* The folder tree and the trash for any number of folders, files, batches, *)
(* purges and moves.                                                        *)
(*                                                                         *)
(* Trash: what is active, or does not exist yet, is in no open batch, and    *)
(* what is trashed is in one (Listed): a delete takes active items only, and *)
(* a restore takes all the trashed items of its batch.                      *)
(*                                                                         *)
(* Tree: while a move walks up, the folders it has passed lead to where it   *)
(* stands and are not the folder it moves (Walked); at the root they lead    *)
(* nowhere else, so the UPDATE closes no circle.  A second move could, so   *)
(* this one theorem is about one move at a time.                            *)
(***************************************************************************)
EXTENDS TrashTree, FiniteSetTheorems, TLAPS

\* Moves are made one at a time.
OneMover == \A m, n \in Movers : m = n

Row == [state : States, parent : Parents]

Items == Folders \cup Files

\* A folder has a parent that exists, and moves are between folders that do.
Rooted ==
  /\ \A d \in Folders : folder[d].parent \in Existing /\ (folder[d].state = "none" => folder[d].parent = Root)
  /\ \A m \in Movers : mover[m].pc = "walking" =>
       /\ mover[m].id \in Folders /\ folder[mover[m].id].state # "none"
       /\ mover[m].parent \in Existing /\ mover[m].current \in Existing

Listed ==
  \A i \in Items :
    /\ ItemState(i) \in {"none", "active"} => OpenBatches(i) = {}
    /\ ItemState(i) = "trashed" => \E b \in Batches : OpenBatches(i) = {b}

TInv == TypeOK /\ Rooted /\ Listed

----------------------------------------------------------------------------
(* What the statements do to rows.                                         *)

\* The UPDATE of folders changes states only.
LEMMA SetFoldersDoes ==
  ASSUME TypeOK, NEW ds, NEW s \in States, SetFolders(ds, s)
  PROVE  /\ folder' \in [Folders -> Row]
         /\ \A d \in Folders : /\ folder'[d].parent = folder[d].parent
                               /\ folder'[d].state = IF d \in ds THEN s ELSE folder[d].state
<1> DEFINE row(d) == IF d \in ds THEN [folder[d] EXCEPT !.state = s] ELSE folder[d]
<1>1. ASSUME NEW d \in Folders
      PROVE  /\ row(d) \in Row /\ row(d).parent = folder[d].parent
             /\ row(d).state = IF d \in ds THEN s ELSE folder[d].state
  <2>1. folder[d] \in Row
    BY DEF TypeOK, Row
  <2>2. QED
    BY <2>1 DEF Row
<1>2. folder' = [d \in Folders |-> row(d)]
  BY DEF SetFolders
<1> HIDE DEF row
<1>3. QED
  BY <1>1, <1>2

\* So does the UPDATE of files.
LEMMA SetFilesDoes ==
  ASSUME TypeOK, NEW fs, NEW s \in States, SetFiles(fs, s)
  PROVE  /\ file' \in [Files -> Row]
         /\ \A f \in Files : /\ file'[f].parent = file[f].parent
                             /\ file'[f].state = IF f \in fs THEN s ELSE file[f].state
<1> DEFINE row(f) == IF f \in fs THEN [file[f] EXCEPT !.state = s] ELSE file[f]
<1>1. ASSUME NEW f \in Files
      PROVE  /\ row(f) \in Row /\ row(f).parent = file[f].parent
             /\ row(f).state = IF f \in fs THEN s ELSE file[f].state
  <2>1. file[f] \in Row
    BY DEF TypeOK, Row
  <2>2. QED
    BY <2>1 DEF Row
<1>2. file' = [f \in Files |-> row(f)]
  BY DEF SetFiles
<1> HIDE DEF row
<1>3. QED
  BY <1>1, <1>2

\* The query of DeleteFolder finds the folder, active folders only, and with a
\* folder every active folder in it.
LEMMA DescendantsAre ==
  ASSUME NEW d \in Folders, folder[d].state = "active"
  PROVE  /\ Descendants(d) \subseteq Folders /\ d \in Descendants(d)
         /\ \A c \in Descendants(d) : folder[c].state = "active"
         /\ \A c \in Folders : folder[c].state = "active" /\ folder[c].parent \in Descendants(d) => c \in Descendants(d)
<1> DEFINE A == {c \in Folders : folder[c].state = "active"}
<1>1. Descendants(d) \subseteq Folders /\ d \in Descendants(d)
  BY DEF Descendants, Subtrees
<1>2. A \in Subtrees(d)
  BY DEF Subtrees, ActiveChildren
<1>3. Descendants(d) \subseteq A
  BY <1>2 DEF Descendants
<1>4. ASSUME NEW c \in Folders, folder[c].state = "active", folder[c].parent \in Descendants(d)
      PROVE  c \in Descendants(d)
  <2> SUFFICES ASSUME NEW ds \in Subtrees(d) PROVE c \in ds
    BY DEF Descendants
  <2>1. folder[c].parent \in ds /\ ActiveChildren(ds) \subseteq ds
    BY <1>4 DEF Descendants, Subtrees
  <2>2. QED
    BY <1>4, <2>1 DEF ActiveChildren
<1>5. QED
  BY <1>1, <1>3, <1>4

\* A batch that gets items had none, and is open.
LEMMA NextBatchDoes ==
  ASSUME TypeOK, NEW items \in SUBSET Items, NextBatch(items), items # {}
  PROVE  /\ batch' \in [Batches -> [items : SUBSET (Folders \cup Files), restored : BOOLEAN]]
         /\ \A b \in Batches : batch'[b].restored => batch'[b].items # {}
         /\ \E b \in Batches : \A i \in Items :
              OpenBatches(i)' = IF i \in items THEN OpenBatches(i) \cup {b} ELSE OpenBatches(i)
<1>1. PICK b \in Batches : batch[b].items = {} /\ batch' = [batch EXCEPT ![b].items = items]
  BY DEF NextBatch
<1> DEFINE B == [items : SUBSET (Folders \cup Files), restored : BOOLEAN]
           new == [batch[b] EXCEPT !.items = items]
<1>2. batch \in [Batches -> B] /\ batch[b] \in B /\ ~ batch[b].restored
  BY <1>1 DEF TypeOK
<1>3. new \in B /\ new.items = items /\ new.restored = FALSE
  BY <1>2 DEF Items
<1>4. batch' = [batch EXCEPT ![b] = new]
  BY <1>1
<1> HIDE DEF new
<1>5. batch' \in [Batches -> B] /\ batch'[b] = new /\ \A c \in Batches : c # b => batch'[c] = batch[c]
  BY <1>2, <1>3, <1>4
<1>6. \A i \in Items : OpenBatches(i)' = IF i \in items THEN OpenBatches(i) \cup {b} ELSE OpenBatches(i)
  BY <1>1, <1>3, <1>5 DEF OpenBatches
<1>7. \A c \in Batches : batch'[c].restored => batch'[c].items # {}
  BY <1>3, <1>5 DEF TypeOK
<1>8. QED
  BY <1>5, <1>6, <1>7

\* A batch that is restored is open for nothing any more.
LEMMA BatchClosed ==
  ASSUME TypeOK, NEW b \in Batches, batch[b].items # {}, batch' = [batch EXCEPT ![b].restored = TRUE]
  PROVE  /\ batch' \in [Batches -> [items : SUBSET (Folders \cup Files), restored : BOOLEAN]]
         /\ \A c \in Batches : batch'[c].restored => batch'[c].items # {}
         /\ \A i \in Items : OpenBatches(i)' = OpenBatches(i) \ {b}
<1> DEFINE B == [items : SUBSET (Folders \cup Files), restored : BOOLEAN]
           new == [batch[b] EXCEPT !.restored = TRUE]
<1>1. batch \in [Batches -> B] /\ batch[b] \in B
  BY DEF TypeOK
<1>2. new \in B /\ new.items = batch[b].items /\ new.restored = TRUE
  BY <1>1
<1>3. batch' = [batch EXCEPT ![b] = new]
  OBVIOUS
<1> HIDE DEF new
<1>4. batch' \in [Batches -> B] /\ batch'[b] = new /\ \A c \in Batches : c # b => batch'[c] = batch[c]
  BY <1>1, <1>2, <1>3
<1>5. QED
  BY <1>2, <1>4 DEF TypeOK, OpenBatches

\* Items are folders or files.
LEMMA ItemStateIs ==
  ASSUME NEW i \in Items
  PROVE  /\ i \in Folders => ItemState(i) = folder[i].state /\ ItemState(i)' = folder'[i].state
         /\ i \notin Folders => i \in Files /\ ItemState(i) = file[i].state /\ ItemState(i)' = file'[i].state
BY DEF ItemState, Items

----------------------------------------------------------------------------
(* Each operation keeps the invariant.                                     *)

\* What exists may get a state or be purged; batches stay.
LEMMA ListedKept ==
  ASSUME Listed, UNCHANGED batch,
         \A i \in Items : \/ ItemState(i)' = ItemState(i) \/ ItemState(i)' = "purged"
                          \/ ItemState(i) = "none" /\ ItemState(i)' = "active"
  PROVE  Listed'
BY DEF Listed, OpenBatches

\* What exists keeps existing, and moves stay.
LEMMA RootedKept ==
  ASSUME Rooted, UNCHANGED mover,
         \A d \in Folders : /\ folder'[d].parent = folder[d].parent \/ folder'[d].parent = Root
                            /\ folder'[d].state = "none" <=> folder[d].state = "none"
  PROVE  Rooted'
BY DEF Rooted, Existing

MoverRecords == [pc : {"idle", "walking"}, id : Parents, parent : Parents, current : Parents]

PurgerRecords == [pc : {"idle", "listed", "marking"}, batch : Batches \cup {0}, files : SUBSET Files, file : Files \cup {Root}]

\* A folder is created in one that exists.
LEMMA CreateFolderKeeps ==
  ASSUME TInv, NEW d \in Folders, NEW parent \in Parents, CreateFolder(d, parent)
  PROVE  TInv'
<1> USE DEF TInv
<1> DEFINE new == [state |-> "active", parent |-> parent]
<1>1. new \in Row /\ new.state = "active" /\ new.parent = parent
  BY DEF Row, States
<1>2. folder \in [Folders -> Row] /\ folder[d].state = "none" /\ parent \in Existing
      /\ folder' = [folder EXCEPT ![d] = new] /\ UNCHANGED <<file, batch, mover, purger>>
  BY DEF CreateFolder, TypeOK, Row
<1> HIDE DEF new
<1>3. folder' \in [Folders -> Row] /\ folder'[d] = new /\ \A c \in Folders : c # d => folder'[c] = folder[c]
  BY <1>1, <1>2
<1>4. TypeOK'
  BY <1>2, <1>3 DEF TypeOK, Row
<1>5. \A x \in Existing : x \in Existing'
  BY <1>1, <1>3 DEF Existing
<1>6. \A c \in Folders : folder[c].state # "none" => folder'[c].state # "none"
  BY <1>1, <1>3
<1>7. Rooted'
  BY <1>1, <1>2, <1>3, <1>5, <1>6 DEF Rooted
<1>8. Listed'
  <2>1. \A i \in Items : ItemState(i)' = ItemState(i) \/ (ItemState(i) = "none" /\ ItemState(i)' = "active")
    BY <1>1, <1>2, <1>3 DEF ItemState, Items
  <2>2. QED
    BY <1>2, <2>1, ListedKept
<1>9. QED
  BY <1>4, <1>7, <1>8

\* CreateIndex makes a file.
LEMMA CreateFileKeeps ==
  ASSUME TInv, NEW f \in Files, NEW parent \in Parents, CreateFile(f, parent)
  PROVE  TInv'
<1> USE DEF TInv
<1> DEFINE new == [state |-> "active", parent |-> parent]
<1>1. new \in Row /\ new.state = "active" /\ new.parent = parent
  BY DEF Row, States
<1>2. file \in [Files -> Row] /\ file[f].state = "none" /\ file' = [file EXCEPT ![f] = new]
      /\ UNCHANGED <<folder, batch, mover, purger>>
  BY DEF CreateFile, TypeOK, Row
<1> HIDE DEF new
<1>3. file' \in [Files -> Row] /\ file'[f] = new /\ \A g \in Files : g # f => file'[g] = file[g]
  BY <1>1, <1>2
<1>4. TypeOK'
  BY <1>2, <1>3 DEF TypeOK, Row
<1>5. Rooted'
  BY <1>2, RootedKept
<1>6. \A i \in Items : ItemState(i)' = ItemState(i) \/ (ItemState(i) = "none" /\ ItemState(i)' = "active")
  BY <1>1, <1>2, <1>3 DEF ItemState, Items
<1>7. QED
  BY <1>2, <1>4, <1>5, <1>6, ListedKept

\* A file moves.
LEMMA MoveFileKeeps ==
  ASSUME TInv, NEW f \in Files, NEW parent \in Parents, MoveFile(f, parent)
  PROVE  TInv'
<1> USE DEF TInv
<1> DEFINE new == [file[f] EXCEPT !.parent = parent]
<1>1. file \in [Files -> Row] /\ file[f] \in Row
  BY DEF TypeOK, Row
<1>2. new \in Row /\ new.state = file[f].state
  BY <1>1 DEF Row
<1>3. file' = [file EXCEPT ![f] = new] /\ UNCHANGED <<folder, batch, mover, purger>>
  BY DEF MoveFile
<1> HIDE DEF new
<1>4. file' \in [Files -> Row] /\ \A g \in Files : file'[g].state = file[g].state
  BY <1>1, <1>2, <1>3
<1>5. TypeOK'
  BY <1>3, <1>4 DEF TypeOK, Row
<1>6. Rooted'
  BY <1>3, RootedKept
<1>7. \A i \in Items : ItemState(i)' = ItemState(i)
  BY <1>3, <1>4 DEF ItemState, Items
<1>8. QED
  BY <1>3, <1>5, <1>6, <1>7, ListedKept

\* A move starts, walks or gives up.
LEMMA WalkKeeps ==
  ASSUME TInv, NEW m \in Movers, NEW r \in MoverRecords, mover' = [mover EXCEPT ![m] = r],
         UNCHANGED <<folder, file, batch, purger>>,
         r.pc = "walking" => /\ r.id \in Folders /\ folder[r.id].state # "none"
                             /\ r.parent \in Existing /\ r.current \in Existing
  PROVE  TInv'
<1> USE DEF TInv
<1>1. mover \in [Movers -> MoverRecords]
  BY DEF TypeOK, MoverRecords
<1>2. mover' \in [Movers -> MoverRecords] /\ mover'[m] = r /\ \A n \in Movers : n # m => mover'[n] = mover[n]
  BY <1>1
<1>3. TypeOK'
  BY <1>2 DEF TypeOK, MoverRecords
<1>4. Rooted'
  BY <1>2 DEF Rooted, Existing
<1>5. Listed'
  BY DEF Listed, ItemState, OpenBatches
<1>6. QED
  BY <1>3, <1>4, <1>5

\* A move starts.
LEMMA MoveStartKeeps ==
  ASSUME TInv, NEW m \in Movers, NEW d \in Folders, NEW parent \in Parents, MoveStart(m, d, parent)
  PROVE  TInv'
<1> DEFINE r == [pc |-> "walking", id |-> d, parent |-> parent, current |-> parent]
<1>1. r \in MoverRecords /\ r.id = d /\ r.parent = parent /\ r.current = parent
  BY DEF MoverRecords, Parents
<1>2. folder[d].state # "none" /\ parent \in Existing /\ mover' = [mover EXCEPT ![m] = r]
      /\ UNCHANGED <<folder, file, batch, purger>>
  BY DEF MoveStart
<1> HIDE DEF r
<1>3. QED
  BY <1>1, <1>2, WalkKeeps

\* A move looks one level up.
LEMMA MoveWalkKeeps == ASSUME TInv, NEW m \in Movers, MoveWalk(m) PROVE TInv'
<1> DEFINE up == folder[mover[m].current].parent
           r == [mover[m] EXCEPT !.current = up]
<1>1. mover[m] \in MoverRecords /\ mover[m].pc = "walking" /\ mover[m].current # Root
  BY DEF TInv, TypeOK, MoverRecords, MoveWalk
<1>2. /\ mover[m].id \in Folders /\ folder[mover[m].id].state # "none"
      /\ mover[m].parent \in Existing /\ mover[m].current \in Folders
  BY <1>1 DEF TInv, Rooted, Existing
<1>3. up \in Existing /\ up \in Parents
  BY <1>2 DEF TInv, Rooted, TypeOK
<1>4. mover' = [mover EXCEPT ![m] = r] /\ UNCHANGED <<folder, file, batch, purger>>
  BY DEF MoveWalk
<1> HIDE DEF up
<1>5. r \in MoverRecords /\ r.id = mover[m].id /\ r.parent = mover[m].parent /\ r.current = up
  BY <1>1, <1>3 DEF MoverRecords
<1> HIDE DEF r
<1>6. QED
  BY <1>2, <1>3, <1>4, <1>5, WalkKeeps

\* A move gives up.
LEMMA MoveGivesUpKeeps == ASSUME TInv, NEW m \in Movers, MoveGivesUp(m) PROVE TInv'
<1>1. IdleMover \in MoverRecords /\ IdleMover.pc = "idle"
  BY DEF IdleMover, MoverRecords, Parents
<1>2. QED
  BY <1>1, WalkKeeps DEF MoveGivesUp

\* A move updates its folder.
LEMMA MoveUpdateKeeps == ASSUME TInv, NEW m \in Movers, MoveUpdate(m) PROVE TInv'
<1> USE DEF TInv
<1> DEFINE d == mover[m].id
           parent == mover[m].parent
           new == [folder[d] EXCEPT !.parent = parent]
<1>1. mover[m] \in MoverRecords /\ mover \in [Movers -> MoverRecords] /\ folder \in [Folders -> Row]
  BY DEF TypeOK, MoverRecords, Row
<1>2. d \in Folders /\ folder[d].state # "none" /\ parent \in Existing /\ parent \in Parents
  BY <1>1 DEF Rooted, MoveUpdate, MoverRecords
<1>3. folder' = [folder EXCEPT ![d] = new] /\ mover' = [mover EXCEPT ![m] = IdleMover] /\ UNCHANGED <<file, batch, purger>>
  BY DEF MoveUpdate
<1> HIDE DEF d, parent
<1>4. new \in Row /\ new.state = folder[d].state /\ new.parent = parent
  BY <1>1, <1>2 DEF Row
<1> HIDE DEF new
<1>5. folder' \in [Folders -> Row] /\ folder'[d] = new /\ \A c \in Folders : c # d => folder'[c] = folder[c]
  BY <1>1, <1>2, <1>3, <1>4
<1>6. IdleMover \in MoverRecords /\ IdleMover.pc = "idle"
  BY DEF IdleMover, MoverRecords, Parents
<1>7. mover' \in [Movers -> MoverRecords] /\ mover'[m].pc = "idle" /\ \A n \in Movers : n # m => mover'[n] = mover[n]
  BY <1>1, <1>3, <1>6
<1>8. TypeOK'
  BY <1>3, <1>5, <1>7 DEF TypeOK, Row, MoverRecords
<1>9. Existing' = Existing /\ \A c \in Folders : folder'[c].state = folder[c].state
  BY <1>4, <1>5 DEF Existing
<1>10. Rooted'
  BY <1>2, <1>4, <1>5, <1>7, <1>9 DEF Rooted
<1>11. \A i \in Items : ItemState(i)' = ItemState(i)
  BY <1>3, <1>9 DEF ItemState, Items
<1>12. QED
  BY <1>3, <1>8, <1>10, <1>11, ListedKept

\* Active items go to the trash, in one batch.
LEMMA TrashKeeps ==
  ASSUME Listed, NEW items \in SUBSET Items, NEW b \in Batches,
         \A i \in items : ItemState(i) = "active",
         \A i \in Items : /\ OpenBatches(i)' = IF i \in items THEN OpenBatches(i) \cup {b} ELSE OpenBatches(i)
                          /\ ItemState(i)' = IF i \in items THEN "trashed" ELSE ItemState(i)
  PROVE  Listed'
<1> SUFFICES ASSUME NEW i \in Items
             PROVE  /\ ItemState(i)' \in {"none", "active"} => OpenBatches(i)' = {}
                    /\ ItemState(i)' = "trashed" => \E c \in Batches : OpenBatches(i)' = {c}
  BY DEF Listed
<1>1. CASE i \in items
  BY <1>1 DEF Listed
<1>2. CASE i \notin items
  BY <1>2 DEF Listed
<1>3. QED
  BY <1>1, <1>2

\* A file is deleted.
LEMMA DeleteFileKeeps == ASSUME TInv, NEW f \in Files, DeleteFile(f) PROVE TInv'
<1> USE DEF TInv
<1>1. /\ file[f].state = "active" /\ NextBatch({f}) /\ SetFiles({f}, "trashed")
      /\ UNCHANGED <<folder, mover, purger>> /\ {f} \in SUBSET Items /\ f \notin Folders
  BY TrashTreeAssumption DEF DeleteFile, Items
<1>2. /\ file' \in [Files -> Row]
      /\ \A g \in Files : file'[g].state = IF g \in {f} THEN "trashed" ELSE file[g].state
  BY <1>1, SetFilesDoes DEF States
<1>3. /\ batch' \in [Batches -> [items : SUBSET (Folders \cup Files), restored : BOOLEAN]]
      /\ \A b \in Batches : batch'[b].restored => batch'[b].items # {}
  BY <1>1, NextBatchDoes
<1>4. PICK b \in Batches : \A i \in Items :
        OpenBatches(i)' = IF i \in {f} THEN OpenBatches(i) \cup {b} ELSE OpenBatches(i)
  BY <1>1, NextBatchDoes
<1>5. TypeOK'
  BY <1>1, <1>2, <1>3 DEF TypeOK, Row
<1>6. Rooted'
  BY <1>1, RootedKept
<1>7. \A i \in Items : ItemState(i)' = IF i \in {f} THEN "trashed" ELSE ItemState(i)
  BY <1>1, <1>2 DEF ItemState, Items
<1>8. \A i \in {f} : ItemState(i) = "active"
  BY <1>1 DEF ItemState
<1>9. Listed'
  BY <1>1, <1>4, <1>7, <1>8, TrashKeeps
<1>10. QED
  BY <1>5, <1>6, <1>9

\* A folder is deleted with what is in it.
LEMMA DeleteFolderKeeps == ASSUME TInv, NEW d \in Folders, DeleteFolder(d) PROVE TInv'
<1> USE DEF TInv
<1> DEFINE ds == Descendants(d)
           fs == ActiveFilesIn(ds)
           items == ds \cup fs
<1>1. /\ folder[d].state = "active" /\ NextBatch(items) /\ SetFolders(ds, "trashed") /\ SetFiles(fs, "trashed")
      /\ UNCHANGED <<mover, purger>>
  BY DEF DeleteFolder
<1>2. /\ ds \subseteq Folders /\ d \in ds /\ (\A c \in ds : folder[c].state = "active")
      /\ fs \subseteq Files /\ (\A f \in fs : file[f].state = "active")
  BY <1>1, DescendantsAre DEF ActiveFilesIn
<1>3. items \in SUBSET Items /\ items # {}
  BY <1>2 DEF Items
<1> HIDE DEF ds, fs
<1>4. /\ folder' \in [Folders -> Row]
      /\ \A c \in Folders : /\ folder'[c].parent = folder[c].parent
                            /\ folder'[c].state = IF c \in ds THEN "trashed" ELSE folder[c].state
  BY <1>1, SetFoldersDoes DEF States
<1>5. /\ file' \in [Files -> Row]
      /\ \A g \in Files : file'[g].state = IF g \in fs THEN "trashed" ELSE file[g].state
  BY <1>1, SetFilesDoes DEF States
<1>6. /\ batch' \in [Batches -> [items : SUBSET (Folders \cup Files), restored : BOOLEAN]]
      /\ \A b \in Batches : batch'[b].restored => batch'[b].items # {}
  BY <1>1, <1>3, NextBatchDoes
<1>7. PICK b \in Batches : \A i \in Items :
        OpenBatches(i)' = IF i \in items THEN OpenBatches(i) \cup {b} ELSE OpenBatches(i)
  BY <1>1, <1>3, NextBatchDoes
<1>8. TypeOK'
  BY <1>1, <1>4, <1>5, <1>6 DEF TypeOK, Row
<1>9. Rooted'
  BY <1>1, <1>2, <1>4, RootedKept
<1>10. \A i \in Items : ItemState(i)' = IF i \in items THEN "trashed" ELSE ItemState(i)
  BY <1>2, <1>4, <1>5, TrashTreeAssumption DEF ItemState, Items
<1>11. \A i \in items : ItemState(i) = "active"
  BY <1>2, TrashTreeAssumption DEF ItemState
<1>12. Listed'
  BY <1>3, <1>7, <1>10, <1>11, TrashKeeps
<1>13. QED
  BY <1>8, <1>9, <1>12

\* A batch is restored.
LEMMA RestoreBatchKeeps == ASSUME TInv, NEW b \in Batches, RestoreBatch(b) PROVE TInv'
<1> USE DEF TInv
<1> DEFINE ds == {d \in batch[b].items \cap Folders : folder[d].state = "trashed"}
           fs == {f \in batch[b].items \cap Files : file[f].state = "trashed"}
<1>1. /\ batch[b].items # {} /\ ~ batch[b].restored /\ SetFolders(ds, "active") /\ SetFiles(fs, "active")
      /\ batch' = [batch EXCEPT ![b].restored = TRUE] /\ UNCHANGED <<mover, purger>>
  BY DEF RestoreBatch
<1>2. /\ folder' \in [Folders -> Row]
      /\ \A c \in Folders : /\ folder'[c].parent = folder[c].parent
                            /\ folder'[c].state = IF c \in ds THEN "active" ELSE folder[c].state
  BY <1>1, SetFoldersDoes DEF States
<1>3. /\ file' \in [Files -> Row]
      /\ \A g \in Files : file'[g].state = IF g \in fs THEN "active" ELSE file[g].state
  BY <1>1, SetFilesDoes DEF States
<1>4. /\ batch' \in [Batches -> [items : SUBSET (Folders \cup Files), restored : BOOLEAN]]
      /\ \A c \in Batches : batch'[c].restored => batch'[c].items # {}
      /\ \A i \in Items : OpenBatches(i)' = OpenBatches(i) \ {b}
  BY <1>1, BatchClosed
<1>5. TypeOK'
  BY <1>1, <1>2, <1>3, <1>4 DEF TypeOK, Row
<1>6. Rooted'
  BY <1>1, <1>2, RootedKept
<1>7. Listed'
  <2> SUFFICES ASSUME NEW i \in Items
               PROVE  /\ ItemState(i)' \in {"none", "active"} => OpenBatches(i)' = {}
                      /\ ItemState(i)' = "trashed" => \E c \in Batches : OpenBatches(i)' = {c}
    BY DEF Listed
  <2>1. CASE i \in batch[b].items /\ ItemState(i) = "trashed"
    <3>1. b \in OpenBatches(i)
      BY <1>1, <2>1 DEF OpenBatches
    <3>2. OpenBatches(i)' = {}
      BY <1>4, <2>1, <3>1 DEF Listed
    <3>3. ItemState(i)' = "active"
      BY <1>2, <1>3, <2>1 DEF ItemState, Items
    <3>4. QED
      BY <3>2, <3>3
  <2>2. CASE i \notin batch[b].items \/ ItemState(i) # "trashed"
    <3>1. ItemState(i)' = ItemState(i)
      BY <1>2, <1>3, <2>2 DEF ItemState, Items
    <3>2. ItemState(i) = "trashed" => OpenBatches(i)' = OpenBatches(i)
      BY <1>4, <2>2 DEF OpenBatches
    <3>3. QED
      BY <1>4, <3>1, <3>2 DEF Listed
  <2>3. QED
    BY <2>1, <2>2
<1>8. QED
  BY <1>5, <1>6, <1>7

\* A purge reads.
LEMMA PurgerKeeps ==
  ASSUME TInv, NEW p \in Purgers, NEW r \in PurgerRecords, purger' = [purger EXCEPT ![p] = r],
         UNCHANGED <<folder, file, batch, mover>>
  PROVE  TInv'
<1> USE DEF TInv
<1>1. purger' \in [Purgers -> PurgerRecords]
  BY DEF TypeOK, PurgerRecords
<1>2. TypeOK'
  BY <1>1 DEF TypeOK, PurgerRecords
<1>3. QED
  BY <1>2 DEF Rooted, Existing, Listed, ItemState, OpenBatches

\* A purge lists its files.
LEMMA PurgeListKeeps == ASSUME TInv, NEW p \in Purgers, NEW b \in Batches, PurgeList(p, b) PROVE TInv'
<1> DEFINE r == [pc |-> "listed", batch |-> b, files |-> batch[b].items \cap Files, file |-> Root]
<1>1. r \in PurgerRecords
  BY DEF PurgerRecords
<1>2. QED
  BY <1>1, PurgerKeeps DEF PurgeList

\* A purge reads a file.
LEMMA PurgeFileReadKeeps == ASSUME TInv, NEW p \in Purgers, PurgeFileRead(p) PROVE TInv'
<1>1. purger[p] \in PurgerRecords
  BY DEF TInv, TypeOK, PurgerRecords
<1>2. PICK f \in purger[p].files :
        \/ purger' = [purger EXCEPT ![p].files = @ \ {f}]
        \/ purger' = [purger EXCEPT ![p].pc = "marking", ![p].files = @ \ {f}, ![p].file = f]
  BY DEF PurgeFileRead
<1>3. f \in Files
  BY <1>1 DEF PurgerRecords
<1> DEFINE left == purger[p].files \ {f}
           a == [purger[p] EXCEPT !.files = left]
           b == [[[purger[p] EXCEPT !.pc = "marking"] EXCEPT !.files = left] EXCEPT !.file = f]
<1>4. a \in PurgerRecords /\ b \in PurgerRecords
  BY <1>1, <1>3 DEF PurgerRecords
<1>5. purger' = [purger EXCEPT ![p] = a] \/ purger' = [purger EXCEPT ![p] = b]
  <2>1. [purger[p] EXCEPT !.pc = "marking"].files = purger[p].files
    BY <1>1 DEF PurgerRecords
  <2>2. CASE purger' = [purger EXCEPT ![p].files = @ \ {f}]
    BY <2>2
  <2>3. CASE purger' = [purger EXCEPT ![p].pc = "marking", ![p].files = @ \ {f}, ![p].file = f]
    BY <2>1, <2>3
  <2>4. QED
    BY <1>2, <2>2, <2>3
<1>6. UNCHANGED <<folder, file, batch, mover>>
  BY DEF PurgeFileRead
<1> HIDE DEF a, b
<1>7. QED
  BY <1>4, <1>5, <1>6, PurgerKeeps

\* A purge gives up.
LEMMA PurgeGivesUpKeeps == ASSUME TInv, NEW p \in Purgers, PurgeGivesUp(p) PROVE TInv'
<1>1. IdlePurger \in PurgerRecords
  BY DEF IdlePurger, PurgerRecords
<1>2. QED
  BY <1>1, PurgerKeeps DEF PurgeGivesUp

\* A purge marks a file.
LEMMA PurgeFileMarkKeeps == ASSUME TInv, NEW p \in Purgers, PurgeFileMark(p) PROVE TInv'
<1> USE DEF TInv
<1> DEFINE gone == [state |-> "purged", parent |-> Root]
           r == [[purger[p] EXCEPT !.pc = "listed"] EXCEPT !.file = Root]
<1>1. gone \in Row /\ gone.state = "purged"
  BY DEF Row, States, Parents
<1>2. /\ file' = [file EXCEPT ![purger[p].file] = gone] /\ purger' = [purger EXCEPT ![p] = r]
      /\ UNCHANGED <<folder, batch, mover>>
  BY DEF PurgeFileMark
<1> HIDE DEF gone
<1>3. file' \in [Files -> Row] /\ \A f \in Files : file'[f] = file[f] \/ file'[f].state = "purged"
  BY <1>1, <1>2 DEF TypeOK, Row
<1>4. purger \in [Purgers -> PurgerRecords] /\ r \in PurgerRecords
  BY DEF TypeOK, PurgerRecords
<1> HIDE DEF r
<1>5. purger' \in [Purgers -> PurgerRecords]
  BY <1>2, <1>4
<1>6. TypeOK'
  BY <1>2, <1>3, <1>5 DEF TypeOK, Row, PurgerRecords
<1>7. Rooted'
  BY <1>2, RootedKept
<1>8. \A i \in Items : ItemState(i)' = ItemState(i) \/ ItemState(i)' = "purged"
  BY <1>2, <1>3 DEF ItemState, Items
<1>9. QED
  BY <1>2, <1>6, <1>7, <1>8, ListedKept

\* A purge marks the folders.
LEMMA PurgeFoldersKeeps == ASSUME TInv, NEW p \in Purgers, PurgeFolders(p) PROVE TInv'
<1> USE DEF TInv
<1> DEFINE gone == [state |-> "purged", parent |-> Root]
<1>1. gone \in Row /\ gone.state = "purged" /\ gone.parent = Root
  BY DEF Row, States, Parents
<1>2. /\ folder' = [d \in Folders |-> IF d \in batch[purger[p].batch].items THEN gone ELSE folder[d]]
      /\ purger' = [purger EXCEPT ![p] = IdlePurger] /\ UNCHANGED <<file, batch, mover>>
  BY DEF PurgeFolders
<1> HIDE DEF gone
<1>3. folder' \in [Folders -> Row] /\ \A d \in Folders : folder'[d] = folder[d] \/ folder'[d] = gone
  BY <1>1, <1>2 DEF TypeOK, Row
<1>4. IdlePurger \in PurgerRecords /\ purger \in [Purgers -> PurgerRecords]
  BY DEF IdlePurger, PurgerRecords, TypeOK
<1>5. purger' \in [Purgers -> PurgerRecords]
  BY <1>2, <1>4
<1>6. TypeOK'
  BY <1>2, <1>3, <1>5 DEF TypeOK, Row, PurgerRecords
<1>7. \A d \in Folders : folder'[d].parent \in {folder[d].parent, Root} /\ (folder[d].state # "none" => folder'[d].state # "none")
  BY <1>1, <1>3
<1>8. Rooted'
  BY <1>1, <1>2, <1>3, <1>7 DEF Rooted, Existing
<1>9. \A i \in Items : ItemState(i)' = ItemState(i) \/ ItemState(i)' = "purged"
  BY <1>1, <1>2, <1>3 DEF ItemState, Items
<1>10. QED
  BY <1>2, <1>6, <1>8, <1>9, ListedKept

----------------------------------------------------------------------------
(* What is in the trash.                                                   *)

\* Before anything is created.
LEMMA InitHolds == Init => TInv
<1> SUFFICES ASSUME Init PROVE TInv
  OBVIOUS
<1>1. folder \in [Folders -> Row] /\ \A d \in Folders : folder[d].state = "none" /\ folder[d].parent = Root
  BY DEF Init, Row, States, Parents
<1>2. file \in [Files -> Row] /\ \A f \in Files : file[f].state = "none"
  BY DEF Init, Row, States, Parents
<1>3. /\ batch \in [Batches -> [items : SUBSET (Folders \cup Files), restored : BOOLEAN]]
      /\ \A b \in Batches : batch[b].items = {} /\ ~ batch[b].restored
  BY DEF Init
<1>4. /\ mover \in [Movers -> MoverRecords] /\ \A m \in Movers : mover[m].pc = "idle"
      /\ purger \in [Purgers -> PurgerRecords]
  BY DEF Init, IdleMover, IdlePurger, MoverRecords, PurgerRecords, Parents
<1>5. TypeOK
  BY <1>1, <1>2, <1>3, <1>4 DEF TypeOK, Row, MoverRecords, PurgerRecords
<1>6. Rooted
  BY <1>1, <1>4 DEF Rooted, Existing
<1>7. Listed
  <2>1. \A i \in Items : ItemState(i) = "none" /\ OpenBatches(i) = {}
    BY <1>1, <1>2, <1>3 DEF ItemState, Items, OpenBatches
  <2>2. QED
    BY <2>1 DEF Listed
<1>8. QED
  BY <1>5, <1>6, <1>7 DEF TInv

\* Every operation keeps the invariant.
LEMMA NextKeeps == ASSUME TInv, Next PROVE TInv'
BY CreateFolderKeeps, CreateFileKeeps, MoveFileKeeps, MoveStartKeeps, MoveWalkKeeps, MoveGivesUpKeeps,
   MoveUpdateKeeps, DeleteFileKeeps, DeleteFolderKeeps, RestoreBatchKeeps, PurgeListKeeps, PurgeFileReadKeeps,
   PurgeFileMarkKeeps, PurgeGivesUpKeeps, PurgeFoldersKeeps DEF Next

\* Types, parents that exist, and batches that list what is in the trash: the
\* inductive invariant, for any number of concurrent moves and purges.
THEOREM Invariance == Spec => []TInv
<1>1. TInv /\ [Next]_vars => TInv'
  <2>1. ASSUME TInv, UNCHANGED vars PROVE TInv'
    BY <2>1 DEF vars, TInv, TypeOK, Rooted, Existing, Listed, ItemState, OpenBatches
  <2>2. QED
    BY <2>1, NextKeeps
<1>2. QED
  BY <1>1, InitHolds, PTL DEF Spec

\* Folders, files, batches, moves and purges keep their shape.
THEOREM Types == Spec => []TypeOK
BY Invariance, PTL DEF TInv

\* Whatever is in the trash is an item of exactly one batch that can still be
\* restored, for any number of deletes, restores and purges.
THEOREM TrashIsListed == Spec => []TrashedIsListed
<1>1. TInv => TrashedIsListed
  <2> SUFFICES ASSUME TInv, NEW i \in Folders \cup Files, ItemState(i) = "trashed"
               PROVE  Cardinality(OpenBatches(i)) = 1
    BY DEF TrashedIsListed
  <2>1. PICK b \in Batches : OpenBatches(i) = {b}
    BY DEF TInv, Listed, Items
  <2>2. QED
    BY <2>1, FS_Singleton
<1>2. QED
  BY <1>1, Invariance, PTL

\* A step makes of what is purged nothing else.
LEMMA PurgedKept ==
  ASSUME TInv, Next, NEW i \in Items, ItemState(i) = "purged"
  PROVE  ItemState(i)' = "purged"
<1> USE DEF TInv
<1>1. folder \in [Folders -> Row] /\ file \in [Files -> Row] /\ mover \in [Movers -> MoverRecords] /\ TypeOK
  BY DEF TypeOK, Row, MoverRecords
<1>2. ASSUME UNCHANGED <<folder, file>> PROVE ItemState(i)' = "purged"
  BY <1>2 DEF ItemState
<1>3. ASSUME NEW d \in Folders, NEW parent \in Parents, CreateFolder(d, parent) PROVE ItemState(i)' = "purged"
  BY <1>1, <1>3 DEF CreateFolder, ItemState
<1>4. ASSUME NEW f \in Files, NEW parent \in Parents, CreateFile(f, parent) PROVE ItemState(i)' = "purged"
  BY <1>1, <1>4 DEF CreateFile, ItemState, Items
<1>5. ASSUME NEW f \in Files, NEW parent \in Parents, MoveFile(f, parent) PROVE ItemState(i)' = "purged"
  <2>1. file[f] \in Row
    BY <1>1
  <2>2. \A g \in Files : file'[g].state = file[g].state
    BY <1>1, <1>5, <2>1 DEF MoveFile, Row
  <2>3. QED
    BY <1>5, <2>2 DEF MoveFile, ItemState, Items
<1>6. ASSUME NEW m \in Movers, MoveUpdate(m) PROVE ItemState(i)' = "purged"
  <2>1. \A d \in Folders : folder'[d].state = folder[d].state
    BY <1>1, <1>6 DEF MoveUpdate, Row
  <2>2. QED
    BY <1>6, <2>1 DEF MoveUpdate, ItemState, Items
<1>7. ASSUME NEW f \in Files, DeleteFile(f) PROVE ItemState(i)' = "purged"
  <2>1. \A g \in Files : file'[g].state = IF g \in {f} THEN "trashed" ELSE file[g].state
    BY <1>7, SetFilesDoes DEF DeleteFile, States
  <2>2. QED
    BY <1>7, <2>1 DEF DeleteFile, ItemState, Items
<1>8. ASSUME NEW d \in Folders, DeleteFolder(d) PROVE ItemState(i)' = "purged"
  <2> DEFINE ds == Descendants(d)
             fs == ActiveFilesIn(ds)
  <2>1. folder[d].state = "active" /\ SetFolders(ds, "trashed") /\ SetFiles(fs, "trashed")
    BY <1>8 DEF DeleteFolder
  <2>2. (\A c \in ds : folder[c].state = "active") /\ (\A f \in fs : file[f].state = "active")
    BY <2>1, DescendantsAre DEF ActiveFilesIn
  <2> HIDE DEF ds, fs
  <2>3. \A c \in Folders : folder'[c].state = IF c \in ds THEN "trashed" ELSE folder[c].state
    BY <2>1, SetFoldersDoes DEF States
  <2>4. \A f \in Files : file'[f].state = IF f \in fs THEN "trashed" ELSE file[f].state
    BY <2>1, SetFilesDoes DEF States
  <2>5. QED
    BY <2>2, <2>3, <2>4 DEF ItemState, Items
<1>9. ASSUME NEW b \in Batches, RestoreBatch(b) PROVE ItemState(i)' = "purged"
  <2> DEFINE ds == {d \in batch[b].items \cap Folders : folder[d].state = "trashed"}
             fs == {f \in batch[b].items \cap Files : file[f].state = "trashed"}
  <2>1. SetFolders(ds, "active") /\ SetFiles(fs, "active")
    BY <1>9 DEF RestoreBatch
  <2>2. \A c \in Folders : folder'[c].state = IF c \in ds THEN "active" ELSE folder[c].state
    BY <2>1, SetFoldersDoes DEF States
  <2>3. \A f \in Files : file'[f].state = IF f \in fs THEN "active" ELSE file[f].state
    BY <2>1, SetFilesDoes DEF States
  <2>4. QED
    BY <2>2, <2>3 DEF ItemState, Items
<1>10. ASSUME NEW p \in Purgers, PurgeFileMark(p) PROVE ItemState(i)' = "purged"
  <2>1. \A f \in Files : file'[f] = file[f] \/ file'[f].state = "purged"
    BY <1>1, <1>10 DEF PurgeFileMark
  <2>2. QED
    BY <1>10, <2>1 DEF PurgeFileMark, ItemState, Items
<1>11. ASSUME NEW p \in Purgers, PurgeFolders(p) PROVE ItemState(i)' = "purged"
  BY <1>11 DEF PurgeFolders, ItemState, Items
<1>12. QED
  BY <1>2, <1>3, <1>4, <1>5, <1>6, <1>7, <1>8, <1>9, <1>10, <1>11
     DEF Next, MoveStart, MoveWalk, MoveGivesUp, PurgeList, PurgeFileRead, PurgeGivesUp

\* No restore, move or late step of a purge brings back what was purged.
THEOREM PurgedForGood == Spec => PurgedStays
<1>1. TInv /\ [Next]_vars =>
        [\A i \in Folders \cup Files : ItemState(i) = "purged" => ItemState(i)' = "purged"]_vars
  BY PurgedKept DEF Items
<1>2. QED
  BY <1>1, Invariance, PTL DEF Spec, PurgedStays

\* What the query finds beside the folder is in a folder that it finds.
LEMMA DescendantsHang ==
  ASSUME NEW d \in Folders, NEW c \in Descendants(d), c # d
  PROVE  folder[c].parent \in Descendants(d)
<1> DEFINE rest == Descendants(d) \ {c}
<1> SUFFICES ASSUME folder[c].parent \notin Descendants(d) PROVE FALSE
  OBVIOUS
<1>1. d \in rest /\ rest \subseteq Folders
  BY DEF Descendants, Subtrees
<1>2. ASSUME NEW e \in ActiveChildren(rest) PROVE e \in rest
  <2>1. e \in Folders /\ folder[e].state = "active" /\ folder[e].parent \in Descendants(d)
    BY <1>2 DEF ActiveChildren
  <2>2. ASSUME NEW ds \in Subtrees(d) PROVE e \in ds
    <3>1. folder[e].parent \in ds /\ ActiveChildren(ds) \subseteq ds
      BY <2>1 DEF Descendants, Subtrees
    <3>2. QED
      BY <2>1, <3>1 DEF ActiveChildren
  <2>3. e \in Descendants(d)
    BY <2>1, <2>2 DEF Descendants
  <2>4. QED
    BY <2>1, <2>3
<1>3. rest \in Subtrees(d)
  BY <1>1, <1>2 DEF Subtrees
<1>4. QED
  BY <1>3 DEF Descendants

\* Only the deletes put something into the trash.
LEMMA DeletesOnly ==
  ASSUME TInv, Next, NEW i \in Going,
         ~ \E f \in Files : DeleteFile(f), ~ \E d \in Folders : DeleteFolder(d)
  PROVE  FALSE
<1> USE DEF TInv
<1>0. i \in Items /\ ItemState(i) = "active" /\ ItemState(i)' = "trashed"
  BY DEF Going, Items
<1>1. folder \in [Folders -> Row] /\ file \in [Files -> Row] /\ mover \in [Movers -> MoverRecords] /\ TypeOK
  BY DEF TypeOK, Row, MoverRecords
<1>2. ASSUME UNCHANGED <<folder, file>> PROVE FALSE
  BY <1>0, <1>2 DEF ItemState
<1>3. ASSUME NEW d \in Folders, NEW parent \in Parents, CreateFolder(d, parent) PROVE FALSE
  BY <1>0, <1>1, <1>3 DEF CreateFolder, ItemState
<1>4. ASSUME NEW f \in Files, NEW parent \in Parents, CreateFile(f, parent) PROVE FALSE
  BY <1>0, <1>1, <1>4 DEF CreateFile, ItemState, Items
<1>5. ASSUME NEW f \in Files, NEW parent \in Parents, MoveFile(f, parent) PROVE FALSE
  <2>1. file[f] \in Row
    BY <1>1
  <2>2. \A g \in Files : file'[g].state = file[g].state
    BY <1>1, <1>5, <2>1 DEF MoveFile, Row
  <2>3. QED
    BY <1>0, <1>5, <2>2 DEF MoveFile, ItemState, Items
<1>6. ASSUME NEW m \in Movers, MoveUpdate(m) PROVE FALSE
  <2>1. \A d \in Folders : folder'[d].state = folder[d].state
    BY <1>1, <1>6 DEF MoveUpdate, Row
  <2>2. QED
    BY <1>0, <1>6, <2>1 DEF MoveUpdate, ItemState, Items
<1>7. ASSUME NEW b \in Batches, RestoreBatch(b) PROVE FALSE
  <2> DEFINE ds == {d \in batch[b].items \cap Folders : folder[d].state = "trashed"}
             fs == {f \in batch[b].items \cap Files : file[f].state = "trashed"}
  <2>1. SetFolders(ds, "active") /\ SetFiles(fs, "active")
    BY <1>7 DEF RestoreBatch
  <2>2. \A c \in Folders : folder'[c].state = IF c \in ds THEN "active" ELSE folder[c].state
    BY <2>1, SetFoldersDoes DEF States
  <2>3. \A f \in Files : file'[f].state = IF f \in fs THEN "active" ELSE file[f].state
    BY <2>1, SetFilesDoes DEF States
  <2>4. QED
    BY <1>0, <2>2, <2>3 DEF ItemState, Items
<1>8. ASSUME NEW p \in Purgers, PurgeFileMark(p) PROVE FALSE
  <2>1. \A f \in Files : file'[f] = file[f] \/ file'[f].state = "purged"
    BY <1>1, <1>8 DEF PurgeFileMark
  <2>2. QED
    BY <1>0, <1>8, <2>1 DEF PurgeFileMark, ItemState, Items
<1>9. ASSUME NEW p \in Purgers, PurgeFolders(p) PROVE FALSE
  BY <1>0, <1>9 DEF PurgeFolders, ItemState, Items
<1>10. QED
  BY <1>2, <1>3, <1>4, <1>5, <1>6, <1>7, <1>8, <1>9
     DEF Next, MoveStart, MoveWalk, MoveGivesUp, PurgeList, PurgeFileRead, PurgeGivesUp

\* What one step puts into the trash hangs together, and is all that hangs there.
LEMMA GoesWhole ==
  ASSUME TInv, Next
  PROVE  /\ \A i \in Items : ItemState(i) = "active" /\ ParentOf(i) \in Going => i \in Going
         /\ \A i, j \in Going : ParentOf(i) \notin Going /\ ParentOf(j) \notin Going => i = j
<1> USE DEF TInv
<1>f. Folders \cap Files = {} /\ \A f \in Files : f \notin Folders
  BY TrashTreeAssumption
<1>p. /\ \A d \in Folders : folder[d].parent \in Parents
      /\ \A f \in Files : file[f].parent \in Parents
      /\ \A p \in Parents : p \notin Files
  BY TrashTreeAssumption DEF TypeOK, Parents
<1>1. CASE \E f \in Files : DeleteFile(f)
  <2>1. PICK f \in Files : DeleteFile(f)
    BY <1>1
  <2>2. \A g \in Files : file'[g].state = IF g \in {f} THEN "trashed" ELSE file[g].state
    BY <2>1, SetFilesDoes DEF DeleteFile, States
  <2>3. Going \subseteq {f}
    BY <2>1, <2>2, <1>f DEF DeleteFile, Going, ItemState
  <2>4. \A i \in Items : ParentOf(i) \notin Going
    BY <2>3, <1>p, <1>f DEF ParentOf, Items
  <2>5. QED
    BY <2>3, <2>4
<1>2. CASE \E d \in Folders : DeleteFolder(d)
  <2>1. PICK d \in Folders : DeleteFolder(d)
    BY <1>2
  <2> DEFINE ds == Descendants(d)
             fs == ActiveFilesIn(ds)
  <2>2. folder[d].state = "active" /\ SetFolders(ds, "trashed") /\ SetFiles(fs, "trashed")
    BY <2>1 DEF DeleteFolder
  <2>3. /\ \A c \in ds : c \in Folders /\ folder[c].state = "active"
        /\ \A c \in Folders : folder[c].state = "active" /\ folder[c].parent \in ds => c \in ds
        /\ \A c \in ds : c = d \/ folder[c].parent \in ds
    BY <2>2, DescendantsAre, DescendantsHang
  <2>4. \A f \in Files : f \in fs <=> file[f].state = "active" /\ file[f].parent \in ds
    BY DEF ActiveFilesIn
  <2>5. fs \subseteq Files
    BY DEF ActiveFilesIn
  <2> HIDE DEF ds, fs
  <2>6. \A c \in Folders : folder'[c].state = IF c \in ds THEN "trashed" ELSE folder[c].state
    BY <2>2, SetFoldersDoes DEF States
  <2>7. \A f \in Files : file'[f].state = IF f \in fs THEN "trashed" ELSE file[f].state
    BY <2>2, SetFilesDoes DEF States
  <2>8. \A c \in Folders : c \in Going <=> c \in ds
    BY <2>3, <2>6 DEF Going, ItemState
  <2>9. \A f \in Files : f \in Going <=> f \in fs
    BY <2>4, <2>7, <1>f DEF Going, ItemState
  <2>10. \A p \in Parents : p \in Going <=> p \in ds
    BY <2>3, <2>8, TrashTreeAssumption DEF Parents, Going
  <2>11. ASSUME NEW i \in Items, ItemState(i) = "active", ParentOf(i) \in Going PROVE i \in Going
    <3>1. CASE i \in Folders
      BY <2>11, <3>1, <2>3, <2>8, <2>10, <1>p DEF ItemState, ParentOf
    <3>2. CASE i \in Files
      BY <2>11, <3>2, <2>4, <2>9, <2>10, <1>p, <1>f DEF ItemState, ParentOf
    <3>3. QED
      BY <3>1, <3>2 DEF Items
  <2>12. ASSUME NEW i \in Going, ParentOf(i) \notin Going PROVE i = d
    <3>1. CASE i \in Folders
      BY <2>12, <3>1, <2>3, <2>8, <2>10, <1>p DEF ParentOf
    <3>2. CASE i \in Files
      BY <2>12, <3>2, <2>4, <2>9, <2>10, <1>p, <1>f DEF ParentOf
    <3>3. QED
      BY <3>1, <3>2 DEF Going
  <2>13. QED
    BY <2>11, <2>12
<1>3. CASE ~ (\E f \in Files : DeleteFile(f)) /\ ~ \E d \in Folders : DeleteFolder(d)
  BY <1>3, DeletesOnly
<1>4. QED
  BY <1>1, <1>2, <1>3

\* What is deleted goes with all that hangs on it through active folders, however
\* deep, and nothing else goes; below a folder that is in the trash already,
\* nothing is reached.
THEOREM FoldersGoTogether == Spec => FoldersGoWhole
<1>1. TInv /\ [Next]_vars =>
        [/\ \A i \in Folders \cup Files : ItemState(i) = "active" /\ ParentOf(i) \in Going => i \in Going
         /\ \A i, j \in Going : ParentOf(i) \notin Going /\ ParentOf(j) \notin Going => i = j]_vars
  BY GoesWhole DEF Items
<1>2. QED
  BY <1>1, Invariance, PTL DEF Spec, FoldersGoWhole

----------------------------------------------------------------------------
(* The tree.                                                               *)

\* The folders a move has passed: they exist, the moved folder is none of them,
\* and from each of them one comes to another, to where the move stands, or to
\* the root.
Passed(m, W) ==
  /\ mover[m].id \notin W
  /\ mover[m].parent \in W \cup {mover[m].current}
  /\ \A w \in W : folder[w].state # "none" /\ folder[w].parent \in W \cup {Root, mover[m].current}

Walked == \A m \in Movers : mover[m].pc = "walking" => \E W \in SUBSET Folders : Passed(m, W)

Tree == Walked /\ Acyclic

\* A step that takes parents away, or none, makes no cycle.
LEMMA TreeKept ==
  ASSUME TInv, Tree, UNCHANGED mover,
         \A d \in Folders : /\ folder'[d].parent = folder[d].parent \/ folder'[d].parent = Root
                            /\ folder[d].state # "none" => folder'[d].state # "none"
  PROVE  Tree'
<1> USE DEF Tree
<1>1. Walked'
  <2> SUFFICES ASSUME NEW m \in Movers, mover[m].pc = "walking"
               PROVE  \E W \in SUBSET Folders : Passed(m, W)'
    BY DEF Walked
  <2>1. PICK W \in SUBSET Folders : Passed(m, W)
    BY DEF Walked
  <2>2. Passed(m, W)'
    BY <2>1 DEF Passed
  <2>3. QED
    BY <2>2
<1>2. Acyclic'
  <2> SUFFICES ASSUME NEW ds \in SUBSET Folders, ds # {}
               PROVE  \E d \in ds : folder'[d].parent \notin ds
    BY DEF Acyclic
  <2>1. PICK d \in ds : folder[d].parent \notin ds
    BY DEF Acyclic
  <2>2. QED
    BY <2>1, TrashTreeAssumption
<1>3. QED
  BY <1>1, <1>2

\* A new folder is no parent yet.
LEMMA CreateFolderTree ==
  ASSUME TInv, Tree, NEW d \in Folders, NEW parent \in Parents, CreateFolder(d, parent)
  PROVE  Tree'
<1> USE DEF Tree
<1> DEFINE new == [state |-> "active", parent |-> parent]
<1>1. new.state = "active" /\ new.parent = parent
  OBVIOUS
<1>2. folder \in [Folders -> Row] /\ folder[d].state = "none" /\ parent \in Existing
      /\ folder' = [folder EXCEPT ![d] = new] /\ UNCHANGED mover
  BY DEF CreateFolder, TInv, TypeOK, Row
<1> HIDE DEF new
<1>3. folder'[d] = new /\ \A c \in Folders : c # d => folder'[c] = folder[c]
  BY <1>2
<1>4. d \notin Existing /\ \A c \in Folders : folder[c].parent # d
  <2>1. d \notin Existing
    BY <1>2, TrashTreeAssumption DEF Existing
  <2>2. QED
    BY <2>1 DEF TInv, Rooted
<1>5. Walked'
  <2> SUFFICES ASSUME NEW m \in Movers, mover[m].pc = "walking"
               PROVE  \E W \in SUBSET Folders : Passed(m, W)'
    BY <1>2 DEF Walked
  <2>1. PICK W \in SUBSET Folders : Passed(m, W)
    BY DEF Walked
  <2>2. \A w \in W : w # d
    BY <1>2, <2>1 DEF Passed
  <2>3. Passed(m, W)'
    BY <1>2, <1>3, <2>1, <2>2 DEF Passed
  <2>4. QED
    BY <2>3
<1>6. Acyclic'
  <2> SUFFICES ASSUME NEW ds \in SUBSET Folders, ds # {}, \A c \in ds : folder'[c].parent \in ds
               PROVE  FALSE
    BY DEF Acyclic
  <2> DEFINE es == ds \ {d}
  <2>1. es # {}
    BY <1>1, <1>2, <1>3, <1>4
  <2>2. \A c \in es : folder[c].parent \in es
    BY <1>3, <1>4
  <2>3. QED
    BY <2>1, <2>2 DEF Acyclic
<1>7. QED
  BY <1>5, <1>6

\* A move starts with nothing passed, and passes the folder it stands at.
LEMMA MoveTree ==
  ASSUME OneMover, TInv, Tree, NEW m \in Movers,
         \/ MoveGivesUp(m) \/ MoveWalk(m)
         \/ \E d \in Folders, parent \in Parents : MoveStart(m, d, parent)
  PROVE  Tree'
<1> USE DEF Tree
<1>1. mover \in [Movers -> MoverRecords] /\ mover[m] \in MoverRecords /\ \A n \in Movers : n = m
  BY DEF OneMover, TInv, TypeOK, MoverRecords
<1>2. UNCHANGED folder
  BY DEF MoveGivesUp, MoveWalk, MoveStart
<1>3. Acyclic'
  BY <1>2 DEF Acyclic
<1>4. CASE MoveGivesUp(m)
  <2>1. mover'[m] = IdleMover /\ IdleMover.pc = "idle"
    BY <1>1, <1>4 DEF MoveGivesUp, IdleMover
  <2>2. Walked'
    BY <1>1, <2>1 DEF Walked
  <2>3. QED
    BY <1>3, <2>2
<1>5. CASE \E d \in Folders, parent \in Parents : MoveStart(m, d, parent)
  <2>1. PICK d \in Folders, parent \in Parents : MoveStart(m, d, parent)
    BY <1>5
  <2> DEFINE r == [pc |-> "walking", id |-> d, parent |-> parent, current |-> parent]
  <2>2. mover'[m] = r
    BY <1>1, <2>1 DEF MoveStart
  <2>3. mover'[m].parent = mover'[m].current
    BY <2>2
  <2>4. {} \in SUBSET Folders /\ Passed(m, {})'
    BY <2>3 DEF Passed
  <2>5. Walked'
    BY <1>1, <2>4 DEF Walked
  <2>6. QED
    BY <1>3, <2>5
<1>6. CASE MoveWalk(m)
  <2> DEFINE here == mover[m].current
             up == folder[here].parent
             r == [mover[m] EXCEPT !.current = up]
  <2>1. mover[m].pc = "walking" /\ here # Root /\ here # mover[m].id /\ mover' = [mover EXCEPT ![m] = r]
    BY <1>6 DEF MoveWalk
  <2>2. here \in Folders /\ folder[here].state # "none"
    BY <2>1 DEF TInv, Rooted, Existing
  <2>3. r.id = mover[m].id /\ r.parent = mover[m].parent /\ r.current = up /\ mover'[m] = r
    BY <1>1, <2>1 DEF MoverRecords
  <2>4. PICK W \in SUBSET Folders : Passed(m, W)
    BY <2>1 DEF Walked
  <2> HIDE DEF r
  <2>5. PICK V \in SUBSET Folders : V = W \cup {here}
    BY <2>2
  <2>6. Passed(m, V)'
    <3>1. mover'[m].id \notin V
      BY <2>1, <2>3, <2>4, <2>5 DEF Passed
    <3>2. mover'[m].parent \in V \cup {mover'[m].current}
      BY <2>3, <2>4, <2>5 DEF Passed
    <3>3. \A w \in V : folder'[w].state # "none" /\ folder'[w].parent \in V \cup {Root, mover'[m].current}
      BY <1>2, <2>2, <2>3, <2>4, <2>5 DEF Passed
    <3>4. QED
      BY <3>1, <3>2, <3>3 DEF Passed
  <2>7. Walked'
    BY <1>1, <2>6 DEF Walked
  <2>8. QED
    BY <1>3, <2>7
<1>7. QED
  BY <1>4, <1>5, <1>6

\* The UPDATE of a move makes no cycle: what it has passed is closed, and the
\* moved folder is outside.
LEMMA MoveUpdateTree ==
  ASSUME OneMover, TInv, Tree, NEW m \in Movers, MoveUpdate(m)
  PROVE  Tree'
<1> USE DEF Tree
<1> DEFINE d == mover[m].id
           parent == mover[m].parent
           new == [folder[d] EXCEPT !.parent = parent]
<1>1. /\ mover \in [Movers -> MoverRecords] /\ folder \in [Folders -> Row] /\ \A n \in Movers : n = m
      /\ mover[m].pc = "walking" /\ mover[m].current = Root /\ d \in Folders
  BY DEF OneMover, TInv, TypeOK, Rooted, MoverRecords, Row, MoveUpdate
<1>2. mover'[m] = IdleMover /\ IdleMover.pc = "idle"
  BY <1>1 DEF MoveUpdate, IdleMover
<1>3. folder' = [folder EXCEPT ![d] = new]
  BY DEF MoveUpdate
<1>4. new.parent = parent
  BY <1>1 DEF Row
<1> HIDE DEF new
<1>5. folder'[d].parent = parent /\ \A c \in Folders : c # d => folder'[c] = folder[c]
  BY <1>1, <1>3, <1>4
<1>6. Walked'
  BY <1>1, <1>2 DEF Walked
<1>7. PICK W \in SUBSET Folders : Passed(m, W)
  BY <1>1 DEF Walked
<1>8. d \notin W /\ parent \in W \cup {Root} /\ \A w \in W : folder[w].parent \in W \cup {Root}
  BY <1>1, <1>7 DEF Passed
<1> HIDE DEF d, parent
<1>9. Acyclic'
  <2> SUFFICES ASSUME NEW ds \in SUBSET Folders, ds # {}, \A c \in ds : folder'[c].parent \in ds
               PROVE  FALSE
    BY DEF Acyclic
  <2>1. PICK e \in ds : folder[e].parent \notin ds
    BY DEF Acyclic
  <2>2. e = d
    BY <1>5, <2>1
  <2>3. parent \in ds \cap W
    BY <1>5, <1>8, <2>2, TrashTreeAssumption
  <2> DEFINE es == ds \cap W
  <2>4. \A c \in es : folder[c].parent \in es
    BY <1>5, <1>8, TrashTreeAssumption
  <2>5. QED
    BY <2>3, <2>4 DEF Acyclic
<1>10. QED
  BY <1>6, <1>9

\* Moves that are made one at a time make no cycle, whatever folders are created,
\* deleted, restored or purged while a move walks up level by level.
THEOREM TreeStaysATree == ASSUME OneMover PROVE Spec => []Acyclic
<1>1. Init => Tree
  <2> SUFFICES ASSUME Init PROVE Tree
    OBVIOUS
  <2>1. \A m \in Movers : mover[m].pc = "idle"
    BY DEF Init, IdleMover
  <2>2. \A d \in Folders : folder[d].parent = Root
    BY DEF Init
  <2>3. QED
    BY <2>1, <2>2, TrashTreeAssumption DEF Tree, Walked, Acyclic
<1>2. TInv /\ TInv' /\ Tree /\ [Next]_vars => Tree'
  <2> SUFFICES ASSUME TInv, Tree, [Next]_vars PROVE Tree'
    OBVIOUS
  <2>1. ASSUME UNCHANGED <<folder, mover>> PROVE Tree'
    BY <2>1, TreeKept
  <2>2. ASSUME NEW d \in Folders, DeleteFolder(d) PROVE Tree'
    <3>1. SetFolders(Descendants(d), "trashed") /\ UNCHANGED mover
      BY <2>2 DEF DeleteFolder
    <3>2. \A c \in Folders : /\ folder'[c].parent = folder[c].parent
                            /\ folder'[c].state = IF c \in Descendants(d) THEN "trashed" ELSE folder[c].state
      BY <3>1, SetFoldersDoes DEF TInv, States
    <3>3. QED
      BY <3>1, <3>2, TreeKept
  <2>3. ASSUME NEW b \in Batches, RestoreBatch(b) PROVE Tree'
    <3> DEFINE ds == {x \in batch[b].items \cap Folders : folder[x].state = "trashed"}
    <3>1. SetFolders(ds, "active") /\ UNCHANGED mover
      BY <2>3 DEF RestoreBatch
    <3>2. \A c \in Folders : /\ folder'[c].parent = folder[c].parent
                            /\ folder'[c].state = IF c \in ds THEN "active" ELSE folder[c].state
      BY <3>1, SetFoldersDoes DEF TInv, States
    <3> HIDE DEF ds
    <3>3. QED
      BY <3>1, <3>2, TreeKept
  <2>4. ASSUME NEW p \in Purgers, PurgeFolders(p) PROVE Tree'
    <3>1. UNCHANGED mover /\ \A c \in Folders : \/ folder'[c] = folder[c]
                                                \/ folder'[c] = [state |-> "purged", parent |-> Root]
      BY <2>4 DEF PurgeFolders
    <3>2. \A c \in Folders : /\ folder'[c].parent = folder[c].parent \/ folder'[c].parent = Root
                            /\ folder[c].state # "none" => folder'[c].state # "none"
      BY <3>1
    <3>3. QED
      BY <3>1, <3>2, TreeKept
  <2>5. QED
    BY <2>1, <2>2, <2>3, <2>4, CreateFolderTree, MoveTree, MoveUpdateTree
       DEF Next, vars, CreateFile, MoveFile, DeleteFile, PurgeList, PurgeFileRead, PurgeFileMark, PurgeGivesUp
<1>3. Tree => Acyclic
  BY DEF Tree
<1>4. QED
  BY <1>1, <1>2, <1>3, Invariance, PTL DEF Spec

=============================================================================
