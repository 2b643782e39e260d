------------------------------ MODULE Listing -------------------------------
(***************************************************************************)
(* Lists in pages.  A client pages through the files of the manager or      *)
(* through the gallery while files and folders change.  A page of the       *)
(* gallery is read in batches, and what is visible is decided file by file, *)
(* with one SELECT for the file and one for every folder above it.          *)
(*                                                                         *)
(* Public ids are numbers, in the order of the cursor.  Filters and the     *)
(* rights to a list only narrow it and are left out.                        *)
(***************************************************************************)
EXTENDS Naturals, Sequences, SequencesExt, FiniteSets

CONSTANTS
  Files,       \* public ids
  Inner,       \* a folder
  Outer,       \* the folder at the root that Inner may be in
  Root,        \* no folder
  PageSize,    \* 200 in the code
  MaxChanges   \* changes made while a client pages (a bound)

VARIABLES
  file,     \* files: state, folder and gallery_visibility
  folder,   \* folders: parent and gallery_visibility
  enabled,  \* settings gallery.enabled
  client,   \* the client: what it lists, the page it asks for, the items it has
  page,     \* the page in the making, in the server
  changes,  \* number of changes
  seen,     \* history: the files that were visible at some instant of their last walk
  amid,     \* history: a change has fallen into the walk that goes on
  torn,     \* history: the files with two changes or more in their last walk
  steady    \* history: the files that were to be listed all the time

vars == <<file, folder, enabled, client, page, changes, seen, amid, torn, steady>>

Visibility == {"inherit", "visible", "hidden"}

NoPage == [pc |-> "none", cursor |-> 0, batch |-> <<>>, full |-> FALSE,
           items |-> <<>>, above |-> Root]

Init ==
  /\ file \in [Files -> [state : {"active"}, folder : {Root, Inner}, visibility : {"inherit"}]]
  /\ folder \in [{Inner, Outer} -> [parent : {Root, Outer}, visibility : {"inherit", "hidden"}]]
  /\ folder[Outer].parent = Root
  /\ enabled = TRUE
  /\ client = [kind |-> "none", cursor |-> 0, items |-> <<>>]
  /\ page = NoPage
  /\ changes = 0
  /\ seen = {} /\ amid = FALSE /\ torn = {}
  /\ steady = {}

----------------------------------------------------------------------------

\* EffectiveVisibility, were it one step: the nearest folder that says so.
Shown(d, dir) ==
  \/ dir = Root
  \/ d[dir].visibility = "visible"
  \/ /\ d[dir].visibility = "inherit"
     /\ dir = Inner /\ d[Inner].parent = Outer => d[Outer].visibility # "hidden"

\* ResolveVisibility, were it one step.
VisibleIn(f, d, x) ==
  \/ f[x].visibility = "visible"
  \/ f[x].visibility = "inherit" /\ Shown(d, f[x].folder)

\* What a list is of.
Listed(kind, f, d) ==
  {x \in Files : f[x].state = "active" /\ (kind = "gallery" => VisibleIn(f, d, x))}

InOrder(S) ==
  CHOOSE s \in [1..Cardinality(S) -> S] : \A i, j \in DOMAIN s : i < j => s[i] < s[j]

\* The first n files behind the cursor that are active.
Batch(cursor, n) ==
  LET behind == {x \in Files : x > cursor /\ file[x].state = "active"}
  IN  InOrder({x \in behind : Cardinality({y \in behind : y <= x}) <= n})

\* A change of the tree, seen from the walk that it falls into.
Observe ==
  /\ steady' = steady \cap Listed(client.kind, file', folder')
  /\ IF page.pc = "walking"
       THEN LET x == Head(page.batch)
            IN  /\ seen' = IF VisibleIn(file', folder', x) THEN seen \cup {x} ELSE seen
                /\ torn' = IF amid THEN torn \cup {x} ELSE torn
                /\ amid' = TRUE
       ELSE UNCHANGED <<seen, amid, torn>>

Unobserved == UNCHANGED <<seen, amid, torn, steady>>

----------------------------------------------------------------------------
(* The client asks for one page after the other.                           *)

Start(kind) ==
  /\ client.kind = "none"
  /\ client' = [kind |-> kind, cursor |-> 0, items |-> <<>>]
  /\ page' = [NoPage EXCEPT !.pc = "asked"]
  /\ steady' = Listed(kind, file, folder)
  /\ UNCHANGED <<file, folder, enabled, changes, seen, amid, torn>>

Answer(items, cursor) ==
  /\ client' = [client EXCEPT !.items = @ \o items, !.cursor = cursor]
  /\ page' = IF cursor = 0 THEN [NoPage EXCEPT !.pc = "done"]
                           ELSE [NoPage EXCEPT !.pc = "next"]

NextPage ==
  /\ page.pc = "next"
  /\ page' = [NoPage EXCEPT !.pc = "asked", !.cursor = client.cursor]
  /\ Unobserved
  /\ UNCHANGED <<file, folder, enabled, client, changes>>

\* The gallery is off: the client stops.
Refuse ==
  /\ page.pc = "asked"
  /\ client.kind = "gallery" /\ ~ enabled
  /\ page' = [NoPage EXCEPT !.pc = "refused"]
  /\ Unobserved
  /\ UNCHANGED <<file, folder, enabled, client, changes>>

----------------------------------------------------------------------------
(* FileService.List: one statement.                                        *)

\* A bug for TLC to find: the cursor is the item that is cut off.
FilesPage_CutOff ==
  LET batch == Batch(page.cursor, PageSize + 1)
  IN  /\ page.pc = "asked" /\ client.kind = "files"
      /\ IF Len(batch) > PageSize
           THEN Answer(SubSeq(batch, 1, PageSize), batch[PageSize + 1])
           ELSE Answer(batch, 0)
      /\ Unobserved
      /\ UNCHANGED <<file, folder, enabled, changes>>

FilesPage ==
  LET batch == Batch(page.cursor, PageSize + 1)
  IN  /\ page.pc = "asked" /\ client.kind = "files"
      /\ IF Len(batch) > PageSize
           THEN Answer(SubSeq(batch, 1, PageSize), batch[PageSize])
           ELSE Answer(batch, 0)
      /\ Unobserved
      /\ UNCHANGED <<file, folder, enabled, changes>>

----------------------------------------------------------------------------
(* gallery.Service.List: batches, until the page is full or the files end.  *)

Enable ==
  /\ page.pc = "asked" /\ client.kind = "gallery" /\ enabled
  /\ page' = [page EXCEPT !.pc = "listing"]
  /\ Unobserved
  /\ UNCHANGED <<file, folder, enabled, client, changes>>

ListBatch ==
  LET batch == Batch(page.cursor, PageSize + 1)
  IN  /\ page.pc = "listing"
      /\ page' = [page EXCEPT !.pc = "resolving", !.batch = batch,
                              !.full = Len(batch) = PageSize + 1,
                              !.cursor = IF batch = <<>> THEN @ ELSE Last(batch)]
      /\ Unobserved
      /\ UNCHANGED <<file, folder, enabled, client, changes>>

\* The first file of the batch is visible or is not.
Decided(visible) ==
  page' = [page EXCEPT !.pc = "resolving", !.batch = Tail(@),
                       !.items = IF visible THEN Append(@, Head(page.batch)) ELSE @]

\* The walk of the file begins with its row (anew, if an earlier page cut it off).
Looked ==
  LET x == Head(page.batch)
  IN  /\ seen' = IF VisibleIn(file, folder, x) THEN seen \cup {x} ELSE seen \ {x}
      /\ torn' = torn \ {x}
      /\ UNCHANGED <<amid, steady>>

\* A bug for TLC to find: what is not marked hidden is listed.
ResolveVisibility_NotHidden ==
  /\ page.pc = "resolving" /\ page.batch # <<>>
  /\ Decided(file[Head(page.batch)].visibility # "hidden")
  /\ Looked
  /\ UNCHANGED <<file, folder, enabled, client, changes>>

\* The row of the file, whatever its state is by now.
ResolveVisibility ==
  /\ page.pc = "resolving" /\ page.batch # <<>>
  /\ LET row == file[Head(page.batch)]
     IN  IF row.visibility # "inherit" \/ row.folder = Root
           THEN Decided(row.visibility # "hidden")
           ELSE page' = [page EXCEPT !.pc = "walking", !.above = row.folder]
  /\ Looked
  /\ UNCHANGED <<file, folder, enabled, client, changes>>

\* One turn of the loop of EffectiveVisibility.
WalkUp ==
  /\ page.pc = "walking"
  /\ LET row == folder[page.above]
     IN  IF row.visibility # "inherit" \/ row.parent = Root
           THEN Decided(row.visibility # "hidden") /\ amid' = FALSE
           ELSE page' = [page EXCEPT !.above = row.parent] /\ UNCHANGED amid
  /\ UNCHANGED <<file, folder, enabled, client, changes, seen, torn, steady>>

GalleryPage ==
  /\ page.pc = "resolving" /\ page.batch = <<>>
  /\ IF page.full /\ Len(page.items) <= PageSize
       THEN page' = [page EXCEPT !.pc = "listing"] /\ UNCHANGED client
       ELSE IF Len(page.items) > PageSize
              THEN Answer(SubSeq(page.items, 1, PageSize), page.items[PageSize])
              ELSE Answer(page.items, 0)
  /\ Unobserved
  /\ UNCHANGED <<file, folder, enabled, changes>>

----------------------------------------------------------------------------
(* Meanwhile.                                                              *)

Changed ==
  /\ client.kind # "none" /\ changes < MaxChanges
  /\ changes' = changes + 1
  /\ UNCHANGED <<client, page>>

SetState(x, from, to) ==
  /\ file[x].state = from
  /\ file' = [file EXCEPT ![x].state = to]
  /\ Changed /\ UNCHANGED <<folder, enabled>> /\ Observe

\* PurgeFile also takes the file out of its folder.
Purge(x) ==
  /\ file[x].state = "trashed"
  /\ file' = [file EXCEPT ![x] =
                [state |-> "purged", folder |-> Root, visibility |-> @.visibility]]
  /\ Changed /\ UNCHANGED <<folder, enabled>> /\ Observe

MoveFile(x, dir) ==
  /\ file[x].folder # dir
  /\ file' = [file EXCEPT ![x].folder = dir]
  /\ Changed /\ UNCHANGED <<folder, enabled>> /\ Observe

SetFileVisibility(x, v) ==
  /\ file[x].visibility # v
  /\ file' = [file EXCEPT ![x].visibility = v]
  /\ Changed /\ UNCHANGED <<folder, enabled>> /\ Observe

MoveFolder(parent) ==
  /\ folder[Inner].parent # parent
  /\ folder' = [folder EXCEPT ![Inner].parent = parent]
  /\ Changed /\ UNCHANGED <<file, enabled>> /\ Observe

SetFolderVisibility(dir, v) ==
  /\ folder[dir].visibility # v
  /\ folder' = [folder EXCEPT ![dir].visibility = v]
  /\ Changed /\ UNCHANGED <<file, enabled>> /\ Observe

SetEnabled ==
  /\ enabled' = ~ enabled
  /\ Changed /\ UNCHANGED <<file, folder>> /\ Unobserved

Next ==
  \/ \E kind \in {"files", "gallery"} : Start(kind)
  \/ NextPage \/ Refuse
  \/ FilesPage
  \/ Enable \/ ListBatch \/ ResolveVisibility \/ WalkUp \/ GalleryPage
  \/ \E x \in Files :
       \/ SetState(x, "active", "trashed") \/ SetState(x, "trashed", "active")
       \/ Purge(x)
       \/ \E dir \in {Root, Inner} : MoveFile(x, dir)
       \/ \E v \in Visibility : SetFileVisibility(x, v)
  \/ \E parent \in {Root, Outer} : MoveFolder(parent)
  \/ \E dir \in {Inner, Outer}, v \in Visibility : SetFolderVisibility(dir, v)
  \/ SetEnabled

Spec == Init /\ [][Next]_vars

----------------------------------------------------------------------------
(* Properties.                                                             *)

TypeOK ==
  /\ file \in [Files -> [state : {"active", "trashed", "purged"}, folder : {Root, Inner},
                         visibility : Visibility]]
  /\ folder \in [{Inner, Outer} -> [parent : {Root, Outer}, visibility : Visibility]]
  /\ enabled \in BOOLEAN
  /\ client.kind \in {"none", "files", "gallery"}
  /\ client.cursor \in Files \cup {0}
  /\ page.pc \in {"none", "asked", "listing", "resolving", "walking", "next", "done", "refused"}
  /\ page.cursor \in Files \cup {0}
  /\ changes \in 0..MaxChanges
  /\ seen \subseteq Files /\ torn \subseteq Files /\ steady \subseteq Files
  /\ amid => page.pc = "walking"

Occurs(x, items) == \E i \in DOMAIN items : items[i] = x

\* A client that pages to the end has every file once that was to be listed
\* all the time, and no file twice, however many files around it come and go.  In
\* the gallery a file may be missing whose own walk up the folders, which is no
\* snapshot, was torn: two changes fell into it and it saw a tree that never was.
PagesAreWhole ==
  /\ \A i, j \in DOMAIN client.items : client.items[i] = client.items[j] => i = j
  /\ page.pc = "done" => \A x \in steady \ torn : Occurs(x, client.items)

\* A file on a page of the gallery was visible at some instant between the read of
\* its own row and the end of its walk up the folders, unless that walk was torn;
\* changes before and after that walk, and in other walks, do not matter.
ListedWasVisible ==
  \A i \in DOMAIN page.items : page.items[i] \in seen \cup torn

=============================================================================
