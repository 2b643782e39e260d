------------------------------- MODULE Server --------------------------------
(***************************************************************************)
(* The parts of the server that share no state with one another, side by    *)
(* side: the job queue with its workers, who may manage, the Telegram        *)
(* webhook, the data directory, lists in pages, downloads (with the storage  *)
(* under them, and with the passwords in front of them) and the connection   *)
(* pool.                                                                     *)
(*                                                                         *)
(* Since they share no state, an interleaving of their steps shows nothing  *)
(* that the steps of one part alone do not show: a behaviour is one of       *)
(* them, and the others stay as they start.                                 *)
(***************************************************************************)
EXTENDS Jobs

CONSTANTS
  Requests, Sessions, Accounts, Passwords, Vaults, MaxFailures,     \* Access
  Posts, Documents, PostedFiles, Deliveries,                        \* Webhook
  MasterKeys, Scripts, LocalDefault, RemoteProfiles, Short, Part,         \* DataDir
  ListedFiles, Inner, Outer, Root, PageSize, MaxChanges,            \* Listing
  Files, Profiles, LocalProfiles, StreamingProfiles, MaxMigrations, \* Downloads
  BatchLimit, Purges, Damaged, Pages, PagePasswords, GuestSessions,
  Calls, MaxSize, TextLimit, DocxLimit,
  Callers, Operations, MaxItems                                     \* Pool

\* SQL NULL is nothing that a column, a lock or a call can hold.
ASSUME ServerAssumption ==
  /\ MaxFailures \in Nat \ {0} /\ IsFiniteSet(Requests)
  /\ None \notin [account : Accounts, password : Passwords] /\ None # "vault"
  /\ None \notin Posts \cup PostedFiles \cup {"null"}

VARIABLES
  part,                                           \* the part of this behaviour
  owner, vault, session, failures, request, guesses,          \* Access
  post, message, posted, delivery, replies,                   \* Webhook
  key, db, server, create, tool, backup, made, history,       \* DataDir
  file, folder, enabled, client, page, changes, seen, amid, torn, steady, \* Listing
  row, objects, jobs, runner, purger, purgeAsked, crashes,    \* FileStorage
  size, secret, guest, call, answer,                          \* Downloads
  conn, caller                                                \* Pool

manageVars == <<owner, vault, session, failures, request, guesses>>
hookVars == <<post, message, posted, delivery, replies>>
dataVars == <<key, db, server, create, tool, backup, made, history>>
pagingVars == <<file, folder, enabled, client, page, changes, seen, amid, torn, steady>>
downloadVars == <<row, objects, jobs, runner, purger, purgeAsked, crashes,
                  size, secret, guest, call, answer>>
connectionVars == <<conn, caller>>

Manage == INSTANCE Access WITH admin <- owner

Hook == INSTANCE Webhook WITH Files <- PostedFiles, file <- posted

Data == INSTANCE DataDir WITH Keys <- MasterKeys, Profiles <- RemoteProfiles

\* There are schema scripts; what is cut off or refused is no key and no database.
ASSUME DataAssumption ==
  /\ Scripts \in Nat \ {0}
  /\ MasterKeys \cap {Short, None} = {} /\ Short # None
  /\ None \notin RemoteProfiles /\ LocalDefault \notin RemoteProfiles
  /\ Part # None /\ {Part, None} \cap Data!Contents = {}

Paging == INSTANCE Listing WITH Files <- ListedFiles

\* Public ids are numbers; a page holds a file.
ASSUME PagingAssumption ==
  /\ ListedFiles \subseteq Nat \ {0} /\ IsFiniteSet(ListedFiles)
  /\ PageSize \in Nat \ {0} /\ MaxChanges \in Nat
  /\ Inner # Outer /\ Root \notin {Inner, Outer}

\* A download of a file that is migrated and purged.
Download == INSTANCE Downloads WITH
  MaxJobs <- MaxMigrations, Requests <- Purges, MaxRestarts <- 0, Pages <- {}, Passwords <- {},
  Sessions <- {}, restarts <- crashes, session <- guest

\* The same file without migrations, and the gallery, behind passwords.
Gate == INSTANCE Downloads WITH
  MaxJobs <- 0, Requests <- Purges, MaxRestarts <- 0, Passwords <- PagePasswords,
  Sessions <- GuestSessions, restarts <- crashes, session <- guest

\* SQL NULL is no file, profile, password, key, place or row.
ASSUME DownloadsAssumption ==
  /\ LocalProfiles \subseteq Profiles /\ Damaged \notin Files
  /\ MaxMigrations \in Nat /\ BatchLimit \in Nat \ {0} /\ MaxSize \in Nat /\ DocxLimit \in Nat
  /\ None \notin Files \cup Profiles \cup Pages \cup PagePasswords
  /\ None \notin Download!Keys \cup Download!Locations
  /\ None \notin [scope : Gate!Gates \cup {None}, with : PagePasswords \cup {None},
                 asked : PagePasswords \cup {None}]

Connection == INSTANCE Pool

\* The list of the trash is not among the operations: TrashList.cfg shows that
\* it waits for itself.
ASSUME PoolAssumption ==
  /\ None \notin Callers /\ MaxItems \in Nat
  /\ Operations \subseteq {"PurgeBatch", "DeleteFolder", "RestoreBatch", "Lease", "RunPending",
                          "Complete", "Delivery", "GalleryList", "Download", "LoadEnabled"}

----------------------------------------------------------------------------

Parts == {"jobs", "manage", "hook", "data", "paging", "download", "gate", "connection"}

\* The parts that start in more than one way start in one when they only stay.
AtRest ==
  /\ part # "paging" =>
       /\ \A x \in ListedFiles : file[x].folder = Root
       /\ \A d \in {Inner, Outer} : folder[d] = [parent |-> Root, visibility |-> "inherit"]
  /\ part \notin {"download", "gate"} =>
       \A f \in Files : row[f].profile \in LocalProfiles /\ size[f] = 0

ServerInit ==
  /\ part \in Parts
  /\ Init
  /\ Manage!Init /\ Hook!Init /\ Data!Init /\ Paging!Init /\ Connection!Init
  /\ IF part = "gate" THEN Gate!DownloadsInit ELSE Download!DownloadsInit
  /\ AtRest

StepOfJobs ==
  /\ part = "jobs" /\ Next
  /\ UNCHANGED <<part, manageVars, hookVars, dataVars, pagingVars, downloadVars, connectionVars>>

StepOfManage ==
  /\ part = "manage" /\ Manage!Next
  /\ UNCHANGED <<part, vars, hookVars, dataVars, pagingVars, downloadVars, connectionVars>>

StepOfHook ==
  /\ part = "hook" /\ Hook!Next
  /\ UNCHANGED <<part, vars, manageVars, dataVars, pagingVars, downloadVars, connectionVars>>

StepOfData ==
  /\ part = "data" /\ Data!Next
  /\ UNCHANGED <<part, vars, manageVars, hookVars, pagingVars, downloadVars, connectionVars>>

StepOfPaging ==
  /\ part = "paging" /\ Paging!Next
  /\ UNCHANGED <<part, vars, manageVars, hookVars, dataVars, downloadVars, connectionVars>>

StepOfDownload ==
  /\ \/ part = "download" /\ Download!DownloadsNext
     \/ part = "gate" /\ Gate!DownloadsNext
  /\ UNCHANGED <<part, vars, manageVars, hookVars, dataVars, pagingVars, connectionVars>>

StepOfConnection ==
  /\ part = "connection" /\ Connection!Next
  /\ UNCHANGED <<part, vars, manageVars, hookVars, dataVars, pagingVars, downloadVars>>

ServerNext ==
  \/ StepOfJobs
  \/ StepOfManage
  \/ StepOfHook
  \/ StepOfData
  \/ StepOfPaging
  \/ StepOfDownload
  \/ StepOfConnection

serverVars == <<part, vars, manageVars, hookVars, dataVars, pagingVars, downloadVars, connectionVars>>

ServerSpec == ServerInit /\ [][ServerNext]_serverVars

----------------------------------------------------------------------------
(* The properties of the parts, under their names there.                   *)

\* Every part keeps the shape of its state; the connection that is taken is one
\* that somebody will give back, also after an error.
PartsTypeOK ==
  CASE part = "manage" -> Manage!TypeOK
    [] part = "hook" -> Hook!TypeOK
    [] part = "data" -> Data!TypeOK
    [] part = "paging" -> Paging!TypeOK
    [] part = "download" -> Download!DownloadsTypeOK
    [] part = "gate" -> Gate!DownloadsTypeOK
    [] part = "connection" -> Connection!TypeOK
    [] OTHER -> TRUE

\* Setups that run at the same time make one administrator (AdminService
\* .Initialize): the account stays, its password changes by ChangePassword only.
FirstAccountStays == Manage!FirstAccountStays

\* A changed password and a revoked vault end their sessions, except those of a
\* login that had read the secret before (ChangePassword, VaultService.Revoke).
SessionsFollowTheirSecret == part = "manage" => Manage!SessionsFollowTheirSecret

\* The throttle of AdminService.Login lets no more wrong passwords through than
\* its limit and one for the other call in progress.
GuessesBounded == part = "manage" => Manage!GuessesBounded(Cardinality(Requests))

\* A channel post makes one file, however often Ingest gets it.
OnePostOneFile == part = "hook" => Hook!OnePostOneFile

\* A channel post is replied to at most once.
AtMostOneReply == part = "hook" => Hook!AtMostOneReply

\* A post that ServeHTTP has answered with 200 has, or had, its file.
AcknowledgedIsIndexed == part = "hook" => Hook!AcknowledgedIsIndexed

\* run serves only a data directory whose key, scripts and profiles fit.
ServesWhatItCanRead == part = "data" => Data!ServesWhatItCanRead

\* An enabled profile with files is in the registry of a server that serves.
StoredIsReachable == part = "data" => Data!StoredIsReachable

\* SetDefault, Create and the scripts leave exactly one default profile.
OneDefault == part = "data" => Data!OneDefault

\* backup and restore that report success keep database and key together.
PairsStaySound == part = "data" => Data!PairsStaySound

\* Paging through files or the gallery repeats nothing and misses nothing that was
\* to be listed all the time, but for a file of the gallery into whose walk two
\* changes fell (FileService.List, gallery.Service.List).
PagesAreWhole == part = "paging" => Paging!PagesAreWhole

\* A page of the gallery shows only what was visible at some instant of its own
\* walk up the folders, unless two changes fell into that walk (gallery.Service
\* .ResolveVisibility).
ListedWasVisible == part = "paging" => Paging!ListedWasVisible

\* What a download or a preview serves is exactly the bytes that were asked for, or
\* the text of the whole document for a DOCX (parseRange, Open of the backends,
\* preview.Service.Open).
ServedIsExact ==
  /\ part = "download" => Download!ServedIsExact
  /\ part = "gate" => Gate!ServedIsExact

\* A download loses its object only to a migration that has switched the row
\* since it was read, or to a purge.
MissingIsExplained ==
  /\ part = "download" => Download!MissingIsExplained
  /\ part = "gate" => Gate!MissingIsExplained

\* Guests pass a password with a session of its own only (AuthorizeRequest,
\* RequireScope).
GuestsKnewThePassword == part = "gate" => Gate!GuestsKnewThePassword

\* No call waits for the connection that it has itself.
NoSelfWait == part = "connection" => Connection!NoSelfWait

\* No call keeps the connection while a backend or Telegram answers.
FreeDuringIO == part = "connection" => Connection!FreeDuringIO

=============================================================================
