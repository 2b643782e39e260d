---------------------------- MODULE ServerProofs -----------------------------
(***************************************************************************)
(* Proofs about Server.  A behaviour of Server is a behaviour of every part  *)
(* that it instantiates (ServerStep), so that what is proved of a part alone *)
(* holds in the server: of Access, Listing and Downloads in modules of their *)
(* own, of Webhook, DataDir and Pool here, on the instance.                 *)
(***************************************************************************)
EXTENDS Server, SequenceTheorems, WellFoundedInduction, TLAPS

\* Every step of the server is a step of one part, and every part starts as it
\* says itself.
LEMMA ServerStep ==
  ASSUME [ServerNext]_serverVars
  PROVE  /\ Manage!Next \/ UNCHANGED manageVars
         /\ Hook!Next \/ UNCHANGED hookVars
         /\ Data!Next \/ UNCHANGED dataVars
         /\ Paging!Next \/ UNCHANGED pagingVars
         /\ Connection!Next \/ UNCHANGED connectionVars
         /\ \/ part = "download" /\ Download!DownloadsNext
            \/ part = "gate" /\ Gate!DownloadsNext
            \/ UNCHANGED downloadVars
         /\ UNCHANGED part
BY DEF ServerNext, serverVars, StepOfJobs, StepOfManage, StepOfHook, StepOfData, StepOfPaging, StepOfDownload,
       StepOfConnection

----------------------------------------------------------------------------
(* The webhook.  Everything follows from the row of the post in             *)
(* telegram_messages: it is made together with the file and is never        *)
(* deleted, so before it there is no file, no reply and nobody about to     *)
(* reply, and after it one file and one delivery that may reply.            *)

PostMade(f) == posted[f].state # "none"

HasFile(m) == \E f \in PostedFiles : PostMade(f) /\ posted[f].post = m

Replying(d, m) == delivery[d].pc = "replying" /\ delivery[d].post = m

PostsOfFiles ==
  \A f \in PostedFiles : IF PostMade(f) THEN posted[f].post \in Posts ELSE posted[f].post = None

Untouched(m) ==
  /\ \A f \in PostedFiles : PostMade(f) => posted[f].post # m
  /\ replies[m] = 0
  /\ \A d \in Deliveries : ~ Replying(d, m)

RowFirst == \A m \in Posts : IF message[m] = None THEN Untouched(m) ELSE HasFile(m)

Delivered ==
  \A d \in Deliveries : delivery[d].pc # "idle" =>
    /\ delivery[d].post \in Posts
    /\ delivery[d].pc \in {"replying", "answering"} => HasFile(delivery[d].post)

OneReplier ==
  /\ \A m \in Posts, d, e \in Deliveries : Replying(d, m) /\ Replying(e, m) => d = e
  /\ \A m \in Posts, d \in Deliveries : Replying(d, m) => replies[m] = 0
  /\ Hook!AtMostOneReply

HookInv ==
  /\ Hook!TypeOK
  /\ PostsOfFiles
  /\ RowFirst
  /\ Delivered
  /\ OneReplier
  /\ Hook!OnePostOneFile
  /\ Hook!AcknowledgedIsIndexed

\* Before a first post is published nothing has happened.
LEMMA HookStarts == Hook!Init => HookInv
BY DEF Hook!Init, Hook!Idle, HookInv, Hook!TypeOK, PostsOfFiles, RowFirst, Untouched, HasFile, PostMade, Replying,
       Delivered, OneReplier, Hook!AtMostOneReply, Hook!OnePostOneFile, Hook!AcknowledgedIsIndexed

\* Telegram's steps, and those of a delivery that makes no file and no reply.
LEMMA HookDeliveryStep ==
  ASSUME HookInv, UNCHANGED <<message, posted, replies>>,
         \/ \E m \in Posts : Hook!Publish(m) \/ \E d \in Deliveries : Hook!Deliver(d, m)
         \/ \E d \in Deliveries : Hook!Acknowledge(d) \/ Hook!DeliveryFails(d) \/ Hook!Resolve(d) \/ Hook!Recognise(d)
  PROVE  HookInv'
<1> USE DEF HookInv, Hook!Publish, Hook!Deliver, Hook!Acknowledge, Hook!DeliveryFails, Hook!Resolve, Hook!Recognise,
            Hook!Goto, Hook!Idle
<1>1. Hook!TypeOK'
  BY DEF Hook!TypeOK, Delivered
<1>2. \A m \in Posts : HasFile(m)' <=> HasFile(m)
  BY DEF HasFile, PostMade
<1>3. \A d \in Deliveries : delivery'[d].pc = "replying" => delivery'[d] = delivery[d]
  BY DEF Hook!TypeOK
<1>4. RowFirst' /\ OneReplier'
  <2>1. \A d \in Deliveries, m \in Posts : Replying(d, m)' => Replying(d, m)
    BY <1>3 DEF Replying
  <2>2. OneReplier'
    BY <2>1 DEF OneReplier, Hook!AtMostOneReply
  <2>3. \A m \in Posts : Untouched(m) => Untouched(m)'
    BY <2>1 DEF Untouched, PostMade
  <2>4. QED
    BY <1>2, <2>2, <2>3 DEF RowFirst
<1>5. Delivered'
  <2> SUFFICES ASSUME NEW d \in Deliveries, delivery'[d].pc # "idle"
               PROVE  /\ delivery'[d].post \in Posts
                      /\ delivery'[d].pc \in {"replying", "answering"} => HasFile(delivery'[d].post)
    BY <1>2 DEF Delivered
  <2>1. CASE delivery'[d] = delivery[d]
    BY <2>1 DEF Delivered
  <2>2. CASE delivery'[d] # delivery[d]
    <3>1. \/ delivery'[d].pc = "resolving" /\ delivery'[d].post \in Posts
          \/ delivery[d].pc # "idle" /\ delivery'[d].pc = "inserting" /\ delivery'[d].post = delivery[d].post
          \/ delivery[d].pc # "idle" /\ delivery'[d].post = delivery[d].post /\ message[delivery[d].post] # None
      BY <2>2 DEF Hook!TypeOK
    <3>2. QED
      BY <3>1 DEF Delivered, RowFirst
  <2>3. QED
    BY <2>1, <2>2
<1>6. Hook!OnePostOneFile' /\ PostsOfFiles'
  BY DEF Hook!OnePostOneFile, PostsOfFiles, PostMade
<1>7. Hook!AcknowledgedIsIndexed'
  <2>1. \A m \in Posts : post'[m] = "acknowledged" => post[m] = "acknowledged" \/ HasFile(m)
    BY DEF Hook!TypeOK, Delivered
  <2>2. QED
    BY <2>1 DEF Hook!AcknowledgedIsIndexed, HasFile
<1>8. QED
  BY <1>1, <1>4, <1>5, <1>6, <1>7

\* The file and the row of the post appear together, and for the first time.
LEMMA HookInsertStep ==
  ASSUME HookInv, NEW d \in Deliveries, NEW f \in PostedFiles, Hook!Insert(d, f)
  PROVE  HookInv'
<1> USE DEF HookInv, Hook!Insert
<1> PICK p \in Posts : p = delivery[d].post
  BY DEF Delivered
<1>1. Untouched(p)
  BY DEF RowFirst
<1>2. posted'[f] = [state |-> "active", post |-> p] /\ \A g \in PostedFiles : g # f => posted'[g] = posted[g]
  BY DEF Hook!TypeOK
<1>3. message'[p] = f /\ \A m \in Posts : m # p => message'[m] = message[m]
  BY DEF Hook!TypeOK
<1>4. /\ delivery'[d] = [pc |-> "replying", post |-> p, file |-> f]
      /\ \A e \in Deliveries : e # d => delivery'[e] = delivery[e]
  BY DEF Hook!TypeOK
<1>5. Hook!TypeOK'
  <2>1. posted' \in [PostedFiles -> [state : {"none", "active", "trashed", "purged"}, post : Posts \cup {None}]]
    BY <1>2 DEF Hook!TypeOK
  <2>2. message' \in [Posts -> PostedFiles \cup {"null", None}]
    BY DEF Hook!TypeOK
  <2>3. delivery' \in [Deliveries ->
          [pc : {"idle", "resolving", "inserting", "replying", "answering"},
           post : Posts \cup {None}, file : PostedFiles \cup {None}]]
    BY <1>4 DEF Hook!TypeOK
  <2>4. QED
    BY <2>1, <2>2, <2>3 DEF Hook!TypeOK
<1>6. HasFile(p)' /\ \A m \in Posts : HasFile(m) => HasFile(m)'
  BY <1>2 DEF HasFile, PostMade
<1>7. \A e \in Deliveries, m \in Posts : Replying(e, m)' <=> Replying(e, m) \/ (e = d /\ m = p)
  BY <1>4 DEF Replying
<1>8. RowFirst'
  <2>1. ASSUME NEW m \in Posts, m # p, Untouched(m)
        PROVE  Untouched(m)'
    BY <1>2, <1>7, <2>1 DEF Untouched, PostMade
  <2>2. QED
    BY <1>3, <1>6, <2>1, ServerAssumption DEF RowFirst
<1>9. Delivered'
  BY <1>4, <1>6 DEF Delivered
<1>10. OneReplier'
  BY <1>1, <1>7 DEF OneReplier, Hook!AtMostOneReply, Untouched
<1>11. Hook!OnePostOneFile' /\ PostsOfFiles'
  BY <1>1, <1>2, ServerAssumption DEF Hook!OnePostOneFile, Untouched, PostMade, PostsOfFiles
<1>12. Hook!AcknowledgedIsIndexed'
  <2>1. posted[f].post = None
    BY DEF PostsOfFiles, PostMade
  <2>2. QED
    BY <1>2, <2>1, ServerAssumption DEF Hook!AcknowledgedIsIndexed
<1>13. QED
  BY <1>5, <1>8, <1>9, <1>10, <1>11, <1>12

\* The delivery that made the file replies, and nobody else does.
LEMMA HookReplyStep ==
  ASSUME HookInv, NEW d \in Deliveries, Hook!Reply(d)
  PROVE  HookInv'
<1> USE DEF HookInv, Hook!Reply, Hook!Goto, Hook!Idle
<1> PICK p \in Posts : p = delivery[d].post
  BY DEF Delivered
<1>1. Replying(d, p) /\ replies[p] = 0 /\ HasFile(p)
  BY DEF OneReplier, Replying, Delivered
<1>2. replies'[p] = 1 /\ \A m \in Posts : m # p => replies'[m] = replies[m]
  BY <1>1 DEF Hook!TypeOK
<1>3. Hook!TypeOK'
  BY DEF Hook!TypeOK
<1>4. \A e \in Deliveries : e # d => delivery'[e] = delivery[e]
  BY DEF Hook!TypeOK
<1>5. delivery'[d].pc = "idle" \/ (delivery'[d].pc = "answering" /\ delivery'[d].post = p)
  BY DEF Hook!TypeOK
<1>6. \A e \in Deliveries, m \in Posts : Replying(e, m)' => Replying(e, m) /\ m # p
  BY <1>1, <1>4, <1>5 DEF OneReplier, Replying
<1>7. RowFirst'
  <2>1. \A m \in Posts : Untouched(m) => Untouched(m)' /\ m # p
    BY <1>1, <1>2, <1>6 DEF Untouched, PostMade
  <2>2. QED
    BY <2>1 DEF RowFirst, HasFile, PostMade
<1>8. Delivered'
  BY <1>1, <1>4, <1>5 DEF Delivered, HasFile, PostMade
<1>9. OneReplier'
  BY <1>1, <1>2, <1>6 DEF OneReplier, Hook!AtMostOneReply
<1>10. Hook!OnePostOneFile' /\ PostsOfFiles' /\ Hook!AcknowledgedIsIndexed'
  BY DEF Hook!OnePostOneFile, PostsOfFiles, PostMade, Hook!AcknowledgedIsIndexed
<1>11. QED
  BY <1>3, <1>7, <1>8, <1>9, <1>10

\* The trash and the purge: a file keeps its post, and the post its row.
LEMMA HookFileStep ==
  ASSUME HookInv, NEW f \in PostedFiles, Hook!Trash(f) \/ Hook!Restore(f) \/ Hook!Purge(f)
  PROVE  HookInv'
<1> USE DEF HookInv, Hook!Trash, Hook!Restore, Hook!Purge
<1>1. Hook!TypeOK'
  <2>1. CASE Hook!Trash(f)
    BY <2>1 DEF Hook!TypeOK
  <2>2. CASE Hook!Restore(f)
    BY <2>2 DEF Hook!TypeOK
  <2>3. CASE Hook!Purge(f)
    BY <2>3 DEF Hook!TypeOK
  <2>4. QED
    BY <2>1, <2>2, <2>3
<1>2. \A g \in PostedFiles : (PostMade(g)' <=> PostMade(g)) /\ posted'[g].post = posted[g].post
  BY DEF Hook!TypeOK, PostMade
<1>3. \A m \in Posts : message'[m] = None <=> message[m] = None
  BY ServerAssumption DEF Hook!TypeOK
<1>4. RowFirst' /\ Delivered'
  BY <1>2, <1>3 DEF RowFirst, Delivered, Untouched, HasFile, Replying
<1>5. OneReplier'
  BY DEF OneReplier, Hook!AtMostOneReply, Replying
<1>6. Hook!OnePostOneFile' /\ PostsOfFiles' /\ Hook!AcknowledgedIsIndexed'
  BY <1>2 DEF Hook!OnePostOneFile, PostsOfFiles, Hook!AcknowledgedIsIndexed, PostMade
<1>7. QED
  BY <1>1, <1>4, <1>5, <1>6

\* Every step of the server keeps it.
LEMMA HookInvHolds == ServerSpec => []HookInv
<1>1. ServerInit => HookInv
  BY HookStarts DEF ServerInit
<1>2. HookInv /\ [ServerNext]_serverVars => HookInv'
  <2> SUFFICES ASSUME HookInv, [ServerNext]_serverVars PROVE HookInv'
    OBVIOUS
  <2>1. Hook!Next \/ UNCHANGED hookVars
    BY ServerStep
  <2>2. CASE \/ \E m \in Posts : Hook!Publish(m) \/ \E d \in Deliveries : Hook!Deliver(d, m)
             \/ \E d \in Deliveries : \/ Hook!Acknowledge(d) \/ Hook!DeliveryFails(d)
                                      \/ Hook!Resolve(d) \/ Hook!Recognise(d)
    <3>1. UNCHANGED <<message, posted, replies>>
      BY <2>2 DEF Hook!Publish, Hook!Deliver, Hook!Acknowledge, Hook!DeliveryFails, Hook!Resolve, Hook!Recognise
    <3>2. QED
      BY <2>2, <3>1, HookDeliveryStep
  <2>3. CASE \E d \in Deliveries : Hook!Reply(d) \/ \E f \in PostedFiles : Hook!Insert(d, f)
    BY <2>3, HookReplyStep, HookInsertStep
  <2>4. CASE \E f \in PostedFiles : Hook!Trash(f) \/ Hook!Restore(f) \/ Hook!Purge(f)
    BY <2>4, HookFileStep
  <2>5. CASE UNCHANGED hookVars
    BY <2>5 DEF hookVars, HookInv, Hook!TypeOK, PostsOfFiles, RowFirst, Untouched, HasFile, PostMade, Replying,
                Delivered, OneReplier, Hook!AtMostOneReply, Hook!OnePostOneFile, Hook!AcknowledgedIsIndexed
  <2>6. QED
    BY <2>1, <2>2, <2>3, <2>4, <2>5 DEF Hook!Next
<1>3. QED
  BY <1>1, <1>2, PTL DEF ServerSpec

\* Ingest makes one file of a post, however often and side by side Telegram
\* delivers it, also after that file was purged.
THEOREM PostsMakeOneFile == ServerSpec => []OnePostOneFile
<1>1. HookInv => OnePostOneFile
  BY DEF HookInv, OnePostOneFile
<1>2. QED
  BY <1>1, HookInvHolds, PTL

\* A post is replied to at most once (Ingest replies only when it made the file).
THEOREM PostsGetOneReply == ServerSpec => []AtMostOneReply
<1>1. HookInv => AtMostOneReply
  BY DEF HookInv, OneReplier, AtMostOneReply
<1>2. QED
  BY <1>1, HookInvHolds, PTL

\* ServeHTTP answers a post with 200 only when its file is there or was there.
THEOREM AnswersAreTrue == ServerSpec => []AcknowledgedIsIndexed
<1>1. HookInv => AcknowledgedIsIndexed
  BY DEF HookInv, AcknowledgedIsIndexed
<1>2. QED
  BY <1>1, HookInvHolds, PTL

----------------------------------------------------------------------------
(* The data directory.                                                     *)

\* What the scripts and ProfileService make of a database: nothing before the
\* first script; after it there is a row of local-default, one enabled profile is
\* the default, or none is in a database with lost rows, and a profile with files
\* has, or had, a row.
HasOne(d) == \E p \in Data!Enabled(d) : \A q \in Data!All : d.profile[q].default <=> q = p
HasLost(d) == /\ \A q \in Data!All : ~ d.profile[q].default
              /\ \E p \in Data!All : d.profile[p].state = "lost"
OneOrLost(d) == HasOne(d) \/ HasLost(d)
WellMade(d) ==
  /\ d.scripts = 0 => d = Data!EmptyDb
  /\ d.scripts > 0 =>
       /\ d.profile[LocalDefault].state # "none"
       /\ OneOrLost(d)
  /\ \A p \in d.stored : d.profile[p].state # "none"
AllWellMade ==
  /\ db \in Data!Contents => WellMade(db)
  /\ backup.db \in Data!Contents => WellMade(backup.db)

\* The server has the key of the disk from ReadKey on, its database from OpenDb
\* on, and what it serves is in its registry.
ServerFits ==
  /\ server.pc = "creating" => key = None
  /\ server.pc = "writing" => key = Short
  /\ server.pc \in {"keyed", "migrating", "serving"} => key \in MasterKeys /\ server.key = key
  /\ server.pc \in {"migrating", "serving"} => db \in Data!Contents
  /\ server.pc = "serving" =>
       /\ db.scripts = Scripts /\ Data!Readable(db, key)
       /\ \A p \in server.registry : db.profile[p].state # "none"
       /\ db.stored \cap Data!Enabled(db) \subseteq server.registry
  /\ create # None => server.pc = "serving" /\ db.profile[create].state # "none"
\* A backup in progress is of a directory that does not change its key; a restore
\* in progress has the directory for itself.
ToolFits ==
  /\ tool \in {"snapshot", "backup_key"} => ~ backup.done
  /\ tool = "snapshot" => db \in Data!Contents
  /\ tool = "backup_key" => backup.db # None
  /\ tool = "backup_key" /\ history.backup => Data!Sound(backup.db, key)
  /\ tool \in {"restoring_db", "restoring_key"} =>
       server.pc = "down" /\ ~ history.restored /\ backup.db # None
  /\ tool = "restoring_db" => key = None
  /\ tool = "restoring_key" => key \in {None, Short} /\ db = backup.db

DataInv == Data!TypeOK /\ AllWellMade /\ ServerFits /\ ToolFits /\ Data!PairsStaySound

\* The directory is empty at first.
LEMMA DataStarts == Data!Init => DataInv
BY DataAssumption
   DEF Data!Init, DataInv, Data!TypeOK, AllWellMade, ServerFits, ToolFits, Data!PairsStaySound, Data!Down,
       Data!NoBackup

\* Steps that leave the database and its copies alone.
LEMMA KeyStep ==
  ASSUME DataInv, Data!ReadKey \/ Data!CreateKey \/ Data!WriteKey \/ Data!ServerDies
  PROVE  DataInv'
<1>r. ASSUME Data!ReadKey
      PROVE  /\ UNCHANGED <<key, db, create, tool, backup, made, history>>
             /\ server.pc = "down" /\ tool \notin {"restoring_db", "restoring_key"}
             /\ \/ key = None /\ server' = [pc |-> "creating", key |-> None, registry |-> {}]
                \/ key \in MasterKeys /\ server' = [pc |-> "keyed", key |-> key, registry |-> {}]
  BY <1>r DEF Data!ReadKey, Data!Down
<1>w. ASSUME Data!WriteKey
      PROVE  /\ UNCHANGED <<db, create, tool, backup, history>>
             /\ server.pc = "writing"
             /\ \/ \E k \in MasterKeys : /\ key' = k /\ made' = made \cup {k}
                                   /\ server' = [pc |-> "keyed", key |-> k, registry |-> server.registry]
                \/ /\ key' = None /\ made' = made
                   /\ server' = [pc |-> "down", key |-> None, registry |-> {}]
  BY <1>w DEF Data!WriteKey, Data!Down, DataInv, Data!TypeOK
<1>1. Data!TypeOK'
  <2>1. CASE Data!ReadKey
    BY <2>1, <1>r DEF DataInv, Data!TypeOK
  <2>2. CASE Data!CreateKey
    BY <2>2, DataAssumption DEF Data!CreateKey, DataInv, Data!TypeOK
  <2>3. CASE Data!WriteKey
    BY <2>3, <1>w DEF DataInv, Data!TypeOK
  <2>4. CASE Data!ServerDies
    BY <2>4, DataAssumption DEF Data!ServerDies, DataInv, Data!TypeOK, Data!Down
  <2>5. QED
    BY <2>1, <2>2, <2>3, <2>4
<1>2. AllWellMade'
  BY DataAssumption DEF Data!ReadKey, Data!CreateKey, Data!WriteKey, Data!ServerDies, DataInv, AllWellMade
<1>3. ServerFits'
  <2>1. CASE Data!ReadKey
    BY <2>1, <1>r, DataAssumption DEF DataInv, ServerFits
  <2>2. CASE Data!CreateKey
    BY <2>2, DataAssumption DEF Data!CreateKey, DataInv, Data!TypeOK, ServerFits
  <2>3. CASE Data!WriteKey
    BY <2>3, <1>w, DataAssumption DEF DataInv, ServerFits
  <2>4. CASE Data!ServerDies
    BY <2>4, DataAssumption DEF Data!ServerDies, DataInv, Data!TypeOK, Data!Down, ServerFits
  <2>5. QED
    BY <2>1, <2>2, <2>3, <2>4
<1>4. ToolFits'
  BY DataAssumption
     DEF Data!ReadKey, Data!CreateKey, Data!WriteKey, Data!ServerDies, DataInv, Data!TypeOK, Data!Down, ServerFits,
         ToolFits, Data!Sound
<1>5. Data!PairsStaySound'
  BY DataAssumption
     DEF Data!ReadKey, Data!CreateKey, Data!WriteKey, Data!ServerDies, DataInv, Data!TypeOK, Data!Down, ServerFits,
         Data!PairsStaySound, Data!Sound
<1>6. QED
  BY <1>1, <1>2, <1>3, <1>4, <1>5 DEF DataInv

\* The steps that change the content.
LEMMA ContentStep ==
  ASSUME DataInv, UNCHANGED <<key, tool, backup, made, history>>, db \in Data!Contents, db' \in Data!Contents,
         WellMade(db'), Data!Readable(db, server.key) => Data!Readable(db', server.key),
         server.pc \in {"migrating", "serving"}, server' = server
  PROVE  AllWellMade' /\ ToolFits' /\ Data!PairsStaySound'
<1>1. AllWellMade'
  BY DEF DataInv, AllWellMade
<1>2. ToolFits'
  BY DEF DataInv, Data!TypeOK, ServerFits, ToolFits, Data!Sound
<1>3. Data!PairsStaySound'
  BY DEF DataInv, Data!TypeOK, ServerFits, Data!PairsStaySound, Data!Sound
<1>4. QED
  BY <1>1, <1>2, <1>3

\* A script adds no profile but local-default.
LEMMA ApplyStep == ASSUME DataInv, Data!ApplyMigration PROVE DataInv'
<1>1. db \in Data!Contents /\ WellMade(db) /\ server.pc = "migrating" /\ server' = server /\ create' = create
  BY DEF DataInv, AllWellMade, ServerFits, Data!ApplyMigration
<1>2. db' \in Data!Contents
  <2>1. db.scripts + 1 \in 0..Scripts
    BY <1>1, DataAssumption DEF Data!ApplyMigration, Data!Contents
  <2>2. [state |-> "enabled", key |-> None, default |-> TRUE] \in Data!Row
    BY DEF Data!Row
  <2>3. db.profile \in [Data!All -> Data!Row] /\ db.scripts \in 0..Scripts /\ db.stored \in SUBSET Data!All
    BY <1>1 DEF Data!Contents
  <2>4. db' = [scripts |-> db.scripts + 1, stored |-> db.stored,
               profile |-> [db.profile EXCEPT ![LocalDefault] =
                              IF db.scripts = 0 THEN [state |-> "enabled", key |-> None, default |-> TRUE]
                                                ELSE @]]
    BY <1>1 DEF Data!ApplyMigration, Data!Contents
  <2>5. QED
    BY <2>1, <2>2, <2>3, <2>4 DEF Data!Contents
<1>3. Data!Readable(db, server.key) => Data!Readable(db', server.key)
  BY <1>1, DataAssumption DEF Data!ApplyMigration, Data!Contents, Data!Row, Data!All, Data!Readable, Data!Enabled
<1>4. WellMade(db')
  <2>1. CASE db.scripts = 0
    <3>0. db = Data!EmptyDb /\ Data!ApplyMigration
      BY <2>1, <1>1 DEF WellMade
    <3>1. /\ db'.scripts = 1 /\ db'.stored = {}
          /\ db'.profile = [[p \in Data!All |-> Data!NoRow] EXCEPT ![LocalDefault] =
                              [state |-> "enabled", key |-> None, default |-> TRUE]]
      BY <3>0 DEF Data!EmptyDb, Data!ApplyMigration
    <3>2. /\ db'.profile[LocalDefault] = [state |-> "enabled", key |-> None, default |-> TRUE]
          /\ \A q \in Data!All \ {LocalDefault} : db'.profile[q] = Data!NoRow
      BY <3>1 DEF Data!All
    <3>3. LocalDefault \in Data!Enabled(db') /\ \A q \in Data!All : db'.profile[q].default <=> q = LocalDefault
      BY <3>2 DEF Data!NoRow, Data!Enabled, Data!All
    <3>4. QED
      BY <3>1, <3>3 DEF WellMade, OneOrLost, HasOne, Data!Enabled
  <2>2. CASE db.scripts # 0
    <3>1. db.scripts \in Nat /\ db.profile = [db.profile EXCEPT ![LocalDefault] = @]
      BY <1>1, DataAssumption DEF Data!Contents
    <3>2. db'.scripts = db.scripts + 1 /\ db'.profile = db.profile /\ db'.stored = db.stored
      BY <2>2, <3>1, <1>1 DEF Data!Contents, Data!ApplyMigration
    <3>3. QED
      BY <2>2, <3>1, <3>2, <1>1 DEF WellMade, OneOrLost, HasOne, HasLost, Data!Enabled
  <2>3. QED
    BY <2>1, <2>2
<1>5. Data!TypeOK'
  BY <1>1, <1>2 DEF DataInv, Data!TypeOK, Data!ApplyMigration
<1>6. ServerFits'
  BY <1>1, <1>2 DEF DataInv, ServerFits, Data!ApplyMigration
<1>7. QED
  BY <1>1, <1>2, <1>3, <1>4, <1>5, <1>6, ContentStep DEF DataInv, Data!ApplyMigration

\* Create makes a row that is not the default and is encrypted with the key.
LEMMA InsertStep ==
  ASSUME DataInv, NEW p \in RemoteProfiles, NEW s \in {"enabled", "disabled"}, Data!InsertProfile(p, s)
  PROVE  DataInv'
<1>1. db \in Data!Contents /\ WellMade(db) /\ server.pc = "serving" /\ server' = server
  BY DEF DataInv, AllWellMade, ServerFits, Data!InsertProfile
<1>k. server.key = key /\ key \in MasterKeys /\ p \in Data!All
  BY <1>1 DEF DataInv, ServerFits, Data!All
<1>2. /\ db' \in Data!Contents /\ db'.scripts = db.scripts /\ db'.stored = db.stored
      /\ db'.profile = [db.profile EXCEPT ![p] = [state |-> s, key |-> key, default |-> FALSE]]
  BY <1>1, <1>k, DataAssumption DEF Data!InsertProfile, Data!Contents, Data!Row
<1>3. Data!Readable(db, server.key) => Data!Readable(db', server.key)
  BY <1>1, <1>2, <1>k DEF Data!Contents, Data!Readable, Data!Enabled
<1>5. db.scripts > 0 /\ p # LocalDefault /\ p \notin db.stored /\ db.profile[p].state = "none"
  BY <1>1, DataAssumption DEF DataInv, ServerFits, Data!InsertProfile, WellMade, Data!Contents
<1>4. WellMade(db')
  <2>1. \A q \in Data!All : q # p => db'.profile[q] = db.profile[q]
    BY <1>2, <1>1 DEF Data!Contents
  <2>2. db'.profile[p] = [state |-> s, key |-> key, default |-> FALSE]
    BY <1>2, <1>1, <1>k DEF Data!Contents
  <2>4. ASSUME HasOne(db) PROVE HasOne(db')
    <3>1. PICK d \in Data!Enabled(db) : \A q \in Data!All : db.profile[q].default <=> q = d
      BY <2>4 DEF HasOne
    <3>2. d # p /\ d \in Data!Enabled(db')
      BY <3>1, <2>1, <1>5 DEF Data!Enabled
    <3>3. \A q \in Data!All : db'.profile[q].default <=> q = d
      BY <2>1, <2>2, <3>1, <3>2
    <3>4. QED
      BY <3>2, <3>3 DEF HasOne
  <2>5. ASSUME HasLost(db) PROVE HasLost(db')
    BY <2>1, <2>2, <2>5, <1>5 DEF HasLost
  <2>6. \A q \in db'.stored : db'.profile[q].state # "none"
    BY <2>1, <1>1, <1>2, <1>5 DEF WellMade, Data!Contents
  <2>7. QED
    BY <2>1, <2>4, <2>5, <2>6, <1>1, <1>2, <1>5 DEF WellMade, OneOrLost, Data!All
<1>6. Data!TypeOK'
  BY <1>1, <1>2 DEF DataInv, Data!TypeOK, Data!InsertProfile
<1>7. ServerFits'
  <2>r. server.registry \subseteq Data!All
    BY DEF DataInv, Data!TypeOK
  <2>1. \A q \in server.registry : db'.profile[q].state # "none"
    BY <1>1, <1>2, <1>k, <2>r DEF DataInv, ServerFits, Data!Contents
  <2>2. db'.stored \cap Data!Enabled(db') \subseteq server.registry
    BY <1>1, <1>2, <1>5 DEF DataInv, ServerFits, Data!Contents, Data!Enabled
  <2>3. create' = p /\ db'.profile[p].state # "none" /\ key' = key
    BY <1>1, <1>2, <1>k DEF Data!InsertProfile, Data!Contents
  <2>4. Data!Readable(db', key) /\ db'.scripts = Scripts
    BY <1>1, <1>2, <1>3, <1>k DEF DataInv, ServerFits
  <2>5. QED
    BY <2>1, <2>2, <2>3, <2>4, <1>1, <1>2, <1>k DEF ServerFits
<1>8. QED
  BY <1>1, <1>2, <1>3, <1>4, <1>6, <1>7, ContentStep DEF DataInv, Data!InsertProfile

\* SetDefault moves the default to an enabled profile.
LEMMA DefaultStep ==
  ASSUME DataInv, NEW p \in Data!All, Data!SetDefault(p)
  PROVE  DataInv'
<1>1. db \in Data!Contents /\ WellMade(db) /\ server.pc = "serving" /\ server' = server /\ create' = create
  BY DEF DataInv, AllWellMade, ServerFits, Data!SetDefault
<1>2. /\ db' \in Data!Contents /\ db'.scripts = db.scripts /\ db'.stored = db.stored
      /\ \A q \in Data!All :
           /\ db'.profile[q].state = db.profile[q].state
           /\ db'.profile[q].key = db.profile[q].key
           /\ db'.profile[q].default <=> q = p
  BY <1>1 DEF Data!SetDefault, Data!Contents, Data!Row
<1>e. Data!Enabled(db') = Data!Enabled(db)
  BY <1>2 DEF Data!Enabled
<1>3. Data!Readable(db, server.key) => Data!Readable(db', server.key)
  BY <1>2, <1>e DEF Data!Readable, Data!Enabled
<1>4. WellMade(db')
  <2>1. db.scripts > 0 /\ p \in Data!Enabled(db)
    BY <1>1, DataAssumption DEF DataInv, ServerFits, Data!SetDefault
  <2>2. QED
    BY <1>1, <1>2, <1>e, <2>1 DEF WellMade, OneOrLost, HasOne, Data!Contents, Data!All
<1>6. Data!TypeOK'
  BY <1>1, <1>2 DEF DataInv, Data!TypeOK, Data!SetDefault
<1>7. ServerFits'
  <2>1. server.registry \subseteq Data!All /\ (create # None => create \in Data!All)
    BY DEF DataInv, Data!TypeOK, Data!All
  <2>2. key' = key
    BY DEF Data!SetDefault
  <2>3. QED
    BY <1>1, <1>2, <1>3, <1>e, <2>1, <2>2 DEF DataInv, ServerFits
<1>8. QED
  BY <1>1, <1>2, <1>3, <1>4, <1>6, <1>7, ContentStep DEF DataInv, Data!SetDefault

\* A file is stored with a registered profile only.
LEMMA StoreStep ==
  ASSUME DataInv, NEW p \in Data!All, Data!StoreFile(p)
  PROVE  DataInv'
<1>1. db \in Data!Contents /\ WellMade(db) /\ server.pc = "serving" /\ server' = server /\ create' = create
  BY DEF DataInv, AllWellMade, ServerFits, Data!StoreFile
<1>2. /\ db' \in Data!Contents /\ db'.scripts = db.scripts /\ db'.stored = db.stored \cup {p}
      /\ db'.profile = db.profile
  BY <1>1 DEF Data!StoreFile, Data!Contents
<1>3. db.scripts > 0 /\ p \in server.registry /\ db.profile[p].state # "none"
  BY <1>1, DataAssumption DEF DataInv, ServerFits, Data!StoreFile
<1>e. Data!Enabled(db') = Data!Enabled(db)
  BY <1>2 DEF Data!Enabled
<1>4. WellMade(db')
  BY <1>1, <1>2, <1>3, <1>e DEF WellMade, OneOrLost, HasOne, HasLost
<1>5. Data!Readable(db, server.key) => Data!Readable(db', server.key)
  BY <1>2, <1>e DEF Data!Readable
<1>6. Data!TypeOK'
  BY <1>1, <1>2 DEF DataInv, Data!TypeOK, Data!StoreFile
<1>7. ServerFits'
  BY <1>1, <1>2, <1>3, <1>5, <1>e DEF DataInv, ServerFits, Data!StoreFile
<1>8. QED
  BY <1>1, <1>2, <1>4, <1>5, <1>6, <1>7, ContentStep DEF DataInv, Data!StoreFile

\* An empty database is readable and has nothing to default to.
LEMMA EmptyFits == Data!EmptyDb \in Data!Contents /\ WellMade(Data!EmptyDb)
BY DataAssumption DEF Data!EmptyDb, Data!Contents, Data!Row, Data!NoRow, WellMade

\* A copy that was cut off lacks rows, and is otherwise what it was copied from.
LEMMA RemainsFits ==
  ASSUME NEW d \in Data!Contents, WellMade(d), NEW r \in Data!Remains(d)
  PROVE  r \in Data!Contents /\ WellMade(r)
<1> DEFINE lost == {p \in Data!All : r.profile[p] = Data!LostRow /\ d.profile[p].state # "none"}
<1>l. Data!LostRow = [state |-> "lost", key |-> None, default |-> FALSE]
  BY DEF Data!LostRow
<1>3. r \in Data!Contents
  BY DEF Data!Remains
<1>2. r.scripts = d.scripts /\ r.stored \subseteq d.stored
  BY DEF Data!Remains
<1>4. \A p \in Data!All : p \notin lost => r.profile[p] = d.profile[p]
  BY DEF Data!Remains
<1>5. \A p \in lost : p \in Data!All /\ r.profile[p].state = "lost" /\ ~ r.profile[p].default
  BY <1>l
<1> HIDE DEF lost
<1>6. d.scripts = 0 => r = Data!EmptyDb
  <2> SUFFICES ASSUME d.scripts = 0 PROVE r = Data!EmptyDb
    OBVIOUS
  <2>1. d = Data!EmptyDb
    BY DEF WellMade
  <2>2. \A p \in Data!All : r.profile[p] = Data!NoRow
    <3>1. \A p \in Data!All : d.profile[p] = Data!NoRow
      BY <2>1 DEF Data!EmptyDb
    <3>2. \A p \in Data!All : d.profile[p].state = "none"
      BY <3>1 DEF Data!NoRow
    <3>3. \A p \in Data!All : p \notin lost
      BY <3>2 DEF lost
    <3>4. QED
      BY <3>1, <3>3, <1>4
  <2>3. r.profile \in [Data!All -> Data!Row] /\ r = [scripts |-> r.scripts, profile |-> r.profile, stored |-> r.stored]
    BY <1>3 DEF Data!Contents
  <2>4. r.profile = [p \in Data!All |-> Data!NoRow]
    BY <2>2, <2>3
  <2>5. r.stored = {} /\ r.scripts = 0
    BY <1>2, <2>1 DEF Data!EmptyDb
  <2>6. QED
    BY <2>3, <2>4, <2>5 DEF Data!EmptyDb
<1>7. d.scripts > 0 => r.profile[LocalDefault].state # "none" /\ OneOrLost(r)
  <2> SUFFICES ASSUME d.scripts > 0 PROVE r.profile[LocalDefault].state # "none" /\ OneOrLost(r)
    OBVIOUS
  <2>1. d.profile[LocalDefault].state # "none" /\ OneOrLost(d) /\ LocalDefault \in Data!All
    BY DEF WellMade, Data!All
  <2>2. r.profile[LocalDefault].state # "none"
    BY <2>1, <1>4, <1>5
  <2>3. ASSUME HasLost(d) PROVE HasLost(r)
    BY <2>3, <1>4, <1>5 DEF HasLost
  <2>4. ASSUME HasOne(d) PROVE OneOrLost(r)
    <3>1. PICK p \in Data!Enabled(d) : \A q \in Data!All : d.profile[q].default <=> q = p
      BY <2>4 DEF HasOne
    <3>2. CASE p \in lost
      <4>1. \A q \in Data!All : ~ r.profile[q].default
        BY <3>1, <3>2, <1>4, <1>5
      <4>2. QED
        BY <4>1, <3>2, <1>5 DEF OneOrLost, HasLost
    <3>3. CASE p \notin lost
      <4>1. p \in Data!Enabled(r)
        BY <3>1, <3>3, <1>4 DEF Data!Enabled
      <4>2. \A q \in Data!All : r.profile[q].default <=> q = p
        BY <3>1, <3>3, <1>4, <1>5
      <4>3. QED
        BY <4>1, <4>2 DEF OneOrLost, HasOne
    <3>4. QED
      BY <3>2, <3>3
  <2>5. QED
    BY <2>1, <2>2, <2>3, <2>4 DEF OneOrLost
<1>8. \A p \in r.stored : r.profile[p].state # "none"
  <2>1. d.stored \subseteq Data!All /\ \A p \in d.stored : d.profile[p].state # "none"
    BY DEF WellMade, Data!Contents
  <2>2. QED
    BY <2>1, <1>2, <1>4, <1>5
<1>9. QED
  BY <1>2, <1>3, <1>6, <1>7, <1>8 DEF WellMade

\* The steps of a start that read the database, and of a Create that ends.
LEMMA StartStep ==
  ASSUME DataInv, Data!OpenDb \/ Data!LoadEnabled \/ Data!RegisterProfile
  PROVE  DataInv'
<1>1. CASE Data!OpenDb
  <2>1. db' = (IF db = None THEN Data!EmptyDb ELSE db) /\ server.pc = "keyed"
    BY <1>1 DEF Data!OpenDb
  <2>2. Data!TypeOK'
    BY <1>1, EmptyFits DEF DataInv, Data!TypeOK, Data!OpenDb, Data!Down
  <2>3. AllWellMade'
    BY <1>1, EmptyFits DEF DataInv, AllWellMade, Data!OpenDb
  <2>4. ServerFits'
    BY <1>1, EmptyFits DEF DataInv, Data!TypeOK, ServerFits, Data!OpenDb, Data!Down
  <2>5. ToolFits'
    BY <1>1, EmptyFits, DataAssumption DEF DataInv, Data!TypeOK, ServerFits, ToolFits, Data!OpenDb, Data!Down
  <2>6. Data!PairsStaySound'
    BY <1>1, DataAssumption DEF DataInv, Data!PairsStaySound, Data!Sound, Data!OpenDb
  <2>7. QED
    BY <2>2, <2>3, <2>4, <2>5, <2>6 DEF DataInv
<1>2. CASE Data!LoadEnabled
  <2>1. WellMade(db) /\ db \in Data!Contents
    BY <1>2 DEF Data!LoadEnabled, DataInv, AllWellMade, ServerFits
  <2>s. \/ server' = Data!Down
        \/ /\ server' = [pc |-> "serving", key |-> server.key, registry |-> {LocalDefault} \cup Data!Enabled(db)]
           /\ Data!Readable(db, server.key) /\ db.scripts = Scripts /\ server.pc = "migrating"
    BY <1>2 DEF Data!LoadEnabled, DataInv, Data!TypeOK
  <2>l. {LocalDefault} \cup Data!Enabled(db) \subseteq Data!All
    BY DEF Data!Enabled, Data!All
  <2>u. UNCHANGED <<key, db, create, tool, backup, made, history>>
    BY <1>2 DEF Data!LoadEnabled
  <2>2. Data!TypeOK'
    BY <2>s, <2>l, <2>u DEF DataInv, Data!TypeOK, Data!Down
  <2>c. create = None
    BY <1>2 DEF Data!LoadEnabled, DataInv, ServerFits
  <2>a. \A p \in {LocalDefault} \cup Data!Enabled(db) : Scripts > 0 /\ db.scripts = Scripts => db.profile[p].state # "none"
    BY <2>1 DEF WellMade, Data!Enabled
  <2>3. ServerFits'
    <3>1. CASE server' = Data!Down
      BY <3>1, <2>c, <2>u DEF ServerFits, Data!Down
    <3>2. CASE server' # Data!Down
      <4>1. /\ server'.pc = "serving" /\ server'.key = server.key
            /\ server'.registry = {LocalDefault} \cup Data!Enabled(db)
        BY <3>2, <2>s DEF DataInv, Data!TypeOK
      <4>2. QED
        BY <3>2, <4>1, <2>s, <2>c, <2>u, <2>a, <2>1, DataAssumption DEF ServerFits, DataInv
    <3>3. QED
      BY <3>1, <3>2
  <2>4. AllWellMade' /\ ToolFits' /\ Data!PairsStaySound'
    BY <1>2 DEF DataInv, AllWellMade, ServerFits, ToolFits, Data!PairsStaySound, Data!LoadEnabled, Data!Down
  <2>5. QED
    BY <2>2, <2>3, <2>4 DEF DataInv
<1>3. CASE Data!RegisterProfile
  <2>2. Data!TypeOK'
    BY <1>3 DEF DataInv, Data!TypeOK, Data!RegisterProfile, Data!All
  <2>3. ServerFits'
    BY <1>3 DEF DataInv, Data!TypeOK, ServerFits, Data!RegisterProfile
  <2>4. AllWellMade' /\ ToolFits' /\ Data!PairsStaySound'
    BY <1>3 DEF DataInv, Data!TypeOK, AllWellMade, ServerFits, ToolFits, Data!PairsStaySound, Data!RegisterProfile
  <2>5. QED
    BY <2>2, <2>3, <2>4 DEF DataInv
<1>4. QED
  BY <1>1, <1>2, <1>3

\* backup, and a command that dies.
LEMMA BackupStep ==
  ASSUME DataInv, Data!BackupBegin \/ Data!Snapshot \/ Data!BackupKey \/ Data!BackupFails \/ Data!ToolDies \/ Data!RemoveBackup
  PROVE  DataInv'
<1>1. CASE Data!BackupBegin
  <2>1. Data!TypeOK' /\ AllWellMade' /\ ServerFits'
    BY <1>1, EmptyFits, DataAssumption DEF DataInv, Data!TypeOK, AllWellMade, ServerFits, Data!BackupBegin
  <2>2. ToolFits' /\ Data!PairsStaySound'
    BY <1>1, EmptyFits, DataAssumption
       DEF DataInv, Data!TypeOK, ToolFits, Data!PairsStaySound, Data!Sound, Data!BackupBegin, Data!NoBackup
  <2>3. QED
    BY <2>1, <2>2 DEF DataInv
<1>2. CASE Data!Snapshot
  <2>b. backup' = [db |-> db, key |-> None, done |-> FALSE] /\ db \in Data!Contents
    BY <1>2 DEF Data!Snapshot, Data!NoBackup, DataInv, ToolFits
  <2>h. history' = [backup |-> Data!Sound(db, key), restored |-> history.restored]
    BY <1>2 DEF Data!Snapshot, DataInv, Data!TypeOK
  <2>s. Data!Sound(db, key) \in BOOLEAN /\ history.restored \in BOOLEAN
    BY DEF Data!Sound, DataInv, Data!TypeOK
  <2>k. history' \in [backup : BOOLEAN, restored : BOOLEAN]
    BY <2>h, <2>s
  <2>d. backup' \in [db : Data!Contents \cup {None}, key : MasterKeys \cup {Short, None}, done : BOOLEAN]
    BY <2>b
  <2>t. Data!TypeOK'
    BY <1>2, <2>k, <2>d DEF DataInv, Data!TypeOK, Data!Snapshot
  <2>1. AllWellMade' /\ ServerFits'
    BY <1>2, <2>b DEF DataInv, AllWellMade, ServerFits, Data!Snapshot
  <2>2. ToolFits' /\ Data!PairsStaySound'
    BY <1>2, DataAssumption DEF DataInv, Data!TypeOK, ToolFits, Data!PairsStaySound, Data!Snapshot, Data!NoBackup
  <2>3. QED
    BY <2>t, <2>1, <2>2 DEF DataInv
<1>3. CASE Data!BackupKey
  <2>b. /\ backup.db \in Data!Contents \cup {None} /\ key \in MasterKeys \cup {Short}
        /\ \/ backup' = [db |-> backup.db, key |-> Short, done |-> backup.done]
           \/ backup' = [db |-> backup.db, key |-> key, done |-> TRUE]
        /\ backup.done \in BOOLEAN
    BY <1>3 DEF DataInv, Data!TypeOK, Data!BackupKey
  <2>d. backup' \in [db : Data!Contents \cup {None}, key : MasterKeys \cup {Short, None}, done : BOOLEAN]
    <3> DEFINE D == Data!Contents \cup {None}
               K == MasterKeys \cup {Short, None}
    <3>1. backup.db \in D /\ Short \in K /\ key \in K
      BY <2>b
    <3> HIDE DEF D, K
    <3>2. \A d \in D, k \in K, x \in BOOLEAN : [db |-> d, key |-> k, done |-> x] \in [db : D, key : K, done : BOOLEAN]
      OBVIOUS
    <3>3. /\ [db |-> backup.db, key |-> Short, done |-> backup.done] \in [db : D, key : K, done : BOOLEAN]
          /\ [db |-> backup.db, key |-> key, done |-> TRUE] \in [db : D, key : K, done : BOOLEAN]
      <4>1. backup.done \in BOOLEAN /\ TRUE \in BOOLEAN
        BY <2>b
      <4>2. QED
        BY <3>1, <3>2, <4>1, Zenon
    <3>4. QED
      BY <2>b, <3>3, Zenon DEF D, K
  <2>t. Data!TypeOK'
    BY <1>3, <2>d DEF DataInv, Data!TypeOK, Data!BackupKey
  <2>1. AllWellMade' /\ ServerFits'
    BY <1>3 DEF DataInv, Data!TypeOK, AllWellMade, ServerFits, Data!BackupKey
  <2>2. ToolFits' /\ Data!PairsStaySound'
    BY <1>3 DEF DataInv, Data!TypeOK, ToolFits, Data!PairsStaySound, Data!BackupKey
  <2>3. QED
    BY <2>t, <2>1, <2>2 DEF DataInv
<1> DEFINE Killed == tool = "restoring_db" /\ db = Part
<1>k. CASE Killed /\ Data!ToolDies
  <2>1. /\ tool' = "idle" /\ db' \in {Part, Data!EmptyDb} \cup Data!Remains(backup.db)
        /\ UNCHANGED <<key, server, create, backup, made, history>>
    BY <1>k DEF Data!ToolDies
  <2>2. /\ server.pc = "down" /\ ~ history.restored /\ backup.db \in Data!Contents /\ WellMade(backup.db)
        /\ create = None
    BY <1>k DEF DataInv, Data!TypeOK, AllWellMade, ServerFits, ToolFits
  <2>3. db' \in Data!Contents \cup {Part} /\ (db' \in Data!Contents => WellMade(db'))
    BY <2>1, <2>2, EmptyFits, RemainsFits, DataAssumption
  <2>4. Data!TypeOK' /\ AllWellMade'
    BY <2>1, <2>2, <2>3 DEF DataInv, Data!TypeOK, AllWellMade
  <2>5. ServerFits' /\ ToolFits'
    BY <2>1, <2>2 DEF ServerFits, ToolFits
  <2>6. Data!PairsStaySound'
    BY <2>1, <2>2 DEF DataInv, Data!PairsStaySound, Data!Sound
  <2>7. QED
    BY <2>4, <2>5, <2>6 DEF DataInv
<1>4. CASE Data!BackupFails \/ Data!RemoveBackup \/ (~ Killed /\ Data!ToolDies)
  <2>b. /\ backup' = backup \/ backup' = [db |-> None, key |-> None, done |-> FALSE]
        /\ tool' = tool \/ tool' = "idle"
        /\ tool' # "idle" => tool = "idle"
        /\ UNCHANGED <<key, db, server, create, made, history>>
    BY <1>4 DEF Data!BackupFails, Data!ToolDies, Data!RemoveBackup, Data!NoBackup
  <2>n. [db |-> None, key |-> None, done |-> FALSE]
          \in [db : Data!Contents \cup {None}, key : MasterKeys \cup {Short, None}, done : BOOLEAN]
    OBVIOUS
  <2>o. backup \in [db : Data!Contents \cup {None}, key : MasterKeys \cup {Short, None}, done : BOOLEAN]
    BY DEF DataInv, Data!TypeOK
  <2>d. backup' \in [db : Data!Contents \cup {None}, key : MasterKeys \cup {Short, None}, done : BOOLEAN]
    BY <2>b, <2>n, <2>o
  <2>u. tool' \in {"idle", "snapshot", "backup_key", "restoring_db", "restoring_key"}
    BY <2>b DEF DataInv, Data!TypeOK
  <2>t. Data!TypeOK'
    BY <2>b, <2>d, <2>u DEF DataInv, Data!TypeOK
  <2>1. AllWellMade' /\ ServerFits'
    BY <2>b, DataAssumption DEF DataInv, Data!TypeOK, AllWellMade, ServerFits
  <2>2. ToolFits' /\ Data!PairsStaySound'
    BY <2>b DEF DataInv, Data!TypeOK, ToolFits, Data!PairsStaySound
  <2>3. QED
    BY <2>t, <2>1, <2>2 DEF DataInv
<1> HIDE DEF Killed
<1>5. CASE Data!ToolDies
  BY <1>5, <1>k, <1>4
<1>6. QED
  BY <1>1, <1>2, <1>3, <1>4, <1>5

\* restore, and an operator who begins anew.
LEMMA RestoreStep ==
  ASSUME DataInv, Data!RestoreBegin \/ Data!RestoreDb \/ Data!RestoreKey \/ Data!RestoreFails \/ Data!NewDataDir
  PROVE  DataInv'
<1>c. create = None
  BY DEF DataInv, ServerFits, ToolFits, Data!RestoreBegin, Data!RestoreDb, Data!RestoreKey, Data!RestoreFails,
         Data!NewDataDir
<1>1. Data!TypeOK'
  BY DataAssumption
     DEF DataInv, Data!TypeOK, ToolFits, Data!RestoreBegin, Data!RestoreDb, Data!RestoreKey, Data!RestoreFails,
         Data!NewDataDir
<1>2. AllWellMade'
  BY DataAssumption
     DEF DataInv, AllWellMade, ToolFits, Data!RestoreBegin, Data!RestoreDb, Data!RestoreKey, Data!RestoreFails,
         Data!NewDataDir
<1>3. ServerFits'
  BY DataAssumption, <1>c
     DEF DataInv, ServerFits, ToolFits, Data!RestoreBegin, Data!RestoreDb, Data!RestoreKey, Data!RestoreFails,
         Data!NewDataDir
<1>4. ToolFits'
  BY DataAssumption
     DEF DataInv, Data!TypeOK, ToolFits, Data!PairsStaySound, Data!Sound, Data!RestoreBegin, Data!RestoreDb,
         Data!RestoreKey, Data!RestoreFails, Data!NewDataDir
<1>5. Data!PairsStaySound'
  BY DataAssumption
     DEF DataInv, Data!TypeOK, ToolFits, Data!PairsStaySound, Data!RestoreBegin, Data!RestoreDb, Data!RestoreKey,
         Data!RestoreFails, Data!NewDataDir
<1>6. QED
  BY <1>1, <1>2, <1>3, <1>4, <1>5 DEF DataInv

\* Every step keeps the invariant.
LEMMA DataStep == DataInv /\ [Data!Next]_(Data!vars) => DataInv'
<1>1. DataInv /\ UNCHANGED Data!vars => DataInv'
  <2> SUFFICES ASSUME DataInv, UNCHANGED Data!vars PROVE DataInv'
    OBVIOUS
  <2>1. Data!TypeOK' /\ AllWellMade' /\ ServerFits'
    BY DEF DataInv, Data!vars, Data!TypeOK, AllWellMade, ServerFits
  <2>2. ToolFits' /\ Data!PairsStaySound'
    BY DEF DataInv, Data!vars, ToolFits, Data!PairsStaySound
  <2>3. QED
    BY <2>1, <2>2 DEF DataInv
<1>2. QED
  BY <1>1, KeyStep, ApplyStep, InsertStep, DefaultStep, StoreStep, StartStep, BackupStep, RestoreStep DEF Data!Next

\* The data directory of the server stays as DataInv says.
LEMMA DataInvHolds == ServerSpec => []DataInv
<1>1. ServerInit => DataInv
  BY DataStarts DEF ServerInit
<1>2. [ServerNext]_serverVars => [Data!Next]_(Data!vars)
  BY ServerStep DEF dataVars, Data!vars
<1>3. DataInv /\ [Data!Next]_(Data!vars) => DataInv'
  BY DataStep
<1>4. QED
  BY <1>1, <1>2, <1>3, PTL DEF ServerSpec

\* run serves only when the key is the one on disk, every script is applied and
\* every enabled profile can be decrypted.
THEOREM ServesReadableData == ServerSpec => []ServesWhatItCanRead
<1>1. DataInv => ServesWhatItCanRead
  BY DEF DataInv, ServerFits, ServesWhatItCanRead, Data!ServesWhatItCanRead, Data!Sound
<1>2. QED
  BY <1>1, DataInvHolds, PTL

\* An enabled profile with files is in the registry while the server serves,
\* also after a Create that died half way.
THEOREM EnabledAreReachable == ServerSpec => []StoredIsReachable
<1>1. DataInv => StoredIsReachable
  BY DEF DataInv, ServerFits, StoredIsReachable, Data!StoredIsReachable
<1>2. QED
  BY <1>1, DataInvHolds, PTL

\* The database, and every snapshot of it, has one default profile, an enabled one.
THEOREM DefaultIsOne == ServerSpec => []OneDefault
<1>1. DataInv => OneDefault
  <2> SUFFICES ASSUME DataInv, NEW d \in {db, backup.db}, d \in Data!Contents, d.scripts > 0
               PROVE  LET default == {q \in Data!All : d.profile[q].default}
                      IN  \/ \E p \in Data!Enabled(d) : default = {p}
                          \/ default = {} /\ \E p \in Data!All : d.profile[p].state = "lost"
    BY DEF OneDefault, Data!OneDefault
  <2> DEFINE default == {q \in Data!All : d.profile[q].default}
  <2>1. OneOrLost(d)
    BY DEF DataInv, AllWellMade, WellMade
  <2>2. ASSUME HasOne(d) PROVE \E p \in Data!Enabled(d) : default = {p}
    BY <2>2 DEF HasOne, Data!Enabled
  <2>3. ASSUME HasLost(d) PROVE default = {} /\ \E p \in Data!All : d.profile[p].state = "lost"
    BY <2>3 DEF HasLost
  <2>4. QED
    BY <2>1, <2>2, <2>3 DEF OneOrLost
<1>2. QED
  BY <1>1, DataInvHolds, PTL

\* backup of a sound directory and restore of it, when both report success,
\* give a sound directory, whatever the server does meanwhile.
THEOREM PairsAreSound == ServerSpec => []PairsStaySound
<1>1. DataInv => PairsStaySound
  BY DEF DataInv, PairsStaySound
<1>2. QED
  BY <1>1, DataInvHolds, PTL

----------------------------------------------------------------------------
(* The connection pool.  Every script of the ten operations asks for the    *)
(* connection exactly when it does not have it (WholeScript), whatever the  *)
(* number of rows it loops over, and so does what is left of it.            *)

\* A set of numbers has a least one.
LEMMA Least ==
  ASSUME NEW T \in SUBSET Nat, T # {}
  PROVE  \E n \in T : \A m \in T : n <= m
<1> DEFINE R == OpToRel(<, Nat)
<1>1. \A m, n \in Nat : <<m, n>> \in R <=> m < n
  BY ZenonT(20) DEF OpToRel
<1>2. IsWellFoundedOn(R, Nat)
  BY NatLessThanWellFounded, Zenon
<1> HIDE DEF R
<1>3. PICK n \in T : \A m \in T : ~ <<m, n>> \in R
  BY <1>2, WFMin, Zenon
<1>4. \A m \in T : ~ (m < n)
  BY <1>1, <1>3
<1>5. QED
  BY <1>4

\* What a call does next, when the connection is free afterwards, and when it
\* must be free before.
ScriptSteps == {"run", "open", "inside", "io", "close"}
Frees == {"run", "io", "close"}
Takes == {"run", "io", "open"}
\* A sequence that asks for the connection exactly when its step before has left
\* it free, and that leaves it free.
InTurns(s) ==
  /\ s \in Seq(ScriptSteps)
  /\ s # <<>> => s[Len(s)] \in Frees
  /\ \A i \in 1..(Len(s) - 1) : s[i] \in Frees <=> s[i + 1] \in Takes

\* ... and finds it free.
WholeScript(s) == InTurns(s) /\ (s # <<>> => s[1] \in Takes)

\* One after the other they are one.
LEMMA ScriptConcat ==
  ASSUME NEW s, NEW t, WholeScript(s), WholeScript(t)
  PROVE  WholeScript(s \o t)
<1>1. s \in Seq(ScriptSteps) /\ t \in Seq(ScriptSteps) /\ s \o t \in Seq(ScriptSteps) /\ Len(s \o t) = Len(s) + Len(t)
  BY DEF WholeScript, InTurns
<1>2. QED
  BY <1>1 DEF WholeScript, InTurns

\* The function that FlattenSeq chooses exists: there is no least length for
\* which it does not.
LEMMA FlattenExists ==
  ASSUME NEW s, NEW n \in Nat
  PROVE  \E f : f = [i \in 1..n |-> IF i = 1 THEN s[i] ELSE f[i - 1] \o s[i]]
<1> DEFINE Item(f, i) == IF i = 1 THEN s[i] ELSE f[i - 1] \o s[i]
           Is(f, m) == f = [i \in 1..m |-> f[i]] /\ \A i \in 1..m : f[i] = Item(f, i)
           T == {m \in Nat : ~ \E f : Is(f, m)}
<1>1. T = {}
  <2> SUFFICES ASSUME T # {} PROVE FALSE
    OBVIOUS
  <2>1. PICK m \in T : \A k \in T : m <= k
    <3> HIDE DEF T
    <3>1. T \in SUBSET Nat
      BY DEF T
    <3>2. QED
      BY <3>1, Least
  <2>2. m \in Nat /\ ~ \E f : Is(f, m)
    OBVIOUS
  <2>3. CASE m = 0
    <3> DEFINE f == [i \in 1..0 |-> s]
    <3>1. Is(f, 0)
      OBVIOUS
    <3>2. QED
      BY <2>2, <2>3, <3>1
  <2>4. CASE m # 0
    <3>1. m - 1 \in Nat /\ m - 1 \notin T
      <4> HIDE DEF T
      <4>1. QED
        BY <2>1, <2>2, <2>4
    <3>2. PICK g : Is(g, m - 1)
      BY <3>1
    <3> DEFINE f == [i \in 1..m |-> Item(g, i)]
    <3>3. \A j \in 1..(m - 1) : f[j] = g[j]
      <4> HIDE DEF Item
      <4>1. \A j \in 1..(m - 1) : g[j] = Item(g, j)
        BY <3>2
      <4>2. \A j \in 1..(m - 1) : j \in 1..m
        BY <2>2
      <4>3. QED
        BY <4>1, <4>2
    <3>4. \A i \in 1..m : i # 1 => i - 1 \in 1..(m - 1)
      BY <2>2
    <3>5. \A i \in 1..m : f[i] = Item(f, i)
      BY <3>3, <3>4
    <3>6. QED
      BY <2>2, <3>5
  <2>5. QED
    BY <2>3, <2>4
<1>2. PICK f : Is(f, n)
  BY <1>1
<1>3. f = [i \in 1..n |-> Item(f, i)]
  BY <1>2
<1>4. QED
  BY <1>3

\* What concatenation preserves, a loop preserves.
LEMMA RepeatStays ==
  ASSUME NEW S, \A s, t \in S : s \o t \in S, NEW steps \in S, NEW n \in Nat \ {0}
  PROVE  Connection!Repeat(steps, n) \in S
<1> DEFINE seqs == [i \in 1..n |-> steps]
           Is(f) == f = [i \in 1..n |-> IF i = 1 THEN seqs[i] ELSE f[i - 1] \o seqs[i]]
           flatten == CHOOSE f : Is(f)
<1>1. Len(seqs) = n /\ n # 0
  OBVIOUS
<1>2. Is(flatten)
  BY FlattenExists
<1> HIDE DEF flatten
<1>3. Connection!Repeat(steps, n) = flatten[n]
  BY <1>1 DEF Connection!Repeat, Connection!FlattenSeq, flatten
<1> DEFINE T == {i \in 1..n : flatten[i] \notin S}
<1>4. T = {}
  <2> SUFFICES ASSUME T # {} PROVE FALSE
    OBVIOUS
  <2>1. PICK i \in T : \A k \in T : i <= k
    <3>1. T \in SUBSET Nat
      OBVIOUS
    <3> HIDE DEF T
    <3>2. QED
      BY <3>1, Least
  <2>2. flatten[i] = IF i = 1 THEN steps ELSE flatten[i - 1] \o steps
    BY <1>2
  <2>3. i # 1 => i - 1 \in 1..n /\ i - 1 \notin T
    BY <2>1
  <2>4. QED
    BY <2>1, <2>2, <2>3
<1>5. QED
  BY <1>3, <1>4

\* A loop over any number of rows.
LEMMA RepeatScript ==
  ASSUME NEW steps, WholeScript(steps), NEW n \in Nat
  PROVE  WholeScript(Connection!Repeat(steps, n))
<1>1. CASE n = 0
  <2>1. Connection!Repeat(steps, n) = <<>>
    BY <1>1 DEF Connection!Repeat, Connection!FlattenSeq
  <2>2. QED
    BY <2>1 DEF WholeScript, InTurns
<1>2. CASE n # 0
  <2> DEFINE S == {s \in Seq(ScriptSteps) : WholeScript(s)}
  <2>1. \A s, t \in S : s \o t \in S
    BY ScriptConcat DEF WholeScript, InTurns
  <2>2. steps \in S
    BY DEF WholeScript, InTurns
  <2> HIDE DEF S
  <2>3. Connection!Repeat(steps, n) \in S
    BY <1>2, <2>1, <2>2, RepeatStays
  <2>4. QED
    BY <2>3 DEF S
<1>3. QED
  BY <1>1, <1>2

\* A transaction with any number of statements.
LEMMA TransactionScript ==
  ASSUME NEW n \in Nat
  PROVE  WholeScript(Connection!Transaction(n))
<1> DEFINE S == {s \in Seq(ScriptSteps) : \A i \in 1..Len(s) : s[i] = "inside"}
           r == Connection!Repeat(<<"inside">>, n)
<1>1. r \in S
  <2>1. CASE n = 0
    BY <2>1 DEF Connection!Repeat, Connection!FlattenSeq
  <2>2. CASE n # 0
    <3>1. ASSUME NEW s \in S, NEW t \in S
          PROVE  s \o t \in S
      <4>1. /\ s \in Seq(ScriptSteps) /\ t \in Seq(ScriptSteps)
            /\ \A i \in 1..Len(s) : s[i] = "inside"
            /\ \A i \in 1..Len(t) : t[i] = "inside"
        OBVIOUS
      <4>2. s \o t \in Seq(ScriptSteps) /\ Len(s \o t) = Len(s) + Len(t)
        BY <4>1
      <4>3. \A i \in 1..Len(s \o t) : (s \o t)[i] = "inside"
        BY <4>1, <4>2
      <4>4. QED
        BY <4>2, <4>3
    <3>2. <<"inside">> \in S
      BY DEF ScriptSteps
    <3> HIDE DEF S
    <3>3. QED
      BY <2>2, <3>1, <3>2, RepeatStays
  <2>3. QED
    BY <2>1, <2>2
<1> HIDE DEF r
<1>2. WholeScript(<<"open">> \o r \o <<"close">>)
  <2>1. r \in Seq(ScriptSteps) /\ \A i \in 1..Len(r) : r[i] = "inside"
    BY <1>1
  <2> DEFINE s == <<"open">> \o r \o <<"close">>
  <2>2. /\ s \in Seq(ScriptSteps) /\ Len(s) = Len(r) + 2 /\ s[1] = "open" /\ s[Len(s)] = "close"
        /\ \A i \in 2..(Len(r) + 1) : s[i] = "inside"
    BY <2>1 DEF ScriptSteps
  <2> HIDE DEF s
  <2>3. WholeScript(s)
    BY <2>1, <2>2 DEF WholeScript, InTurns, Frees, Takes
  <2>4. QED
    BY <2>3 DEF s
<1>3. QED
  BY <1>2 DEF r, Connection!Transaction

\* The ten operations.
LEMMA EveryScript ==
  ASSUME NEW operation \in {"PurgeBatch", "DeleteFolder", "RestoreBatch", "Lease", "RunPending",
                "Complete", "Delivery", "GalleryList", "Download", "LoadEnabled"}, NEW n \in Nat
  PROVE  WholeScript(Connection!Script(operation, n))
<1>1. WholeScript(Connection!Download) /\ WholeScript(Connection!Run)
  BY DEF Connection!Download, Connection!Run, WholeScript, InTurns, ScriptSteps, Frees, Takes
<1>2. WholeScript(Connection!ReadAll) /\ WholeScript(Connection!LoadEnabled)
  BY DEF Connection!ReadAll, Connection!LoadEnabled, WholeScript, InTurns, ScriptSteps, Frees, Takes
<1>3. WholeScript(<<"run">>) /\ WholeScript(<<"io">>) /\ WholeScript(<<"run", "io">>) /\ WholeScript(<<"run", "run">>)
  BY DEF WholeScript, InTurns, ScriptSteps, Frees, Takes
<1>4. WholeScript(Connection!PurgeFile)
  BY <1>3, TransactionScript, ScriptConcat DEF Connection!PurgeFile
<1>5. CASE operation = "PurgeBatch"
  BY <1>2, <1>3, <1>4, <1>5, RepeatScript, ScriptConcat DEF Connection!Script, Connection!PurgeBatch
<1>6. CASE operation = "DeleteFolder" \/ operation = "RestoreBatch"
  <2>1. 4 + 2 * n \in Nat /\ 3 + 2 * n \in Nat
    OBVIOUS
  <2>2. QED
    BY <1>6, <2>1, TransactionScript DEF Connection!Script, Connection!DeleteFolder, Connection!RestoreBatch
<1>7. CASE operation = "Lease"
  BY <1>3, <1>7, TransactionScript, ScriptConcat DEF Connection!Script, Connection!Lease
<1>8. CASE operation = "RunPending"
  BY <1>1, <1>2, <1>3, <1>8, RepeatScript, ScriptConcat DEF Connection!Script, Connection!RunPending
<1>9. CASE operation = "Complete"
  <2>1. WholeScript(<<"run", "run", "run", "io", "run", "run">>)
    BY DEF WholeScript, InTurns, ScriptSteps, Frees, Takes
  <2>2. QED
    BY <1>2, <1>3, <1>9, <2>1, RepeatScript, ScriptConcat DEF Connection!Script, Connection!Complete
<1>10. CASE operation = "Delivery"
  BY <1>2, <1>3, <1>10, TransactionScript, RepeatScript, ScriptConcat DEF Connection!Script, Connection!Delivery
<1>11. CASE operation = "GalleryList"
  BY <1>2, <1>3, <1>11, RepeatScript, ScriptConcat DEF Connection!Script, Connection!GalleryList
<1>12. CASE operation = "Download" \/ operation = "LoadEnabled"
  BY <1>1, <1>2, <1>12 DEF Connection!Script
<1>13. QED
  BY <1>5, <1>6, <1>7, <1>8, <1>9, <1>10, <1>11, <1>12

\* What is left of an orderly sequence is one, and says who has the connection.
LEMMA TailInTurns ==
  ASSUME NEW s, InTurns(s), s # <<>>
  PROVE  /\ s \in Seq(ScriptSteps) /\ Head(s) = s[1] /\ InTurns(Tail(s))
         /\ Tail(s) = <<>> => s[1] \in Frees
         /\ Tail(s) # <<>> => (s[1] \in Frees <=> Tail(s)[1] \in Takes)
<1>1. /\ s \in Seq(ScriptSteps) /\ Tail(s) \in Seq(ScriptSteps) /\ Len(Tail(s)) = Len(s) - 1 /\ Len(s) >= 1
      /\ \A i \in 1..Len(Tail(s)) : Tail(s)[i] = s[i + 1]
  BY DEF InTurns
<1>2. s[Len(s)] \in Frees /\ \A i \in 1..(Len(s) - 1) : s[i] \in Frees <=> s[i + 1] \in Takes
  BY DEF InTurns
<1> DEFINE t == Tail(s)
<1>3. Head(s) = s[1]
  BY <1>1
<1> HIDE DEF t
<1>4. /\ t \in Seq(ScriptSteps) /\ Len(t) = Len(s) - 1 /\ Len(s) \in Nat /\ Len(s) >= 1
      /\ \A i \in 1..Len(t) : t[i] = s[i + 1]
  BY <1>1 DEF t
<1>5. t # <<>> => Len(t) >= 1
  BY <1>4
<1>6. t # <<>> => t[Len(t)] = s[Len(s)]
  <2>1. Len(t) + 1 = Len(s)
    BY <1>4
  <2>2. QED
    BY <1>4, <1>5, <2>1
<1>7. \A i \in 1..(Len(t) - 1) : t[i] \in Frees <=> t[i + 1] \in Takes
  <2> SUFFICES ASSUME NEW i \in 1..(Len(t) - 1) PROVE t[i] \in Frees <=> t[i + 1] \in Takes
    OBVIOUS
  <2>1. /\ i \in 1..Len(t) /\ i + 1 \in 1..Len(t) /\ i + 1 \in 1..(Len(s) - 1)
    BY <1>4
  <2>2. t[i] = s[i + 1] /\ t[i + 1] = s[(i + 1) + 1]
    BY <1>4, <2>1
  <2>3. QED
    BY <1>2, <2>1, <2>2
<1>8. t # <<>> => t[1] = s[1 + 1] /\ 1 \in 1..(Len(s) - 1)
  BY <1>4, <1>5
<1>9. t = <<>> => Len(s) = 1
  BY <1>4
<1>10. QED
  BY <1>1, <1>2, <1>3, <1>4, <1>6, <1>7, <1>8, <1>9 DEF InTurns, t

\* Who keeps the connection will close what keeps it.
LEMMA ClosesLater ==
  ASSUME NEW s, InTurns(s), s # <<>>, s[1] \notin Takes
  PROVE  \E i \in 1..Len(s) : s[i] = "close"
<1>1. s \in Seq(ScriptSteps) /\ Len(s) \in Nat \ {0} /\ s[Len(s)] \in Frees
  BY DEF InTurns
<1> DEFINE T == {i \in 1..Len(s) : s[i] \in Frees}
<1>2. PICK i \in T : \A k \in T : i <= k
  <2>1. T \in SUBSET Nat /\ T # {}
    BY <1>1
  <2> HIDE DEF T
  <2>2. QED
    BY <2>1, Least
<1>3. i \in 1..Len(s) /\ s[i] \in Frees
  OBVIOUS
<1>4. s[i] \notin Takes
  <2>1. CASE i = 1
    BY <2>1
  <2>2. CASE i # 1
    <3>1. i - 1 \in 1..(Len(s) - 1) /\ i - 1 \notin T
      BY <1>1, <1>2, <1>3, <2>2
    <3>2. s[i - 1] \notin Frees
      BY <3>1, <1>1
    <3>3. s[i - 1] \in Frees <=> s[(i - 1) + 1] \in Takes
      BY <3>1 DEF InTurns
    <3>4. (i - 1) + 1 = i
      BY <1>1, <1>3
    <3>5. QED
      BY <3>2, <3>3, <3>4
  <2>3. QED
    BY <2>1, <2>2
<1>5. QED
  BY <1>3, <1>4 DEF Frees, Takes

\* The step before the next one has left the connection free if and only if the
\* caller does not have it.
Keeps(c) ==
  /\ InTurns(caller[c])
  /\ caller[c] = <<>> => conn # c
  /\ caller[c] # <<>> => (caller[c][1] \in Takes <=> conn # c)

PoolInv ==
  /\ caller \in [Callers -> Seq(ScriptSteps)]
  /\ conn \in Callers \cup {None}
  /\ \A c \in Callers : Keeps(c)

\* Nobody has begun.
LEMMA PoolStarts == Connection!Init => PoolInv
BY PoolAssumption DEF Connection!Init, PoolInv, Keeps, InTurns

\* A caller begins, does its next step, or fails and gives back what it has.
LEMMA PoolStep == PoolInv /\ [Connection!Next]_(Connection!vars) => PoolInv'
<1> SUFFICES ASSUME PoolInv, [Connection!Next]_(Connection!vars) PROVE PoolInv'
  OBVIOUS
<1>1. ASSUME NEW c \in Callers, NEW s, InTurns(s), caller' = [caller EXCEPT ![c] = s],
             conn' \in Callers \cup {None},
             \A d \in Callers \ {c} : conn' = d <=> conn = d,
             s = <<>> => conn' # c,
             s # <<>> => (s[1] \in Takes <=> conn' # c)
      PROVE  PoolInv'
  <2>1. caller' \in [Callers -> Seq(ScriptSteps)]
    BY <1>1 DEF PoolInv, InTurns
  <2>2. ASSUME NEW d \in Callers PROVE Keeps(d)'
    BY <1>1, <2>2 DEF PoolInv, Keeps
  <2>3. QED
    BY <1>1, <2>1, <2>2 DEF PoolInv
<1>2. ASSUME NEW c \in Callers, NEW operation \in Operations, NEW n \in 0..MaxItems,
             Connection!Begins(c, operation, n)
      PROVE  PoolInv'
  <2>1. WholeScript(Connection!Script(operation, n))
    BY EveryScript, PoolAssumption
  <2>2. conn # c /\ conn' = conn /\ caller' = [caller EXCEPT ![c] = Connection!Script(operation, n)]
    BY <1>2 DEF Connection!Begins, PoolInv, Keeps
  <2>3. QED
    BY <1>1, <2>1, <2>2 DEF PoolInv, WholeScript
<1>3. ASSUME NEW c \in Callers,
             \/ Connection!Runs(c) \/ Connection!Opens(c) \/ Connection!Inside(c)
             \/ Connection!CallsBackend(c) \/ Connection!Closes(c)
      PROVE  PoolInv'
  <2> DEFINE s == caller[c]
  <2>1. /\ s # <<>> /\ caller' = [caller EXCEPT ![c] = Tail(s)]
        /\ \/ Head(s) \in {"run", "io"} /\ conn' = conn
           \/ Head(s) = "open" /\ conn = None /\ conn' = c
           \/ Head(s) = "inside" /\ conn = c /\ conn' = c
           \/ Head(s) = "close" /\ conn = c /\ conn' = None
    BY <1>3 DEF Connection!Runs, Connection!Opens, Connection!Inside, Connection!CallsBackend, Connection!Closes,
                Connection!NextStep, Connection!Advance, PoolInv
  <2>2. /\ Keeps(c) /\ Head(s) = s[1] /\ InTurns(Tail(s))
        /\ Tail(s) = <<>> => s[1] \in Frees
        /\ Tail(s) # <<>> => (s[1] \in Frees <=> Tail(s)[1] \in Takes)
    BY <2>1, TailInTurns DEF PoolInv, Keeps
  <2>3. s[1] \in Frees <=> conn' # c
    BY <2>1, <2>2, PoolAssumption DEF Keeps, Frees, Takes
  <2>4. conn' \in Callers \cup {None} /\ \A d \in Callers \ {c} : conn' = d <=> conn = d
    BY <2>1, PoolAssumption DEF PoolInv
  <2>5. QED
    BY <1>1, <2>1, <2>2, <2>3, <2>4
<1>4. ASSUME NEW c \in Callers, Connection!Fails(c)
      PROVE  PoolInv'
  <2>1. InTurns(<<>>) /\ caller' = [caller EXCEPT ![c] = <<>>]
    BY <1>4 DEF Connection!Fails, InTurns
  <2>2. conn' \in Callers \cup {None} /\ conn' # c /\ \A d \in Callers \ {c} : conn' = d <=> conn = d
    BY <1>4, PoolAssumption DEF Connection!Fails, PoolInv
  <2>3. QED
    BY <1>1, <2>1, <2>2
<1>5. CASE UNCHANGED Connection!vars
  BY <1>5 DEF Connection!vars, PoolInv, Keeps
<1>6. QED
  BY <1>2, <1>3, <1>4, <1>5 DEF Connection!Next

\* Whoever has the connection has its Close before it.
LEMMA PoolTyped == PoolInv => Connection!TypeOK
<1> SUFFICES ASSUME PoolInv PROVE Connection!TypeOK
  OBVIOUS
<1>1. ASSUME conn # None
      PROVE  Connection!Contains(caller[conn], "close")
  <2>1. conn \in Callers /\ InTurns(caller[conn]) /\ caller[conn] # <<>> /\ caller[conn][1] \notin Takes
    BY <1>1 DEF PoolInv, Keeps
  <2>2. QED
    BY <2>1, ClosesLater DEF Connection!Contains
<1>2. ASSUME NEW c \in Callers
      PROVE  Connection!ToSet(caller[c]) \subseteq {"run", "open", "inside", "io", "close"}
  <2>1. caller[c] \in Seq(ScriptSteps)
    BY DEF PoolInv
  <2>2. QED
    BY <2>1 DEF Connection!ToSet, ScriptSteps
<1>3. QED
  BY <1>1, <1>2 DEF Connection!TypeOK, PoolInv

\* Who has the connection does not ask for it, and calls no backend.
LEMMA PoolSafe == PoolInv => Connection!NoSelfWait /\ Connection!FreeDuringIO
<1> SUFFICES ASSUME PoolInv, NEW c \in Callers, conn = c, caller[c] # <<>>
             PROVE  Head(caller[c]) \notin {"run", "open", "io"}
  BY DEF Connection!NoSelfWait, Connection!FreeDuringIO, Connection!NextStep
<1>1. Keeps(c) /\ Head(caller[c]) = caller[c][1]
  BY TailInTurns DEF PoolInv, Keeps
<1>2. QED
  BY <1>1 DEF Keeps, Takes

\* Every step of the server keeps it.
LEMMA PoolInvHolds == ServerSpec => []PoolInv
<1>1. ServerInit => PoolInv
  BY PoolStarts DEF ServerInit
<1>2. [ServerNext]_serverVars => [Connection!Next]_(Connection!vars)
  BY ServerStep DEF connectionVars, Connection!vars
<1>3. QED
  BY <1>1, <1>2, PoolStep, PTL DEF ServerSpec

\* The one connection of Open is never asked for by the call that has it: no
\* batch, transaction or loop of the ten operations waits for itself.
THEOREM NobodyWaitsForItself == ServerSpec => []NoSelfWait
<1>1. PoolInv => NoSelfWait
  BY PoolSafe DEF NoSelfWait
<1>2. QED
  BY <1>1, PoolInvHolds, PTL

\* No rows and no transaction are open while a backend or Telegram is called.
THEOREM BackendsKeepNoConnection == ServerSpec => []FreeDuringIO
<1>1. PoolInv => FreeDuringIO
  BY PoolSafe DEF FreeDuringIO
<1>2. QED
  BY <1>1, PoolInvHolds, PTL

----------------------------------------------------------------------------
(* Who may manage.                                                         *)

Managing == INSTANCE AccessProofs WITH admin <- owner

\* What Server says of its part Manage is what AccessProofs is about.
LEMMA ManageIsAccess ==
  /\ Manage!Init => Managing!Init
  /\ Manage!Next => Managing!Next
  /\ UNCHANGED manageVars => UNCHANGED Managing!vars
<1>1. Manage!Init => Managing!Init
  BY DEF Manage!Init, Managing!Init, Manage!NoSession, Managing!NoSession, Manage!NoFailures, Managing!NoFailures,
         Manage!Idle, Managing!Idle
<1>2. Manage!Next => Managing!Next
  BY DEF Manage!Next, Manage!StartInitialize, Manage!StartLogin, Manage!Admit, Manage!NewSession, Manage!AdmitVault,
         Manage!CreateVault, Manage!StartRecover, Manage!Initialize, Manage!Verify, Manage!RecordFailure,
         Manage!ClearFailures, Manage!VerifyOld, Manage!ChangePassword, Manage!Recover, Manage!RevokeVault,
         Manage!RequestStops, Manage!Revoke, Manage!SessionExpires, Manage!BlockEnds, Manage!Restart,
         Manage!Goto, Manage!Ends, Manage!Idle, Manage!Live, Manage!Without, Manage!Matches, Manage!Current,
         Manage!NoSession, Manage!NoFailures,
         Managing!Next, Managing!StartInitialize, Managing!StartLogin, Managing!Admit, Managing!NewSession,
         Managing!AdmitVault, Managing!CreateVault, Managing!StartRecover, Managing!Initialize, Managing!Verify,
         Managing!RecordFailure, Managing!ClearFailures, Managing!VerifyOld, Managing!ChangePassword, Managing!Recover,
         Managing!RevokeVault, Managing!RequestStops, Managing!Revoke, Managing!SessionExpires, Managing!BlockEnds,
         Managing!Restart, Managing!Goto, Managing!Ends, Managing!Idle, Managing!Live, Managing!Without,
         Managing!Matches, Managing!Current, Managing!NoSession, Managing!NoFailures
<1>3. UNCHANGED manageVars => UNCHANGED Managing!vars
  BY DEF manageVars, Managing!vars
<1>4. QED
  BY <1>1, <1>2, <1>3

\* The manager of the server behaves as Access says.
LEMMA ManageBehaves == ServerSpec => Managing!Spec
<1>1. ServerInit => Managing!Init
  BY ManageIsAccess DEF ServerInit
<1>2. [ServerNext]_serverVars => [Managing!Next]_(Managing!vars)
  BY ServerStep, ManageIsAccess
<1>3. QED
  BY <1>1, <1>2, PTL DEF ServerSpec, Managing!Spec

\* What the proofs of Access assume of its constants.
LEMMA AssumptionsOfAccess == Managing!Bounds /\ Managing!Distinct
<1>1. Managing!IsFiniteSet(Requests)
  BY ServerAssumption DEF IsFiniteSet, Managing!IsFiniteSet
<1>2. QED
  BY <1>1, ServerAssumption DEF Managing!Bounds, Managing!Distinct

\* A password that ChangePassword replaces and a vault that VaultService.Revoke
\* ends take their sessions with them, for any number of calls and accounts.
THEOREM SessionsFollow == ServerSpec => []SessionsFollowTheirSecret
<1>1. Managing!Spec => []Managing!SessionsFollowTheirSecret
  BY AssumptionsOfAccess, Managing!SecretsGovernSessions
<1>2. Managing!SessionsFollowTheirSecret => SessionsFollowTheirSecret
  BY DEF SessionsFollowTheirSecret, Manage!SessionsFollowTheirSecret, Managing!SessionsFollowTheirSecret,
         Manage!Live, Managing!Live
<1>3. QED
  BY <1>1, <1>2, ManageBehaves, PTL

\* The throttle of AdminService.Login lets no more wrong passwords through than
\* its limit and one for every other call in progress.
THEOREM GuessesStayBounded == ServerSpec => []GuessesBounded
<1>1. Cardinality(Requests) = Managing!Cardinality(Requests)
  BY DEF Cardinality, Managing!Cardinality
<1>2. Managing!Spec => []Managing!GuessesBounded(Managing!Cardinality(Requests))
  BY AssumptionsOfAccess, Managing!ThrottleBounds
<1>3. Managing!GuessesBounded(Managing!Cardinality(Requests)) => GuessesBounded
  BY <1>1 DEF GuessesBounded, Manage!GuessesBounded, Managing!GuessesBounded
<1>4. QED
  BY <1>2, <1>3, ManageBehaves, PTL

\* AdminService.Initialize makes one administrator, however many setups run.
THEOREM OneAdministrator == ServerSpec => FirstAccountStays
<1>1. Managing!Spec => Managing!FirstAccountStays
  BY AssumptionsOfAccess, Managing!FirstAccount
<1>2. Managing!FirstAccountStays <=> FirstAccountStays
  BY DEF FirstAccountStays, Manage!FirstAccountStays, Managing!FirstAccountStays, Manage!vars, Managing!vars
<1>3. QED
  BY <1>1, <1>2, ManageBehaves, PTL

----------------------------------------------------------------------------
(* Lists in pages.                                                         *)

Listings == INSTANCE ListingProofs WITH Files <- ListedFiles

\* What Server says of its part Paging is what ListingProofs is about.
LEMMA PagingIsListing ==
  /\ Paging!Init => Listings!Init
  /\ Paging!Next => Listings!Next
  /\ UNCHANGED pagingVars => UNCHANGED Listings!vars
<1>1. Paging!Init => Listings!Init
  BY DEF Paging!Init, Listings!Init, Paging!NoPage, Listings!NoPage
<1>2. \A S : Paging!Cardinality(S) = Listings!Cardinality(S)
  BY DEF Paging!Cardinality, Listings!Cardinality
<1>3. \A cursor, n : Paging!Batch(cursor, n) = Listings!Batch(cursor, n)
  BY <1>2 DEF Paging!Batch, Listings!Batch, Paging!InOrder, Listings!InOrder
<1>4. \A s : Paging!Last(s) = Listings!Last(s)
  BY DEF Paging!Last, Listings!Last
<1>5. Paging!Next => Listings!Next
  BY <1>3, <1>4
     DEF Paging!Next, Paging!Start, Paging!NextPage, Paging!Refuse, Paging!FilesPage, Paging!Enable,
         Paging!ListBatch, Paging!ResolveVisibility, Paging!WalkUp, Paging!GalleryPage, Paging!SetState,
         Paging!Purge, Paging!MoveFile, Paging!SetFileVisibility, Paging!MoveFolder, Paging!SetFolderVisibility,
         Paging!SetEnabled, Paging!Changed, Paging!Observe, Paging!Unobserved, Paging!Answer, Paging!Decided, Paging!Looked, Paging!VisibleIn,
         Paging!Listed, Paging!Shown, Paging!NoPage, Paging!Visibility,
         Listings!Next, Listings!Start, Listings!NextPage, Listings!Refuse, Listings!FilesPage, Listings!Enable,
         Listings!ListBatch, Listings!ResolveVisibility, Listings!WalkUp, Listings!GalleryPage, Listings!SetState,
         Listings!Purge, Listings!MoveFile, Listings!SetFileVisibility, Listings!MoveFolder,
         Listings!SetFolderVisibility, Listings!SetEnabled, Listings!Changed, Listings!Observe,
         Listings!Unobserved, Listings!Answer, Listings!Decided, Listings!Looked,
         Listings!VisibleIn, Listings!Listed, Listings!Shown,
         Listings!NoPage, Listings!Visibility
<1>6. UNCHANGED pagingVars => UNCHANGED Listings!vars
  BY DEF pagingVars, Listings!vars
<1>7. QED
  BY <1>1, <1>5, <1>6

\* Every step of the server keeps what ListingProofs has found.
LEMMA ListInvHolds == ServerSpec => []Listings!ListInv
<1>1. Listings!Bounds
  <2>1. Listings!IsFiniteSet(ListedFiles)
    BY PagingAssumption DEF IsFiniteSet, Listings!IsFiniteSet
  <2>2. QED
    BY <2>1, PagingAssumption DEF Listings!Bounds
<1>2. ServerInit => Listings!ListInv
  BY <1>1, PagingIsListing, Listings!ListStarts DEF ServerInit
<1>3. Listings!ListInv /\ [ServerNext]_serverVars => Listings!ListInv'
  <2>1. [ServerNext]_serverVars => [Listings!Next]_(Listings!vars)
    BY ServerStep, PagingIsListing
  <2>2. QED
    BY <1>1, <2>1, Listings!ListStep
<1>4. QED
  BY <1>2, <1>3, PTL DEF ServerSpec

\* What the invariant says, under the names of Server.
LEMMA ListSafeHere == Listings!ListInv => Paging!TypeOK /\ PagesAreWhole /\ ListedWasVisible
<1>1. Listings!Bounds
  <2>1. Listings!IsFiniteSet(ListedFiles)
    BY PagingAssumption DEF IsFiniteSet, Listings!IsFiniteSet
  <2>2. QED
    BY <2>1, PagingAssumption DEF Listings!Bounds
<1>2. Listings!TypeOK => Paging!TypeOK
  BY DEF Listings!TypeOK, Paging!TypeOK, Listings!Visibility, Paging!Visibility
<1>3. Listings!PagesAreWhole => PagesAreWhole
  BY DEF PagesAreWhole, Listings!PagesAreWhole, Paging!PagesAreWhole, Listings!Occurs, Paging!Occurs
<1>4. Listings!ListedWasVisible => ListedWasVisible
  BY DEF ListedWasVisible, Listings!ListedWasVisible, Paging!ListedWasVisible
<1>5. QED
  BY <1>1, <1>2, <1>3, <1>4, Listings!ListSafe

\* A client that follows the cursors to the end has no file twice, and has every
\* file that was to be listed all the time, for any number of files, any size of
\* the page and any number of changes; in the gallery, every such file but those
\* into whose own (last) walk up the folders two changes fell.
THEOREM PagingMissesNothing == ServerSpec => []PagesAreWhole
BY ListInvHolds, ListSafeHere, PTL

\* What stands on a page of the gallery was visible at some instant of its own
\* (last) walk up the folders, though no statement saw the whole tree, however
\* many changes fall into other walks or between them; not claimed for a file
\* into whose own walk two changes fell.
THEOREM GalleryShowsTheVisible == ServerSpec => []ListedWasVisible
BY ListInvHolds, ListSafeHere, PTL

----------------------------------------------------------------------------
(* Downloads.                                                              *)

Downloading == INSTANCE DownloadsProofs WITH
  MaxJobs <- MaxMigrations, Requests <- Purges, MaxRestarts <- 0, Pages <- {}, Passwords <- {},
  Sessions <- {}, restarts <- crashes, session <- guest

Gating == INSTANCE DownloadsProofs WITH
  MaxJobs <- 0, Requests <- Purges, MaxRestarts <- 0, Passwords <- PagePasswords,
  Sessions <- GuestSessions, restarts <- crashes, session <- guest

\* What Server says of its part Download is what DownloadsProofs is about.
LEMMA DownloadIsDownloads ==
  /\ Download!DownloadsInit => Downloading!DownloadsInit
  /\ Download!DownloadsNext => Downloading!DownloadsNext
  /\ UNCHANGED downloadVars => UNCHANGED <<Downloading!vars, Downloading!readVars>>
<1>1. Download!RunPending => Downloading!RunPending
  BY DEF Download!RunPending, Download!Recovered, Download!Picked, Download!Cardinality, Download!Jobs,
     Downloading!RunPending, Downloading!Recovered, Downloading!Picked, Downloading!Cardinality,
     Downloading!Jobs
<1>2. Download!Running => Downloading!Running
  BY <1>1 DEF Download!Running, Download!RunBegin, Download!RunLoad, Download!RunCopy, Download!RunPut,
     Download!RunFail, Download!RunPutUnanswered, Download!RunSwitch, Download!RunReject,
     Download!RunDeleteSource, Download!RunCleanupPending, Download!RunSucceed, Download!Stored,
     Download!Removed, Download!PutLocation, Download!MigrationKey, Download!MessageKey, Download!Whole,
     Download!At, Download!IdleRunner, Download!IdlePurger, Download!Jobs, Download!SetJob, Download!Finish,
     Download!NextJob, Downloading!Running, Downloading!RunBegin, Downloading!RunLoad, Downloading!RunCopy,
     Downloading!RunPut, Downloading!RunFail, Downloading!RunPutUnanswered, Downloading!RunSwitch,
     Downloading!RunReject, Downloading!RunDeleteSource, Downloading!RunCleanupPending,
     Downloading!RunSucceed, Downloading!Stored, Downloading!Removed, Downloading!PutLocation,
     Downloading!MigrationKey, Downloading!MessageKey, Downloading!Whole, Downloading!At,
     Downloading!IdleRunner, Downloading!IdlePurger, Downloading!Jobs, Downloading!SetJob, Downloading!Finish,
     Downloading!NextJob
<1>3. Download!StorageStep => Downloading!StorageStep
  <2>1. ASSUME NEW u \in Purges, Download!PurgeMark(u)
        PROVE  Downloading!PurgeMark(u)
    BY <2>1 DEF Download!PurgeMark, Download!IdlePurger, Downloading!PurgeMark, Downloading!IdlePurger
  <2>2. ASSUME NEW f, NEW p, Download!Start(f, p)
        PROVE  Downloading!Start(f, p)
    BY <2>2 DEF Download!Start, Download!Jobs, Downloading!Start, Downloading!Jobs
  <2>3. ASSUME NEW f, Download!DeleteFile(f) \/ Download!RestoreFile(f)
        PROVE  Downloading!DeleteFile(f) \/ Downloading!RestoreFile(f)
    BY <2>3 DEF Download!DeleteFile, Download!RestoreFile, Downloading!DeleteFile, Downloading!RestoreFile
  <2>4. ASSUME NEW u, (\E f \in Files : Download!PurgeRead(u, f)) \/ Download!PurgeDelete(u)
                        \/ Download!PurgeDeleteFails(u) \/ Download!PurgeAbandoned(u)
        PROVE  (\E f \in Files : Downloading!PurgeRead(u, f)) \/ Downloading!PurgeDelete(u)
                 \/ Downloading!PurgeDeleteFails(u) \/ Downloading!PurgeAbandoned(u)
    BY <2>4 DEF Download!PurgeRead, Download!PurgeDelete, Download!PurgeDeleteFails, Download!PurgeAbandoned,
       Download!Removed, Download!At, Download!IdlePurger, Downloading!PurgeRead, Downloading!PurgeDelete,
       Downloading!PurgeDeleteFails, Downloading!PurgeAbandoned, Downloading!Removed, Downloading!At,
       Downloading!IdlePurger
  <2>5. QED
    BY <1>2, <2>1, <2>2, <2>3, <2>4
       DEF Download!StorageStep, Downloading!StorageStep, Download!NoAnswer, Downloading!NoAnswer, Download!NoHeader, Downloading!NoHeader
<1>4. Download!DownloadsNext => Downloading!DownloadsNext
  BY <1>3 DEF Download!DownloadsNext, Download!Gates, Download!IdleCall, Download!NoSession, Download!NoHeader,
     Download!NoAnswer, Download!Ends, Download!Quiet, Download!StartSet, Download!StartSetPage,
     Download!SetPassword, Download!Login, Download!OpenSession, Download!SessionExpires,
     Download!StartAsAdmin, Download!StartDownload, Download!StartPage, Download!CheckSession,
     Download!GetFile, Download!CallStops, Download!Headers, Download!Parsed, Download!Ranged,
     Download!WholeObject, Download!OpenLocal, Download!OpenTelegram, Download!Opened, Download!Reply,
     Download!Served, Download!Download, Download!Preview, Download!PreviewDocx, Download!At, Download!vars, Download!Cardinality,
     Downloading!DownloadsNext, Downloading!Gates, Downloading!IdleCall, Downloading!NoSession,
     Downloading!NoHeader, Downloading!NoAnswer, Downloading!Ends, Downloading!Quiet, Downloading!StartSet,
     Downloading!StartSetPage, Downloading!SetPassword, Downloading!Login, Downloading!OpenSession,
     Downloading!SessionExpires, Downloading!StartAsAdmin, Downloading!StartDownload, Downloading!StartPage,
     Downloading!CheckSession, Downloading!GetFile, Downloading!CallStops, Downloading!Headers,
     Downloading!Parsed, Downloading!Ranged, Downloading!WholeObject, Downloading!OpenLocal,
     Downloading!OpenTelegram, Downloading!Opened, Downloading!Reply, Downloading!Served,
     Downloading!Download, Downloading!Preview, Downloading!PreviewDocx, Downloading!At, Downloading!vars, Downloading!Cardinality
<1>5. Download!DownloadsInit => Downloading!DownloadsInit
  BY DEF Download!DownloadsInit, Download!Init, Download!Jobs, Download!UploadKey, Download!Whole,
     Download!IdleRunner, Download!IdlePurger, Download!IdleCall, Download!NoSession, Download!NoHeader,
     Download!NoAnswer, Download!Gates, Downloading!DownloadsInit, Downloading!Init, Downloading!Jobs,
     Downloading!UploadKey, Downloading!Whole, Downloading!IdleRunner, Downloading!IdlePurger,
     Downloading!IdleCall, Downloading!NoSession, Downloading!NoHeader, Downloading!NoAnswer,
     Downloading!Gates
<1>6. UNCHANGED downloadVars => UNCHANGED <<Downloading!vars, Downloading!readVars>>
  BY DEF downloadVars, Downloading!vars, Downloading!readVars
<1>7. QED
  BY <1>4, <1>5, <1>6

\* The same of its part Gate, the file without migrations and the gallery.
LEMMA GateIsDownloads ==
  /\ Gate!DownloadsInit => Gating!DownloadsInit
  /\ Gate!DownloadsNext => Gating!DownloadsNext
  /\ UNCHANGED downloadVars => UNCHANGED <<Gating!vars, Gating!readVars>>
<1>1. Gate!RunPending => Gating!RunPending
  BY DEF Gate!RunPending, Gate!Recovered, Gate!Picked, Gate!Cardinality, Gate!Jobs, Gating!RunPending,
     Gating!Recovered, Gating!Picked, Gating!Cardinality, Gating!Jobs
<1>2. Gate!Running => Gating!Running
  BY <1>1 DEF Gate!Running, Gate!RunBegin, Gate!RunLoad, Gate!RunCopy, Gate!RunPut, Gate!RunFail,
     Gate!RunPutUnanswered, Gate!RunSwitch, Gate!RunReject, Gate!RunDeleteSource, Gate!RunCleanupPending,
     Gate!RunSucceed, Gate!Stored, Gate!Removed, Gate!PutLocation, Gate!MigrationKey, Gate!MessageKey,
     Gate!Whole, Gate!At, Gate!IdleRunner, Gate!IdlePurger, Gate!Jobs, Gate!SetJob, Gate!Finish, Gate!NextJob,
     Gating!Running, Gating!RunBegin, Gating!RunLoad, Gating!RunCopy, Gating!RunPut, Gating!RunFail,
     Gating!RunPutUnanswered, Gating!RunSwitch, Gating!RunReject, Gating!RunDeleteSource,
     Gating!RunCleanupPending, Gating!RunSucceed, Gating!Stored, Gating!Removed, Gating!PutLocation,
     Gating!MigrationKey, Gating!MessageKey, Gating!Whole, Gating!At, Gating!IdleRunner, Gating!IdlePurger,
     Gating!Jobs, Gating!SetJob, Gating!Finish, Gating!NextJob
<1>3. Gate!StorageStep => Gating!StorageStep
  <2>1. ASSUME NEW u \in Purges, Gate!PurgeMark(u)
        PROVE  Gating!PurgeMark(u)
    BY <2>1 DEF Gate!PurgeMark, Gate!IdlePurger, Gating!PurgeMark, Gating!IdlePurger
  <2>2. ASSUME NEW f, NEW p, Gate!Start(f, p)
        PROVE  Gating!Start(f, p)
    BY <2>2 DEF Gate!Start, Gate!Jobs, Gating!Start, Gating!Jobs
  <2>3. ASSUME NEW f, Gate!DeleteFile(f) \/ Gate!RestoreFile(f)
        PROVE  Gating!DeleteFile(f) \/ Gating!RestoreFile(f)
    BY <2>3 DEF Gate!DeleteFile, Gate!RestoreFile, Gating!DeleteFile, Gating!RestoreFile
  <2>4. ASSUME NEW u, (\E f \in Files : Gate!PurgeRead(u, f)) \/ Gate!PurgeDelete(u)
                        \/ Gate!PurgeDeleteFails(u) \/ Gate!PurgeAbandoned(u)
        PROVE  (\E f \in Files : Gating!PurgeRead(u, f)) \/ Gating!PurgeDelete(u)
                 \/ Gating!PurgeDeleteFails(u) \/ Gating!PurgeAbandoned(u)
    BY <2>4 DEF Gate!PurgeRead, Gate!PurgeDelete, Gate!PurgeDeleteFails, Gate!PurgeAbandoned, Gate!Removed, Gate!At,
       Gate!IdlePurger, Gating!PurgeRead, Gating!PurgeDelete, Gating!PurgeDeleteFails, Gating!PurgeAbandoned,
       Gating!Removed, Gating!At, Gating!IdlePurger
  <2>5. QED
    BY <1>2, <2>1, <2>2, <2>3, <2>4
       DEF Gate!StorageStep, Gating!StorageStep, Gate!NoAnswer, Gating!NoAnswer, Gate!NoHeader, Gating!NoHeader
<1>4. Gate!DownloadsNext => Gating!DownloadsNext
  BY <1>3 DEF Gate!DownloadsNext, Gate!Gates, Gate!IdleCall, Gate!NoSession, Gate!NoHeader, Gate!NoAnswer, Gate!Ends,
     Gate!Quiet, Gate!StartSet, Gate!StartSetPage, Gate!SetPassword, Gate!Login, Gate!OpenSession,
     Gate!SessionExpires, Gate!StartAsAdmin, Gate!StartDownload, Gate!StartPage, Gate!CheckSession,
     Gate!GetFile, Gate!CallStops, Gate!Headers, Gate!Parsed, Gate!Ranged, Gate!WholeObject, Gate!OpenLocal,
     Gate!OpenTelegram, Gate!Opened, Gate!Reply, Gate!Served, Gate!Download, Gate!Preview, Gate!PreviewDocx, Gate!At, Gate!vars,
     Gate!Cardinality, Gating!DownloadsNext, Gating!Gates, Gating!IdleCall, Gating!NoSession, Gating!NoHeader,
     Gating!NoAnswer, Gating!Ends, Gating!Quiet, Gating!StartSet, Gating!StartSetPage, Gating!SetPassword,
     Gating!Login, Gating!OpenSession, Gating!SessionExpires, Gating!StartAsAdmin, Gating!StartDownload,
     Gating!StartPage, Gating!CheckSession, Gating!GetFile, Gating!CallStops, Gating!Headers, Gating!Parsed,
     Gating!Ranged, Gating!WholeObject, Gating!OpenLocal, Gating!OpenTelegram, Gating!Opened, Gating!Reply,
     Gating!Served, Gating!Download, Gating!Preview, Gating!PreviewDocx, Gating!At, Gating!vars, Gating!Cardinality
<1>5. Gate!DownloadsInit => Gating!DownloadsInit
  BY DEF Gate!DownloadsInit, Gate!Init, Gate!Jobs, Gate!UploadKey, Gate!Whole, Gate!IdleRunner, Gate!IdlePurger,
     Gate!IdleCall, Gate!NoSession, Gate!NoHeader, Gate!NoAnswer, Gate!Gates, Gating!DownloadsInit,
     Gating!Init, Gating!Jobs, Gating!UploadKey, Gating!Whole, Gating!IdleRunner, Gating!IdlePurger,
     Gating!IdleCall, Gating!NoSession, Gating!NoHeader, Gating!NoAnswer, Gating!Gates
<1>6. UNCHANGED downloadVars => UNCHANGED <<Gating!vars, Gating!readVars>>
  BY DEF downloadVars, Gating!vars, Gating!readVars
<1>7. QED
  BY <1>4, <1>5, <1>6

\* What the proofs of downloads assume of their constants.
LEMMA DownloadingAssumptions ==
  Downloading!FileStorageAssumption /\ Downloading!KeysAssumption /\ Downloading!Bounds
BY DownloadsAssumption
   DEF Downloading!FileStorageAssumption, Downloading!KeysAssumption, Downloading!Bounds,
       Downloading!SessionRows, Downloading!Gates, Downloading!Locations, Downloading!Keys, Downloading!Jobs,
       Download!Locations, Download!Keys, Download!Jobs, Gate!Gates

\* The same, with fewer keys: no migration makes one.
LEMMA GatingAssumptions ==
  Gating!FileStorageAssumption /\ Gating!KeysAssumption /\ Gating!Bounds
<1>1. Gating!Jobs \subseteq Download!Jobs
  BY DownloadsAssumption DEF Gating!Jobs, Download!Jobs
<1>2. Gating!Keys \subseteq Download!Keys
  BY <1>1 DEF Gating!Keys, Download!Keys
<1>3. Gating!Locations \subseteq Download!Locations
  BY <1>2 DEF Gating!Locations, Download!Locations
<1>4. QED
  BY <1>2, <1>3, DownloadsAssumption
     DEF Gating!FileStorageAssumption, Gating!KeysAssumption, Gating!Bounds, Gating!SessionRows,
         Gating!Gates, Gate!Gates

\* A part that downloads keeps what DownloadsProofs has found.
DownloadInv == part = "download" => Downloading!DInv
GateInv == part = "gate" => Gating!DInv

\* Every step of the server keeps it, first without passwords.
LEMMA DownloadInvHolds == ServerSpec => []DownloadInv
<1>1. ServerInit => DownloadInv
  BY DownloadIsDownloads, DownloadingAssumptions, Downloading!InitDownloads DEF ServerInit, DownloadInv
<1>2. DownloadInv /\ [ServerNext]_serverVars => DownloadInv'
  <2> SUFFICES ASSUME DownloadInv, [ServerNext]_serverVars, part' = "download"
               PROVE  Downloading!DInv'
    BY DEF DownloadInv
  <2>1. part = "download" /\ Downloading!DInv
    BY ServerStep DEF DownloadInv
  <2>2. Downloading!DownloadsNext \/ UNCHANGED <<Downloading!vars, Downloading!readVars>>
    BY <2>1, ServerStep, DownloadIsDownloads
  <2>3. QED
    BY <2>1, <2>2, DownloadingAssumptions, Downloading!DownloadsStep
<1>3. QED
  BY <1>1, <1>2, PTL DEF ServerSpec

\* ... then with them.
LEMMA GateInvHolds == ServerSpec => []GateInv
<1>1. ServerInit => GateInv
  BY GateIsDownloads, GatingAssumptions, Gating!InitDownloads DEF ServerInit, GateInv
<1>2. GateInv /\ [ServerNext]_serverVars => GateInv'
  <2> SUFFICES ASSUME GateInv, [ServerNext]_serverVars, part' = "gate"
               PROVE  Gating!DInv'
    BY DEF GateInv
  <2>1. part = "gate" /\ Gating!DInv
    BY ServerStep DEF GateInv
  <2>2. Gating!DownloadsNext \/ UNCHANGED <<Gating!vars, Gating!readVars>>
    BY <2>1, ServerStep, GateIsDownloads
  <2>3. QED
    BY <2>1, <2>2, GatingAssumptions, Gating!DownloadsStep
<1>3. QED
  BY <1>1, <1>2, PTL DEF ServerSpec

\* A client that downloads or previews a file gets exactly the bytes that it
\* asked for, or the text of the whole document when it previews a DOCX, whatever
\* is migrated, purged or given a password meanwhile.
THEOREM ServesExactBytes == ServerSpec => []ServedIsExact
<1>1. DownloadInv /\ GateInv => ServedIsExact
  BY DEF DownloadInv, GateInv, ServedIsExact, Downloading!DInv, Gating!DInv,
         Download!ServedIsExact, Downloading!ServedIsExact, Gate!ServedIsExact, Gating!ServedIsExact,
         Download!Cardinality, Downloading!Cardinality, Gate!Cardinality, Gating!Cardinality
<1>2. QED
  BY <1>1, DownloadInvHolds, GateInvHolds, PTL

\* A download that finds no object has read its row before a migration's switch,
\* or a purge has asked for the bytes.
THEOREM ExplainsWhatIsMissing == ServerSpec => []MissingIsExplained
<1>1. DownloadInv /\ GateInv => MissingIsExplained
  BY DEF DownloadInv, GateInv, MissingIsExplained, Downloading!DInv, Gating!DInv,
         Download!MissingIsExplained, Downloading!MissingIsExplained, Gate!MissingIsExplained,
         Gating!MissingIsExplained, Download!At, Downloading!At, Gate!At, Gating!At
<1>2. QED
  BY <1>1, DownloadInvHolds, GateInvHolds, PTL

\* AuthorizeRequest and RequireScope let a guest past a password only with a
\* session that was opened with a password of the same gate.
THEOREM AdmitsGuests == ServerSpec => []GuestsKnewThePassword
<1>1. GateInv => GuestsKnewThePassword
  BY DEF GateInv, GuestsKnewThePassword, Gating!DInv, Gate!GuestsKnewThePassword, Gating!GuestsKnewThePassword
<1>2. QED
  BY <1>1, GateInvHolds, PTL

----------------------------------------------------------------------------
(* The shapes of all parts.                                                *)

\* Every part keeps the shape of its state, and whoever has the connection will
\* give it back.
THEOREM PartsKeepShape == ServerSpec => []PartsTypeOK
<1>1. Managing!Spec => []Managing!SInv
  BY AssumptionsOfAccess, Managing!SInvHolds
<1>2. Managing!SInv => Manage!TypeOK
  BY DEF Managing!SInv, Managing!TypeOK, Manage!TypeOK
<1>3. HookInv => Hook!TypeOK
  BY DEF HookInv
<1>4. DataInv => Data!TypeOK
  BY DEF DataInv
<1>5. DownloadInv /\ part = "download" => Download!DownloadsTypeOK
  <2>1. Downloading!DInv => Downloading!DownloadsTypeOK
    BY DownloadingAssumptions, Downloading!DownloadsTyped
  <2>2. Downloading!DownloadsTypeOK => Download!DownloadsTypeOK
    BY DEF Downloading!DownloadsTypeOK, Download!DownloadsTypeOK, Downloading!Gates, Download!Gates
  <2>3. QED
    BY <2>1, <2>2 DEF DownloadInv
<1>6. GateInv /\ part = "gate" => Gate!DownloadsTypeOK
  <2>1. Gating!DInv => Gating!DownloadsTypeOK
    BY GatingAssumptions, Gating!DownloadsTyped
  <2>2. Gating!DownloadsTypeOK => Gate!DownloadsTypeOK
    BY DEF Gating!DownloadsTypeOK, Gate!DownloadsTypeOK, Gating!Gates, Gate!Gates
  <2>3. QED
    BY <2>1, <2>2 DEF GateInv
<1>7. /\ Managing!SInv /\ HookInv /\ DataInv /\ Listings!ListInv /\ DownloadInv /\ GateInv /\ PoolInv
      => PartsTypeOK
  BY <1>2, <1>3, <1>4, <1>5, <1>6, ListSafeHere, PoolTyped DEF PartsTypeOK
<1>8. QED
  BY <1>1, <1>7, ManageBehaves, HookInvHolds, DataInvHolds, ListInvHolds, DownloadInvHolds, GateInvHolds,
     PoolInvHolds, PTL

=============================================================================
