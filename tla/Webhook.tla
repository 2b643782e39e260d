------------------------------ MODULE Webhook -------------------------------
(***************************************************************************)
(* The Telegram webhook: a document posted in the channel becomes a file,   *)
(* and the bot replies to the post with its link.  Telegram delivers a post  *)
(* until a delivery is answered with 200, also side by side, and again when  *)
(* that answer is lost.  Meanwhile the file may go to the trash and be       *)
(* purged, which keeps the row that recognises the post.                    *)
(***************************************************************************)
EXTENDS Naturals, FiniteSets

CONSTANTS
  Posts,       \* posts in the channel
  Documents,   \* those that carry a document, a video or an audio
  Files,       \* public ids
  Deliveries,  \* the calls of the webhook in progress at once
  None

VARIABLES
  post,      \* what Telegram has still to deliver
  message,   \* telegram_messages: the file of every post with a row, or "null"
  file,      \* the files made here: state, and (history) the post it is of
  delivery,  \* every call of the webhook in progress
  replies    \* history: the replies that reached each post

vars == <<post, message, file, delivery, replies>>

Idle == [pc |-> "idle", post |-> None, file |-> None]

Init ==
  /\ post = [m \in Posts |-> "none"]
  /\ message = [m \in Posts |-> None]
  /\ file = [f \in Files |-> [state |-> "none", post |-> None]]
  /\ delivery = [d \in Deliveries |-> Idle]
  /\ replies = [m \in Posts |-> 0]

Goto(d, label) == delivery' = [delivery EXCEPT ![d].pc = label]

----------------------------------------------------------------------------
(* Telegram.                                                               *)

Publish(m) ==
  /\ post[m] = "none"
  /\ post' = [post EXCEPT ![m] = "pending"]
  /\ UNCHANGED <<message, file, delivery, replies>>

Deliver(d, m) ==
  /\ delivery[d].pc = "idle"
  /\ post[m] = "pending"
  /\ delivery' = [delivery EXCEPT ![d] = [pc |-> "resolving", post |-> m, file |-> None]]
  /\ UNCHANGED <<post, message, file, replies>>

\* The 200 arrives.
Acknowledge(d) ==
  /\ delivery[d].pc = "answering"
  /\ post' = [post EXCEPT ![delivery[d].post] = "acknowledged"]
  /\ delivery' = [delivery EXCEPT ![d] = Idle]
  /\ UNCHANGED <<message, file, replies>>

\* The call is answered with an error, or not at all: a statement fails, the
\* answer is lost, the process dies.
DeliveryFails(d) ==
  /\ delivery[d].pc # "idle"
  /\ delivery' = [delivery EXCEPT ![d] = Idle]
  /\ UNCHANGED <<post, message, file, replies>>

----------------------------------------------------------------------------
(* ServeHTTP and Ingest.                                                   *)

\* The profile is found and the secret is right; what is not a document is
\* never accepted.
Resolve(d) ==
  /\ delivery[d].pc = "resolving"
  /\ delivery[d].post \in Documents
  /\ Goto(d, "inserting")
  /\ UNCHANGED <<post, message, file, replies>>

\* A bug for TLC to find: a post that is recognised is replied to all the same.
Recognise_Reply(d) ==
  /\ delivery[d].pc = "inserting"
  /\ message[delivery[d].post] # None
  /\ Goto(d, "replying")
  /\ UNCHANGED <<post, message, file, replies>>

\* The transaction finds the row of the post: nothing to do.
Recognise(d) ==
  /\ delivery[d].pc = "inserting"
  /\ message[delivery[d].post] # None
  /\ Goto(d, "answering")
  /\ UNCHANGED <<post, message, file, replies>>

\* A bug for TLC to find: the row of the post is committed before the file.
Insert_MessageFirst(d, f) ==
  /\ delivery[d].pc = "inserting"
  /\ \/ /\ message[delivery[d].post] = None
        /\ file[f].state = "none"
        /\ message' = [message EXCEPT ![delivery[d].post] = f]
        /\ delivery' = [delivery EXCEPT ![d].file = f]
        /\ UNCHANGED file
     \/ /\ delivery[d].file = f
        /\ file' = [file EXCEPT ![f] = [state |-> "active", post |-> delivery[d].post]]
        /\ Goto(d, "replying")
        /\ UNCHANGED message
  /\ UNCHANGED <<post, replies>>

\* The file and the row of the post, in one transaction.
Insert(d, f) ==
  /\ delivery[d].pc = "inserting"
  /\ message[delivery[d].post] = None
  /\ file[f].state = "none"
  /\ file' = [file EXCEPT ![f] = [state |-> "active", post |-> delivery[d].post]]
  /\ message' = [message EXCEPT ![delivery[d].post] = f]
  /\ delivery' = [delivery EXCEPT ![d] =
                    [pc |-> "replying", post |-> @.post, file |-> f]]
  /\ UNCHANGED <<post, replies>>

\* SendMessage: the reply arrives, and the call knows it or not.  A reply that
\* does not arrive is a failed delivery.
Reply(d) ==
  /\ delivery[d].pc = "replying"
  /\ replies' = [replies EXCEPT ![delivery[d].post] = @ + 1]
  /\ \/ Goto(d, "answering")
     \/ delivery' = [delivery EXCEPT ![d] = Idle]
  /\ UNCHANGED <<post, message, file>>

----------------------------------------------------------------------------
(* The life of the files.                                                  *)

Trash(f) ==
  /\ file[f].state = "active"
  /\ file' = [file EXCEPT ![f].state = "trashed"]
  /\ UNCHANGED <<post, message, delivery, replies>>

Restore(f) ==
  /\ file[f].state = "trashed"
  /\ file' = [file EXCEPT ![f].state = "active"]
  /\ UNCHANGED <<post, message, delivery, replies>>

\* A bug for TLC to find: the purge deletes the row of the post.
Purge_DeleteMessage(f) ==
  /\ file[f].state = "trashed"
  /\ file' = [file EXCEPT ![f].state = "purged"]
  /\ message' = [m \in Posts |-> IF message[m] = f THEN None ELSE message[m]]
  /\ UNCHANGED <<post, delivery, replies>>

\* The transaction at the end of PurgeFile.
Purge(f) ==
  /\ file[f].state = "trashed"
  /\ file' = [file EXCEPT ![f].state = "purged"]
  /\ message' = [m \in Posts |-> IF message[m] = f THEN "null" ELSE message[m]]
  /\ UNCHANGED <<post, delivery, replies>>

Next ==
  \/ \E m \in Posts : Publish(m) \/ \E d \in Deliveries : Deliver(d, m)
  \/ \E d \in Deliveries :
       \/ Acknowledge(d) \/ DeliveryFails(d)
       \/ Resolve(d) \/ Recognise(d) \/ Reply(d)
       \/ \E f \in Files : Insert(d, f)
  \/ \E f \in Files : Trash(f) \/ Restore(f) \/ Purge(f)

Spec == Init /\ [][Next]_vars

----------------------------------------------------------------------------
(* Properties.                                                             *)

TypeOK ==
  /\ post \in [Posts -> {"none", "pending", "acknowledged"}]
  /\ message \in [Posts -> Files \cup {"null", None}]
  /\ file \in [Files -> [state : {"none", "active", "trashed", "purged"},
                         post : Posts \cup {None}]]
  /\ delivery \in [Deliveries ->
       [pc : {"idle", "resolving", "inserting", "replying", "answering"},
        post : Posts \cup {None}, file : Files \cup {None}]]
  /\ replies \in [Posts -> Nat]

\* However often and at whatever time a post is delivered, even after its file
\* was purged, it makes one file.
OnePostOneFile ==
  \A f, g \in Files :
    file[f].state # "none" /\ file[f].post = file[g].post => f = g

\* The channel sees at most one reply to a post, whatever is delivered again
\* because a call failed after the reply had arrived.
AtMostOneReply == \A m \in Posts : replies[m] <= 1

\* A post that Telegram will not deliver again has its file, or had it until
\* somebody purged it.
AcknowledgedIsIndexed ==
  \A m \in Posts : post[m] = "acknowledged" => \E f \in Files : file[f].post = m

=============================================================================
