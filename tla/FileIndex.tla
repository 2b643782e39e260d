----------------------------- MODULE FileIndex ------------------------------
(***************************************************************************)
(* What the storage of files promises to whoever looks at a file only: it   *)
(* is active, trashed or purged, and its bytes are there or are not.        *)
(* Migrations do not occur: they are invisible.  Bytes are lost only to a   *)
(* purge, which begins while the file is in the trash.                      *)
(***************************************************************************)
CONSTANT Files

VARIABLES
  state,    \* of every file: "active", "trashed" or "purged"
  present,  \* the files whose bytes are where the index says they are
  doomed    \* the files that a purge has in hand, or had

vars == <<state, present, doomed>>

Init ==
  /\ state = [f \in Files |-> "active"]
  /\ present = Files
  /\ doomed = {}

Delete(f) ==
  /\ state[f] = "active"
  /\ state' = [state EXCEPT ![f] = "trashed"]
  /\ UNCHANGED <<present, doomed>>

Restore(f) ==
  /\ state[f] = "trashed"
  /\ state' = [state EXCEPT ![f] = "active"]
  /\ UNCHANGED <<present, doomed>>

\* A purge takes up a file of the trash.
Doom(f) ==
  /\ state[f] = "trashed"
  /\ doomed' = doomed \cup {f}
  /\ UNCHANGED <<state, present>>

\* It gives up, before or after the bytes are lost.
Spare(f) ==
  /\ f \in doomed
  /\ doomed' = doomed \ {f}
  /\ UNCHANGED <<state, present>>

Lose(f) ==
  /\ f \in doomed
  /\ present' = present \ {f}
  /\ UNCHANGED <<state, doomed>>

\* A copy that was under way takes the place of lost bytes.
Rescue(f) ==
  /\ state[f] = "active"
  /\ f \in doomed
  /\ present' = present \cup {f}
  /\ UNCHANGED <<state, doomed>>

\* The file is purged, in whatever state it is by now.
Purge(f) ==
  /\ f \in doomed
  /\ state' = [state EXCEPT ![f] = "purged"]
  /\ present' = present \ {f}
  /\ UNCHANGED doomed

Next ==
  \E f \in Files :
    Delete(f) \/ Restore(f) \/ Doom(f) \/ Spare(f) \/ Lose(f) \/ Rescue(f) \/ Purge(f)

Spec == Init /\ [][Next]_vars

=============================================================================
