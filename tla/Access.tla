------------------------------- MODULE Access -------------------------------
(***************************************************************************)
(* Who may manage: the administrator's account and password (settings), the *)
(* sessions they and the guests' recovery keys open, and the throttle that   *)
(* counts wrong passwords in memory.                                        *)
(*                                                                         *)
(* Every HTTP call is a process that runs one SQL statement or transaction,  *)
(* or one section under the throttle's mutex, per step; hashing a password  *)
(* takes most of a call's time and lies between two of its steps.  CSRF      *)
(* tokens, API tokens and the passwords of scopes and files are left out.   *)
(***************************************************************************)
EXTENDS Naturals

CONSTANTS
  Requests,     \* the HTTP calls in progress at once
  Sessions,     \* rows of sessions (a bound)
  Accounts,     \* account names
  Passwords,    \* passwords
  Vaults,       \* guest vaults, each with its recovery key
  MaxFailures,  \* wrong passwords until an account is blocked: 5 in the code
  None

VARIABLES
  admin,     \* settings admin.account and admin.password_hash, or None
  vault,     \* guest_vaults
  session,   \* sessions
  failures,  \* AdminService.failures
  request,   \* every HTTP call in progress
  guesses    \* history: wrong passwords tried since the throttle last let go

vars == <<admin, vault, session, failures, request, guesses>>

Idle == [pc |-> "idle", kind |-> None, of |-> None, with |-> None, new |-> None]

NoFailures == [count |-> 0, blocked |-> FALSE]

NoSession == [state |-> "none", kind |-> None, of |-> None, with |-> None, late |-> FALSE]

Init ==
  /\ admin = None
  /\ vault = [v \in Vaults |-> "none"]
  /\ session = [s \in Sessions |-> NoSession]
  /\ failures = [a \in Accounts |-> NoFailures]
  /\ request = [r \in Requests |-> Idle]
  /\ guesses = [a \in Accounts |-> 0]

Goto(r, label) == request' = [request EXCEPT ![r].pc = label]

Ends(r) == request' = [request EXCEPT ![r] = Idle]

\* A live session is one that AdminActor or VaultActor finds.
Live(s, kind) == session[s].state = "live" /\ session[s].kind = kind

\* The rows of sessions without those of a kind and an actor.
Without(kind, of) ==
  [s \in Sessions |->
     IF session[s].kind = kind /\ session[s].of = of THEN NoSession ELSE session[s]]

----------------------------------------------------------------------------
(* AdminService.Initialize: a check, then the transaction.                 *)

StartInitialize(r, account, password) ==
  /\ request[r].pc = "idle"
  /\ admin = None
  /\ request' = [request EXCEPT ![r] =
       [pc |-> "initializing", kind |-> "admin", of |-> account, with |-> password, new |-> None]]
  /\ UNCHANGED <<admin, vault, session, failures, guesses>>

\* A bug for TLC to find: the insert takes the place of what is there.
Initialize_Upsert(r) ==
  /\ request[r].pc = "initializing"
  /\ admin' = [account |-> request[r].of, password |-> request[r].with]
  /\ Ends(r)
  /\ UNCHANGED <<vault, session, failures, guesses>>

Initialize(r) ==
  /\ request[r].pc = "initializing"
  /\ admin' = IF admin = None
                THEN [account |-> request[r].of, password |-> request[r].with]
                ELSE admin
  /\ Ends(r)
  /\ UNCHANGED <<vault, session, failures, guesses>>

----------------------------------------------------------------------------
(* AdminService.Login.                                                     *)

\* A bug for TLC to find: a blocked account may go on trying.
StartLogin_Blocked(r, account, password) ==
  /\ request[r].pc = "idle"
  /\ request' = [request EXCEPT ![r] =
       [pc |-> "verifying", kind |-> "admin", of |-> account, with |-> password, new |-> None]]
  /\ UNCHANGED <<admin, vault, session, failures, guesses>>

StartLogin(r, account, password) ==
  /\ request[r].pc = "idle"
  /\ ~ failures[account].blocked
  /\ request' = [request EXCEPT ![r] =
       [pc |-> "verifying", kind |-> "admin", of |-> account, with |-> password, new |-> None]]
  /\ UNCHANGED <<admin, vault, session, failures, guesses>>

Matches(r) == admin.account = request[r].of /\ admin.password = request[r].with

\* SELECT both settings and compare; without them the call ends.
Verify(r) ==
  /\ request[r].pc = "verifying"
  /\ IF admin = None
       THEN Ends(r) /\ UNCHANGED guesses
       ELSE /\ Goto(r, IF Matches(r) THEN "verified" ELSE "refused")
            /\ guesses' = IF Matches(r) THEN guesses
                          ELSE [guesses EXCEPT ![request[r].of] = @ + 1]
  /\ UNCHANGED <<admin, vault, session, failures>>

RecordFailure(r) ==
  LET account == request[r].of
      count == failures[account].count + 1
  IN  /\ request[r].pc = "refused"
      /\ failures' = [failures EXCEPT ![account] =
                        IF count >= MaxFailures
                          THEN [count |-> 0, blocked |-> TRUE]
                          ELSE [count |-> count, blocked |-> @.blocked]]
      /\ Ends(r)
      /\ UNCHANGED <<admin, vault, session, guesses>>

ClearFailures(r) ==
  /\ request[r].pc = "verified"
  /\ failures' = [failures EXCEPT ![request[r].of] = NoFailures]
  /\ guesses' = [guesses EXCEPT ![request[r].of] = 0]
  /\ Goto(r, "opening")
  /\ UNCHANGED <<admin, vault, session>>

\* The secret a login was checked against, as it is now.
Current(r) ==
  IF request[r].kind = "admin"
    THEN admin.password = request[r].with
    ELSE vault[request[r].of] = "active"

\* INSERT, whatever has become of the secret since it was read: late says that
\* it has changed.
NewSession(r, s) ==
  /\ request[r].pc = "opening"
  /\ session[s].state = "none"
  /\ session' = [session EXCEPT ![s] =
       [state |-> "live", kind |-> request[r].kind, of |-> request[r].of,
        with |-> request[r].with, late |-> ~ Current(r)]]
  /\ Ends(r)
  /\ UNCHANGED <<admin, vault, failures, guesses>>

----------------------------------------------------------------------------
(* AdminService.ChangePassword behind RequireAdmin, and the logout.        *)

Admit(r, s, old, new) ==
  /\ request[r].pc = "idle"
  /\ Live(s, "admin")
  /\ request' = [request EXCEPT ![r] =
       [pc |-> "admitted", kind |-> "admin", of |-> session[s].of, with |-> old, new |-> new]]
  /\ UNCHANGED <<admin, vault, session, failures, guesses>>

VerifyOld(r) ==
  /\ request[r].pc = "admitted"
  /\ IF admin.password = request[r].with THEN Goto(r, "changing") ELSE Ends(r)
  /\ UNCHANGED <<admin, vault, session, failures, guesses>>

\* A bug for TLC to find: the old sessions stay.
ChangePassword_KeepSessions(r) ==
  /\ request[r].pc = "changing"
  /\ admin' = [account |-> admin.account, password |-> request[r].new]
  /\ Ends(r)
  /\ UNCHANGED <<vault, session, failures, guesses>>

\* UPDATE and DELETE in one transaction; the hash is not read again.
ChangePassword(r) ==
  /\ request[r].pc = "changing"
  /\ admin' = [account |-> admin.account, password |-> request[r].new]
  /\ session' = Without("admin", admin.account)
  /\ Ends(r)
  /\ UNCHANGED <<vault, failures, guesses>>

Revoke(s) ==
  /\ Live(s, "admin")
  /\ session' = [session EXCEPT ![s] = NoSession]
  /\ UNCHANGED <<admin, vault, failures, request, guesses>>

----------------------------------------------------------------------------
(* VaultService: the recovery key opens sessions until it is revoked.      *)

\* The handler goes on to Recover with the new key.
CreateVault(r, v) ==
  /\ request[r].pc = "idle"
  /\ vault[v] = "none"
  /\ vault' = [vault EXCEPT ![v] = "active"]
  /\ request' = [request EXCEPT ![r] =
       [pc |-> "recovering", kind |-> "vault", of |-> v, with |-> None, new |-> None]]
  /\ UNCHANGED <<admin, session, failures, guesses>>

StartRecover(r, v) ==
  /\ request[r].pc = "idle"
  /\ request' = [request EXCEPT ![r] =
       [pc |-> "recovering", kind |-> "vault", of |-> v, with |-> None, new |-> None]]
  /\ UNCHANGED <<admin, vault, session, failures, guesses>>

Recover(r) ==
  /\ request[r].pc = "recovering"
  /\ IF vault[request[r].of] = "active" THEN Goto(r, "opening") ELSE Ends(r)
  /\ UNCHANGED <<admin, vault, session, failures, guesses>>

AdmitVault(r, s) ==
  /\ request[r].pc = "idle"
  /\ Live(s, "vault")
  /\ request' = [request EXCEPT ![r] =
       [pc |-> "revoking", kind |-> "vault", of |-> session[s].of, with |-> None, new |-> None]]
  /\ UNCHANGED <<admin, vault, session, failures, guesses>>

RevokeVault(r) ==
  /\ request[r].pc = "revoking"
  /\ vault' = [vault EXCEPT ![request[r].of] = "revoked"]
  /\ session' = Without("vault", request[r].of)
  /\ Ends(r)
  /\ UNCHANGED <<admin, failures, guesses>>

----------------------------------------------------------------------------
(* Time, hang-ups and restarts.                                            *)

SessionExpires(s) ==
  /\ session[s].state = "live"
  /\ session' = [session EXCEPT ![s] = NoSession]
  /\ UNCHANGED <<admin, vault, failures, request, guesses>>

\* The minute is over; the failures counted since go on counting.
BlockEnds(a) ==
  /\ failures[a].blocked
  /\ failures' = [failures EXCEPT ![a].blocked = FALSE]
  /\ guesses' = [guesses EXCEPT ![a] = 0]
  /\ UNCHANGED <<admin, vault, session, request>>

\* A statement fails, or the client is gone.  What follows a comparison in
\* memory is not held up by either.
RequestStops(r) ==
  /\ request[r].pc \notin {"idle", "refused", "verified"}
  /\ Ends(r)
  /\ UNCHANGED <<admin, vault, session, failures, guesses>>

Restart ==
  /\ failures' = [a \in Accounts |-> NoFailures]
  /\ guesses' = [a \in Accounts |-> 0]
  /\ request' = [r \in Requests |-> Idle]
  /\ UNCHANGED <<admin, vault, session>>

Next ==
  \/ \E r \in Requests :
       \/ \E a \in Accounts, p \in Passwords : StartInitialize(r, a, p) \/ StartLogin(r, a, p)
       \/ \E s \in Sessions, p, q \in Passwords : Admit(r, s, p, q)
       \/ \E s \in Sessions : NewSession(r, s) \/ AdmitVault(r, s)
       \/ \E v \in Vaults : CreateVault(r, v) \/ StartRecover(r, v)
       \/ Initialize(r) \/ Verify(r) \/ RecordFailure(r) \/ ClearFailures(r)
       \/ VerifyOld(r) \/ ChangePassword(r) \/ Recover(r) \/ RevokeVault(r)
       \/ RequestStops(r)
  \/ \E s \in Sessions : Revoke(s) \/ SessionExpires(s)
  \/ \E a \in Accounts : BlockEnds(a)
  \/ Restart

Spec == Init /\ [][Next]_vars

----------------------------------------------------------------------------
(* Properties.                                                             *)

TypeOK ==
  /\ admin \in [account : Accounts, password : Passwords] \cup {None}
  /\ vault \in [Vaults -> {"none", "active", "revoked"}]
  /\ session \in [Sessions -> [state : {"none", "live"}, kind : {"admin", "vault", None},
                               of : Accounts \cup Vaults \cup {None},
                               with : Passwords \cup {None}, late : BOOLEAN]]
  /\ failures \in [Accounts -> [count : 0..MaxFailures, blocked : BOOLEAN]]
  /\ request \in [Requests ->
       [pc : {"idle", "initializing", "verifying", "refused", "verified", "opening",
              "admitted", "changing", "recovering", "revoking"},
        kind : {"admin", "vault", None}, of : Accounts \cup Vaults \cup {None},
        with : Passwords \cup {None}, new : Passwords \cup {None}]]

\* Setups that run at the same time make one administrator: an account that has
\* been stored is never replaced, and its password only by ChangePassword.
FirstAccountStays ==
  [][admin # None =>
       /\ admin'.account = admin.account
       /\ admin'.password # admin.password =>
            \E r \in Requests : request[r].pc = "changing" /\ request[r].new = admin'.password]_vars

\* A change of the password ends every session of the old one, and revoking a
\* vault ends its sessions, except those whose login had read the secret before
\* the change and is written after it.
SessionsFollowTheirSecret ==
  \A s \in Sessions :
    /\ Live(s, "admin") /\ ~ session[s].late => session[s].with = admin.password
    /\ Live(s, "vault") /\ ~ session[s].late => vault[session[s].of] = "active"

\* However logins overlap, an account is not tried with more wrong passwords
\* than the limit and one for every other call in progress, before the block
\* ends or the right password is given.
GuessesBounded(n) == \A a \in Accounts : guesses[a] <= MaxFailures + n - 1

=============================================================================
