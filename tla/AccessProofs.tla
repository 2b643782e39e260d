---------------------------- MODULE AccessProofs ----------------------------
(***************************************************************************)
(* Sessions and the throttle, for any number of calls, sessions, accounts,  *)
(* passwords and vaults.                                                    *)
(*                                                                         *)
(* Sessions: a call that is about to open an administrator's session has    *)
(* compared its account with the one that is stored, and that account is    *)
(* never replaced (Acting); so the DELETE of ChangePassword, which names the  *)
(* account, misses none, and what is inserted later says that it is late.   *)
(*                                                                         *)
(* Throttle: every wrong password is recorded, or its call is one of those   *)
(* in progress (Throttled); no more of them begin while an account is        *)
(* blocked, and those in progress are no more than there are calls.         *)
(***************************************************************************)
EXTENDS Access, FiniteSets, FiniteSetTheorems, TLAPS

Bounds == MaxFailures \in Nat \ {0} /\ IsFiniteSet(Requests)

\* The settings are there or they are not, and no call is of the kind None.
Distinct == None \notin [account : Accounts, password : Passwords] /\ None # "vault"

\* What a call knows where it stands, and whose account it is.
ActingFor(c) ==
  /\ c.pc \in {"initializing", "verifying", "refused", "verified"} => c.of \in Accounts /\ c.kind = "admin"
  /\ c.pc = "initializing" => c.with \in Passwords
  /\ c.pc \in {"admitted", "changing"} => admin # None /\ c.new \in Passwords
  /\ c.pc \in {"verified", "opening"} /\ c.kind = "admin" => admin # None /\ c.of = admin.account
  /\ c.pc \in {"recovering", "revoking"} => c.kind = "vault"
  /\ c.kind = "vault" => c.of \in Vaults

Acting == \A r \in Requests : ActingFor(request[r])

OwnSessions ==
  \A s \in Sessions : /\ Live(s, "admin") => admin # None /\ session[s].of = admin.account
                      /\ Live(s, "vault") => session[s].of \in Vaults

SInv == TypeOK /\ Acting /\ OwnSessions /\ SessionsFollowTheirSecret

\* Before the first setup there is neither an account nor a session.
LEMMA SInvInit == ASSUME Bounds, Distinct PROVE Init => SInv
BY DEF Bounds, Distinct, Init, SInv, TypeOK, Acting, ActingFor, OwnSessions, SessionsFollowTheirSecret, Live, Idle, NoFailures, NoSession

\* A call as the table of calls in progress has it.
Calls ==
  [pc : {"idle", "initializing", "verifying", "refused", "verified", "opening",
         "admitted", "changing", "recovering", "revoking"},
   kind : {"admin", "vault", None}, of : Accounts \cup Vaults \cup {None},
   with : Passwords \cup {None}, new : Passwords \cup {None}]

SessionRows ==
  [state : {"none", "live"}, kind : {"admin", "vault", None}, of : Accounts \cup Vaults \cup {None},
   with : Passwords \cup {None}, late : BOOLEAN]

\* A step keeps the other calls, and one call goes on, ends or begins.
LEMMA CallStep ==
  ASSUME TypeOK, Acting, Next
  PROVE  request' \in [Requests -> Calls]
<1> USE DEF Ends, Goto
<1>1. request \in [Requests -> Calls]
  BY DEF TypeOK, Calls
<1>2. \A r \in Requests : \A pc \in {"refused", "verified", "opening", "changing"} :
        [request[r] EXCEPT !.pc = pc] \in Calls
  BY <1>1 DEF Calls
<1>3. Idle \in Calls
  BY DEF Idle, Calls
<1>4. CASE \E r \in Requests, c \in Calls : request' = [request EXCEPT ![r] = c]
  BY <1>1, <1>4
<1>5. CASE \E r \in Requests : \E a \in Accounts, p \in Passwords : StartInitialize(r, a, p) \/ StartLogin(r, a, p)
  BY <1>1, <1>5 DEF StartInitialize, StartLogin, Calls
<1>6. CASE \E r \in Requests : \E s \in Sessions, p, q \in Passwords : Admit(r, s, p, q)
  <2>1. \A s \in Sessions : session[s].of \in Accounts \cup Vaults \cup {None}
    BY DEF TypeOK
  <2>2. QED
    BY <1>1, <1>6, <2>1 DEF Admit, Calls
<1>7. CASE \E r \in Requests : \E s \in Sessions : NewSession(r, s)
  BY <1>3, <1>4, <1>7 DEF NewSession
<1>8. CASE \E r \in Requests : \E s \in Sessions : AdmitVault(r, s)
  <2>1. \A s \in Sessions : session[s].of \in Accounts \cup Vaults \cup {None}
    BY DEF TypeOK
  <2>2. QED
    BY <1>1, <1>8, <2>1 DEF AdmitVault, Calls
<1>9. CASE \E r \in Requests : \E v \in Vaults : CreateVault(r, v) \/ StartRecover(r, v)
  BY <1>1, <1>9 DEF CreateVault, StartRecover, Calls
<1>10. CASE \E r \in Requests : \/ Initialize(r) \/ RecordFailure(r) \/ ChangePassword(r) \/ RevokeVault(r)
                                \/ RequestStops(r)
  BY <1>3, <1>4, <1>10 DEF Initialize, RecordFailure, ChangePassword, RevokeVault, RequestStops
<1>11. CASE \E r \in Requests : Verify(r) \/ ClearFailures(r) \/ VerifyOld(r) \/ Recover(r)
  <2> PICK r \in Requests : Verify(r) \/ ClearFailures(r) \/ VerifyOld(r) \/ Recover(r)
    BY <1>11
  <2>1. \/ request' = [request EXCEPT ![r] = Idle]
        \/ \E pc \in {"refused", "verified", "opening", "changing"} : request' = [request EXCEPT ![r].pc = pc]
    BY DEF Verify, ClearFailures, VerifyOld, Recover
  <2>2. QED
    BY <1>1, <1>2, <1>3, <2>1
<1>12. CASE (\E s \in Sessions : Revoke(s) \/ SessionExpires(s)) \/ (\E a \in Accounts : BlockEnds(a)) \/ Restart
  BY <1>1, <1>3, <1>12 DEF Revoke, SessionExpires, BlockEnds, Restart
<1>13. QED
  BY <1>5, <1>6, <1>7, <1>8, <1>9, <1>10, <1>11, <1>12 DEF Next

\* No step breaks the shape of what is stored.
LEMMA TypeStep ==
  ASSUME Bounds, TypeOK, Acting, Next
  PROVE  TypeOK'
<1>1. request' \in [Requests -> Calls]
  BY CallStep
<1>2. session' \in [Sessions -> SessionRows]
  <2>1. session \in [Sessions -> SessionRows]
    BY DEF TypeOK, SessionRows
  <2>2. NoSession \in SessionRows
    BY DEF NoSession, SessionRows
  <2>3. CASE UNCHANGED session
    BY <2>1, <2>3
  <2>4. CASE \E s \in Sessions : Revoke(s) \/ SessionExpires(s)
    BY <2>1, <2>2, <2>4 DEF Revoke, SessionExpires
  <2>5. CASE \E r \in Requests : ChangePassword(r) \/ RevokeVault(r)
    BY <2>1, <2>2, <2>5 DEF ChangePassword, RevokeVault, Without
  <2>6. CASE \E r \in Requests, s \in Sessions : NewSession(r, s)
    <3> PICK r \in Requests, s \in Sessions : NewSession(r, s)
      BY <2>6
    <3>1. request[r].kind \in {"admin", "vault", None} /\ request[r].of \in Accounts \cup Vaults \cup {None}
          /\ request[r].with \in Passwords \cup {None}
      BY DEF TypeOK
    <3>2. (~ Current(r)) \in BOOLEAN
      BY DEF Current
    <3>3. [state |-> "live", kind |-> request[r].kind, of |-> request[r].of,
           with |-> request[r].with, late |-> ~ Current(r)] \in SessionRows
      BY <3>1, <3>2 DEF SessionRows
    <3>4. QED
      BY <2>1, <3>3 DEF NewSession
  <2>7. UNCHANGED session \/ (\E s \in Sessions : Revoke(s) \/ SessionExpires(s))
        \/ (\E r \in Requests : ChangePassword(r) \/ RevokeVault(r))
        \/ (\E r \in Requests, s \in Sessions : NewSession(r, s))
    BY DEF Next, StartInitialize, StartLogin, Admit, AdmitVault, CreateVault, StartRecover, Initialize, Verify,
           RecordFailure, ClearFailures, VerifyOld, Recover, RequestStops, BlockEnds, Restart
  <2>8. QED
    BY <2>3, <2>4, <2>5, <2>6, <2>7
<1>3. admin' \in [account : Accounts, password : Passwords] \cup {None} /\ vault' \in [Vaults -> {"none", "active", "revoked"}]
  <2>1. CASE UNCHANGED <<admin, vault>>
    BY <2>1 DEF TypeOK
  <2>2. CASE \E r \in Requests : Initialize(r) \/ ChangePassword(r) \/ RevokeVault(r)
    BY <2>2 DEF Initialize, ChangePassword, RevokeVault, TypeOK, Acting, ActingFor
  <2>3. CASE \E r \in Requests, v \in Vaults : CreateVault(r, v)
    BY <2>3 DEF CreateVault, TypeOK
  <2>4. UNCHANGED <<admin, vault>> \/ (\E r \in Requests : Initialize(r) \/ ChangePassword(r) \/ RevokeVault(r))
        \/ (\E r \in Requests, v \in Vaults : CreateVault(r, v))
    BY DEF Next, StartInitialize, StartLogin, Admit, AdmitVault, StartRecover, Verify, NewSession,
           RecordFailure, ClearFailures, VerifyOld, Recover, RequestStops, BlockEnds, Restart, Revoke, SessionExpires
  <2>5. QED
    BY <2>1, <2>2, <2>3, <2>4
<1>4. failures' \in [Accounts -> [count : 0..MaxFailures, blocked : BOOLEAN]]
  <2>1. failures \in [Accounts -> [count : 0..MaxFailures, blocked : BOOLEAN]]
    BY DEF TypeOK
  <2>2. NoFailures \in [count : 0..MaxFailures, blocked : BOOLEAN]
    BY DEF NoFailures, Bounds
  <2>3. CASE UNCHANGED failures
    BY <2>1, <2>3
  <2>4. CASE (\E r \in Requests : ClearFailures(r)) \/ (\E a \in Accounts : BlockEnds(a)) \/ Restart
    BY <2>1, <2>2, <2>4 DEF ClearFailures, BlockEnds, Restart
  <2>5. CASE \E r \in Requests : RecordFailure(r)
    <3> PICK r \in Requests : RecordFailure(r)
      BY <2>5
    <3>1. request[r].of \in Accounts /\ failures[request[r].of].count \in 0..MaxFailures
          /\ failures[request[r].of].blocked \in BOOLEAN
      BY <2>1 DEF RecordFailure, Acting, ActingFor
    <3>2. [count |-> 0, blocked |-> TRUE] \in [count : 0..MaxFailures, blocked : BOOLEAN]
      BY DEF Bounds
    <3>3. failures[request[r].of].count + 1 < MaxFailures =>
            [count |-> failures[request[r].of].count + 1, blocked |-> failures[request[r].of].blocked]
               \in [count : 0..MaxFailures, blocked : BOOLEAN]
      BY <3>1 DEF Bounds
    <3>4. failures[request[r].of].count + 1 >= MaxFailures \/ failures[request[r].of].count + 1 < MaxFailures
      BY <3>1 DEF Bounds
    <3>5. QED
      BY <2>1, <3>1, <3>2, <3>3, <3>4 DEF RecordFailure
  <2>6. UNCHANGED failures \/ (\E r \in Requests : ClearFailures(r) \/ RecordFailure(r))
        \/ (\E a \in Accounts : BlockEnds(a)) \/ Restart
    BY DEF Next, StartInitialize, StartLogin, Admit, AdmitVault, CreateVault, StartRecover, Initialize, Verify,
           NewSession, VerifyOld, ChangePassword, Recover, RevokeVault, RequestStops, Revoke, SessionExpires
  <2>7. QED
    BY <2>3, <2>4, <2>5, <2>6
<1>5. QED
  BY <1>1, <1>2, <1>3, <1>4 DEF TypeOK, Calls, SessionRows

\* The account is stored once and for all.
LEMMA AccountStays ==
  ASSUME Distinct, TypeOK, Acting, Next, admin # None
  PROVE  admin' # None /\ admin'.account = admin.account
<1>1. CASE \E r \in Requests : ChangePassword(r)
  <2>1. PICK r \in Requests : ChangePassword(r)
    BY <1>1
  <2>2. request[r].new \in Passwords /\ admin.account \in Accounts
    BY <2>1 DEF ChangePassword, Acting, ActingFor, TypeOK
  <2>3. QED
    BY <2>1, <2>2 DEF ChangePassword, Distinct
<1>2. CASE UNCHANGED admin
  BY <1>2
<1>3. UNCHANGED admin \/ (\E r \in Requests : ChangePassword(r))
  BY DEF Next, StartInitialize, StartLogin, Admit, AdmitVault, CreateVault, StartRecover, Initialize, Verify,
         RecordFailure, ClearFailures, NewSession, VerifyOld, Recover, RevokeVault, RequestStops, Revoke, SessionExpires,
         BlockEnds, Restart
<1>4. QED
  BY <1>1, <1>2, <1>3

\* A call that has compared its account keeps to the one that is stored.
LEMMA ActingStep ==
  ASSUME Distinct, TypeOK, Acting, OwnSessions, Next
  PROVE  Acting'
<1> USE DEF Goto, Ends
<1>1. ASSUME NEW c, ActingFor(c)
      PROVE  ActingFor(c)'
  BY <1>1, AccountStays DEF ActingFor
<1>2. ActingFor(Idle)'
  BY DEF ActingFor, Idle, Distinct
<1>3. \A r \in Requests : ActingFor(request[r])
  BY DEF Acting
<1>4. ASSUME NEW r \in Requests, NEW c, request' = [request EXCEPT ![r] = c], ActingFor(c)'
      PROVE  Acting'
  <2>1. \A q \in Requests : request'[q] = IF q = r THEN c ELSE request[q]
    BY <1>4 DEF TypeOK
  <2>2. ASSUME NEW q \in Requests
        PROVE  ActingFor(request[q])'
    <3>1. CASE q = r
      BY <1>4, <2>1, <3>1 DEF ActingFor
    <3>2. CASE q # r
      BY <1>1, <1>3, <2>1, <3>2 DEF ActingFor
    <3>3. QED
      BY <3>1, <3>2
  <2>3. QED
    BY <2>2 DEF Acting
<1>5. CASE \E r \in Requests : \/ Initialize(r) \/ RecordFailure(r) \/ ChangePassword(r) \/ RevokeVault(r)
                               \/ RequestStops(r) \/ \E s \in Sessions : NewSession(r, s)
  BY <1>2, <1>4, <1>5 DEF Initialize, RecordFailure, ChangePassword, RevokeVault, RequestStops, NewSession
<1>6. CASE \E r \in Requests, a \in Accounts, p \in Passwords : StartInitialize(r, a, p) \/ StartLogin(r, a, p)
  <2> PICK r \in Requests, a \in Accounts, p \in Passwords : StartInitialize(r, a, p) \/ StartLogin(r, a, p)
    BY <1>6
  <2>1. PICK pc \in {"initializing", "verifying"} :
          request' = [request EXCEPT ![r] = [pc |-> pc, kind |-> "admin", of |-> a, with |-> p, new |-> None]]
    BY DEF StartInitialize, StartLogin
  <2>2. ActingFor([pc |-> pc, kind |-> "admin", of |-> a, with |-> p, new |-> None])'
    BY <2>1 DEF ActingFor
  <2>3. QED
    BY <1>4, <2>1, <2>2
<1>7. CASE \E r \in Requests, s \in Sessions, p, q \in Passwords : Admit(r, s, p, q)
  <2> PICK r \in Requests, s \in Sessions, p \in Passwords, q \in Passwords : Admit(r, s, p, q)
    BY <1>7
  <2> DEFINE c == [pc |-> "admitted", kind |-> "admin", of |-> session[s].of, with |-> p, new |-> q]
  <2>1. ActingFor(c)
    BY DEF ActingFor, Admit, OwnSessions
  <2>2. PICK d : d = c
    OBVIOUS
  <2>3. ActingFor(d)'
    BY <1>1, <2>1, <2>2
  <2>4. request' = [request EXCEPT ![r] = d]
    BY <2>2 DEF Admit
  <2>5. QED
    BY <1>4, <2>3, <2>4
<1>8. CASE \E r \in Requests, s \in Sessions : AdmitVault(r, s)
  <2> PICK r \in Requests, s \in Sessions : AdmitVault(r, s)
    BY <1>8
  <2> PICK v : v = session[s].of
    OBVIOUS
  <2>1. v \in Vaults
    BY DEF AdmitVault, OwnSessions
  <2>2. ActingFor([pc |-> "revoking", kind |-> "vault", of |-> v, with |-> None, new |-> None])'
    BY <2>1 DEF ActingFor
  <2>3. QED
    BY <1>4, <2>2 DEF AdmitVault
<1>9. CASE \E r \in Requests, v \in Vaults : CreateVault(r, v) \/ StartRecover(r, v)
  <2> PICK r \in Requests, v \in Vaults : CreateVault(r, v) \/ StartRecover(r, v)
    BY <1>9
  <2>1. ActingFor([pc |-> "recovering", kind |-> "vault", of |-> v, with |-> None, new |-> None])'
    BY DEF ActingFor
  <2>2. QED
    BY <1>4, <2>1 DEF CreateVault, StartRecover
<1>10. CASE \E r \in Requests : Verify(r) \/ ClearFailures(r) \/ VerifyOld(r) \/ Recover(r)
  <2> PICK r \in Requests : Verify(r) \/ ClearFailures(r) \/ VerifyOld(r) \/ Recover(r)
    BY <1>10
  <2>1. CASE request' = [request EXCEPT ![r] = Idle]
    BY <1>2, <1>4, <2>1
  <2>2. ASSUME NEW pc \in {"refused", "verified", "opening", "changing"}, request' = [request EXCEPT ![r].pc = pc],
               ActingFor([request[r] EXCEPT !.pc = pc])
        PROVE  Acting'
    <3>1. PICK d : d = [request[r] EXCEPT !.pc = pc]
      OBVIOUS
    <3>2. ActingFor(d)' /\ request' = [request EXCEPT ![r] = d]
      BY <1>1, <2>2, <3>1
    <3>3. QED
      BY <1>4, <3>2
  <2>3. CASE request' # [request EXCEPT ![r] = Idle]
    <3>1. PICK pc \in {"refused", "verified", "opening", "changing"} : request' = [request EXCEPT ![r].pc = pc]
      BY <2>3 DEF Verify, ClearFailures, VerifyOld, Recover
    <3>2. request[r] \in Calls
      BY DEF TypeOK, Calls
    <3>3. [request[r] EXCEPT !.pc = pc].pc = pc /\ request'[r].pc = pc
      BY <3>1, <3>2 DEF Calls, TypeOK
    <3>4. ActingFor([request[r] EXCEPT !.pc = pc])
      <4> PICK c : c = request[r]
        OBVIOUS
      <4>1. ActingFor(c) /\ c \in Calls
        BY <1>3, <3>2
      <4>2. \/ c.pc = "verifying" /\ pc = "refused"
            \/ c.pc = "verifying" /\ pc = "verified" /\ admin # None /\ c.of = admin.account
            \/ c.pc = "verified" /\ pc = "opening"
            \/ c.pc = "admitted" /\ pc = "changing"
            \/ c.pc = "recovering" /\ pc = "opening"
        <5>1. \A l \in {"refused", "verified", "opening", "changing"} : Goto(r, l) => pc = l
          BY <3>2, <3>3 DEF Calls, TypeOK
        <5>2. CASE Verify(r)
          BY <2>3, <5>1, <5>2 DEF Verify, Matches
        <5>3. CASE ClearFailures(r)
          BY <5>1, <5>3 DEF ClearFailures
        <5>4. CASE VerifyOld(r)
          BY <2>3, <5>1, <5>4 DEF VerifyOld
        <5>5. CASE Recover(r)
          BY <2>3, <5>1, <5>5 DEF Recover
        <5>6. QED
          BY <5>2, <5>3, <5>4, <5>5
      <4>3. QED
        BY <4>1, <4>2 DEF Calls, ActingFor
    <3>5. QED
      BY <2>2, <3>1, <3>4
  <2>4. QED
    BY <2>1, <2>3
<1>11. CASE UNCHANGED request \/ Restart
  <2>1. \A r \in Requests : request'[r] = request[r] \/ request'[r] = Idle
    BY <1>11 DEF Restart
  <2>2. ASSUME NEW r \in Requests
        PROVE  ActingFor(request[r])'
    BY <1>1, <1>2, <1>3, <2>1 DEF ActingFor
  <2>3. QED
    BY <2>2 DEF Acting
<1>12. CASE (\E s \in Sessions : Revoke(s) \/ SessionExpires(s)) \/ (\E a \in Accounts : BlockEnds(a))
  BY <1>11, <1>12 DEF Revoke, SessionExpires, BlockEnds
<1>13. QED
  BY <1>5, <1>6, <1>7, <1>8, <1>9, <1>10, <1>11, <1>12 DEF Next

\* Sessions come from logins only; every other step leaves or deletes them.
LEMMA SessionsOnlyFromLogins ==
  ASSUME TypeOK, Next
  PROVE  \/ \E r \in Requests, s \in Sessions : NewSession(r, s)
         \/ \A s \in Sessions : session'[s] = session[s] \/ session'[s].state = "none"
<1>1. CASE \E s \in Sessions : Revoke(s) \/ SessionExpires(s)
  BY <1>1 DEF Revoke, SessionExpires, NoSession, TypeOK
<1>2. CASE \E r \in Requests : ChangePassword(r) \/ RevokeVault(r)
  BY <1>2 DEF ChangePassword, RevokeVault, Without, NoSession
<1>3. CASE UNCHANGED session
  BY <1>3
<1>4. \/ \E r \in Requests, s \in Sessions : NewSession(r, s)
      \/ \E s \in Sessions : Revoke(s) \/ SessionExpires(s)
      \/ \E r \in Requests : ChangePassword(r) \/ RevokeVault(r)
      \/ UNCHANGED session
  BY DEF Next, StartInitialize, StartLogin, Admit, AdmitVault, CreateVault, StartRecover, Initialize, Verify,
         RecordFailure, ClearFailures, VerifyOld, Recover, RequestStops, BlockEnds, Restart
<1>5. QED
  BY <1>1, <1>2, <1>3, <1>4

\* An administrator's session is of the account that is stored.
LEMMA OwnSessionsStep ==
  ASSUME Distinct, TypeOK, Acting, OwnSessions, Next
  PROVE  OwnSessions'
<1>1. \A s \in Sessions : session'[s] = session[s] => (Live(s, "admin") => admin' # None /\ session'[s].of = admin'.account)
  BY AccountStays DEF OwnSessions
<1>2. CASE \E r \in Requests, s \in Sessions : NewSession(r, s)
  <2> PICK r \in Requests, s \in Sessions : NewSession(r, s)
    BY <1>2
  <2>1. \A t \in Sessions : t # s => session'[t] = session[t]
    BY DEF NewSession, TypeOK
  <2>2. session'[s].kind = request[r].kind /\ session'[s].of = request[r].of /\ request[r].pc = "opening" /\ UNCHANGED admin
    BY DEF NewSession, TypeOK
  <2>3. ActingFor(request[r])
    BY DEF Acting
  <2>4. QED
    BY <2>1, <2>2, <2>3 DEF OwnSessions, Live, ActingFor
<1>3. CASE \A s \in Sessions : session'[s] = session[s] \/ session'[s].state = "none"
  BY <1>1, <1>3 DEF OwnSessions, Live
<1>4. CASE ~ (\E r \in Requests, s \in Sessions : NewSession(r, s))
  <2>1. \A s \in Sessions : session'[s] = session[s] \/ session'[s].state = "none"
    BY <1>4, SessionsOnlyFromLogins
  <2>2. QED
    BY <1>3, <2>1
<1>5. QED
  BY <1>2, <1>4

\* What is inserted is late or current, and what changes a secret deletes every
\* session that was opened with it.
LEMMA SecretsStep ==
  ASSUME Distinct, TypeOK, Acting, OwnSessions, SessionsFollowTheirSecret, Next
  PROVE  SessionsFollowTheirSecret'
<1>1. CASE \E r \in Requests, s \in Sessions : NewSession(r, s)
  <2> PICK r \in Requests, s \in Sessions : NewSession(r, s)
    BY <1>1
  <2>1. \A t \in Sessions : t # s => session'[t] = session[t]
    BY DEF NewSession, TypeOK
  <2>2. /\ session'[s].kind = request[r].kind /\ session'[s].of = request[r].of /\ session'[s].with = request[r].with
        /\ session'[s].late = ~ Current(r) /\ UNCHANGED <<admin, vault>>
    BY DEF NewSession, TypeOK
  <2>3. QED
    BY <2>1, <2>2 DEF SessionsFollowTheirSecret, Live, Current
<1>2. CASE \E r \in Requests : ChangePassword(r)
  <2>1. \A s \in Sessions : session'[s].state = "live" => session'[s] = session[s] /\ ~ Live(s, "admin")
    BY <1>2 DEF ChangePassword, Without, NoSession, OwnSessions, Live
  <2>2. UNCHANGED vault
    BY <1>2 DEF ChangePassword
  <2>3. QED
    BY <2>1, <2>2 DEF SessionsFollowTheirSecret, Live
<1>3. CASE \E r \in Requests : RevokeVault(r)
  <2> PICK r \in Requests : RevokeVault(r)
    BY <1>3
  <2>1. \A s \in Sessions : session'[s].state = "live" =>
          session'[s] = session[s] /\ ~ (session[s].kind = "vault" /\ session[s].of = request[r].of)
    BY DEF RevokeVault, Without, NoSession
  <2>2. UNCHANGED admin /\ \A v \in Vaults : v # request[r].of => vault'[v] = vault[v]
    BY DEF RevokeVault, TypeOK
  <2>3. QED
    BY <2>1, <2>2 DEF SessionsFollowTheirSecret, OwnSessions, Live
<1>4. CASE \E r \in Requests : Initialize(r)
  <2>1. UNCHANGED <<session, vault>> /\ (admin # None => UNCHANGED admin)
    BY <1>4 DEF Initialize
  <2>2. QED
    BY <2>1 DEF SessionsFollowTheirSecret, OwnSessions, Live
<1>5. CASE \E r \in Requests, v \in Vaults : CreateVault(r, v)
  <2>1. UNCHANGED <<session, admin>> /\ \A v \in Vaults : vault[v] = "active" => vault'[v] = "active"
    BY <1>5 DEF CreateVault, TypeOK
  <2>2. QED
    BY <2>1 DEF SessionsFollowTheirSecret, OwnSessions, Live
<1>6. CASE /\ UNCHANGED <<admin, vault>>
           /\ \A s \in Sessions : session'[s] = session[s] \/ session'[s].state = "none"
  BY <1>6 DEF SessionsFollowTheirSecret, Live
<1>7. \/ \E r \in Requests : ChangePassword(r) \/ RevokeVault(r) \/ Initialize(r)
      \/ \E r \in Requests, s \in Sessions : NewSession(r, s)
      \/ \E r \in Requests, v \in Vaults : CreateVault(r, v)
      \/ /\ UNCHANGED <<admin, vault>>
         /\ \A s \in Sessions : session'[s] = session[s] \/ session'[s].state = "none"
  BY SessionsOnlyFromLogins
  DEF Next, StartInitialize, StartLogin, Admit, AdmitVault, StartRecover, Verify, RecordFailure, ClearFailures,
      VerifyOld, Recover, RequestStops, Revoke, SessionExpires, BlockEnds, Restart
<1>8. QED
  BY <1>1, <1>2, <1>3, <1>4, <1>5, <1>6, <1>7

\* The shape of what is stored, and what calls and sessions know of the account.
LEMMA SInvHolds == ASSUME Bounds, Distinct PROVE Spec => []SInv
<1>1. ASSUME SInv, [Next]_vars PROVE SInv'
  <2>1. CASE Next
    BY <1>1, <2>1, TypeStep, ActingStep, OwnSessionsStep, SecretsStep DEF SInv
  <2>2. CASE UNCHANGED vars
    BY <1>1, <2>2 DEF vars, SInv, TypeOK, Acting, ActingFor, OwnSessions, SessionsFollowTheirSecret, Live
  <2>3. QED
    BY <1>1, <2>1, <2>2
<1>2. QED
  BY <1>1, SInvInit, PTL DEF Spec

----------------------------------------------------------------------------
(* The throttle.                                                           *)

Verifying(a) == {r \in Requests : request[r].pc = "verifying" /\ request[r].of = a}

Refused(a) == {r \in Requests : request[r].pc = "refused" /\ request[r].of = a}

\* Until the block begins every wrong password is counted or about to be; from
\* then on only the calls that had begun may still try one.
ThrottledFor(a) ==
  /\ guesses[a] \in Nat
  /\ failures[a].count \in 0..(MaxFailures - 1)
  /\ ~ failures[a].blocked => guesses[a] <= failures[a].count + Cardinality(Refused(a))
  /\ guesses[a] + Cardinality(Verifying(a)) <= MaxFailures + Cardinality(Requests) - 1

GuessesTyped == guesses \in [Accounts -> Nat]

Throttled == GuessesTyped /\ \A a \in Accounts : ThrottledFor(a)

\* The calls that are doing two different things are not more than the calls.
LEMMA DisjointCalls ==
  ASSUME Bounds, NEW A \in SUBSET Requests, NEW B \in SUBSET Requests, A \cap B = {}
  PROVE  /\ IsFiniteSet(A) /\ IsFiniteSet(B) /\ Cardinality(Requests) \in Nat
         /\ Cardinality(A) \in Nat /\ Cardinality(B) \in Nat
         /\ Cardinality(A) + Cardinality(B) <= Cardinality(Requests)
<1>1. IsFiniteSet(A) /\ IsFiniteSet(B) /\ IsFiniteSet(A \cup B) /\ Cardinality(A \cup B) <= Cardinality(Requests)
  BY FS_Subset DEF Bounds
<1>2. Cardinality(A \cup B) = Cardinality(A) + Cardinality(B)
  <2>1. Cardinality(A \cup B) = Cardinality(A) + Cardinality(B) - Cardinality(A \cap B)
    BY <1>1, FS_Union
  <2>2. Cardinality(A \cap B) = 0
    BY FS_EmptySet
  <2>3. Cardinality(A) \in Nat /\ Cardinality(B) \in Nat
    BY <1>1, FS_CardinalityType
  <2>4. QED
    BY <2>1, <2>2, <2>3
<1>3. QED
  BY <1>1, <1>2, FS_CardinalityType DEF Bounds

\* Both at once, before a step and after it.
LEMMA CallsCounted ==
  ASSUME Bounds, NEW a \in Accounts
  PROVE  /\ IsFiniteSet(Refused(a)) /\ IsFiniteSet(Verifying(a)) /\ Cardinality(Requests) \in Nat
         /\ Cardinality(Refused(a)) \in Nat /\ Cardinality(Verifying(a)) \in Nat
         /\ Cardinality(Refused(a)) + Cardinality(Verifying(a)) <= Cardinality(Requests)
         /\ IsFiniteSet(Refused(a)') /\ IsFiniteSet(Verifying(a)')
         /\ Cardinality(Refused(a)') \in Nat /\ Cardinality(Verifying(a)') \in Nat
         /\ Cardinality(Refused(a)') + Cardinality(Verifying(a)') <= Cardinality(Requests)
<1>1. Refused(a) \subseteq Requests /\ Verifying(a) \subseteq Requests /\ Refused(a) \cap Verifying(a) = {}
  BY DEF Refused, Verifying
<1>2. Refused(a)' \subseteq Requests /\ Verifying(a)' \subseteq Requests /\ Refused(a)' \cap Verifying(a)' = {}
  BY DEF Refused, Verifying
<1>3. PICK A, B, C, D : A = Refused(a) /\ B = Verifying(a) /\ C = Refused(a)' /\ D = Verifying(a)'
  OBVIOUS
<1>4. /\ IsFiniteSet(A) /\ IsFiniteSet(B) /\ Cardinality(Requests) \in Nat
      /\ Cardinality(A) \in Nat /\ Cardinality(B) \in Nat
      /\ Cardinality(A) + Cardinality(B) <= Cardinality(Requests)
  BY <1>1, <1>3, DisjointCalls
<1>5. /\ IsFiniteSet(C) /\ IsFiniteSet(D)
      /\ Cardinality(C) \in Nat /\ Cardinality(D) \in Nat
      /\ Cardinality(C) + Cardinality(D) <= Cardinality(Requests)
  BY <1>2, <1>3, DisjointCalls
<1>6. QED
  BY <1>3, <1>4, <1>5

\* A step that begins no login and forgets no refusal.
LEMMA ThrottleKept ==
  ASSUME Bounds, NEW a \in Accounts, ThrottledFor(a),
         guesses'[a] = guesses[a], failures'[a] = failures[a],
         Refused(a) \subseteq Refused(a)', Verifying(a)' \subseteq Verifying(a)
  PROVE  ThrottledFor(a)'
<1>1. Cardinality(Refused(a)) <= Cardinality(Refused(a)') /\ Cardinality(Verifying(a)') <= Cardinality(Verifying(a))
  BY CallsCounted, FS_Subset
<1>2. QED
  BY <1>1, CallsCounted DEF ThrottledFor, Bounds

\* An account that is let go starts from nothing.
LEMMA ThrottleReset ==
  ASSUME Bounds, NEW a \in Accounts, guesses'[a] = 0, failures'[a].count \in 0..(MaxFailures - 1)
  PROVE  ThrottledFor(a)'
BY CallsCounted DEF ThrottledFor, Bounds

\* A login that begins finds the account unblocked.
LEMMA ThrottleLogin ==
  ASSUME Bounds, NEW a \in Accounts, ThrottledFor(a), ~ failures[a].blocked,
         guesses'[a] = guesses[a], failures'[a] = failures[a], Refused(a) = Refused(a)'
  PROVE  ThrottledFor(a)'
BY CallsCounted DEF ThrottledFor, Bounds

\* A wrong password was one of the calls that verify and is one to be recorded.
LEMMA ThrottleRefusal ==
  ASSUME Bounds, NEW a \in Accounts, ThrottledFor(a), NEW r \in Verifying(a),
         guesses'[a] = guesses[a] + 1, failures'[a] = failures[a],
         Verifying(a)' = Verifying(a) \ {r}, Refused(a)' = Refused(a) \cup {r}
  PROVE  ThrottledFor(a)'
<1>1. r \notin Refused(a)
  BY DEF Refused, Verifying
<1>2. Cardinality(Verifying(a)') = Cardinality(Verifying(a)) - 1
  BY CallsCounted, FS_RemoveElement
<1>3. Cardinality(Refused(a)') = Cardinality(Refused(a)) + 1
  BY <1>1, CallsCounted, FS_AddElement
<1>4. QED
  BY <1>2, <1>3, CallsCounted DEF ThrottledFor, Bounds

\* Recording it counts it, or begins the block.
LEMMA ThrottleRecord ==
  ASSUME Bounds, NEW a \in Accounts, ThrottledFor(a), NEW r \in Refused(a),
         guesses'[a] = guesses[a],
         failures'[a] = IF failures[a].count + 1 >= MaxFailures
                          THEN [count |-> 0, blocked |-> TRUE]
                          ELSE [count |-> failures[a].count + 1, blocked |-> failures[a].blocked],
         Verifying(a)' = Verifying(a), Refused(a)' = Refused(a) \ {r}
  PROVE  ThrottledFor(a)'
<1>1. Cardinality(Refused(a)') = Cardinality(Refused(a)) - 1
  BY CallsCounted, FS_RemoveElement
<1>2. QED
  BY <1>1, CallsCounted DEF ThrottledFor, Bounds

\* When one call moves, the others stay where they are counted.
LEMMA OneCallMoves ==
  ASSUME NEW r \in Requests, \A q \in Requests : q # r => request'[q] = request[q], NEW a \in Accounts
  PROVE  /\ Refused(a)' = (Refused(a) \ {r}) \cup {q \in {r} : request'[q].pc = "refused" /\ request'[q].of = a}
         /\ Verifying(a)' = (Verifying(a) \ {r}) \cup {q \in {r} : request'[q].pc = "verifying" /\ request'[q].of = a}
BY DEF Refused, Verifying

\* Every step keeps the account of wrong passwords.
LEMMA ThrottledStep ==
  ASSUME Bounds, SInv, Throttled, Next
  PROVE  Throttled'
<1> USE DEF SInv
<1>0. GuessesTyped'
  <2>1. CASE UNCHANGED guesses
    BY <2>1 DEF Throttled, GuessesTyped
  <2>2. CASE (\E r \in Requests : Verify(r) \/ ClearFailures(r)) \/ (\E a \in Accounts : BlockEnds(a)) \/ Restart
    BY <2>2 DEF Throttled, GuessesTyped, Verify, ClearFailures, BlockEnds, Restart
  <2>3. UNCHANGED guesses \/ (\E r \in Requests : Verify(r) \/ ClearFailures(r))
        \/ (\E a \in Accounts : BlockEnds(a)) \/ Restart
    BY DEF Next, StartInitialize, StartLogin, Admit, AdmitVault, CreateVault, StartRecover, Initialize,
           RecordFailure, NewSession, VerifyOld, ChangePassword, Recover, RevokeVault, RequestStops, Revoke, SessionExpires
  <2>4. QED
    BY <2>1, <2>2, <2>3
<1> SUFFICES ASSUME NEW a \in Accounts PROVE ThrottledFor(a)'
  BY <1>0 DEF Throttled
<1>1. ThrottledFor(a) /\ GuessesTyped /\ request \in [Requests -> Calls]
  BY DEF Throttled, TypeOK, Calls
<1>2. ASSUME NEW r \in Requests, \A q \in Requests : q # r => request'[q] = request[q],
             request[r].pc # "refused", request'[r].pc # "verifying",
             guesses'[a] = guesses[a], failures'[a] = failures[a]
      PROVE  ThrottledFor(a)'
  BY <1>1, <1>2, OneCallMoves, ThrottleKept DEF Refused
<1>3. CASE \E r \in Requests : \/ \E c \in Accounts, p \in Passwords : StartInitialize(r, c, p)
                               \/ \E s \in Sessions, p, q \in Passwords : Admit(r, s, p, q)
                               \/ \E s \in Sessions : NewSession(r, s) \/ AdmitVault(r, s)
                               \/ \E v \in Vaults : CreateVault(r, v) \/ StartRecover(r, v)
                               \/ Initialize(r) \/ VerifyOld(r) \/ ChangePassword(r) \/ Recover(r) \/ RevokeVault(r)
                               \/ RequestStops(r)
  <2> PICK r \in Requests : \/ \E c \in Accounts, p \in Passwords : StartInitialize(r, c, p)
                            \/ \E s \in Sessions, p, q \in Passwords : Admit(r, s, p, q)
                            \/ \E s \in Sessions : NewSession(r, s) \/ AdmitVault(r, s)
                            \/ \E v \in Vaults : CreateVault(r, v) \/ StartRecover(r, v)
                            \/ Initialize(r) \/ VerifyOld(r) \/ ChangePassword(r) \/ Recover(r) \/ RevokeVault(r)
                            \/ RequestStops(r)
    BY <1>3
  <2> USE <1>1 DEF StartInitialize, Admit, NewSession, AdmitVault, CreateVault, StartRecover, Initialize, VerifyOld,
                   ChangePassword, Recover, RevokeVault, RequestStops, Goto, Ends, Idle
  <2>1. UNCHANGED <<guesses, failures>> /\ request[r].pc # "refused"
    OBVIOUS
  <2>2. \A q \in Requests : q # r => request'[q] = request[q]
    OBVIOUS
  <2>3. request'[r].pc # "verifying"
    <3>1. request[r] \in Calls
      OBVIOUS
    <3>2. \/ request' = [request EXCEPT ![r] = Idle]
          \/ \E pc \in {"changing", "opening"} : request' = [request EXCEPT ![r].pc = pc]
          \/ \E c : request' = [request EXCEPT ![r] = c] /\ c.pc # "verifying"
      OBVIOUS
    <3>3. QED
      BY <3>1, <3>2 DEF Calls
  <2>4. QED
    BY <1>2, <2>1, <2>2, <2>3
<1>4. CASE \E r \in Requests, c \in Accounts, p \in Passwords : StartLogin(r, c, p)
  <2> PICK r \in Requests, c \in Accounts, p \in Passwords : StartLogin(r, c, p)
    BY <1>4
  <2>1. /\ \A q \in Requests : q # r => request'[q] = request[q]
        /\ request[r].pc = "idle" /\ request'[r].pc = "verifying" /\ request'[r].of = c
        /\ UNCHANGED <<guesses, failures>> /\ ~ failures[c].blocked
    BY <1>1 DEF StartLogin
  <2>2. Refused(a)' = Refused(a)
    BY <2>1 DEF Refused
  <2>3. CASE a = c
    BY <1>1, <2>1, <2>2, <2>3, ThrottleLogin
  <2>4. CASE a # c
    <3>1. Verifying(a)' \subseteq Verifying(a)
      BY <2>1, <2>4 DEF Verifying
    <3>2. QED
      BY <1>1, <2>1, <2>2, <3>1, ThrottleKept
  <2>5. QED
    BY <2>3, <2>4
<1>5. CASE \E r \in Requests : Verify(r)
  <2> PICK r \in Requests : Verify(r)
    BY <1>5
  <2>1. /\ \A q \in Requests : q # r => request'[q] = request[q]
        /\ request[r].pc = "verifying" /\ request'[r].pc # "verifying" /\ UNCHANGED failures
    <3>1. request[r] \in Calls
      BY <1>1
    <3>2. \/ request' = [request EXCEPT ![r] = Idle]
          \/ \E pc \in {"refused", "verified"} : request' = [request EXCEPT ![r].pc = pc]
      BY DEF Verify, Goto, Ends
    <3>3. QED
      BY <1>1, <3>1, <3>2 DEF Verify, Idle, Calls
  <2>2. CASE guesses'[a] = guesses[a]
    BY <1>2, <2>1, <2>2
  <2>3. CASE guesses'[a] # guesses[a]
    <3>1. /\ a = request[r].of /\ guesses'[a] = guesses[a] + 1
          /\ request'[r].pc = "refused" /\ request'[r].of = request[r].of
      <4>1. /\ guesses' = [guesses EXCEPT ![request[r].of] = guesses[request[r].of] + 1]
            /\ request' = [request EXCEPT ![r].pc = "refused"]
        BY <2>3 DEF Verify, Goto
      <4>2. a = request[r].of
        BY <2>3, <4>1
      <4>3. QED
        BY <1>1, <4>1, <4>2 DEF Calls, GuessesTyped
    <3>2. r \in Verifying(a) /\ r \notin Refused(a)
      BY <2>1, <3>1 DEF Verifying, Refused
    <3>3. Verifying(a)' = Verifying(a) \ {r} /\ Refused(a)' = Refused(a) \cup {r}
      BY <2>1, <3>1 DEF Verifying, Refused
    <3>4. QED
      BY <1>1, <2>1, <3>1, <3>2, <3>3, ThrottleRefusal
  <2>4. QED
    BY <2>2, <2>3
<1>6. CASE \E r \in Requests : RecordFailure(r)
  <2> PICK r \in Requests : RecordFailure(r)
    BY <1>6
  <2>1. /\ \A q \in Requests : q # r => request'[q] = request[q]
        /\ request[r].pc = "refused" /\ request'[r].pc = "idle" /\ UNCHANGED guesses
    BY <1>1 DEF RecordFailure, Ends, Idle
  <2>2. Verifying(a)' = Verifying(a)
    BY <2>1 DEF Verifying
  <2>3. CASE a = request[r].of
    <3>1. r \in Refused(a) /\ Refused(a)' = Refused(a) \ {r}
      BY <2>1, <2>3 DEF Refused
    <3>2. failures'[a] = IF failures[a].count + 1 >= MaxFailures
                           THEN [count |-> 0, blocked |-> TRUE]
                           ELSE [count |-> failures[a].count + 1, blocked |-> failures[a].blocked]
      BY <2>3 DEF RecordFailure, TypeOK
    <3>3. QED
      BY <1>1, <2>1, <2>2, <3>1, <3>2, ThrottleRecord
  <2>4. CASE a # request[r].of
    <3>1. Refused(a)' = Refused(a)
      BY <2>1, <2>4 DEF Refused
    <3>2. failures'[a] = failures[a]
      BY <2>4 DEF RecordFailure, TypeOK
    <3>3. QED
      BY <1>1, <2>1, <2>2, <3>1, <3>2, ThrottleKept
  <2>5. QED
    BY <2>3, <2>4
<1>7. CASE \E r \in Requests : ClearFailures(r)
  <2> PICK r \in Requests : ClearFailures(r)
    BY <1>7
  <2>1. /\ \A q \in Requests : q # r => request'[q] = request[q]
        /\ request[r].pc = "verified" /\ request'[r].pc = "opening"
    BY <1>1 DEF ClearFailures, Goto, Calls
  <2>2. CASE a = request[r].of
    BY <1>1, <2>2, ThrottleReset DEF ClearFailures, NoFailures, TypeOK, Bounds, GuessesTyped
  <2>3. CASE a # request[r].of
    <3>1. guesses'[a] = guesses[a] /\ failures'[a] = failures[a]
      BY <1>1, <2>3 DEF ClearFailures, TypeOK, GuessesTyped
    <3>2. QED
      BY <1>2, <2>1, <3>1
  <2>4. QED
    BY <2>2, <2>3
<1>8. CASE \E c \in Accounts : BlockEnds(c)
  <2> PICK c \in Accounts : BlockEnds(c)
    BY <1>8
  <2>1. CASE a = c
    BY <1>1, <2>1, ThrottleReset DEF BlockEnds, TypeOK, ThrottledFor, GuessesTyped
  <2>2. CASE a # c
    BY <1>1, <2>2, ThrottleKept DEF BlockEnds, TypeOK, Refused, Verifying, GuessesTyped
  <2>3. QED
    BY <2>1, <2>2
<1>9. CASE Restart
  BY <1>9, ThrottleReset DEF Restart, NoFailures, Bounds
<1>10. CASE \E s \in Sessions : Revoke(s) \/ SessionExpires(s)
  BY <1>1, <1>10, ThrottleKept DEF Revoke, SessionExpires, Refused, Verifying
<1>11. QED
  BY <1>3, <1>4, <1>5, <1>6, <1>7, <1>8, <1>9, <1>10 DEF Next

\* Nothing has been tried before the start.
LEMMA ThrottledInit == ASSUME Bounds PROVE Init => Throttled
<1> SUFFICES ASSUME Init PROVE Throttled
  OBVIOUS
<1>1. GuessesTyped
  BY DEF Init, GuessesTyped
<1>2. ASSUME NEW a \in Accounts PROVE ThrottledFor(a)
  <2>1. guesses[a] = 0 /\ failures[a].count = 0
    BY DEF Init, NoFailures
  <2>2. QED
    BY <2>1, CallsCounted DEF ThrottledFor, Bounds
<1>3. QED
  BY <1>1, <1>2 DEF Throttled

----------------------------------------------------------------------------
(* The theorems.                                                           *)

\* A change of the password, or the revocation of a vault, ends every session of
\* the old secret, but for those whose login was under way.
THEOREM SecretsGovernSessions ==
  ASSUME Bounds, Distinct
  PROVE  Spec => []SessionsFollowTheirSecret
<1>1. SInv => SessionsFollowTheirSecret
  BY DEF SInv
<1>2. QED
  BY <1>1, SInvHolds, PTL

\* Setups that overlap make one administrator, and only a change of the password
\* changes the password.
THEOREM FirstAccount ==
  ASSUME Bounds, Distinct
  PROVE  Spec => FirstAccountStays
<1>1. ASSUME SInv, [Next]_vars, admin # None
      PROVE  /\ admin'.account = admin.account
             /\ admin'.password # admin.password =>
                  \E r \in Requests : request[r].pc = "changing" /\ request[r].new = admin'.password
  <2>1. CASE UNCHANGED admin
    BY <2>1
  <2>2. CASE \E r \in Requests : ChangePassword(r)
    BY <2>2 DEF ChangePassword
  <2>3. UNCHANGED admin \/ (\E r \in Requests : ChangePassword(r))
    BY <1>1 DEF vars, Next, StartInitialize, StartLogin, Admit, AdmitVault, CreateVault, StartRecover, Initialize, Verify,
         RecordFailure, ClearFailures, NewSession, VerifyOld, Recover, RevokeVault, RequestStops, Revoke, SessionExpires,
         BlockEnds, Restart
  <2>4. QED
    BY <2>1, <2>2, <2>3
<1>2. SInv /\ [Next]_vars =>
        [admin # None =>
           /\ admin'.account = admin.account
           /\ admin'.password # admin.password =>
                \E r \in Requests : request[r].pc = "changing" /\ request[r].new = admin'.password]_vars
  BY <1>1
<1>3. QED
  BY <1>2, SInvHolds, PTL DEF Spec, FirstAccountStays

\* However many logins overlap, an account is tried with no more wrong passwords
\* than the limit and one for every call but one.
THEOREM ThrottleBounds ==
  ASSUME Bounds, Distinct
  PROVE  Spec => []GuessesBounded(Cardinality(Requests))
<1>1. SInv /\ Throttled /\ [Next]_vars => Throttled'
  <2> SUFFICES ASSUME SInv, Throttled, [Next]_vars PROVE Throttled'
    OBVIOUS
  <2>1. CASE Next
    BY <2>1, ThrottledStep
  <2>2. CASE UNCHANGED vars
    BY <2>2 DEF vars, Throttled, GuessesTyped, ThrottledFor, Refused, Verifying
  <2>3. QED
    BY <2>1, <2>2
<1>2. Throttled => GuessesBounded(Cardinality(Requests))
  <2> SUFFICES ASSUME Throttled, NEW a \in Accounts
               PROVE  guesses[a] <= MaxFailures + Cardinality(Requests) - 1
    BY DEF GuessesBounded
  <2>1. ThrottledFor(a) /\ guesses[a] \in Nat
    BY DEF Throttled, ThrottledFor
  <2>2. QED
    BY <2>1, CallsCounted DEF ThrottledFor, Bounds
<1>3. QED
  BY <1>1, <1>2, SInvHolds, ThrottledInit, PTL DEF Spec

=============================================================================
