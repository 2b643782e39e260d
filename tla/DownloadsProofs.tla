-------------------------- MODULE DownloadsProofs ---------------------------
(***************************************************************************)
(* Downloads serve exact bytes, to those who may have them, for any number   *)
(* of files, calls, migrations, purges and sessions, as long as the process  *)
(* does not die.                                                            *)
(*                                                                         *)
(* What a call has read of a row may be old by the time the object is opened. *)
(* It does no harm because of the keys: a place that a row has named is not   *)
(* put to again (Settled, from the owners and the ages of keys in            *)
(* FileStorageProofs), so that what is found there, if anything, is the       *)
(* file's own (OnlyOf).  A call that finds nothing has an old row, or its     *)
(* file has been asked for by a purge.                                       *)
(***************************************************************************)
EXTENDS Downloads, FileStorageProofs, FiniteSetTheorems

SessionRows ==
  [scope : Gates \cup {None}, with : Passwords \cup {None}, asked : Passwords \cup {None}]

\* SQL NULL is no gate, password, row or place.
Bounds ==
  /\ MaxSize \in Nat /\ DocxLimit \in Nat
  /\ None \notin Gates \cup Passwords \cup SessionRows \cup Locations

CallRows ==
  [pc : {"idle", "setting", "opening_session", "checking", "getting", "opening"},
   of : Gates \cup {None}, session : SessionRows \cup {None}, with : Passwords \cup {None},
   asked : Passwords \cup {None}, at : Locations \cup {None}]

\* No Put that is still to come makes an object at the key k.
Settled(k) == Begun(k) /\ (runner.pc \in {"begun", "loaded", "copied"} => Earlier(k))

\* Whatever is at the place l is f.
OnlyOf(f, l) == \A o \in objects : o.at = l => o.content = f

PlacesClean ==
  /\ \A f \in Files : Kept(f) => OnlyOf(f, At(f))
  /\ runner.pc = "stored" /\ runner.verified => OnlyOf(Migrating, runner.target)

RowsTyped ==
  /\ size \in [Files -> 0..MaxSize]
  /\ secret \in [Gates -> Passwords \cup {None}]
  /\ session \in [Sessions -> SessionRows]
  /\ call \in [Calls -> CallRows]

\* Sessions are opened with the password that was set, if one was.
Earned == \A s \in Sessions : session[s].asked \in {None, session[s].with}

\* Who was asked for a password has shown a session of the gate.
Admitted(x) ==
  x.asked # None =>
    /\ x.session # None
    /\ x.session.scope = x.of
    /\ x.session.asked \in {None, x.session.with}

CallFits(x) ==
  /\ x.pc # "idle" => x.of \in Gates
  /\ x.pc = "opening_session" => x.with # None /\ x.asked \in {None, x.with}
  /\ x.pc \in {"getting", "opening"} => x.of \in Files /\ Admitted(x)
  /\ x.pc = "opening" <=> x.at # None
  /\ x.pc = "opening" => Settled(x.at.key) /\ OnlyOf(x.of, x.at)

CallsFit == \A c \in Calls : CallFits(call[c])

DInv ==
  /\ CInv
  /\ PlacesClean
  /\ RowsTyped
  /\ Earned
  /\ CallsFit
  /\ ServedIsExact
  /\ MissingIsExplained
  /\ GuestsKnewThePassword

----------------------------------------------------------------------------
(* Places that rows have named.                                            *)

\* What CInv knows of the runner's job.
LEMMA RunnerJob ==
  ASSUME CInv, runner.pc # "idle"
  PROVE  /\ runner.job \in Jobs /\ jobs[runner.job].state = "running"
         /\ jobs[runner.job].attempts = 1
         /\ Migrating \in Files
BY FileOfRunner DEF CInv, CopiesInv, IInv, RunnerBusy, Once, TypeOK, JobRows

\* A row that is not purged has a settled place.
LEMMA RowsSettled ==
  ASSUME CInv, NEW f \in Files, Kept(f)
  PROVE  At(f) \in Locations /\ Settled(At(f).key)
BY DEF CInv, CopiesInv, IInv, TypeOK, Rows, Kept, At, Locations, KeysOwned, EarlierKeys, Settled

\* A key that is settled stays so: jobs do not begin twice.
LEMMA SettledStays ==
  ASSUME CInv, CInv', [Next]_vars, ~ Restart, NEW k \in Keys, Settled(k)
  PROVE  Settled(k)'
<1> USE DEF CInv, CopiesInv, IInv
<1>t. \A j \in Jobs : jobs[j].attempts \in Nat /\ jobs'[j].attempts \in Nat
  BY DEF TypeOK, JobRows
<1>k. /\ k.kind = "migrations" => k.id \in Jobs
      /\ k.kind = "message" => k.id[1] \in Jobs /\ k.id[2] \in Nat
  BY DEF Keys
<1>b. ASSUME \A j \in Jobs : jobs'[j].attempts >= jobs[j].attempts
      PROVE  Begun(k)'
  BY <1>t, <1>k, <1>b DEF Begun, Settled
<1>1. CASE UNCHANGED <<jobs, runner>>
  BY <1>1 DEF Settled, Begun, Earlier
<1>2. CASE \E f \in Files, p \in Profiles : Start(f, p)
  <2>1. PICK j \in Jobs : jobs[j].state = "none" /\ \A i \in Jobs \ {j} : jobs'[i] = jobs[i]
    BY <1>2 DEF Start, TypeOK
  <2>2. UNCHANGED runner /\ jobs[j].attempts = 0
    BY <1>2, <2>1 DEF Start, JobsFresh
  <2>3. runner.pc # "idle" => jobs'[runner.job] = jobs[runner.job]
    BY <2>1 DEF RunnerBusy
  <2>4. Begun(k)'
    BY <2>1, <2>2, <1>t, <1>b
  <2>5. QED
    BY <2>2, <2>3, <2>4 DEF Settled, Earlier
<1>3. CASE \E j \in Jobs : LeaseExpires(j)
  <2>1. UNCHANGED runner /\ \A j \in Jobs : jobs'[j].attempts = jobs[j].attempts
    BY <1>3 DEF LeaseExpires, TypeOK, JobRows
  <2>2. QED
    BY <2>1, <1>k, <1>t DEF Settled, Begun, Earlier, RunnerBusy
<1>4. CASE RunPending
  <2>1. jobs' = jobs /\ runner'.pc = "idle"
    BY <1>4 DEF RunPending, Recovered, Once, TypeOK
  <2>2. QED
    BY <2>1 DEF Settled, Begun
<1>5. CASE RunBegin
  <2>1. PICK j \in Jobs :
          /\ jobs[j].state \in {"queued", "retry_wait"}
          /\ SetJob(j, "running", "held", jobs[j].attempts + 1)
          /\ runner' = [runner EXCEPT !.pc = "begun", !.queue = @ \ {j}, !.job = j]
    BY <1>5 DEF RunBegin, TypeOK
  <2>2. jobs[j].attempts = 0 /\ runner'.job = j
    BY <2>1 DEF Once, TypeOK
  <2>3. jobs'[j].attempts = 1 /\ \A i \in Jobs \ {j} : jobs'[i] = jobs[i]
    BY <2>1, <2>2 DEF SetJob, TypeOK
  <2>4. Begun(k)'
    BY <2>2, <2>3, <1>t, <1>b
  <2>5. Earlier(k)'
    BY <2>2, <2>3, <1>k DEF Settled, Begun, Earlier
  <2>6. QED
    BY <2>4, <2>5 DEF Settled
<1>6. CASE RunLoad \/ RunCopy
  <2>1. UNCHANGED jobs /\ runner'.job = runner.job /\ runner.pc \in {"begun", "loaded"}
    BY <1>6 DEF RunLoad, RunCopy, TypeOK
  <2>2. QED
    BY <2>1 DEF Settled, Begun, Earlier
<1>7. CASE RunPut \/ RunSwitch \/ RunDeleteSource
  <2>1. UNCHANGED jobs /\ runner'.pc \in {"stored", "switched", "cleaned"}
    BY <1>7 DEF RunPut, RunSwitch, RunDeleteSource, TypeOK
  <2>2. QED
    BY <2>1 DEF Settled, Begun
<1>8. CASE RunPutUnanswered \/ RunFail \/ RunReject \/ RunCleanupPending \/ RunSucceed
  <2>1. PICK s : Finish(runner.job, s) /\ NextJob /\ runner.pc # "idle"
    BY <1>8 DEF RunPutUnanswered, RunFail, RunReject, RunCleanupPending, RunSucceed
  <2>2. runner'.pc = "idle" /\ \A j \in Jobs : jobs'[j].attempts = jobs[j].attempts
    BY <2>1, RunnerJob DEF NextJob, IdleRunner, Finish, SetJob, TypeOK
  <2>3. QED
    BY <2>2, <1>t, <1>b DEF Settled
<1>9. CASE (\E f \in Files : DeleteFile(f) \/ RestoreFile(f)) \/ Purging \/ UNCHANGED vars
  BY <1>9, <1>1 DEF DeleteFile, RestoreFile, Purging, PurgeRead, PurgeDelete, PurgeDeleteFails, PurgeMark,
                    PurgeAbandoned, vars
<1>10. QED
  BY <1>2, <1>3, <1>4, <1>5, <1>6, <1>7, <1>8, <1>9 DEF Next, Running

\* Where the runner puts is not settled.
LEMMA PutsElsewhere ==
  ASSUME CInv, runner.pc = "copied", NEW l \in Locations, Settled(l.key)
  PROVE  l # PutLocation(jobs[runner.job].target, runner.job, jobs[runner.job].attempts)
BY RunnerJob DEF PutLocation, MigrationKey, MessageKey, Settled, Earlier

\* Objects go, except that the runner puts one.
LEMMA ObjectsStep ==
  ASSUME [Next]_vars, ~ Restart
  PROVE  \/ objects' \subseteq objects
         \/ /\ runner.pc = "copied"
            /\ \E c : objects' = Stored(PutLocation(jobs[runner.job].target, runner.job, jobs[runner.job].attempts), c)
<1>1. CASE RunPut \/ RunPutUnanswered
  BY <1>1 DEF RunPut, RunPutUnanswered
<1>2. CASE Running /\ ~ (RunPut \/ RunPutUnanswered)
  BY <1>2 DEF Running, RunPending, RunBegin, RunLoad, RunCopy, RunFail, RunSwitch, RunReject, RunDeleteSource,
              RunCleanupPending, RunSucceed, Removed
<1>3. CASE ~ Running
  BY <1>3 DEF Next, vars, DeleteFile, RestoreFile, Start, LeaseExpires, Purging, PurgeRead, PurgeDelete,
              PurgeDeleteFails, PurgeMark, PurgeAbandoned, Removed
<1>4. QED
  BY <1>1, <1>2, <1>3

\* At a settled place nothing else turns up.
LEMMA OnlyOfStays ==
  ASSUME CInv, [Next]_vars, ~ Restart, NEW l \in Locations, Settled(l.key), NEW f, OnlyOf(f, l)
  PROVE  OnlyOf(f, l)'
BY ObjectsStep, PutsElsewhere DEF OnlyOf, Stored

\* Rows name places of their own, also right after a switch.
LEMMA PlacesStep ==
  ASSUME CInv, CInv', PlacesClean, [Next]_vars, ~ Restart
  PROVE  PlacesClean'
<1> USE DEF CInv, CopiesInv, IInv
<1>1. CASE RunSwitch
  <2>1. /\ runner.pc = "stored" /\ runner.verified /\ runner'.pc = "switched"
        /\ UNCHANGED <<objects, jobs>> /\ runner'.job = runner.job
    BY <1>1 DEF RunSwitch, TypeOK
  <2>2. /\ \A f \in Files \ {Migrating} : row'[f] = row[f]
        /\ row'[Migrating].profile = runner.target.profile /\ row'[Migrating].key = runner.target.key
    BY <1>1, <2>1, RunnerJob DEF RunSwitch, TypeOK, Migrating
  <2>3. runner.target = [profile |-> runner.target.profile, key |-> runner.target.key]
    BY <2>1 DEF RunnerPlaces, PutLocation
  <2>4. At(Migrating)' = runner.target
    BY <2>1, <2>2, <2>3 DEF At, Migrating
  <2>5. \A f \in Files : Kept(f)' => OnlyOf(f, At(f))'
    BY <2>1, <2>2, <2>4 DEF PlacesClean, OnlyOf, Kept, At, Migrating
  <2>6. QED
    BY <2>1, <2>5 DEF PlacesClean
<1>2. CASE ~ RunSwitch
  <2>1. \A f \in Files : Kept(f)' => Kept(f) /\ At(f)' = At(f)
    <3>1. CASE \E f \in Files : DeleteFile(f) \/ RestoreFile(f)
      BY <3>1 DEF DeleteFile, RestoreFile, Kept, At, TypeOK, Rows
    <3>2. CASE \E u \in Requests : PurgeMark(u)
      BY <3>2 DEF PurgeMark, PurgersBusy, Kept, At, TypeOK, Rows
    <3>3. CASE UNCHANGED row
      BY <3>3 DEF Kept, At
    <3>4. QED
      BY <1>2, <3>1, <3>2, <3>3 DEF Next, vars, Start, LeaseExpires, Purging, PurgeRead, PurgeDelete, PurgeDeleteFails,
              PurgeAbandoned, Running, RunPending, RunBegin, RunLoad, RunCopy, RunPut, RunPutUnanswered, RunFail,
              RunReject, RunDeleteSource, RunCleanupPending, RunSucceed
  <2>2. \A f \in Files : Kept(f)' => OnlyOf(f, At(f))'
    BY <2>1, RowsSettled, OnlyOfStays DEF PlacesClean, OnlyOf
  <2>3. CASE RunPut
    <3>1. PICK c \in {Migrating, Damaged} :
            /\ objects' = Stored(runner'.target, c)
            /\ runner'.verified = (c = Migrating)
      BY <2>3 DEF RunPut, TypeOK, Migrating
    <3>2. Migrating' = Migrating
      BY <2>3 DEF RunPut, TypeOK, Migrating
    <3>3. runner'.verified => \A o \in objects' : o.at = runner'.target => o.content = Migrating
      <4> SUFFICES ASSUME runner'.verified, NEW o \in objects', o.at = runner'.target PROVE o.content = Migrating
        OBVIOUS
      <4>1. o = [at |-> runner'.target, content |-> c]
        BY <3>1 DEF Stored
      <4>2. c = Migrating
        BY <3>1
      <4>3. QED
        BY <4>1, <4>2
    <3>4. QED
      BY <2>2, <3>2, <3>3 DEF PlacesClean, OnlyOf
  <2>4. CASE ~ RunPut
    <3>1. runner'.pc = "stored" => UNCHANGED runner
      BY <1>2, <2>4 DEF Next, vars, DeleteFile, RestoreFile, Start, LeaseExpires, Purging, PurgeRead, PurgeDelete,
              PurgeDeleteFails, PurgeMark, PurgeAbandoned, Running, RunPending, RunBegin, RunLoad, RunCopy,
              RunPutUnanswered, RunFail, RunReject, RunDeleteSource, RunCleanupPending, RunSucceed, NextJob, IdleRunner,
              TypeOK
    <3>2. runner.pc = "stored" /\ UNCHANGED runner => Migrating' = Migrating
      <4> SUFFICES ASSUME runner.pc = "stored", UNCHANGED runner PROVE Migrating' = Migrating
        OBVIOUS
      <4>1. ~ Running
        BY DEF Running, RunPending, RunBegin, RunLoad, RunCopy, RunPut, RunPutUnanswered, RunFail, RunSwitch, RunReject,
               RunDeleteSource, RunCleanupPending, RunSucceed, NextJob, IdleRunner, TypeOK
      <4>2. CASE UNCHANGED jobs
        BY <4>2 DEF Migrating
      <4>3. CASE (\E f \in Files, p \in Profiles : Start(f, p)) \/ \E j \in Jobs : LeaseExpires(j)
        BY <4>3, RunnerJob DEF Start, LeaseExpires, TypeOK, JobRows, Migrating
      <4>4. QED
        BY <4>1, <4>2, <4>3 DEF Next, vars, DeleteFile, RestoreFile, Purging, PurgeRead, PurgeDelete, PurgeDeleteFails,
                                PurgeMark, PurgeAbandoned
    <3>3. runner.pc = "stored" => objects' \subseteq objects
      BY ObjectsStep
    <3>4. QED
      BY <2>2, <3>1, <3>2, <3>3 DEF PlacesClean, OnlyOf
  <2>5. QED
    BY <2>3, <2>4
<1>3. QED
  BY <1>1, <1>2

----------------------------------------------------------------------------
(* Calls.                                                                  *)

\* A step of a call, or of a session, leaves the storage alone.
LEMMA StorageAlone ==
  ASSUME DInv, UNCHANGED vars
  PROVE  CInv' /\ PlacesClean' /\ \A k \in Keys : Settled(k) => Settled(k)'
<1>1. ~ Restart
  BY FileStorageAssumption DEF vars, Restart, DInv, CInv, CopiesInv, IInv, TypeOK
<1>2. CInv'
  BY <1>1, CInvStep DEF DInv
<1>3. QED
  BY <1>1, <1>2, PlacesStep, SettledStays DEF DInv

\* A call that fits goes on in a way that fits.
LEMMA CallStep ==
  ASSUME DInv, UNCHANGED <<vars, size>>, NEW c \in Calls, NEW x \in CallRows, CallFits(x),
         call' = [call EXCEPT ![c] = x],
         secret' \in [Gates -> Passwords \cup {None}], session' \in [Sessions -> SessionRows], Earned'
  PROVE  CInv' /\ PlacesClean' /\ RowsTyped' /\ Earned' /\ CallsFit'
<1>1. CInv' /\ PlacesClean'
  BY StorageAlone
<1>2. RowsTyped'
  BY DEF DInv, RowsTyped
<1>3. ASSUME NEW d \in Calls
      PROVE  CallFits(call[d])'
  <2>1. call'[d] = x \/ call'[d] = call[d]
    BY DEF DInv, RowsTyped
  <2>2. CallFits(call'[d])
    BY <2>1 DEF DInv, CallsFit
  <2>3. QED
    BY <2>2 DEF CallFits, Settled, OnlyOf, Begun, Earlier, Admitted, vars
<1>4. QED
  BY <1>1, <1>2, <1>3 DEF CallsFit

\* No answer, no harm.
LEMMA Unanswered ==
  ASSUME answer' = NoAnswer
  PROVE  ServedIsExact' /\ MissingIsExplained' /\ GuestsKnewThePassword'
BY DEF NoAnswer, ServedIsExact, MissingIsExplained, GuestsKnewThePassword

\* A call that begins, before it has read anything, or has ended.
LEMMA FreshCalls ==
  ASSUME Bounds
  PROVE  /\ IdleCall \in CallRows /\ CallFits(IdleCall)
         /\ \A g \in Gates, p \in Passwords \cup {None} :
              LET x == [IdleCall EXCEPT !.pc = "setting", !.of = g, !.with = p]
              IN  x \in CallRows /\ CallFits(x)
         /\ \A g \in Gates, p \in Passwords : \A a \in {None, p} :
              LET x == [IdleCall EXCEPT !.pc = "opening_session", !.of = g, !.with = p, !.asked = a]
              IN  x \in CallRows /\ CallFits(x)
         /\ \A f \in Files :
              LET x == [IdleCall EXCEPT !.pc = "getting", !.of = f]
              IN  x \in CallRows /\ CallFits(x)
         /\ \A g \in Gates, a \in Passwords \cup {None} :
              LET x == [IdleCall EXCEPT !.pc = "checking", !.of = g, !.asked = a]
              IN  x \in CallRows /\ CallFits(x)
<1>1. IdleCall \in CallRows /\ CallFits(IdleCall)
  BY DEF Bounds, IdleCall, CallRows, CallFits
<1>2. ASSUME NEW g \in Gates, NEW p \in Passwords \cup {None}
      PROVE  LET x == [IdleCall EXCEPT !.pc = "setting", !.of = g, !.with = p]
             IN  x \in CallRows /\ CallFits(x)
  BY DEF Bounds, IdleCall, CallRows, CallFits
<1>3. ASSUME NEW g \in Gates, NEW p \in Passwords, NEW a \in {None, p}
      PROVE  LET x == [IdleCall EXCEPT !.pc = "opening_session", !.of = g, !.with = p, !.asked = a]
             IN  x \in CallRows /\ CallFits(x)
  BY DEF Bounds, IdleCall, CallRows, CallFits
<1>4. ASSUME NEW f \in Files
      PROVE  LET x == [IdleCall EXCEPT !.pc = "getting", !.of = f]
             IN  x \in CallRows /\ CallFits(x)
  BY DEF Bounds, IdleCall, CallRows, CallFits, Gates, Admitted
<1>5. ASSUME NEW g \in Gates, NEW a \in Passwords \cup {None}
      PROVE  LET x == [IdleCall EXCEPT !.pc = "checking", !.of = g, !.asked = a]
             IN  x \in CallRows /\ CallFits(x)
  BY DEF Bounds, IdleCall, CallRows, CallFits
<1>6. QED
  BY <1>1, <1>2, <1>3, <1>4, <1>5

\* The steps that set passwords, and those that open and end sessions.
LEMMA PasswordStep ==
  ASSUME Bounds, DInv, NEW c \in Calls,
         \/ \E f \in Files, p \in Passwords \cup {None} : StartSet(c, f, p)
         \/ \E page \in Pages, p \in Passwords \cup {None} : StartSetPage(c, page, p)
         \/ SetPassword(c)
         \/ \E g \in Gates, p \in Passwords : Login(c, g, p)
         \/ \E s \in Sessions : OpenSession(c, s)
         \/ CallStops(c)
  PROVE  DInv'
<1> USE DEF Quiet
<1>0. call[c] \in CallRows /\ CallFits(call[c])
  BY DEF DInv, RowsTyped, CallsFit
<1>t. /\ secret \in [Gates -> Passwords \cup {None}]
      /\ session \in [Sessions -> SessionRows] /\ call \in [Calls -> CallRows]
  BY DEF DInv, RowsTyped
<1>e. UNCHANGED session => Earned'
  BY DEF DInv, Earned
<1>1. CASE \E f \in Files, p \in Passwords \cup {None} : StartSet(c, f, p)
  <2>1. PICK f \in Files, p \in Passwords \cup {None} : StartSet(c, f, p)
    BY <1>1
  <2> DEFINE x == [IdleCall EXCEPT !.pc = "setting", !.of = f, !.with = p]
  <2>2. x \in CallRows /\ CallFits(x)
    BY FreshCalls DEF Gates
  <2>3. QED
    BY <2>1, <2>2, <1>t, <1>e, CallStep, Unanswered DEF StartSet, DInv
<1>2. CASE \E page \in Pages, p \in Passwords \cup {None} : StartSetPage(c, page, p)
  <2>1. PICK page \in Pages, p \in Passwords \cup {None} : StartSetPage(c, page, p)
    BY <1>2
  <2> DEFINE x == [IdleCall EXCEPT !.pc = "setting", !.of = page, !.with = p]
  <2>2. x \in CallRows /\ CallFits(x)
    BY FreshCalls DEF Gates
  <2>3. QED
    BY <2>1, <2>2, <1>t, <1>e, CallStep, Unanswered DEF StartSetPage, DInv
<1>3. CASE SetPassword(c)
  <2>1. call[c].with \in Passwords \cup {None}
    BY <1>0 DEF CallRows
  <2>2. secret' \in [Gates -> Passwords \cup {None}]
    BY <1>3, <1>t, <2>1 DEF SetPassword
  <2>3. QED
    BY <1>3, <1>t, <1>e, <2>2, FreshCalls, CallStep, Unanswered DEF SetPassword, Ends, DInv
<1>4. CASE \E g \in Gates, p \in Passwords : Login(c, g, p)
  <2>1. PICK g \in Gates, p \in Passwords : Login(c, g, p)
    BY <1>4
  <2> DEFINE x == [IdleCall EXCEPT !.pc = "opening_session", !.of = g, !.with = p, !.asked = secret[g]]
  <2>2. secret[g] \in {None, p}
    BY <2>1 DEF Login
  <2>3. x \in CallRows /\ CallFits(x)
    BY <2>2, FreshCalls
  <2>4. QED
    BY <2>1, <2>3, <1>t, <1>e, CallStep, Unanswered DEF Login, DInv
<1>5. CASE \E s \in Sessions : OpenSession(c, s)
  <2>1. PICK s \in Sessions :
          session' = [session EXCEPT ![s] =
                        [scope |-> call[c].of, with |-> call[c].with, asked |-> call[c].asked]]
    BY <1>5 DEF OpenSession
  <2>2. /\ [scope |-> call[c].of, with |-> call[c].with, asked |-> call[c].asked] \in SessionRows
        /\ call[c].asked \in {None, call[c].with}
    BY <1>0, <1>5 DEF OpenSession, CallRows, SessionRows, CallFits
  <2>3. session' \in [Sessions -> SessionRows] /\ Earned'
    BY <1>t, <2>1, <2>2 DEF DInv, Earned
  <2>4. QED
    BY <1>5, <1>t, <2>3, FreshCalls, CallStep, Unanswered DEF OpenSession, Ends, DInv
<1>6. CASE CallStops(c)
  BY <1>6, <1>t, <1>e, FreshCalls, CallStep, Unanswered DEF CallStops, Ends, DInv
<1>7. QED
  BY <1>1, <1>2, <1>3, <1>4, <1>5, <1>6

\* A session that ends is nobody's reason to be let through.
LEMMA ExpiryStep ==
  ASSUME DInv, NEW s \in Sessions, SessionExpires(s)
  PROVE  DInv'
<1>1. UNCHANGED <<vars, size, secret, call>> /\ answer' = NoAnswer
  BY DEF SessionExpires, Quiet
<1>2. CInv' /\ PlacesClean'
  BY <1>1, StorageAlone
<1>3. NoSession \in SessionRows /\ NoSession.asked = None
  BY DEF NoSession, SessionRows
<1>4. RowsTyped' /\ Earned'
  BY <1>1, <1>3 DEF SessionExpires, DInv, RowsTyped, Earned
<1>5. CallsFit'
  BY <1>1 DEF DInv, CallsFit, CallFits, Settled, OnlyOf, Begun, Earlier, Admitted, vars
<1>6. QED
  BY <1>1, <1>2, <1>4, <1>5, Unanswered DEF DInv

\* The steps of AuthorizeRequest, and the SELECT of the row.
LEMMA ReadingStep ==
  ASSUME Bounds, DInv, NEW c \in Calls,
         \/ \E f \in Files : StartAsAdmin(c, f) \/ StartDownload(c, f)
         \/ \E page \in Pages : StartPage(c, page)
         \/ GetFile(c)
  PROVE  DInv'
<1> USE DEF Quiet
<1>0. call[c] \in CallRows /\ CallFits(call[c])
  BY DEF DInv, RowsTyped, CallsFit
<1>t. /\ secret \in [Gates -> Passwords \cup {None}]
      /\ session \in [Sessions -> SessionRows] /\ call \in [Calls -> CallRows]
  BY DEF DInv, RowsTyped
<1>e. UNCHANGED session => Earned'
  BY DEF DInv, Earned
<1>1. CASE \E f \in Files : StartAsAdmin(c, f)
  BY <1>1, <1>t, <1>e, FreshCalls, CallStep, Unanswered DEF StartAsAdmin, DInv
<1>2. CASE \E f \in Files : StartDownload(c, f)
  <2>1. PICK f \in Files : StartDownload(c, f)
    BY <1>2
  <2> DEFINE x == [IdleCall EXCEPT !.pc = IF secret[f] = None THEN "getting" ELSE "checking",
                                   !.of = f, !.asked = secret[f]]
  <2>2. secret[f] \in Passwords \cup {None} /\ f \in Gates
    BY <1>t DEF Gates
  <2>3. x \in CallRows /\ CallFits(x)
    <3>1. CASE secret[f] = None
      <4>1. /\ x.pc = "getting" /\ x.of = f /\ x.session = None /\ x.with = None /\ x.asked = None
            /\ x.at = None /\ x \in CallRows
        BY <2>2, <3>1 DEF IdleCall, CallRows
      <4>2. QED
        BY <2>2, <4>1 DEF CallFits, Admitted
    <3>2. CASE secret[f] # None
      <4>1. x = [IdleCall EXCEPT !.pc = "checking", !.of = f, !.asked = secret[f]]
        BY <3>2
      <4>2. QED
        BY <2>2, <4>1, FreshCalls
    <3>3. QED
      BY <3>1, <3>2
  <2>4. QED
    BY <2>1, <2>3, <1>t, <1>e, CallStep, Unanswered DEF StartDownload, DInv
<1>3. CASE \E page \in Pages : StartPage(c, page)
  <2>1. PICK page \in Pages : StartPage(c, page)
    BY <1>3
  <2>2. secret[page] \in Passwords \cup {None} /\ page \in Gates
    BY <1>t DEF Gates
  <2>3. QED
    BY <2>1, <2>2, <1>t, <1>e, FreshCalls, CallStep, Unanswered DEF StartPage, DInv
<1>4. CASE GetFile(c)
  <2> DEFINE f == call[c].of
             x == [call[c] EXCEPT !.pc = "opening", !.at = At(f)]
  <2>1. CASE row[f].state = "active"
    <3>1. f \in Files /\ Admitted(call[c])
      BY <1>0, <1>4 DEF GetFile, CallFits
    <3>2. At(f) \in Locations /\ Settled(At(f).key) /\ OnlyOf(f, At(f)) /\ At(f) # None
      BY <2>1, <3>1, RowsSettled DEF DInv, PlacesClean, Kept, Bounds
    <3>3. /\ x.pc = "opening" /\ x.at = At(f) /\ x.of = f /\ x.asked = call[c].asked
          /\ x.session = call[c].session /\ x \in CallRows
      BY <1>0, <3>2 DEF CallRows
    <3>4. CallFits(x)
      BY <3>1, <3>2, <3>3 DEF CallFits, Admitted, Gates
    <3>5. QED
      BY <1>4, <2>1, <3>3, <3>4, <1>t, <1>e, CallStep, Unanswered DEF GetFile, DInv
  <2>2. CASE row[f].state # "active"
    BY <1>4, <2>2, <1>t, <1>e, FreshCalls, CallStep, Unanswered DEF GetFile, Ends, DInv
  <2>3. QED
    BY <2>1, <2>2
<1>5. QED
  BY <1>1, <1>2, <1>3, <1>4

\* A session lets a call through the gate that it is for.
LEMMA CheckStep ==
  ASSUME Bounds, DInv, NEW c \in Calls, NEW s \in Sessions, CheckSession(c, s)
  PROVE  DInv'
<1>0. call[c] \in CallRows /\ CallFits(call[c]) /\ call[c].pc = "checking" /\ session[s].scope = call[c].of
  BY DEF DInv, RowsTyped, CallsFit, CheckSession
<1>t. /\ secret' \in [Gates -> Passwords \cup {None}]
      /\ session \in [Sessions -> SessionRows] /\ session' = session /\ call \in [Calls -> CallRows]
      /\ UNCHANGED <<vars, size>>
  BY DEF DInv, RowsTyped, CheckSession
<1>e. Earned'
  BY <1>t DEF DInv, Earned
<1>s. session[s] \in SessionRows /\ session[s] # None /\ session[s].asked \in {None, session[s].with}
  BY <1>t DEF DInv, Earned, Bounds
<1>1. CASE call[c].of \in Pages
  <2>1. CInv' /\ PlacesClean' /\ RowsTyped' /\ Earned' /\ CallsFit'
    BY <1>1, <1>t, <1>e, FreshCalls, CallStep DEF CheckSession, Ends
  <2>2. /\ answer'.kind = "page" /\ answer'.of = call[c].of /\ answer'.asked = call[c].asked
        /\ answer'.session = session[s]
    BY <1>1 DEF CheckSession, NoAnswer
  <2>3. ServedIsExact' /\ MissingIsExplained' /\ GuestsKnewThePassword'
    BY <2>2, <1>0, <1>s DEF ServedIsExact, MissingIsExplained, GuestsKnewThePassword
  <2>4. QED
    BY <2>1, <2>3 DEF DInv
<1>2. CASE call[c].of \notin Pages
  <2> DEFINE x == [call[c] EXCEPT !.pc = "getting", !.session = session[s]]
  <2>1. call' = [call EXCEPT ![c] = x] /\ answer' = NoAnswer
    BY <1>2, <1>0, <1>t DEF CheckSession
  <2>2. /\ x \in CallRows /\ x.pc = "getting" /\ x.session = session[s] /\ x.of = call[c].of
        /\ x.asked = call[c].asked /\ x.at = call[c].at
    BY <1>0, <1>s DEF CallRows
  <2>3. CallFits(x)
    BY <1>0, <1>s, <1>2, <2>2 DEF CallFits, Admitted, Gates
  <2>4. QED
    BY <1>t, <1>e, <2>1, <2>2, <2>3, CallStep, Unanswered DEF DInv
<1>3. QED
  BY <1>1, <1>2

----------------------------------------------------------------------------
(* Answers.                                                                *)

\* What is read of an object of n bytes is what the header names.
LEMMA ExactRange ==
  ASSUME NEW n \in Nat, NEW h \in Headers, NEW p, MaxSize \in Nat, Parsed(h, n).ok
  PROVE  LET body == Opened(p, Parsed(h, n), n)
             named == {i \in 0..(n - 1) : h.kind = "range" => i >= h.start /\ (h.end = None \/ i <= h.end)}
         IN  /\ body.bytes = named
             /\ body.length = Cardinality(named)
             /\ body.partial <=> h.kind = "range"
<1> DEFINE body == Opened(p, Parsed(h, n), n)
           named == {i \in 0..(n - 1) : h.kind = "range" => i >= h.start /\ (h.end = None \/ i <= h.end)}
<1>1. CASE h.kind # "range"
  <2>1. Parsed(h, n).whole
    BY <1>1 DEF Parsed
  <2>2. body.bytes = 0..(n - 1) /\ body.length = n /\ body.partial = FALSE
    BY <2>1 DEF Opened, OpenLocal, OpenTelegram, WholeObject
  <2>3. named = 0..(n - 1)
    BY <1>1
  <2>4. Cardinality(0..(n - 1)) = n
    BY FS_Interval
  <2>5. QED
    BY <1>1, <2>2, <2>3, <2>4
<1>2. CASE h.kind = "range"
  <2>1. /\ h.start \in 0..MaxSize /\ h.start < n
        /\ h.end = None \/ h.end \in h.start..(n - 1)
        /\ ~ Parsed(h, n).whole /\ Parsed(h, n).start = h.start
        /\ Parsed(h, n).end = IF h.end = None THEN n - 1 ELSE h.end
    BY <1>2 DEF Parsed, Headers, NoHeader
  <2> DEFINE last == IF h.end = None THEN n - 1 ELSE h.end
  <2>2. last \in h.start..(n - 1) /\ h.start \in Nat
    BY <2>1
  <2>3. named = h.start..last
    BY <1>2, <2>1, <2>2
  <2>4. Cardinality(h.start..last) = last - h.start + 1
    <3>1. ASSUME NEW a \in Int, NEW b \in Int, a <= b
          PROVE  Cardinality(a..b) = b - a + 1
      <4>1. Cardinality(a..b) = IF a > b THEN 0 ELSE b - a + 1
        BY FS_Interval
      <4>2. QED
        BY <3>1, <4>1
    <3>2. h.start \in Int /\ last \in Int /\ h.start <= last
      BY <2>2
    <3>3. QED
      BY <3>1, <3>2
  <2>5. body.bytes = h.start..last /\ body.length = last - h.start + 1 /\ body.partial = TRUE
    BY <2>1, <2>2, <2>4 DEF Opened, OpenLocal, OpenTelegram
  <2>6. QED
    BY <1>2, <2>3, <2>4, <2>5
<1>3. QED
  BY <1>1, <1>2

\* The object of a file is where its row says, but for purges.
LEMMA Found ==
  ASSUME DInv, NEW f \in Files, NEW l \in Locations, {o \in objects : o.at = l} = {}
  PROVE  l # At(f) \/ f \in purgeAsked
<1> SUFFICES ASSUME l = At(f), f \notin purgeAsked PROVE FALSE
  OBVIOUS
<1>1. Kept(f)
  BY KeysAssumption DEF DInv, CInv, CopiesInv, IInv, TypeOK, Rows, Kept, At, Locations
<1>2. Whole(f, l) \in objects
  BY <1>1, OnlyPurgesExcuse DEF DInv, CInv, CopiesInv, IInv, RowsHold, Intact
<1>3. QED
  BY <1>2 DEF Whole

\* What is at the place of a call is the call's file, unless nothing is.
LEMMA ServedStep ==
  ASSUME Bounds, DInv, NEW c \in Calls, call[c].pc = "opening", UNCHANGED <<vars, size>>,
         NEW h \in Headers, Parsed(h, size[call[c].of]).ok,
         Served(c, "served", h, Parsed(h, size[call[c].of]))
  PROVE  ServedIsExact' /\ MissingIsExplained' /\ GuestsKnewThePassword'
<1> DEFINE f == call[c].of
           l == call[c].at
           found == {o \in objects : o.at = l}
           body == Opened(l.profile, Parsed(h, size[f]), size[f])
<1>0. /\ f \in Files /\ l \in Locations /\ Admitted(call[c]) /\ OnlyOf(f, l)
      /\ size[f] \in Nat /\ MaxSize \in Nat
  BY DEF DInv, RowsTyped, CallsFit, CallFits, CallRows, Bounds
<1>u. UNCHANGED <<row, objects, purgeAsked, size>>
  BY DEF vars
<1>1. CASE found = {}
  <2>1. answer' = Reply(c, "missing", h)
    BY <1>1 DEF Served
  <2>2. answer'.kind = "missing" /\ answer'.of = f /\ answer'.at = l
    BY <2>1 DEF Reply, NoAnswer
  <2>3. l # At(f) \/ f \in purgeAsked
    BY <1>0, <1>1, Found
  <2>4. QED
    BY <1>u, <2>2, <2>3 DEF ServedIsExact, MissingIsExplained, GuestsKnewThePassword, At
<1>2. CASE found # {}
  <2>1. PICK o \in found :
          answer' = [Reply(c, "served", h) EXCEPT
                       !.content = o.content, !.bytes = body.bytes,
                       !.length = body.length, !.partial = body.partial]
    BY <1>2 DEF Served
  <2>2. /\ answer'.kind = "served" /\ answer'.of = f /\ answer'.session = call[c].session
        /\ answer'.asked = call[c].asked /\ answer'.header = h /\ answer'.content = o.content
        /\ answer'.bytes = body.bytes /\ answer'.length = body.length /\ answer'.partial = body.partial
    BY <2>1 DEF Reply, NoAnswer
  <2>3. o.content = f
    BY <1>0 DEF OnlyOf
  <2> DEFINE named(n) == {i \in 0..(n - 1) : h.kind = "range" => i >= h.start /\ (h.end = None \/ i <= h.end)}
  <2>4. /\ body.bytes = named(size[f]) /\ body.length = Cardinality(named(size[f]))
        /\ body.partial <=> h.kind = "range"
    BY <1>0, ExactRange
  <2>5. ServedIsExact'
    BY <1>u, <2>2, <2>3, <2>4 DEF ServedIsExact
  <2>6. MissingIsExplained' /\ GuestsKnewThePassword'
    BY <1>0, <2>2 DEF MissingIsExplained, GuestsKnewThePassword, Admitted
  <2>7. QED
    BY <2>5, <2>6
<1>3. QED
  BY <1>1, <1>2

\* A DOCX whose text is served has been read as a whole.
LEMMA DocxStep ==
  ASSUME Bounds, DInv, NEW c \in Calls, PreviewDocx(c)
  PROVE  ServedIsExact' /\ MissingIsExplained' /\ GuestsKnewThePassword'
<1> DEFINE f == call[c].of
           l == call[c].at
           found == {o \in objects : o.at = l}
           read == {i \in 0..(size[f] - 1) : i <= DocxLimit}
<1>u. call[c].pc = "opening" /\ UNCHANGED <<row, objects, purgeAsked, size>>
  BY DEF PreviewDocx, vars
<1>0. /\ f \in Files /\ l \in Locations /\ Admitted(call[c]) /\ OnlyOf(f, l)
      /\ size[f] \in Nat /\ MaxSize \in Nat /\ DocxLimit \in Nat
  BY <1>u DEF DInv, RowsTyped, CallsFit, CallFits, CallRows, Bounds
<1>1. CASE found = {} /\ answer' = Reply(c, "missing", NoHeader)
  <2>1. answer'.kind = "missing" /\ answer'.of = f /\ answer'.at = l
    BY <1>1 DEF Reply, NoAnswer
  <2>2. l # At(f) \/ f \in purgeAsked
    BY <1>0, <1>1, Found
  <2>3. QED
    BY <1>u, <2>1, <2>2 DEF ServedIsExact, MissingIsExplained, GuestsKnewThePassword, At
<1>2. CASE answer' = Reply(c, "no_text", NoHeader)
  <2>1. answer'.kind = "no_text"
    BY <1>2 DEF Reply, NoAnswer
  <2>2. QED
    BY <2>1 DEF ServedIsExact, MissingIsExplained, GuestsKnewThePassword
<1>3. ASSUME NEW o \in found, DocxLimit \notin read,
             answer' = [Reply(c, "extracted", NoHeader) EXCEPT !.content = o.content, !.bytes = read]
      PROVE  ServedIsExact' /\ MissingIsExplained' /\ GuestsKnewThePassword'
  <2>1. /\ answer'.kind = "extracted" /\ answer'.of = f /\ answer'.session = call[c].session
        /\ answer'.asked = call[c].asked /\ answer'.content = o.content /\ answer'.bytes = read
    BY <1>3 DEF Reply, NoAnswer
  <2>2. o.content = f
    BY <1>0, <1>3 DEF OnlyOf
  <2>3. read = 0..(size[f] - 1)
    BY <1>0, <1>3
  <2>4. ServedIsExact'
    BY <1>u, <2>1, <2>2, <2>3 DEF ServedIsExact
  <2>5. MissingIsExplained' /\ GuestsKnewThePassword'
    BY <1>0, <2>1 DEF MissingIsExplained, GuestsKnewThePassword, Admitted
  <2>6. QED
    BY <2>4, <2>5
<1>4. QED
  BY <1>1, <1>2, <1>3 DEF PreviewDocx

\* Downloads and previews end with an answer.
LEMMA AnswerStep ==
  ASSUME Bounds, DInv, NEW c \in Calls,
         \/ \E head \in BOOLEAN, h \in Headers : Download(c, head, h)
         \/ \E text \in BOOLEAN : Preview(c, text)
         \/ PreviewDocx(c)
  PROVE  DInv'
<1>0. /\ call[c].pc = "opening" /\ UNCHANGED <<secret, session, vars, size>>
      /\ call' = [call EXCEPT ![c] = IdleCall]
  BY DEF Download, Preview, PreviewDocx, Ends
<1>1. CInv' /\ PlacesClean' /\ RowsTyped' /\ Earned' /\ CallsFit'
  <2>1. secret' \in [Gates -> Passwords \cup {None}] /\ session' \in [Sessions -> SessionRows] /\ Earned'
    BY <1>0 DEF DInv, RowsTyped, Earned
  <2>2. QED
    BY <1>0, <2>1, FreshCalls, CallStep
<1>2. ASSUME NEW h, NEW kind \in {"unsupported", "unsatisfiable", "too_large"}, answer' = Reply(c, kind, h)
      PROVE  ServedIsExact' /\ MissingIsExplained' /\ GuestsKnewThePassword'
  <2>1. answer'.kind = kind
    BY <1>2 DEF Reply, NoAnswer
  <2>2. QED
    BY <2>1 DEF ServedIsExact, MissingIsExplained, GuestsKnewThePassword
<1>3. CASE \E head \in BOOLEAN, h \in Headers : Download(c, head, h)
  <2>1. PICK head \in BOOLEAN, h \in Headers : Download(c, head, h)
    BY <1>3
  <2>2. \/ answer' = Reply(c, "unsupported", h)
        \/ answer' = Reply(c, "unsatisfiable", h)
        \/ /\ Parsed(h, size[call[c].of]).ok
           /\ Served(c, "served", h, Parsed(h, size[call[c].of]))
    BY <2>1 DEF Download
  <2>3. ServedIsExact' /\ MissingIsExplained' /\ GuestsKnewThePassword'
    BY <1>0, <1>2, <2>2, ServedStep
  <2>4. QED
    BY <1>1, <2>3 DEF DInv
<1>4. CASE \E text \in BOOLEAN : Preview(c, text)
  <2>1. NoHeader \in Headers /\ Parsed(NoHeader, size[call[c].of]).ok
    BY DEF Headers, NoHeader, Parsed
  <2>2. \/ answer' = Reply(c, "too_large", NoHeader)
        \/ Served(c, "served", NoHeader, Parsed(NoHeader, size[call[c].of]))
    BY <1>4 DEF Preview
  <2>3. ServedIsExact' /\ MissingIsExplained' /\ GuestsKnewThePassword'
    BY <1>0, <1>2, <2>1, <2>2, ServedStep
  <2>4. QED
    BY <1>1, <2>3 DEF DInv
<1>5. CASE PreviewDocx(c)
  BY <1>1, <1>5, DocxStep DEF DInv
<1>6. QED
  BY <1>3, <1>4, <1>5

----------------------------------------------------------------------------
(* The storage under the calls.                                            *)

\* A step of the storage, seen from the calls: also one that a composition
\* takes, and that need not be one of StorageStep.
LEMMA StorageBelow ==
  ASSUME DInv, [Next]_vars, ~ Restart, secret' \in [Gates -> Passwords \cup {None}],
         answer' = NoAnswer, UNCHANGED <<size, session, call>>
  PROVE  DInv'
<1>1. CInv' /\ PlacesClean'
  BY CInvStep, PlacesStep DEF DInv
<1>2. RowsTyped' /\ Earned'
  BY DEF DInv, RowsTyped, Earned
<1>3. ASSUME NEW c \in Calls
      PROVE  CallFits(call[c])'
  <2>1. CallFits(call[c]) /\ call'[c] = call[c] /\ call[c] \in CallRows
    BY DEF DInv, CallsFit, RowsTyped
  <2>2. CASE call[c].pc = "opening"
    <3> DEFINE f == call[c].of
               l == call[c].at
    <3>1. l # None
      BY <2>1, <2>2 DEF CallFits
    <3>2. l \in Locations /\ l.key \in Keys
      BY <2>1, <3>1 DEF CallRows, Locations
    <3>3. Settled(l.key) /\ OnlyOf(f, l)
      BY <2>1, <2>2 DEF CallFits
    <3>4. Settled(l.key)'
      BY <1>1, <3>2, <3>3, SettledStays DEF DInv
    <3>5. OnlyOf(f, l)'
      BY <3>2, <3>3, OnlyOfStays DEF DInv
    <3>6. QED
      BY <2>1, <3>4, <3>5 DEF CallFits, Settled, OnlyOf, Begun, Earlier, Admitted
  <2>3. CASE call[c].pc # "opening"
    BY <2>1, <2>3 DEF CallFits, Admitted
  <2>4. QED
    BY <2>2, <2>3
<1>4. QED
  BY <1>1, <1>2, <1>3, Unanswered DEF DInv, CallsFit

\* The steps of FileStorage below downloads.
LEMMA StorageStepHolds ==
  ASSUME Bounds, DInv, StorageStep
  PROVE  DInv'
<1>1. [Next]_vars /\ restarts' = restarts
  BY DEF StorageStep, Next, Purging, PurgeMark, DeleteFile, RestoreFile, Start, PurgeRead, PurgeDelete,
         PurgeDeleteFails, PurgeAbandoned, Running, RunPending, RunBegin, RunLoad, RunCopy, RunPut,
         RunPutUnanswered, RunFail, RunSwitch, RunReject, RunDeleteSource, RunCleanupPending, RunSucceed
<1>2. ~ Restart
  BY <1>1 DEF Restart, DInv, CInv, CopiesInv, IInv, TypeOK
<1>3. secret' \in [Gates -> Passwords \cup {None}]
  BY DEF StorageStep, DInv, RowsTyped
<1>4. QED
  BY <1>1, <1>2, <1>3, StorageBelow DEF StorageStep

----------------------------------------------------------------------------
(* The theorems.                                                           *)

\* At the start every file is where its upload stored it, and nobody calls.
LEMMA InitDownloads ==
  ASSUME Bounds, DownloadsInit
  PROVE  DInv
<1>1. CInv
  BY InitSeen DEF DownloadsInit
<1>2. PlacesClean
  BY DEF DownloadsInit, Init, PlacesClean, OnlyOf, At, Whole, IdleRunner, UploadKey
<1>3. RowsTyped
  <2>1. NoSession \in SessionRows
    BY DEF NoSession, SessionRows
  <2>2. QED
    BY <2>1, FreshCalls DEF DownloadsInit, RowsTyped
<1>4. Earned
  BY DEF DownloadsInit, Earned, NoSession
<1>5. CallsFit
  BY FreshCalls DEF DownloadsInit, CallsFit
<1>6. ServedIsExact /\ MissingIsExplained /\ GuestsKnewThePassword
  BY DEF DownloadsInit, NoAnswer, ServedIsExact, MissingIsExplained, GuestsKnewThePassword
<1>7. QED
  BY <1>1, <1>2, <1>3, <1>4, <1>5, <1>6 DEF DInv

\* Every step of a download, of a password, or of the storage keeps DInv.
LEMMA DownloadsStep ==
  ASSUME Bounds, DInv, [DownloadsNext]_<<vars, readVars>>
  PROVE  DInv'
<1>1. CASE StorageStep
  BY <1>1, StorageStepHolds
<1>2. CASE \E c \in Calls :
             \/ \E f \in Files, p \in Passwords \cup {None} : StartSet(c, f, p)
             \/ \E page \in Pages, p \in Passwords \cup {None} : StartSetPage(c, page, p)
             \/ \E g \in Gates, p \in Passwords : Login(c, g, p)
             \/ \E s \in Sessions : OpenSession(c, s)
             \/ SetPassword(c) \/ CallStops(c)
  BY <1>2, PasswordStep
<1>3. CASE \E c \in Calls :
             \/ \E f \in Files : StartAsAdmin(c, f) \/ StartDownload(c, f)
             \/ \E page \in Pages : StartPage(c, page)
             \/ GetFile(c)
  BY <1>3, ReadingStep
<1>4. CASE \E c \in Calls, s \in Sessions : CheckSession(c, s)
  BY <1>4, CheckStep
<1>5. CASE \E c \in Calls :
             \/ \E head \in BOOLEAN, h \in Headers : Download(c, head, h)
             \/ \E text \in BOOLEAN : Preview(c, text)
             \/ PreviewDocx(c)
  BY <1>5, AnswerStep
<1>6. CASE \E s \in Sessions : SessionExpires(s)
  BY <1>6, ExpiryStep
<1>7. CASE UNCHANGED <<vars, readVars>>
  <2>1. UNCHANGED <<vars, size, secret, session, call, answer>>
    BY <1>7 DEF readVars
  <2>2. CInv' /\ PlacesClean'
    BY <2>1, StorageAlone
  <2>3. CallsFit'
    BY <2>1 DEF DInv, CallsFit, CallFits, Settled, OnlyOf, Begun, Earlier, Admitted, vars
  <2>4. RowsTyped' /\ Earned'
    BY <2>1 DEF DInv, RowsTyped, Earned
  <2>5. ServedIsExact' /\ MissingIsExplained' /\ GuestsKnewThePassword'
    BY <2>1 DEF DInv, ServedIsExact, MissingIsExplained, GuestsKnewThePassword, vars, At
  <2>6. QED
    BY <2>2, <2>3, <2>4, <2>5 DEF DInv
<1>8. QED
  BY <1>1, <1>2, <1>3, <1>4, <1>5, <1>6, <1>7 DEF DownloadsNext

\* DInv has the shape of everything that DownloadsTypeOK speaks of.
LEMMA DownloadsTyped ==
  ASSUME DInv
  PROVE  DownloadsTypeOK
BY DEF DInv, RowsTyped, CallsFit, CallFits, CallRows, SessionRows, DownloadsTypeOK

\* Secrets, sessions and calls always have their shape.
THEOREM DownloadsTyping ==
  ASSUME Bounds
  PROVE  DownloadsSpec => []DownloadsTypeOK
BY InitDownloads, DownloadsStep, DownloadsTyped, PTL DEF DownloadsSpec

\* Whatever is migrated, trashed, purged or given a password between the steps
\* of a download: the client gets the file's own bytes, those that the header
\* names, and their number; or, of a DOCX, the text of the whole document.
THEOREM DownloadsAreExact ==
  ASSUME Bounds
  PROVE  DownloadsSpec => []ServedIsExact
<1>1. DInv => ServedIsExact
  BY DEF DInv
<1>2. QED
  BY <1>1, InitDownloads, DownloadsStep, PTL DEF DownloadsSpec

\* Only migrations and purges make a reader find nothing.
THEOREM DownloadsAreExplained ==
  ASSUME Bounds
  PROVE  DownloadsSpec => []MissingIsExplained
<1>1. DInv => MissingIsExplained
  BY DEF DInv
<1>2. QED
  BY <1>1, InitDownloads, DownloadsStep, PTL DEF DownloadsSpec

\* The password in front of a file, or of the gallery, was known to every guest
\* who got past it, however often it is changed.
THEOREM GuestsAreAdmitted ==
  ASSUME Bounds
  PROVE  DownloadsSpec => []GuestsKnewThePassword
<1>1. DInv => GuestsKnewThePassword
  BY DEF DInv
<1>2. QED
  BY <1>1, InitDownloads, DownloadsStep, PTL DEF DownloadsSpec

=============================================================================
