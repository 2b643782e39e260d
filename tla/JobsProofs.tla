----------------------------- MODULE JobsProofs -----------------------------
(***************************************************************************)
(* The lease keeps two runners of one job apart, for any number of jobs,   *)
(* workers, calls of Put, administrators and crashes.                      *)
(*                                                                         *)
(* The argument is about the jobs whose lease never ran out.  A worker got *)
(* such a job from Lease, so it was running; the recoveries leave it alone *)
(* (LeasesRanOut), no Put is sending it (SendsRun), and an administrator    *)
(* may only set it to succeeded or failed, behind the worker's back.  So it *)
(* is never queued while it is held (HeldIsBegun), and nobody else leases  *)
(* or begins it.                                                           *)
(***************************************************************************)
EXTENDS Jobs, TLAPS

Busy(w) == worker[w].pc \in {"handling", "unhandled", "returned"}

\* A job is taken back only after its lease ran out while it was running.
LeasesRanOut == \A j \in JobIds : job[j].lease = "expired" => j \in expired

BackoffsWait == \A j \in JobIds : ~ job[j].due => job[j].state = "retry_wait"

BusyHave == \A w \in Workers : Busy(w) => worker[w].job \in JobIds /\ job[worker[w].job].state # "none"

PutsFresh == \A p \in PutCalls : put[p].pc = "idle" => job[p].state = "none"

\* A job becomes uncertain by the last statement of its Put.
UncertainPut == \A j \in JobIds : job[j].state = "uncertain" => j \in PutCalls /\ put[j].pc = "done"

AdminsHave ==
  \A a \in Admins : admin[a].pc = "resolving" => admin[a].job \in PutCalls /\ put[admin[a].job].pc = "done"

HeldIsBegun ==
  \A j \in JobIds \ expired, w \in Workers :
    Holds(w, j) => job[j].state \in {"running", "succeeded", "failed"}

SendsRun == \A p \in PutCalls \ expired : Sends(p) => job[p].state = "running"

\* What holds besides as long as one administrator at a time resolves jobs.
OneAdmin == \A a, b \in Admins : a = b

AloneResolves ==
  OneAdmin =>
    \A j \in JobIds \ expired :
      /\ \A a \in Admins : admin[a].pc = "resolving" /\ admin[a].job = j => job[j].state = "uncertain"
      /\ \A w \in Workers : Holds(w, j) => job[j].state = "running"

JobRows == [state : JobStates, lease : {"none", "held", "expired"}, due : BOOLEAN]

WorkerRows == [pc : {"idle", "leasing", "handling", "unhandled", "returned"},
               job : JobIds \cup {None}, beating : BOOLEAN, ok : BOOLEAN]

PutRows == [pc : {"idle", "beginning", "sending", "finishing", "done"},
            state : {"succeeded", "failed", "uncertain"}]

\* TypeOK in two halves: the rows of the table, and those who work on them.
JobsTyped ==
  /\ job \in [JobIds -> JobRows]
  /\ \A j \in JobIds : job[j].state = "running" <=> job[j].lease # "none"

RunnersTyped ==
  /\ worker \in [Workers -> WorkerRows]
  /\ put \in [PutCalls -> PutRows]
  /\ admin \in [Admins -> [pc : {"idle", "resolving"}, job : JobIds \cup {None},
                           action : {"bind", "retry", "fail"}]]
  /\ expired \subseteq JobIds
  /\ restarts \in Nat

IInv ==
  /\ TypeOK
  /\ LeasesRanOut
  /\ BackoffsWait
  /\ BusyHave
  /\ PutsFresh
  /\ UncertainPut
  /\ AdminsHave
  /\ HeldIsBegun
  /\ SendsRun
  /\ OneRunnerPerLease
  /\ AloneResolves

\* The initial states satisfy it: there are no jobs yet.
LEMMA InitHolds == Init => IInv
BY JobsAssumption
DEF Init, IInv, TypeOK, LeasesRanOut, BackoffsWait, BusyHave, PutsFresh, UncertainPut, AdminsHave, HeldIsBegun,
    SendsRun, OneRunnerPerLease, AloneResolves, IdleWorker, IdleAdmin, Busy, Holds, Sends, JobIds, JobStates

\* The two halves make up TypeOK.
LEMMA Typed == TypeOK <=> JobsTyped /\ RunnersTyped
BY DEF TypeOK, JobsTyped, RunnersTyped, JobRows, WorkerRows, PutRows

\* The same of the next state.
LEMMA TypedNext == TypeOK' <=> JobsTyped' /\ RunnersTyped'
BY DEF TypeOK, JobsTyped, RunnersTyped, JobRows, WorkerRows, PutRows

\* A statement on one row keeps the table well-formed.
LEMMA OneRow ==
  ASSUME JobsTyped, NEW j \in JobIds, NEW r \in JobRows, r.state = "running" <=> r.lease # "none",
         job' = [job EXCEPT ![j] = r]
  PROVE  JobsTyped' /\ job'[j] = r /\ \A i \in JobIds \ {j} : job'[i] = job[i]
BY DEF JobsTyped

\* The rows that Lease, Begin, Finish, Enqueue and Requeue leave are of that kind.
LEMMA RestRow ==
  ASSUME NEW s \in JobStates \ {"running"}, NEW due \in BOOLEAN
  PROVE  /\ Rest(s, due) \in JobRows
         /\ Rest(s, due).state = s /\ Rest(s, due).lease = "none" /\ Rest(s, due).due = due
BY DEF Rest, JobRows

\* ... the leased one too.
LEMMA RunningRow ==
  Running \in JobRows /\ Running.state = "running" /\ Running.lease = "held" /\ Running.due = TRUE
BY DEF Running, JobRows, JobStates

\* A statement that leaves a row at rest.
LEMMA RestStep ==
  ASSUME JobsTyped, NEW j \in JobIds, NEW s \in JobStates \ {"running"}, NEW due \in BOOLEAN,
         job' = [job EXCEPT ![j] = Rest(s, due)]
  PROVE  /\ JobsTyped'
         /\ job'[j].state = s /\ job'[j].lease = "none" /\ job'[j].due = due
         /\ \A i \in JobIds \ {j} : job'[i] = job[i]
<1>1. /\ Rest(s, due) \in JobRows
      /\ Rest(s, due).state = s /\ Rest(s, due).lease = "none" /\ Rest(s, due).due = due
  BY RestRow
<1>2. Rest(s, due).state = "running" <=> Rest(s, due).lease # "none"
  BY <1>1
<1>3. JobsTyped' /\ job'[j] = Rest(s, due) /\ \A i \in JobIds \ {j} : job'[i] = job[i]
  BY <1>1, <1>2, OneRow
<1>4. QED
  BY <1>1, <1>3

\* A recovery takes jobs back whose lease has expired, and no other.
LEMMA RecoveryStep ==
  ASSUME IInv, RecoverExpired \/ \E w \in Workers : RunRecover(w)
  PROVE  IInv'
<1> USE JobsAssumption DEF IInv
<1>1. job' = [j \in JobIds |-> Recovered(job[j])] /\ UNCHANGED <<put, admin, expired, restarts>>
  BY DEF RecoverExpired, RunRecover
<1>2. worker' = worker \/ \E w \in Workers : worker[w].pc = "idle" /\ worker' = [worker EXCEPT ![w].pc = "leasing"]
  BY DEF RecoverExpired, RunRecover
<1>3. \A j \in JobIds :
        /\ job'[j] = job[j] \/ (j \in expired /\ job'[j] = Rest("retry_wait", TRUE))
        /\ job[j].state # "running" => job'[j] = job[j]
  BY <1>1 DEF Recovered, LeasesRanOut
<1>4. \A w \in Workers : /\ worker'[w].job = worker[w].job
                         /\ Busy(w)' <=> Busy(w)
  BY <1>2 DEF TypeOK, Busy
<1>5. TypeOK'
  <2>1. JobsTyped /\ RunnersTyped
    BY Typed
  <2>2. Rest("retry_wait", TRUE) \in JobRows
        /\ Rest("retry_wait", TRUE).state = "retry_wait" /\ Rest("retry_wait", TRUE).lease = "none"
    BY RestRow DEF JobStates
  <2>3. JobsTyped'
    BY <1>1, <1>3, <2>1, <2>2 DEF JobsTyped
  <2>4. worker' \in [Workers -> WorkerRows]
    <3>1. ASSUME NEW w \in Workers PROVE [worker[w] EXCEPT !.pc = "leasing"] \in WorkerRows
      <4>1. worker[w] \in WorkerRows
        BY <2>1 DEF RunnersTyped
      <4>2. QED
        BY <4>1 DEF WorkerRows
    <3>2. QED
      BY <1>2, <2>1, <3>1 DEF RunnersTyped
  <2>5. QED
    BY <1>1, <2>1, <2>3, <2>4, TypedNext DEF RunnersTyped
<1>6. LeasesRanOut' /\ BackoffsWait' /\ PutsFresh'
  <2>1. LeasesRanOut' /\ BackoffsWait'
    BY <1>1, <1>3 DEF LeasesRanOut, BackoffsWait, Rest
  <2>2. PutsFresh'
    BY <1>1, <1>3 DEF PutsFresh, JobIds
  <2>3. QED
    BY <2>1, <2>2
<1>7. BusyHave' /\ UncertainPut' /\ AdminsHave'
  BY <1>1, <1>3, <1>4 DEF TypeOK, BusyHave, UncertainPut, AdminsHave, Rest
<1>8. \A w \in Workers, j \in JobIds : Holds(w, j)' <=> Holds(w, j)
  BY <1>4 DEF Holds, Busy
<1>9. HeldIsBegun' /\ SendsRun' /\ AloneResolves'
  <2>1. \A j \in JobIds \ expired : job'[j] = job[j]
    BY <1>3
  <2>2. HeldIsBegun'
    BY <1>1, <1>8, <2>1 DEF HeldIsBegun
  <2>3. SendsRun'
    BY <1>1, <2>1 DEF SendsRun, Sends, JobIds
  <2>4. AloneResolves'
    BY <1>1, <1>8, <2>1 DEF AloneResolves, OneAdmin
  <2>5. QED
    BY <2>2, <2>3, <2>4
<1>10. OneRunnerPerLease'
  BY <1>1, <1>8 DEF OneRunnerPerLease, Sends
<1>11. QED
  BY <1>5, <1>6, <1>7, <1>9, <1>10

\* Time takes a lease from a running job, which is on record, or ends a backoff.
LEMMA TimeStep ==
  ASSUME IInv, NEW j \in JobIds, LeaseExpires(j) \/ BackoffEnds(j)
  PROVE  IInv'
<1> USE JobsAssumption DEF IInv
<1>1. JobsTyped /\ RunnersTyped
  BY Typed
<1>2. UNCHANGED <<worker, put, admin, restarts>> /\ expired \subseteq expired' /\ expired' \subseteq JobIds
  BY <1>1 DEF LeaseExpires, BackoffEnds, RunnersTyped
<1>3. PICK r \in JobRows :
        /\ job' = [job EXCEPT ![j] = r]
        /\ r.state = job[j].state
        /\ r.state = "running" <=> r.lease # "none"
        /\ r.lease = "expired" => j \in expired'
        /\ ~ r.due => ~ job[j].due
  <2>1. CASE LeaseExpires(j)
    <3>1. [job[j] EXCEPT !.lease = "expired"] \in JobRows
      BY <1>1 DEF JobsTyped, JobRows
    <3>2. QED
      BY <1>1, <2>1, <3>1 DEF LeaseExpires, JobsTyped, JobRows
  <2>2. CASE BackoffEnds(j)
    <3>1. [job[j] EXCEPT !.due = TRUE] \in JobRows
      BY <1>1 DEF JobsTyped, JobRows
    <3>2. QED
      BY <1>1, <2>2, <3>1 DEF BackoffEnds, JobsTyped, JobRows, LeasesRanOut
  <2>3. QED
    BY <2>1, <2>2
<1>4. JobsTyped' /\ \A i \in JobIds \ {j} : job'[i] = job[i]
  BY <1>1, <1>3, OneRow
<1>5. job'[j] = r /\ \A i \in JobIds : job'[i].state = job[i].state
  BY <1>1, <1>3, <1>4, OneRow
<1>6. TypeOK'
  BY <1>1, <1>2, <1>4, TypedNext DEF RunnersTyped
<1>7. LeasesRanOut' /\ BackoffsWait'
  BY <1>2, <1>3, <1>4, <1>5 DEF LeasesRanOut, BackoffsWait
<1>8. BusyHave' /\ PutsFresh' /\ UncertainPut' /\ AdminsHave'
  BY <1>2, <1>5 DEF BusyHave, PutsFresh, UncertainPut, AdminsHave, Busy, JobIds
<1>9. HeldIsBegun'
  BY <1>2, <1>5 DEF HeldIsBegun, Holds
<1>10. SendsRun'
  BY <1>2, <1>5 DEF SendsRun, Sends, JobIds
<1>11. OneRunnerPerLease'
  BY <1>2 DEF OneRunnerPerLease, Holds, Sends
<1>12. AloneResolves'
  BY <1>2, <1>5 DEF AloneResolves, OneAdmin, Holds
<1>13. QED
  BY <1>6, <1>7, <1>8, <1>9, <1>10, <1>11, <1>12

\* A new job is nobody's.
LEMMA EnqueueStep ==
  ASSUME IInv, NEW j \in WorkJobs, EnqueueWork(j)
  PROVE  IInv'
<1> USE JobsAssumption DEF IInv
<1> DEFINE r == Rest("queued", TRUE)
<1>1. JobsTyped /\ RunnersTyped /\ j \in JobIds /\ j \notin PutCalls
  BY Typed DEF JobIds
<1>2. job[j].state = "none" /\ job' = [job EXCEPT ![j] = r] /\ UNCHANGED <<worker, put, admin, expired, restarts>>
  BY DEF EnqueueWork, Enqueued
<1>3. r \in JobRows /\ r.state = "queued" /\ r.lease = "none" /\ r.due = TRUE
  BY RestRow DEF JobStates
<1>4. JobsTyped' /\ job'[j] = r /\ \A i \in JobIds \ {j} : job'[i] = job[i]
  BY <1>1, <1>2, <1>3, OneRow
<1> HIDE DEF r
<1>5. TypeOK'
  BY <1>1, <1>2, <1>4, TypedNext DEF RunnersTyped
<1>6. LeasesRanOut' /\ BackoffsWait' /\ BusyHave'
  BY <1>2, <1>3, <1>4 DEF LeasesRanOut, BackoffsWait, BusyHave, Busy
<1>7. PutsFresh' /\ UncertainPut' /\ AdminsHave' /\ SendsRun'
  BY <1>1, <1>2, <1>3, <1>4 DEF PutsFresh, UncertainPut, AdminsHave, SendsRun, Sends, JobIds
<1>8. \A w \in Workers : j \notin expired => ~ Holds(w, j)
  BY <1>1, <1>2 DEF HeldIsBegun
<1>9. HeldIsBegun'
  BY <1>2, <1>4, <1>8 DEF HeldIsBegun, Holds
<1>10. OneRunnerPerLease'
  BY <1>2 DEF OneRunnerPerLease, Holds, Sends
<1>11. AloneResolves'
  BY <1>1, <1>2, <1>4, <1>8 DEF AloneResolves, OneAdmin, Holds, AdminsHave
<1>12. QED
  BY <1>5, <1>6, <1>7, <1>9, <1>10, <1>11

\* A worker changes: its row keeps its shape, and the other workers stay.
LEMMA OneWorker ==
  ASSUME RunnersTyped, NEW w \in Workers, NEW x \in WorkerRows, worker' = [worker EXCEPT ![w] = x],
         UNCHANGED <<put, admin, expired, restarts>>
  PROVE  RunnersTyped' /\ worker'[w] = x /\ \A v \in Workers \ {w} : worker'[v] = worker[v]
BY DEF RunnersTyped

\* Lease takes a job that is queued, so one that nobody holds or sends.
LEMMA LeaseStep ==
  ASSUME IInv, NEW w \in Workers, RunLease(w)
  PROVE  IInv'
<1> USE JobsAssumption DEF IInv
<1>1. JobsTyped /\ RunnersTyped
  BY Typed
<1>2. PICK j \in JobIds :
        /\ Leasable(j)
        /\ job' = [job EXCEPT ![j] = Running]
        /\ worker' = [worker EXCEPT ![w] =
             [pc |-> IF j \in WorkJobs THEN "handling" ELSE "unhandled", job |-> j, beating |-> TRUE, ok |-> FALSE]]
  BY DEF RunLease
<1>3. PICK x \in WorkerRows :
        /\ worker' = [worker EXCEPT ![w] = x]
        /\ x.job = j
        /\ x.pc \in {"handling", "unhandled"}
  <2>1. [pc |-> IF j \in WorkJobs THEN "handling" ELSE "unhandled", job |-> j, beating |-> TRUE, ok |-> FALSE]
        \in WorkerRows
    BY DEF WorkerRows
  <2>2. QED
    BY <1>2, <2>1
<1>4. UNCHANGED <<put, admin, expired, restarts>>
  BY DEF RunLease
<1>5. JobsTyped' /\ job'[j] = Running /\ \A i \in JobIds \ {j} : job'[i] = job[i]
  BY <1>1, <1>2, OneRow, RunningRow
<1>6. RunnersTyped' /\ worker'[w] = x /\ \A v \in Workers \ {w} : worker'[v] = worker[v]
  BY <1>1, <1>3, <1>4, OneWorker
<1>7. job[j].state \in {"queued", "retry_wait"}
  BY <1>2 DEF Leasable, Queued
<1>8. j \notin expired => \A v \in Workers : ~ Holds(v, j)
  BY <1>7 DEF HeldIsBegun
<1>9. j \in PutCalls => put[j].pc # "idle" /\ (j \notin expired => ~ Sends(j))
  BY <1>7 DEF PutsFresh, SendsRun
<1>10. \A v \in Workers, i \in JobIds : Holds(v, i)' <=> IF v = w THEN i = j ELSE Holds(v, i)
  BY <1>3, <1>6 DEF Holds
<1>11. TypeOK'
  BY <1>5, <1>6, TypedNext
<1>12. LeasesRanOut' /\ BackoffsWait' /\ PutsFresh' /\ UncertainPut' /\ AdminsHave'
  BY <1>4, <1>5, <1>9, RunningRow DEF LeasesRanOut, BackoffsWait, PutsFresh, UncertainPut, AdminsHave, JobIds
<1>13. BusyHave'
  BY <1>3, <1>5, <1>6, RunningRow DEF BusyHave, Busy
<1>14. HeldIsBegun'
  <2> SUFFICES ASSUME NEW i \in JobIds \ expired, NEW v \in Workers, Holds(v, i)'
               PROVE  job'[i].state \in {"running", "succeeded", "failed"}
    BY <1>4 DEF HeldIsBegun
  <2>1. CASE v = w
    BY <1>5, <1>10, <2>1, RunningRow
  <2>2. CASE v # w
    BY <1>5, <1>8, <1>10, <2>2, RunningRow DEF HeldIsBegun
  <2>3. QED
    BY <2>1, <2>2
<1>15. SendsRun'
  BY <1>4, <1>5, RunningRow DEF SendsRun, Sends, JobIds
<1>16. OneRunnerPerLease'
  <2>1. \A i \in JobIds \ expired, v, u \in Workers : Holds(v, i)' /\ Holds(u, i)' => v = u
    BY <1>8, <1>10 DEF OneRunnerPerLease
  <2>2. \A i \in JobIds \ expired, v \in Workers : i \in PutCalls /\ Sends(i)' => ~ Holds(v, i)'
    BY <1>4, <1>9, <1>10 DEF OneRunnerPerLease, Sends
  <2>3. QED
    BY <1>4, <2>1, <2>2 DEF OneRunnerPerLease
<1>17. AloneResolves'
  <2> SUFFICES ASSUME OneAdmin, NEW i \in JobIds \ expired
               PROVE  /\ \A a \in Admins : admin[a].pc = "resolving" /\ admin[a].job = i => job'[i].state = "uncertain"
                      /\ \A v \in Workers : Holds(v, i)' => job'[i].state = "running"
    BY <1>4 DEF AloneResolves, OneAdmin
  <2>1. CASE i = j
    BY <1>5, <1>7, <2>1, RunningRow DEF AloneResolves
  <2>2. CASE i # j
    BY <1>5, <1>10, <2>2 DEF AloneResolves
  <2>3. QED
    BY <2>1, <2>2
<1>18. QED
  BY <1>11, <1>12, <1>13, <1>14, <1>15, <1>16, <1>17

\* RunNothing and HandlerReturns touch no job, and take none up.
LEMMA WorkerStep ==
  ASSUME IInv, NEW w \in Workers, RunNothing(w) \/ HandlerReturns(w)
  PROVE  IInv'
<1> USE JobsAssumption DEF IInv
<1>1. JobsTyped /\ RunnersTyped
  BY Typed
<1>2. PICK x \in WorkerRows :
        /\ worker' = [worker EXCEPT ![w] = x]
        /\ x.pc = "idle" \/ (Busy(w) /\ x.job = worker[w].job)
  <2>1. CASE RunNothing(w)
    <3>1. IdleWorker \in WorkerRows /\ IdleWorker.pc = "idle"
      BY DEF IdleWorker, WorkerRows
    <3>2. QED
      BY <2>1, <3>1 DEF RunNothing
  <2>2. CASE HandlerReturns(w)
    <3>1. PICK ok \in BOOLEAN : worker' = [worker EXCEPT ![w].pc = "returned", ![w].ok = ok]
      BY <2>2 DEF HandlerReturns
    <3>2. worker' = [worker EXCEPT ![w] = [@ EXCEPT !.pc = "returned", !.ok = ok]]
      BY <3>1
    <3>3. worker[w] \in WorkerRows
      BY <1>1 DEF RunnersTyped
    <3>4. [worker[w] EXCEPT !.pc = "returned", !.ok = ok] \in WorkerRows
      BY <3>3 DEF WorkerRows
    <3>5. QED
      BY <2>2, <3>2, <3>3, <3>4 DEF HandlerReturns, Busy, WorkerRows
  <2>3. QED
    BY <2>1, <2>2
<1>3. UNCHANGED <<job, put, admin, expired, restarts>>
  BY DEF RunNothing, HandlerReturns
<1>4. RunnersTyped' /\ worker'[w] = x /\ \A v \in Workers \ {w} : worker'[v] = worker[v]
  BY <1>1, <1>2, <1>3, OneWorker
<1>5. \A v \in Workers, i \in JobIds : Holds(v, i)' => Holds(v, i)
  BY <1>2, <1>4 DEF Holds, Busy
<1>6. TypeOK'
  BY <1>1, <1>3, <1>4, TypedNext DEF JobsTyped
<1>7. LeasesRanOut' /\ BackoffsWait' /\ PutsFresh' /\ UncertainPut' /\ AdminsHave' /\ SendsRun'
  BY <1>3 DEF LeasesRanOut, BackoffsWait, PutsFresh, UncertainPut, AdminsHave, SendsRun, Sends
<1>8. BusyHave'
  BY <1>2, <1>3, <1>4 DEF BusyHave, Busy
<1>9. HeldIsBegun' /\ AloneResolves'
  BY <1>3, <1>5 DEF HeldIsBegun, AloneResolves, OneAdmin
<1>10. OneRunnerPerLease'
  BY <1>3, <1>5 DEF OneRunnerPerLease, Sends
<1>11. QED
  BY <1>6, <1>7, <1>8, <1>9, <1>10

\* A heartbeat gives a running job its lease back, or stops.
LEMMA HeartbeatStep ==
  ASSUME IInv, NEW w \in Workers, Heartbeat(w)
  PROVE  IInv'
<1> USE JobsAssumption DEF IInv
<1> DEFINE j == worker[w].job
<1>1. JobsTyped /\ RunnersTyped /\ j \in JobIds
  BY Typed DEF Heartbeat, BusyHave, Busy
<1>2. UNCHANGED <<put, admin, expired, restarts>>
  BY DEF Heartbeat
<1>3. /\ JobsTyped'
      /\ \A i \in JobIds : /\ job'[i].state = job[i].state
                           /\ job'[i].due = job[i].due
                           /\ job'[i].lease = job[i].lease \/ job'[i].lease = "held"
  <2>1. CASE job[j].state = "running" /\ job' = [job EXCEPT ![j].lease = "held"]
    <3>1. job[j] \in JobRows
      BY <1>1 DEF JobsTyped
    <3>2. [job[j] EXCEPT !.lease = "held"] \in JobRows
      BY <3>1 DEF JobRows
    <3>3. [job[j] EXCEPT !.lease = "held"].state = job[j].state
          /\ [job[j] EXCEPT !.lease = "held"].due = job[j].due
          /\ [job[j] EXCEPT !.lease = "held"].lease = "held"
      BY <3>1 DEF JobRows
    <3>4. job' = [job EXCEPT ![j] = [job[j] EXCEPT !.lease = "held"]]
      BY <2>1
    <3>5. JobsTyped' /\ job'[j] = [job[j] EXCEPT !.lease = "held"] /\ \A i \in JobIds \ {j} : job'[i] = job[i]
      BY <1>1, <2>1, <3>2, <3>3, <3>4, OneRow
    <3>6. QED
      BY <3>3, <3>5
  <2>2. CASE UNCHANGED job
    BY <1>1, <2>2 DEF JobsTyped
  <2>3. QED
    BY <2>1, <2>2 DEF Heartbeat
<1>4. /\ worker' \in [Workers -> WorkerRows]
      /\ \A v \in Workers : worker'[v].pc = worker[v].pc /\ worker'[v].job = worker[v].job
  <2>1. CASE worker' = [worker EXCEPT ![w].beating = FALSE]
    <3>1. worker[w] \in WorkerRows
      BY <1>1 DEF RunnersTyped
    <3>2. [worker[w] EXCEPT !.beating = FALSE] \in WorkerRows
      BY <3>1 DEF WorkerRows
    <3>3. [worker[w] EXCEPT !.beating = FALSE].pc = worker[w].pc /\ [worker[w] EXCEPT !.beating = FALSE].job = j
      BY <3>1 DEF WorkerRows
    <3>4. QED
      BY <1>1, <2>1, <3>2, <3>3 DEF RunnersTyped
  <2>2. CASE UNCHANGED worker
    BY <1>1, <2>2 DEF RunnersTyped
  <2>3. QED
    BY <2>1, <2>2 DEF Heartbeat
<1> HIDE DEF j
<1>5. \A v \in Workers, i \in JobIds : Holds(v, i)' <=> Holds(v, i)
  BY <1>4 DEF Holds
<1>6. TypeOK'
  BY <1>1, <1>2, <1>3, <1>4, TypedNext DEF RunnersTyped
<1>7. LeasesRanOut' /\ BackoffsWait'
  BY <1>2, <1>3 DEF LeasesRanOut, BackoffsWait
<1>8. BusyHave'
  BY <1>3, <1>4 DEF BusyHave, Busy
<1>9. PutsFresh' /\ UncertainPut' /\ AdminsHave' /\ SendsRun'
  BY <1>2, <1>3 DEF PutsFresh, UncertainPut, AdminsHave, SendsRun, Sends, JobIds
<1>10. HeldIsBegun' /\ AloneResolves'
  BY <1>2, <1>3, <1>5 DEF HeldIsBegun, AloneResolves, OneAdmin
<1>11. OneRunnerPerLease'
  BY <1>2, <1>5 DEF OneRunnerPerLease, Sends
<1>12. QED
  BY <1>6, <1>7, <1>8, <1>9, <1>10, <1>11

\* The holder of a job finishes it: if the lease was kept, it is the only one.
LEMMA FinishStep ==
  ASSUME IInv, NEW w \in Workers, RunUnhandled(w) \/ RunFinish(w)
  PROVE  IInv'
<1> USE JobsAssumption DEF IInv
<1>1. PICK j \in JobIds : Holds(w, j) /\ j = worker[w].job
  BY DEF RunUnhandled, RunFinish, BusyHave, Busy, Holds
<1>2. PICK s \in {"succeeded", "failed", "retry_wait"} : job' = [job EXCEPT ![j] = Rest(s, s # "retry_wait")]
  BY <1>1 DEF RunUnhandled, RunFinish, Finish
<1>3. worker' = [worker EXCEPT ![w] = IdleWorker] /\ UNCHANGED <<put, admin, expired, restarts>>
  BY DEF RunUnhandled, RunFinish
<1>4. JobsTyped /\ RunnersTyped
  BY Typed
<1> DEFINE r == Rest(s, s # "retry_wait")
<1>5. r \in JobRows /\ r.state = s /\ r.lease = "none" /\ (r.due = (s # "retry_wait"))
  BY RestRow DEF JobStates
<1>6. JobsTyped' /\ job'[j] = r /\ \A i \in JobIds \ {j} : job'[i] = job[i]
  BY <1>2, <1>4, <1>5, OneRow
<1> HIDE DEF r
<1>7. IdleWorker \in WorkerRows /\ IdleWorker.pc = "idle"
  BY DEF IdleWorker, WorkerRows
<1>8. RunnersTyped' /\ worker'[w] = IdleWorker /\ \A v \in Workers \ {w} : worker'[v] = worker[v]
  BY <1>3, <1>4, <1>7, OneWorker
<1>9. \A v \in Workers, i \in JobIds : Holds(v, i)' => Holds(v, i) /\ v # w
  BY <1>7, <1>8 DEF Holds
<1>10. j \notin expired => /\ \A v \in Workers : ~ Holds(v, j)'
                          /\ job[j].state \in {"running", "succeeded", "failed"}
  BY <1>1, <1>9 DEF OneRunnerPerLease, HeldIsBegun
<1>11. j \in PutCalls => put[j].pc # "idle" /\ (j \notin expired => ~ Sends(j))
  BY <1>1 DEF PutsFresh, BusyHave, OneRunnerPerLease, Holds, Busy
<1>12. TypeOK'
  BY <1>6, <1>8, TypedNext
<1>13. LeasesRanOut' /\ BackoffsWait'
  BY <1>3, <1>5, <1>6 DEF LeasesRanOut, BackoffsWait
<1>14. BusyHave'
  BY <1>5, <1>6, <1>7, <1>8 DEF BusyHave, Busy
<1>15. PutsFresh' /\ UncertainPut' /\ AdminsHave' /\ SendsRun'
  BY <1>3, <1>5, <1>6, <1>11 DEF PutsFresh, UncertainPut, AdminsHave, SendsRun, Sends, JobIds
<1>16. HeldIsBegun' /\ AloneResolves'
  BY <1>3, <1>6, <1>9, <1>10 DEF HeldIsBegun, AloneResolves, OneAdmin
<1>17. OneRunnerPerLease'
  BY <1>3, <1>9 DEF OneRunnerPerLease, Sends
<1>18. QED
  BY <1>12, <1>13, <1>14, <1>15, <1>16, <1>17

\* Put works on its own job, which only its last statement makes uncertain.
LEMMA PutStep ==
  ASSUME IInv, NEW p \in PutCalls, PutEnqueue(p) \/ PutBegin(p) \/ PutSend(p) \/ PutFinish(p)
  PROVE  IInv'
<1> USE JobsAssumption DEF IInv
<1>1. JobsTyped /\ RunnersTyped /\ p \in JobIds
  BY Typed DEF JobIds
<1>2. UNCHANGED <<worker, admin, expired, restarts>> /\ put[p].pc # "done"
  BY DEF PutEnqueue, PutBegin, PutSend, PutFinish
<1>3. /\ put' \in [PutCalls -> PutRows]
      /\ put'[p].pc # "idle"
      /\ \A q \in PutCalls \ {p} : put'[q] = put[q]
  <2>1. put \in [PutCalls -> PutRows] /\ put[p] \in PutRows
    BY <1>1 DEF RunnersTyped
  <2>2. PICK y \in PutRows : y.pc # "idle" /\ put' = [put EXCEPT ![p] = y]
    <3>1. CASE \E pc \in {"beginning", "sending", "done"} : put' = [put EXCEPT ![p].pc = pc]
      <4>1. PICK pc \in {"beginning", "sending", "done"} : put' = [put EXCEPT ![p] = [put[p] EXCEPT !.pc = pc]]
        BY <3>1
      <4>2. [put[p] EXCEPT !.pc = pc] \in PutRows /\ [put[p] EXCEPT !.pc = pc].pc = pc
        BY <2>1 DEF PutRows
      <4>3. QED
        BY <4>1, <4>2
    <3>2. CASE PutSend(p)
      <4>1. PICK s \in {"succeeded", "failed", "uncertain"}, pc \in {"finishing", "done"} :
              put' = [put EXCEPT ![p] = [pc |-> pc, state |-> s]]
        BY <3>2 DEF PutSend
      <4>2. [pc |-> pc, state |-> s] \in PutRows
        BY DEF PutRows
      <4>3. QED
        BY <4>1, <4>2
    <3>3. QED
      BY <3>1, <3>2 DEF PutEnqueue, PutBegin, PutFinish
  <2>3. QED
    BY <2>1, <2>2
\* What becomes of the row, and when it may become so.
<1>4. /\ JobsTyped'
      /\ \A i \in JobIds \ {p} : job'[i] = job[i]
      /\ job'[p].lease = "expired" => p \in expired
      /\ ~ job'[p].due => job'[p].state = "retry_wait"
      /\ job[p].state # "none" => job'[p].state # "none"
      /\ job'[p].state = "uncertain" => put'[p].pc = "done"
      /\ p \notin expired /\ Sends(p)' => job'[p].state = "running"
      /\ p \notin expired /\ (\E w \in Workers : Holds(w, p)) => UNCHANGED job /\ ~ Sends(p)'
  <2>1. CASE PutEnqueue(p)
    <3>1. job[p].state = "none"
      BY <2>1 DEF PutEnqueue, PutsFresh
    <3>2. \A w \in Workers : ~ Holds(w, p)
      BY <3>1 DEF BusyHave, Busy, Holds
    <3>3. put'[p].pc = "beginning"
      BY <1>1, <2>1 DEF PutEnqueue, RunnersTyped, PutRows
    <3>4. "queued" \in JobStates \ {"running"} /\ job' = [job EXCEPT ![p] = Rest("queued", TRUE)]
      BY <2>1 DEF PutEnqueue, Enqueued, JobStates
    <3>5. /\ JobsTyped'
          /\ job'[p].state = "queued" /\ job'[p].lease = "none" /\ job'[p].due
          /\ \A i \in JobIds \ {p} : job'[i] = job[i]
      BY <1>1, <3>4, RestStep
    <3>6. QED
      BY <3>2, <3>3, <3>5 DEF Sends
  <2>2. CASE PutBegin(p) /\ Queued(p)
    <3>1. p \notin expired => \A w \in Workers : ~ Holds(w, p)
      BY <1>1, <2>2 DEF Queued, HeldIsBegun
    <3>2. job' = [job EXCEPT ![p] = Running]
      BY <2>2 DEF PutBegin
    <3>3. JobsTyped' /\ job'[p] = Running /\ \A i \in JobIds \ {p} : job'[i] = job[i]
      BY <1>1, <3>2, RunningRow, OneRow
    <3>4. QED
      BY <3>1, <3>3, RunningRow
  <2>3. CASE PutBegin(p) /\ ~ Queued(p)
    <3>1. UNCHANGED job /\ put'[p].pc = "done"
      BY <1>1, <2>3 DEF PutBegin, RunnersTyped, PutRows
    <3>2. QED
      BY <1>1, <3>1 DEF JobsTyped, LeasesRanOut, BackoffsWait, Sends
  <2>4. CASE PutSend(p)
    <3>1. UNCHANGED job /\ Sends(p) /\ put'[p].pc \in {"finishing", "done"}
      BY <1>1, <2>4 DEF PutSend, RunnersTyped, PutRows, Sends
    <3>2. job[p].state # "uncertain"
      BY <1>1, <1>2 DEF UncertainPut
    <3>3. QED
      BY <1>1, <3>1, <3>2 DEF JobsTyped, LeasesRanOut, BackoffsWait, SendsRun, OneRunnerPerLease, Sends
  <2>5. CASE PutFinish(p)
    <3>1. Sends(p) /\ put'[p].pc = "done"
      BY <1>1, <2>5 DEF PutFinish, RunnersTyped, PutRows, Sends
    <3>2. PICK s \in {"succeeded", "failed", "uncertain"} : job' = [job EXCEPT ![p] = Rest(s, s # "retry_wait")]
      BY <1>1, <2>5 DEF PutFinish, Finish, RunnersTyped, PutRows
    <3>3. p \notin expired => \A w \in Workers : ~ Holds(w, p)
      BY <1>1, <3>1 DEF OneRunnerPerLease
    <3>4. s \in JobStates \ {"running"}
      BY DEF JobStates
    <3>5. /\ JobsTyped'
          /\ job'[p].state = s /\ job'[p].lease = "none" /\ job'[p].due = (s # "retry_wait")
          /\ \A i \in JobIds \ {p} : job'[i] = job[i]
      BY <1>1, <3>2, <3>4, RestStep
    <3>6. QED
      BY <3>1, <3>3, <3>5 DEF Sends
  <2>6. QED
    BY <2>1, <2>2, <2>3, <2>4, <2>5
<1>5. \A w \in Workers, i \in JobIds : Holds(w, i)' <=> Holds(w, i)
  BY <1>2 DEF Holds
<1>6. \A q \in PutCalls \ {p} : Sends(q)' <=> Sends(q)
  BY <1>3 DEF Sends
<1>7. TypeOK'
  BY <1>1, <1>2, <1>3, <1>4, TypedNext DEF RunnersTyped
<1>8. LeasesRanOut' /\ BackoffsWait'
  BY <1>2, <1>4 DEF LeasesRanOut, BackoffsWait
<1>9. BusyHave' /\ PutsFresh'
  BY <1>2, <1>3, <1>4 DEF BusyHave, Busy, PutsFresh, JobIds
<1>10. UncertainPut' /\ AdminsHave'
  BY <1>2, <1>3, <1>4 DEF UncertainPut, AdminsHave
<1>11. HeldIsBegun'
  BY <1>2, <1>4, <1>5 DEF HeldIsBegun
<1>12. SendsRun'
  BY <1>2, <1>4, <1>6 DEF SendsRun, JobIds
<1>13. OneRunnerPerLease'
  BY <1>2, <1>4, <1>5, <1>6 DEF OneRunnerPerLease
<1>14. AloneResolves'
  BY <1>2, <1>4, <1>5 DEF AloneResolves, OneAdmin, AdminsHave
<1>15. QED
  BY <1>7, <1>8, <1>9, <1>10, <1>11, <1>12, <1>13, <1>14

\* An administrator looks at an uncertain job, whose Put is over, and later
\* closes it, or queues it if it is still uncertain: then nobody holds it.
LEMMA AdminStep ==
  ASSUME IInv, NEW a \in Admins, Resolve(a) \/ \E j \in JobIds : ResolveGet(a, j)
  PROVE  IInv'
<1> USE JobsAssumption DEF IInv
<1>1. JobsTyped /\ RunnersTyped
  BY Typed
<1>2. UNCHANGED <<worker, put, expired, restarts>>
  BY DEF Resolve, ResolveGet
<1>3. \A w \in Workers, i \in JobIds : Holds(w, i)' <=> Holds(w, i)
  BY <1>2 DEF Holds
<1>4. CASE \E j \in JobIds : ResolveGet(a, j)
  <2>1. PICK j \in JobIds, action \in {"bind", "retry", "fail"} :
          /\ job[j].state = "uncertain"
          /\ admin' = [admin EXCEPT ![a] = [pc |-> "resolving", job |-> j, action |-> action]]
          /\ UNCHANGED job
    BY <1>4 DEF ResolveGet
  <2>2. TypeOK'
    BY <1>1, <1>2, <2>1, TypedNext DEF RunnersTyped, JobsTyped
  <2>3. AdminsHave'
    BY <1>1, <1>2, <2>1 DEF AdminsHave, UncertainPut, RunnersTyped
  <2>4. AloneResolves'
    BY <1>1, <1>2, <1>3, <2>1 DEF AloneResolves, OneAdmin, RunnersTyped
  <2>5. QED
    BY <1>2, <1>3, <2>1, <2>2, <2>3, <2>4
    DEF LeasesRanOut, BackoffsWait, BusyHave, Busy, PutsFresh, UncertainPut, HeldIsBegun, SendsRun, Sends,
        OneRunnerPerLease
<1>5. CASE Resolve(a)
  <2>1. PICK j \in PutCalls : admin[a].pc = "resolving" /\ admin[a].job = j /\ put[j].pc = "done"
    BY <1>5 DEF Resolve, AdminsHave
  <2>2. j \in JobIds /\ admin' = [admin EXCEPT ![a] = IdleAdmin]
    BY <1>5, <2>1 DEF Resolve, JobIds
  <2>3. /\ JobsTyped'
        /\ \A i \in JobIds \ {j} : job'[i] = job[i]
        /\ \/ UNCHANGED job
           \/ /\ job'[j].lease = "none"
              /\ ~ job'[j].due => job'[j].state = "retry_wait"
              /\ \/ job'[j].state \in {"succeeded", "failed"}
                 \/ job'[j].state = "retry_wait" /\ job[j].state = "uncertain"
    <3>1. CASE UNCHANGED job
      BY <1>1, <3>1 DEF JobsTyped
    <3>2. CASE \E s \in {"succeeded", "failed"} : job' = [job EXCEPT ![j] = Rest(s, s # "retry_wait")]
      <4>1. PICK s \in {"succeeded", "failed"} : job' = [job EXCEPT ![j] = Rest(s, s # "retry_wait")]
        BY <3>2
      <4>2. s \in JobStates \ {"running"}
        BY DEF JobStates
      <4>3. /\ JobsTyped'
            /\ job'[j].state = s /\ job'[j].lease = "none" /\ job'[j].due = (s # "retry_wait")
            /\ \A i \in JobIds \ {j} : job'[i] = job[i]
        BY <1>1, <2>2, <4>1, <4>2, RestStep
      <4>4. QED
        BY <4>3
    <3>3. CASE job[j].state = "uncertain" /\ job' = [job EXCEPT ![j] = Rest("retry_wait", TRUE)]
      <4>1. "retry_wait" \in JobStates \ {"running"}
        BY DEF JobStates
      <4>2. /\ JobsTyped'
            /\ job'[j].state = "retry_wait" /\ job'[j].lease = "none"
            /\ \A i \in JobIds \ {j} : job'[i] = job[i]
        BY <1>1, <2>2, <3>3, <4>1, RestStep
      <4>3. QED
        BY <3>3, <4>2
    <3>4. QED
      BY <1>5, <2>1, <3>1, <3>2, <3>3 DEF Resolve, Finish
  <2>4. IdleAdmin.pc = "idle" /\ IdleAdmin \in [pc : {"idle", "resolving"}, job : JobIds \cup {None},
                                               action : {"bind", "retry", "fail"}]
    BY DEF IdleAdmin
  <2>5. \A b \in Admins : admin'[b].pc = "resolving" => b # a /\ admin'[b] = admin[b]
    BY <1>1, <2>2, <2>4 DEF RunnersTyped
  <2>6. TypeOK'
    BY <1>1, <1>2, <2>2, <2>3, <2>4, TypedNext DEF RunnersTyped
  <2>7. LeasesRanOut' /\ BackoffsWait'
    BY <1>2, <2>3 DEF LeasesRanOut, BackoffsWait
  <2>8. BusyHave' /\ PutsFresh'
    BY <1>2, <2>1, <2>3 DEF BusyHave, Busy, PutsFresh, JobIds
  <2>9. UncertainPut' /\ AdminsHave'
    BY <1>2, <2>3, <2>5 DEF UncertainPut, AdminsHave
  <2>10. HeldIsBegun'
    BY <1>2, <1>3, <2>3 DEF HeldIsBegun
  <2>11. SendsRun'
    BY <1>2, <2>1, <2>3 DEF SendsRun, Sends, JobIds
  <2>12. OneRunnerPerLease'
    BY <1>2, <1>3 DEF OneRunnerPerLease, Sends
  <2>13. AloneResolves'
    <3> SUFFICES ASSUME OneAdmin, NEW i \in JobIds \ expired
                 PROVE  /\ \A b \in Admins : ~ (admin'[b].pc = "resolving" /\ admin'[b].job = i)
                        /\ \A w \in Workers : Holds(w, i) => job'[i].state = "running"
      BY <1>2, <1>3 DEF AloneResolves, OneAdmin
    <3>1. \A b \in Admins : admin'[b].pc # "resolving"
      BY <2>5 DEF OneAdmin
    <3>2. \A w \in Workers : Holds(w, i) => job'[i].state = "running"
      BY <2>1, <2>3 DEF AloneResolves
    <3>3. QED
      BY <3>1, <3>2
  <2>14. QED
    BY <2>6, <2>7, <2>8, <2>9, <2>10, <2>11, <2>12, <2>13
<1>6. QED
  BY <1>4, <1>5

\* After a crash nobody holds or sends anything; the rows are as they were.
LEMMA RestartStep ==
  ASSUME IInv, Restart
  PROVE  IInv'
<1> USE JobsAssumption DEF IInv
<1>1. JobsTyped /\ RunnersTyped
  BY Typed
<1>2. UNCHANGED <<job, expired>> /\ restarts' = restarts + 1
  BY DEF Restart
<1>3. worker' \in [Workers -> WorkerRows] /\ \A w \in Workers : worker'[w].pc = "idle"
  BY DEF Restart, IdleWorker, WorkerRows
<1>4. /\ admin' \in [Admins -> [pc : {"idle", "resolving"}, job : JobIds \cup {None}, action : {"bind", "retry", "fail"}]]
      /\ \A a \in Admins : admin'[a].pc = "idle"
  BY DEF Restart, IdleAdmin
<1>5. /\ put' \in [PutCalls -> PutRows]
      /\ \A p \in PutCalls : put'[p].pc = IF put[p].pc = "idle" THEN "idle" ELSE "done"
  BY <1>1 DEF Restart, RunnersTyped, PutRows
<1>6. TypeOK'
  BY <1>1, <1>2, <1>3, <1>4, <1>5, TypedNext DEF RunnersTyped, JobsTyped
<1>7. LeasesRanOut' /\ BackoffsWait' /\ BusyHave' /\ AdminsHave'
  BY <1>2, <1>3, <1>4 DEF LeasesRanOut, BackoffsWait, BusyHave, Busy, AdminsHave
<1>8. PutsFresh' /\ UncertainPut' /\ SendsRun'
  BY <1>2, <1>5 DEF PutsFresh, UncertainPut, SendsRun, Sends
<1>9. HeldIsBegun' /\ AloneResolves' /\ OneRunnerPerLease'
  BY <1>2, <1>3, <1>4 DEF HeldIsBegun, AloneResolves, OneRunnerPerLease, Holds
<1>10. QED
  BY <1>6, <1>7, <1>8, <1>9

\* Every step keeps the invariant.
LEMMA StepHolds == IInv /\ [Next]_vars => IInv'
<1> SUFFICES ASSUME IInv, [Next]_vars
             PROVE  IInv'
  OBVIOUS
<1>1. CASE \E j \in JobIds : LeaseExpires(j) \/ BackoffEnds(j)
  BY <1>1, TimeStep
<1>2. CASE RecoverExpired \/ \E w \in Workers : RunRecover(w)
  BY <1>2, RecoveryStep
<1>3. CASE \E j \in WorkJobs : EnqueueWork(j)
  BY <1>3, EnqueueStep
<1>4. CASE \E w \in Workers : RunLease(w)
  BY <1>4, LeaseStep
<1>5. CASE \E w \in Workers : RunNothing(w) \/ HandlerReturns(w)
  BY <1>5, WorkerStep
<1>6. CASE \E w \in Workers : Heartbeat(w)
  BY <1>6, HeartbeatStep
<1>7. CASE \E w \in Workers : RunUnhandled(w) \/ RunFinish(w)
  BY <1>7, FinishStep
<1>8. CASE \E p \in PutCalls : PutEnqueue(p) \/ PutBegin(p) \/ PutSend(p) \/ PutFinish(p)
  BY <1>8, PutStep
<1>9. CASE \E a \in Admins : Resolve(a) \/ \E j \in JobIds : ResolveGet(a, j)
  BY <1>9, AdminStep
<1>10. CASE Restart
  BY <1>10, RestartStep
<1>11. CASE UNCHANGED vars
  BY <1>11
  DEF vars, IInv, TypeOK, LeasesRanOut, BackoffsWait, BusyHave, PutsFresh, UncertainPut, AdminsHave, HeldIsBegun,
      SendsRun, OneRunnerPerLease, AloneResolves, Busy, Holds, Sends
<1>12. QED
  BY <1>1, <1>2, <1>3, <1>4, <1>5, <1>6, <1>7, <1>8, <1>9, <1>10, <1>11 DEF Next

\* The invariant holds of every behaviour of the queue.
THEOREM Invariance == Spec => []IInv
BY InitHolds, StepHolds, PTL DEF Spec

\* Rows and callers keep their shape, and exactly the running jobs have a lease.
THEOREM TypeCorrect == Spec => []TypeOK
<1>1. IInv => TypeOK
  BY DEF IInv
<1>2. QED
  BY <1>1, Invariance, PTL

\* While the lease of a job is kept, no two workers run it, and no worker runs
\* what a Put is sending: whatever administrators, recoveries and crashes do.
THEOREM LeaseExcludes == Spec => []OneRunnerPerLease
<1>1. IInv => OneRunnerPerLease
  BY DEF IInv
<1>2. QED
  BY <1>1, Invariance, PTL

\* A row changes at most in one way that matters here: which statement it was,
\* and what must have been so before.
LEMMA RowChanges ==
  ASSUME IInv, Next, NEW j \in JobIds \ expired, job'[j] # job[j]
  PROVE  \/ job[j].state \in {"none", "running", "queued", "retry_wait"}
         \/ \E w \in Workers : Holds(w, j)
         \/ \E a \in Admins : Resolve(a) /\ admin[a].job = j
<1> USE JobsAssumption DEF IInv
<1>1. JobsTyped /\ RunnersTyped
  BY Typed
<1>2. CASE \E i \in JobIds : LeaseExpires(i)
  BY <1>1, <1>2 DEF LeaseExpires, JobsTyped
<1>3. CASE \E i \in JobIds : BackoffEnds(i)
  BY <1>1, <1>3 DEF BackoffEnds, JobsTyped, BackoffsWait
<1>4. CASE RecoverExpired \/ \E w \in Workers : RunRecover(w)
  BY <1>4 DEF RecoverExpired, RunRecover, Recovered
<1>5. CASE \E i \in WorkJobs : EnqueueWork(i)
  BY <1>1, <1>5 DEF EnqueueWork, Enqueued, JobsTyped
<1>6. CASE \E w \in Workers : RunLease(w)
  BY <1>1, <1>6 DEF RunLease, Leasable, Queued, JobsTyped
<1>7. CASE \E w \in Workers : RunNothing(w) \/ HandlerReturns(w)
  BY <1>7 DEF RunNothing, HandlerReturns
<1>8. CASE \E w \in Workers : Heartbeat(w)
  BY <1>1, <1>8 DEF Heartbeat, JobsTyped
<1>9. CASE \E w \in Workers : RunUnhandled(w) \/ RunFinish(w)
  BY <1>1, <1>9 DEF RunUnhandled, RunFinish, Finish, JobsTyped, Holds
<1>10. CASE \E p \in PutCalls : PutEnqueue(p) \/ PutBegin(p) \/ PutSend(p)
  BY <1>1, <1>10 DEF PutEnqueue, Enqueued, PutBegin, PutSend, Queued, JobsTyped, PutsFresh
<1>11. CASE \E p \in PutCalls : PutFinish(p)
  <2>1. PICK p \in PutCalls : PutFinish(p)
    BY <1>11
  <2>2. j = p
    BY <1>1, <2>1 DEF PutFinish, Finish, JobsTyped
  <2>3. QED
    BY <2>1, <2>2 DEF PutFinish, SendsRun, Sends
<1>12. CASE \E a \in Admins : Resolve(a)
  <2>1. PICK a \in Admins : Resolve(a)
    BY <1>12
  <2>2. admin[a].job = j
    BY <1>1, <2>1 DEF Resolve, Finish, JobsTyped
  <2>3. QED
    BY <2>1, <2>2
<1>13. CASE Restart \/ \E a \in Admins, i \in JobIds : ResolveGet(a, i)
  BY <1>13 DEF Restart, ResolveGet
<1>14. QED
  BY <1>2, <1>3, <1>4, <1>5, <1>6, <1>7, <1>8, <1>9, <1>10, <1>11, <1>12, <1>13 DEF Next

\* Only an administrator moves a job out of uncertain, if its lease was kept.
THEOREM UncertainStays == Spec => UncertainWaits
<1>1. ASSUME IInv, [Next]_vars, NEW j \in JobIds \ expired, job[j].state = "uncertain", job'[j] # job[j]
      PROVE  ResolvedNow(j)
  <2>1. Next
    BY <1>1 DEF vars
  <2>2. \A w \in Workers : ~ Holds(w, j)
    BY <1>1 DEF IInv, HeldIsBegun
  <2>3. PICK a \in Admins : Resolve(a) /\ admin[a].job = j
    BY <1>1, <2>1, <2>2, RowChanges
  <2>4. admin \in [Admins -> [pc : {"idle", "resolving"}, job : JobIds \cup {None}, action : {"bind", "retry", "fail"}]]
    BY <1>1 DEF IInv, TypeOK
  <2>5. QED
    BY <2>3, <2>4 DEF Resolve, IdleAdmin, ResolvedNow
<1>2. IInv /\ [Next]_vars =>
        [\A j \in JobIds \ expired : job[j].state = "uncertain" /\ job'[j] # job[j] => ResolvedNow(j)]_vars
  BY <1>1
<1>3. QED
  BY <1>2, Invariance, PTL DEF Spec, UncertainWaits

\* With one administrator at a time, a job that is over stays as it is.  Two may
\* both find it uncertain; then the later word replaces the earlier.
THEOREM FinishedStays ==
  ASSUME OneAdmin
  PROVE  Spec => FinishedOnce
<1>1. ASSUME IInv, [Next]_vars, NEW j \in JobIds \ expired, job[j].state \in {"succeeded", "failed"}
      PROVE  job'[j] = job[j]
  <2> SUFFICES ASSUME job'[j] # job[j]
               PROVE  FALSE
    OBVIOUS
  <2>1. Next
    BY <1>1 DEF vars
  <2>2. \A w \in Workers : ~ Holds(w, j)
    BY <1>1, OneAdmin DEF IInv, AloneResolves
  <2>3. \A a \in Admins : ~ (Resolve(a) /\ admin[a].job = j)
    BY <1>1, OneAdmin DEF IInv, AloneResolves, Resolve
  <2>4. QED
    BY <1>1, <2>1, <2>2, <2>3, RowChanges
<1>2. IInv /\ [Next]_vars =>
        [\A j \in JobIds \ expired : job[j].state \in {"succeeded", "failed"} => job'[j] = job[j]]_vars
  BY <1>1
<1>3. QED
  BY <1>2, Invariance, PTL DEF Spec, FinishedOnce

=============================================================================
