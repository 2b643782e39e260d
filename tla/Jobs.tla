-------------------------------- MODULE Jobs --------------------------------
(***************************************************************************)
(* The table `jobs` as a queue with leases, and those who take from it:     *)
(*                                                                         *)
(*   - Worker.RunOnce leases the oldest due job, runs its handler while a   *)
(*     goroutine extends the lease, and finishes it;                        *)
(*   - Orchestrator.Put enqueues a job of its own, begins it, sends to the  *)
(*     backend and finishes it;                                            *)
(*   - ResolveUncertain is an administrator's word on a job whose send has  *)
(*     an unknown result.                                                  *)
(*                                                                         *)
(* No statement of the store names the holder of a lease: the state of the  *)
(* row is all that Heartbeat, Finish and Begin can look at.  Attempts count *)
(* only towards the length of a backoff, which is any length here.          *)
(***************************************************************************)
EXTENDS Naturals, FiniteSets

CONSTANTS
  WorkJobs,     \* jobs that a worker has a handler for
  PutCalls,     \* calls of Orchestrator.Put; a call's job bears its name
  Workers,      \* goroutines that call RunOnce
  Admins,       \* calls of ResolveUncertain in progress
  MaxRestarts,  \* crashes of the process (a bound)
  None

ASSUME JobsAssumption ==
  /\ WorkJobs \cap PutCalls = {}
  /\ MaxRestarts \in Nat
  /\ None \notin WorkJobs \cup PutCalls

VARIABLES
  job,       \* jobs: state, lease, and whether next_attempt_at has come
  worker,    \* every worker: program counter, job, heartbeat and result
  put,       \* every call of Put: program counter and the state it will set
  admin,     \* every call of ResolveUncertain: program counter, job and action
  expired,   \* history: jobs whose lease has run out while they were running
  restarts   \* crashes so far

vars == <<job, worker, put, admin, expired, restarts>>

JobIds == WorkJobs \cup PutCalls

JobStates == {"none", "queued", "running", "retry_wait", "succeeded", "failed", "uncertain"}

IdleWorker == [pc |-> "idle", job |-> None, beating |-> TRUE, ok |-> FALSE]

IdleAdmin == [pc |-> "idle", job |-> None, action |-> "fail"]

Init ==
  /\ job = [j \in JobIds |-> [state |-> "none", lease |-> "none", due |-> TRUE]]
  /\ worker = [w \in Workers |-> IdleWorker]
  /\ put = [p \in PutCalls |-> [pc |-> "idle", state |-> "succeeded"]]
  /\ admin = [a \in Admins |-> IdleAdmin]
  /\ expired = {}
  /\ restarts = 0

----------------------------------------------------------------------------
(* The statements of the store.                                            *)

\* The row that a statement leaves: a lease only while running.
Running == [state |-> "running", lease |-> "held", due |-> TRUE]
Rest(s, due) == [state |-> s, lease |-> "none", due |-> due]

Queued(j) == job[j].state \in {"queued", "retry_wait"}

\* Enqueue: INSERT.
Enqueued(j) == job' = [job EXCEPT ![j] = Rest("queued", TRUE)]

\* Finish: UPDATE ... WHERE id = ?, whatever the state is by now.
Finish(j, s) == job' = [job EXCEPT ![j] = Rest(s, s # "retry_wait")]

\* Mutant: the startup recovery takes back every running job.
Recovered_Running(r) == IF r.state = "running" THEN Rest("retry_wait", TRUE) ELSE r

\* Mutant: lease_until is not cleared.
Recovered_KeepsLease(r) ==
  IF r.state = "running" /\ r.lease = "expired" THEN [r EXCEPT !.state = "retry_wait"] ELSE r

\* RecoverExpired: UPDATE ... WHERE state = 'running' AND lease_until < now.
Recovered(r) ==
  IF r.state = "running" /\ r.lease = "expired" THEN Rest("retry_wait", TRUE) ELSE r

\* The call at the head of migration.RunPending, which main.go makes every two
\* seconds, recovers the jobs of every kind.
RecoverExpired ==
  /\ job' = [j \in JobIds |-> Recovered(job[j])]
  /\ UNCHANGED <<worker, put, admin, expired, restarts>>

\* Time passes: a lease that nobody extends runs out, and a backoff ends.
LeaseExpires(j) ==
  /\ job[j].lease = "held"
  /\ job' = [job EXCEPT ![j].lease = "expired"]
  /\ expired' = expired \cup {j}
  /\ UNCHANGED <<worker, put, admin, restarts>>

BackoffEnds(j) ==
  /\ ~ job[j].due
  /\ job' = [job EXCEPT ![j].due = TRUE]
  /\ UNCHANGED <<worker, put, admin, expired, restarts>>

EnqueueWork(j) ==
  /\ job[j].state = "none"
  /\ Enqueued(j)
  /\ UNCHANGED <<worker, put, admin, expired, restarts>>

----------------------------------------------------------------------------
(* Worker.RunOnce.                                                         *)

RunRecover(w) ==
  /\ worker[w].pc = "idle"
  /\ job' = [j \in JobIds |-> Recovered(job[j])]
  /\ worker' = [worker EXCEPT ![w].pc = "leasing"]
  /\ UNCHANGED <<put, admin, expired, restarts>>

\* Mutant: a job of unknown result is leased like one that waits for its retry.
Leasable_Uncertain(j) == (Queued(j) \/ job[j].state = "uncertain") /\ job[j].due

Leasable(j) == Queued(j) /\ job[j].due

\* Lease, one transaction.  Jobs are not told apart by age: any may be oldest.
RunLease(w) ==
  /\ worker[w].pc = "leasing"
  /\ \E j \in JobIds :
       /\ Leasable(j)
       /\ job' = [job EXCEPT ![j] = Running]
       /\ worker' = [worker EXCEPT ![w] =
            [pc |-> IF j \in WorkJobs THEN "handling" ELSE "unhandled", job |-> j, beating |-> TRUE, ok |-> FALSE]]
  /\ UNCHANGED <<put, admin, expired, restarts>>

RunNothing(w) ==
  /\ worker[w].pc = "leasing"
  /\ \A j \in JobIds : ~ Leasable(j)
  /\ worker' = [worker EXCEPT ![w] = IdleWorker]
  /\ UNCHANGED <<job, put, admin, expired, restarts>>

\* The job's kind has no handler.
RunUnhandled(w) ==
  /\ worker[w].pc = "unhandled"
  /\ Finish(worker[w].job, "failed")
  /\ worker' = [worker EXCEPT ![w] = IdleWorker]
  /\ UNCHANGED <<put, admin, expired, restarts>>

\* The ticker goroutine, which may still see a tick after the handler returned.
\* It extends the lease of a running job, whoever runs it, and otherwise ends.
Heartbeat(w) ==
  /\ worker[w].pc \in {"handling", "returned"}
  /\ worker[w].beating
  /\ \/ /\ job[worker[w].job].state = "running"
        /\ job' = [job EXCEPT ![worker[w].job].lease = "held"]
        /\ UNCHANGED worker
     \/ /\ job[worker[w].job].state # "running"
        /\ worker' = [worker EXCEPT ![w].beating = FALSE]
        /\ UNCHANGED job
  /\ UNCHANGED <<put, admin, expired, restarts>>

HandlerReturns(w) ==
  /\ worker[w].pc = "handling"
  /\ \E ok \in BOOLEAN : worker' = [worker EXCEPT ![w].pc = "returned", ![w].ok = ok]
  /\ UNCHANGED <<job, put, admin, expired, restarts>>

\* A heartbeat that failed counts as an error of the handler.
RunFinish(w) ==
  /\ worker[w].pc = "returned"
  /\ Finish(worker[w].job, IF worker[w].ok /\ worker[w].beating THEN "succeeded" ELSE "retry_wait")
  /\ worker' = [worker EXCEPT ![w] = IdleWorker]
  /\ UNCHANGED <<put, admin, expired, restarts>>

----------------------------------------------------------------------------
(* Orchestrator.Put.                                                       *)

PutEnqueue(p) ==
  /\ put[p].pc = "idle"
  /\ Enqueued(p)
  /\ put' = [put EXCEPT ![p].pc = "beginning"]
  /\ UNCHANGED <<worker, admin, expired, restarts>>

\* Mutant: Begin without its state IN ('queued', 'retry_wait').
PutBegin_AnyState(p) ==
  /\ put[p].pc = "beginning"
  /\ job' = [job EXCEPT ![p] = Running]
  /\ put' = [put EXCEPT ![p].pc = "sending"]
  /\ UNCHANGED <<worker, admin, expired, restarts>>

\* Begin: UPDATE ... WHERE state IN ('queued', 'retry_wait').
PutBegin(p) ==
  /\ put[p].pc = "beginning"
  /\ \/ /\ Queued(p)
        /\ job' = [job EXCEPT ![p] = Running]
        /\ put' = [put EXCEPT ![p].pc = "sending"]
     \/ /\ ~ Queued(p)
        /\ put' = [put EXCEPT ![p].pc = "done"]
        /\ UNCHANGED job
  /\ UNCHANGED <<worker, admin, expired, restarts>>

\* The backend stores, refuses, or answers too late to know ("uncertain").  When
\* the request context is over, so is every statement that Put would still run.
PutSend(p) ==
  /\ put[p].pc = "sending"
  /\ \E s \in {"succeeded", "failed", "uncertain"}, alive \in BOOLEAN :
       put' = [put EXCEPT ![p] = [pc |-> IF alive THEN "finishing" ELSE "done", state |-> s]]
  /\ UNCHANGED <<job, worker, admin, expired, restarts>>

PutFinish(p) ==
  /\ put[p].pc = "finishing"
  /\ Finish(p, put[p].state)
  /\ put' = [put EXCEPT ![p].pc = "done"]
  /\ UNCHANGED <<worker, admin, expired, restarts>>

----------------------------------------------------------------------------
(* ResolveUncertain.                                                       *)

ResolveGet(a, j) ==
  /\ admin[a].pc = "idle"
  /\ job[j].state = "uncertain"
  /\ \E action \in {"bind", "retry", "fail"} :
       admin' = [admin EXCEPT ![a] = [pc |-> "resolving", job |-> j, action |-> action]]
  /\ UNCHANGED <<job, worker, put, expired, restarts>>

\* bind and fail are Finish; retry is Requeue, which looks at the state again.
Resolve(a) ==
  LET j == admin[a].job IN
  /\ admin[a].pc = "resolving"
  /\ \/ admin[a].action = "bind" /\ Finish(j, "succeeded")
     \/ admin[a].action = "fail" /\ Finish(j, "failed")
     \/ admin[a].action = "retry" /\ job[j].state = "uncertain" /\ job' = [job EXCEPT ![j] = Rest("retry_wait", TRUE)]
     \/ admin[a].action = "retry" /\ job[j].state # "uncertain" /\ UNCHANGED job
  /\ admin' = [admin EXCEPT ![a] = IdleAdmin]
  /\ UNCHANGED <<worker, put, expired, restarts>>

\* The process dies: rows stay, every goroutine and call is gone.
Restart ==
  /\ restarts < MaxRestarts
  /\ restarts' = restarts + 1
  /\ worker' = [w \in Workers |-> IdleWorker]
  /\ put' = [p \in PutCalls |-> IF put[p].pc = "idle" THEN put[p] ELSE [put[p] EXCEPT !.pc = "done"]]
  /\ admin' = [a \in Admins |-> IdleAdmin]
  /\ UNCHANGED <<job, expired>>

----------------------------------------------------------------------------

Next ==
  \/ \E j \in JobIds : LeaseExpires(j) \/ BackoffEnds(j)
  \/ RecoverExpired
  \/ \E j \in WorkJobs : EnqueueWork(j)
  \/ \E w \in Workers :
       \/ RunRecover(w)
       \/ RunLease(w)
       \/ RunNothing(w)
       \/ RunUnhandled(w)
       \/ Heartbeat(w)
       \/ HandlerReturns(w)
       \/ RunFinish(w)
  \/ \E p \in PutCalls : PutEnqueue(p) \/ PutBegin(p) \/ PutSend(p) \/ PutFinish(p)
  \/ \E a \in Admins : Resolve(a) \/ \E j \in JobIds : ResolveGet(a, j)
  \/ Restart

Spec == Init /\ [][Next]_vars

----------------------------------------------------------------------------
(* Properties.                                                             *)

\* Rows and calls have their shape, and a job has a lease exactly while it is
\* running, whatever heartbeats, recoveries and late finishes came in between.
TypeOK ==
  /\ job \in [JobIds -> [state : JobStates, lease : {"none", "held", "expired"}, due : BOOLEAN]]
  /\ \A j \in JobIds : job[j].state = "running" <=> job[j].lease # "none"
  /\ worker \in [Workers -> [pc : {"idle", "leasing", "handling", "unhandled", "returned"},
                             job : JobIds \cup {None}, beating : BOOLEAN, ok : BOOLEAN]]
  /\ put \in [PutCalls -> [pc : {"idle", "beginning", "sending", "finishing", "done"},
                           state : {"succeeded", "failed", "uncertain"}]]
  /\ admin \in [Admins -> [pc : {"idle", "resolving"}, job : JobIds \cup {None},
                           action : {"bind", "retry", "fail"}]]
  /\ expired \subseteq JobIds
  /\ restarts \in Nat

Holds(w, j) == worker[w].pc \in {"handling", "unhandled", "returned"} /\ worker[w].job = j

Sends(p) == put[p].pc \in {"sending", "finishing"}

\* Two goroutines work on one job only if its lease has run out: the lease is
\* what keeps workers, and a Put, apart.
OneRunnerPerLease ==
  \A j \in JobIds \ expired :
    /\ \A v, w \in Workers : Holds(v, j) /\ Holds(w, j) => v = w
    /\ \A w \in Workers : j \in PutCalls /\ Sends(j) => ~ Holds(w, j)

\* A job that has succeeded or failed is never touched again, as long as its
\* lease was kept: no late heartbeat, recovery, Begin or Finish revives it.  (One
\* administrator at a time: of two who find a job uncertain, the later one wins.)
FinishedOnce ==
  [][\A j \in JobIds \ expired : job[j].state \in {"succeeded", "failed"} => job'[j] = job[j]]_vars

ResolvedNow(j) == \E a \in Admins : admin[a].pc = "resolving" /\ admin[a].job = j /\ admin'[a].pc = "idle"

\* A send of unknown result is left to the administrator: nothing retries or
\* closes it by itself, unless the send outlived its lease.
UncertainWaits ==
  [][\A j \in JobIds \ expired : job[j].state = "uncertain" /\ job'[j] # job[j] => ResolvedNow(j)]_vars

\* What the design promises without exception: a Put that ended with an unknown
\* result never waits for a retry, before an administrator has asked for one.
UnknownSendsWaitForAdmin ==
  \A p \in PutCalls :
    put[p].pc = "done" /\ put[p].state = "uncertain" => job[p].state # "retry_wait"

============================================================================
