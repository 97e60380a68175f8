--------------------------- MODULE RuntimeScheduler ---------------------------
(***************************************************************************)
(* runtime_scheduler.RuntimeScheduler.execute: the jobs of a polling cycle *)
(* go to a thread pool; each takes a worker slot, the lock of its          *)
(* repository and the AI semaphore, runs, and gives them back.  Slots are  *)
(* made anew in every call; the worker table that snapshot() shows, the    *)
(* repository locks and the semaphore outlive it.                          *)
(*                                                                         *)
(* A job is its index in the call's list.  One action per critical section *)
(* or lock operation, so that every interleaving of the threads is there.  *)
(* The model makes calls for ever; Jobs bounds the length of one.          *)
(***************************************************************************)
EXTENDS Integers, Sequences, FiniteSets

CONSTANTS
  MaxJobs,         \* bound: the longest list of jobs
  Repos,
  NoRepo,
  JobLists,        \* the lists of jobs a call may be made with
  WorkerCount,
  AiConcurrency

ASSUME RuntimeSchedulerAssumption ==
  /\ MaxJobs \in Nat
  /\ NoRepo \notin Repos
  /\ WorkerCount \in Nat \ {0}
  /\ AiConcurrency \in Nat \ {0}

Jobs == 1..MaxJobs
Workers == 1..WorkerCount
NoWorker == 0

VARIABLES
  repository,   \* repository[j]: of the call's job j, NoRepo beyond its end
  pc,           \* where the thread of job j is
  worker,       \* worker_id of job j, NoWorker before and after
  workerSlots,  \* worker_slots, the stack of free ids
  lockOwner,    \* lockOwner[r]: the job that holds the lock of repository r
  aiPermits,    \* the value of the AI semaphore
  result,       \* results[j]: "none", "ok", "error" or "raised"
  status        \* _workers[w]: what it is doing, and for which job

vars == <<repository, pc, worker, workerSlots, lockOwner, aiPermits, result, status>>

\* "absent": not in the call.  "queued": submitted.  "slotted": has a slot.
\* "waiting": shown as running.  "locked": has the repository lock.  "running":
\* in run_job.  "ran", "released": giving the semaphore, then the lock back.
\* "reporting": both given back.  "leaving": reported.  "ended".
Phase ==
  {"absent", "queued", "slotted", "waiting", "locked", "running", "ran",
   "released", "reporting", "leaving", "ended"}

\* Jobs a thread of the pool works on.
Live == {j \in Jobs : pc[j] \notin {"absent", "queued", "ended"}}

Called == {j \in Jobs : repository[j] # NoRepo}

Idle == pc = [j \in Jobs |-> "absent"]

Init ==
  /\ repository = [j \in Jobs |-> NoRepo]
  /\ Idle
  /\ worker = [j \in Jobs |-> NoWorker]
  /\ workerSlots = <<>>
  /\ lockOwner = [r \in Repos |-> 0]
  /\ aiPermits = AiConcurrency
  /\ result = [j \in Jobs |-> "none"]
  /\ status = [w \in Workers |-> [state |-> "idle", job |-> 0]]

-------------------------------------------------------------------------------
(* The calling thread. *)

\* An empty list returns at once.
Execute(jobs) ==
  /\ Idle
  /\ jobs # <<>>
  /\ repository' = [j \in Jobs |-> IF j \in DOMAIN jobs THEN jobs[j] ELSE NoRepo]
  /\ pc' = [j \in Jobs |-> IF j \in DOMAIN jobs THEN "queued" ELSE "absent"]
  /\ workerSlots' = [k \in 1..WorkerCount |-> k]
  /\ UNCHANGED <<worker, lockOwner, aiPermits, result, status>>

\* as_completed is exhausted and the pool shut down.
Return ==
  /\ ~Idle
  /\ \A j \in Called : pc[j] = "ended"
  /\ repository' = [j \in Jobs |-> NoRepo]
  /\ pc' = [j \in Jobs |-> "absent"]
  /\ workerSlots' = <<>>
  /\ result' = [j \in Jobs |-> "none"]
  /\ UNCHANGED <<worker, lockOwner, aiPermits, status>>

-------------------------------------------------------------------------------
(* The threads of the pool. *)

\* Faulty: a pool with a thread for every job.
PoolSizePerJob == Cardinality(Called)

PoolSize ==
  IF Cardinality(Called) < WorkerCount THEN Cardinality(Called) ELSE WorkerCount

\* Faulty: the id is read off the stack and stays there.
AcquireWorkerWithoutPop(j) ==
  /\ pc[j] = "queued"
  /\ \A k \in 1..(j - 1) : pc[k] # "queued"
  /\ Cardinality(Live) < PoolSize
  /\ pc' = [pc EXCEPT ![j] = "slotted"]
  /\ worker' = [worker EXCEPT ![j] = workerSlots[Len(workerSlots)]]
  /\ UNCHANGED <<repository, workerSlots, lockOwner, aiPermits, result, status>>

\* A free thread takes the oldest job and pops a slot.  With no slot left the
\* pop raises outside of run_one's try.
AcquireWorker(j) ==
  /\ pc[j] = "queued"
  /\ \A k \in 1..(j - 1) : pc[k] # "queued"
  /\ Cardinality(Live) < PoolSize
  /\ IF workerSlots = <<>>
     THEN /\ pc' = [pc EXCEPT ![j] = "ended"]
          /\ result' = [result EXCEPT ![j] = "raised"]
          /\ UNCHANGED <<worker, workerSlots>>
     ELSE /\ pc' = [pc EXCEPT ![j] = "slotted"]
          /\ worker' = [worker EXCEPT ![j] = workerSlots[Len(workerSlots)]]
          /\ workerSlots' = SubSeq(workerSlots, 1, Len(workerSlots) - 1)
          /\ UNCHANGED result
  /\ UNCHANGED <<repository, lockOwner, aiPermits, status>>

Step(j, from, to) == pc[j] = from /\ pc' = [pc EXCEPT ![j] = to]

ShowRunning(j) ==
  /\ Step(j, "slotted", "waiting")
  /\ status' = [status EXCEPT ![worker[j]] = [state |-> "running", job |-> j]]
  /\ UNCHANGED <<repository, worker, workerSlots, lockOwner, aiPermits, result>>

\* Faulty: the lock of a repository is looked up but not waited for.
LockIgnoringOwner(j) ==
  /\ Step(j, "waiting", "locked")
  /\ lockOwner' = [lockOwner EXCEPT ![repository[j]] = j]
  /\ UNCHANGED <<repository, worker, workerSlots, aiPermits, result, status>>

LockRepository(j) ==
  /\ Step(j, "waiting", "locked")
  /\ lockOwner[repository[j]] = 0
  /\ lockOwner' = [lockOwner EXCEPT ![repository[j]] = j]
  /\ UNCHANGED <<repository, worker, workerSlots, aiPermits, result, status>>

\* Faulty: the semaphore counts but does not hold anybody back.
AcquireAiWithoutWaiting(j) ==
  /\ Step(j, "locked", "running")
  /\ aiPermits' = aiPermits - 1
  /\ UNCHANGED <<repository, worker, workerSlots, lockOwner, result, status>>

AcquireAi(j) ==
  /\ Step(j, "locked", "running")
  /\ aiPermits > 0
  /\ aiPermits' = aiPermits - 1
  /\ UNCHANGED <<repository, worker, workerSlots, lockOwner, result, status>>

\* run_job returns or raises.
RunJob(j) ==
  /\ Step(j, "running", "ran")
  /\ \E outcome \in {"ok", "error"} : result' = [result EXCEPT ![j] = outcome]
  /\ UNCHANGED <<repository, worker, workerSlots, lockOwner, aiPermits, status>>

\* Faulty: the permit is not returned when run_job raised.
ReleaseAiOnSuccess(j) ==
  /\ Step(j, "ran", "released")
  /\ aiPermits' = IF result[j] = "ok" THEN aiPermits + 1 ELSE aiPermits
  /\ UNCHANGED <<repository, worker, workerSlots, lockOwner, result, status>>

ReleaseAi(j) ==
  /\ Step(j, "ran", "released")
  /\ aiPermits' = aiPermits + 1
  /\ UNCHANGED <<repository, worker, workerSlots, lockOwner, result, status>>

UnlockRepository(j) ==
  /\ Step(j, "released", "reporting")
  /\ lockOwner' = [lockOwner EXCEPT ![repository[j]] = 0]
  /\ UNCHANGED <<repository, worker, workerSlots, aiPermits, result, status>>

ShowOutcome(j) ==
  /\ Step(j, "reporting", "leaving")
  /\ status' = [status EXCEPT ![worker[j]] =
                 [state |-> IF result[j] = "ok" THEN "completed" ELSE "failed", job |-> j]]
  /\ UNCHANGED <<repository, worker, workerSlots, lockOwner, aiPermits, result>>

ReleaseWorker(j) ==
  /\ Step(j, "leaving", "ended")
  /\ workerSlots' = Append(workerSlots, worker[j])
  /\ worker' = [worker EXCEPT ![j] = NoWorker]
  /\ UNCHANGED <<repository, lockOwner, aiPermits, result, status>>

-------------------------------------------------------------------------------
Thread(j) ==
  \/ AcquireWorker(j) \/ ShowRunning(j) \/ LockRepository(j) \/ AcquireAi(j)
  \/ RunJob(j) \/ ReleaseAi(j) \/ UnlockRepository(j) \/ ShowOutcome(j)
  \/ ReleaseWorker(j)

Next ==
  \/ \E n \in Jobs : \E jobs \in [1..n -> Repos] \cap JobLists : Execute(jobs)
  \/ Return
  \/ \E j \in Jobs : Thread(j)

Spec == Init /\ [][Next]_vars

\* Every thread is scheduled, and every job is bounded by its time-outs.  Nothing
\* obliges the polling loop to make another call.
FairSpec == Spec /\ WF_vars(Return) /\ \A j \in Jobs : WF_vars(Thread(j))

-------------------------------------------------------------------------------
(* Properties. *)

\* Every variable has its type.
TypeOK ==
  /\ repository \in [Jobs -> Repos \cup {NoRepo}]
  /\ pc \in [Jobs -> Phase]
  /\ worker \in [Jobs -> Workers \cup {NoWorker}]
  /\ workerSlots \in Seq(Workers)
  /\ lockOwner \in [Repos -> Jobs \cup {0}]
  /\ aiPermits \in 0..AiConcurrency
  /\ result \in [Jobs -> {"none", "ok", "error", "raised"}]
  /\ status \in [Workers -> [state : {"idle", "running", "completed", "failed"},
                             job : Jobs \cup {0}]]

\* What devbot status shows is true: a worker shown as running belongs to a live
\* job, and a job that waits for or holds its repository is shown by its worker.
\* Slots are reused while other threads still report.
StatusIsTrue ==
  /\ \A w \in Workers :
       status[w].state = "running" =>
         /\ status[w].job \in Live
         /\ worker[status[w].job] = w
  /\ \A j \in Jobs :
       pc[j] \in {"waiting", "locked", "running", "ran", "released", "reporting"} =>
         status[worker[j]] = [state |-> "running", job |-> j]

\* What the thread of a job, or a thread of the pool for it, waits for is there.
MayMove(j) ==
  \/ /\ pc[j] = "queued"
     /\ \A k \in 1..(j - 1) : pc[k] # "queued"
     /\ Cardinality(Live) < PoolSize
  \/ pc[j] = "waiting" /\ lockOwner[repository[j]] = 0
  \/ pc[j] = "locked" /\ aiPermits > 0
  \/ pc[j] \in {"slotted", "running", "ran", "released", "reporting", "leaving"}

\* The threads never wait for each other in a circle, nor for a lock, a permit or a
\* place in the pool that nobody holds any more: until the last job has ended, one of
\* them may go on.  Locks and permits outlive the call, so that one that is not given
\* back in an early call would stop a later one.
NobodyIsStuck ==
  (\E j \in Called : pc[j] # "ended") => \E j \in Called : MayMove(j)

\* The list execute returns has an outcome for each of its jobs: there is a slot
\* for every thread of the pool, so that no pop ever raises.
EveryJobAnswered ==
  \A j \in Jobs : pc[j] = "ended" => result[j] \in {"ok", "error"}

\* Each call runs each job once, repositories one job at a time, within
\* AI_CONCURRENCY.
Execution ==
  INSTANCE JobExecution WITH
    phase <- [j \in Jobs |->
      CASE pc[j] = "absent" -> "none"
        [] pc[j] \in {"queued", "slotted", "waiting", "locked"} -> "waiting"
        [] pc[j] = "running" -> "running"
        [] OTHER -> "finished"]

ImplementsExecution == Execution!Spec

\* Whatever the jobs do, execute returns: no thread waits for ever for a slot, a
\* lock or the semaphore.
ExecuteReturns == ~Idle ~> Idle
==============================================================================
