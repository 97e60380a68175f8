------------------------ MODULE RuntimeSchedulerProofs ------------------------
(***************************************************************************)
(* Theorems of RuntimeScheduler, for every value of its constants.         *)
(***************************************************************************)
EXTENDS RuntimeScheduler, FiniteSetTheorems, SequenceTheorems, TLAPS

(* The inductive invariant. *)

Holding == {"locked", "running", "ran", "released"}

Shown == {"waiting", "locked", "running", "ran", "released", "reporting"}

Permits == {j \in Jobs : pc[j] \in {"running", "ran"}}

\* Exactly the jobs of the call have a thread or will have one.
CallIsComplete == \A j \in Jobs : repository[j] = NoRepo <=> pc[j] = "absent"

\* A repository lock is owned by the one job that is past its acquisition.
LocksAreHeld ==
  /\ \A j \in Jobs : pc[j] \in Holding => lockOwner[repository[j]] = j
  /\ \A r \in Repos : lockOwner[r] # 0 =>
       pc[lockOwner[r]] \in Holding /\ repository[lockOwner[r]] = r

\* The semaphore counts the jobs that hold a permit.
PermitsAreCounted == aiPermits + Cardinality(Permits) = AiConcurrency

\* A slot is on the stack once or with one live job.
SlotsAreHeld ==
  /\ \A j \in Jobs : j \in Live <=> worker[j] # NoWorker
  /\ \A j, k \in Live : worker[j] = worker[k] => j = k
  /\ \A m, n \in 1..Len(workerSlots) : workerSlots[m] = workerSlots[n] => m = n
  /\ \A n \in 1..Len(workerSlots) : \A j \in Live : workerSlots[n] # worker[j]
  /\ ~Idle => Len(workerSlots) + Cardinality(Live) = WorkerCount

\* The worker table, with the jobs that are shown.
StatusIsAccurate ==
  /\ \A w \in Workers : status[w].state = "running" =>
       /\ status[w].job \in Jobs
       /\ pc[status[w].job] \in Shown
       /\ worker[status[w].job] = w
  /\ \A j \in Jobs : pc[j] \in Shown =>
       status[worker[j]] = [state |-> "running", job |-> j]

\* A job that is past run_job has its outcome.
OutcomesAreKnown ==
  \A j \in Jobs : pc[j] \in {"ran", "released", "reporting", "leaving", "ended"} =>
    result[j] \in {"ok", "error"}

Inv ==
  /\ TypeOK
  /\ CallIsComplete
  /\ LocksAreHeld
  /\ PermitsAreCounted
  /\ SlotsAreHeld
  /\ StatusIsAccurate
  /\ OutcomesAreKnown

-------------------------------------------------------------------------------
(* Counting. *)

LEMMA JobsAreFinite ==
  /\ Jobs \in SUBSET Nat
  /\ IsFiniteSet(Jobs)
  /\ \A S \in SUBSET Jobs : IsFiniteSet(S) /\ Cardinality(S) \in Nat
<1>1. MaxJobs \in Nat
  BY RuntimeSchedulerAssumption
<1>2. IsFiniteSet(Jobs)
  BY <1>1, FS_Interval DEF Jobs
<1>3. ASSUME NEW S \in SUBSET Jobs
      PROVE  IsFiniteSet(S) /\ Cardinality(S) \in Nat
  BY <1>2, FS_Subset, FS_CardinalityType
<1> QED
  BY <1>1, <1>2, <1>3 DEF Jobs

\* A set of jobs that gains or loses one changes its size by one.
LEMMA OneMore ==
  ASSUME NEW S \in SUBSET Jobs, NEW j \in Jobs, j \notin S
  PROVE  Cardinality(S \cup {j}) = Cardinality(S) + 1
BY JobsAreFinite, FS_AddElement

LEMMA OneLess ==
  ASSUME NEW S \in SUBSET Jobs, NEW j \in S
  PROVE  Cardinality(S \ {j}) = Cardinality(S) - 1
BY JobsAreFinite, FS_RemoveElement

-------------------------------------------------------------------------------
(* Each action preserves the invariant. *)

LEMMA InitInv == Init => Inv
<1> SUFFICES ASSUME Init PROVE Inv
  OBVIOUS
<1> USE RuntimeSchedulerAssumption
<1>1. /\ MaxJobs \in Nat
      /\ \A j \in Jobs : j \in Nat
  BY DEF Jobs
<1>2. Live = {} /\ Permits = {}
  BY DEF Init, Idle, Live, Permits
<1>3. Cardinality({}) = 0
  BY FS_EmptySet
<1>4. TypeOK
  BY DEF Init, Idle, TypeOK, Phase, Workers, NoWorker
<1>5. CallIsComplete /\ LocksAreHeld
  BY DEF Init, Idle, CallIsComplete, LocksAreHeld, Holding
<1>6. PermitsAreCounted
  BY <1>2, <1>3 DEF Init, PermitsAreCounted
<1>7. SlotsAreHeld
  BY <1>2 DEF Init, Idle, SlotsAreHeld, NoWorker
<1>8. StatusIsAccurate /\ OutcomesAreKnown
  BY DEF Init, Idle, StatusIsAccurate, OutcomesAreKnown, Shown
<1> QED
  BY <1>4, <1>5, <1>6, <1>7, <1>8 DEF Inv

LEMMA ExecuteKeepsInv ==
  ASSUME Inv, NEW n \in Jobs, NEW jobs \in [1..n -> Repos], Execute(jobs)
  PROVE  Inv'
<1> USE RuntimeSchedulerAssumption DEF Inv
<1>1. /\ DOMAIN jobs = 1..n
      /\ \A j \in DOMAIN jobs : jobs[j] \in Repos /\ jobs[j] # NoRepo
  OBVIOUS
<1>2. /\ \A j \in Jobs : pc[j] = "absent"
      /\ \A j \in Jobs : pc'[j] = IF j \in DOMAIN jobs THEN "queued" ELSE "absent"
  BY DEF Execute, Idle
<1>3. Live = {} /\ Live' = {} /\ Permits = {} /\ Permits' = {}
  BY <1>2 DEF Live, Permits
<1>4. TypeOK'
  <2>1. workerSlots' \in Seq(Workers) /\ Len(workerSlots') = WorkerCount
    BY DEF Execute, Workers
  <2>2. pc' \in [Jobs -> Phase]
    BY DEF Execute, Phase
  <2>3. repository' \in [Jobs -> Repos \cup {NoRepo}]
    BY <1>1 DEF Execute
  <2> QED
    BY <2>1, <2>2, <2>3 DEF Execute, TypeOK
<1>5. CallIsComplete'
  BY <1>1, <1>2 DEF Execute, CallIsComplete
<1>6. LocksAreHeld'
  <2>1. \A r \in Repos : lockOwner[r] = 0
    BY <1>2 DEF LocksAreHeld, TypeOK, Holding
  <2> QED
    BY <1>2, <2>1 DEF Execute, LocksAreHeld, Holding
<1>7. PermitsAreCounted'
  BY <1>3 DEF Execute, PermitsAreCounted
<1>8. SlotsAreHeld'
  <2>1. /\ Len(workerSlots') = WorkerCount
        /\ \A k \in 1..WorkerCount : workerSlots'[k] = k
    BY DEF Execute
  <2>2. Cardinality(Live') = 0
    BY <1>3, FS_EmptySet
  <2>3. worker' = worker
    BY DEF Execute
  <2> QED
    BY <1>3, <2>1, <2>2, <2>3 DEF SlotsAreHeld
<1>9. StatusIsAccurate' /\ OutcomesAreKnown'
  BY <1>2 DEF Execute, StatusIsAccurate, OutcomesAreKnown, Shown
<1> QED
  BY <1>4, <1>5, <1>6, <1>7, <1>8, <1>9

LEMMA ReturnKeepsInv ==
  ASSUME Inv, Return
  PROVE  Inv'
<1> USE DEF Inv
<1>1. /\ \A j \in Jobs : pc[j] \in {"absent", "ended"}
      /\ \A j \in Jobs : pc'[j] = "absent"
  BY DEF Return, Called, CallIsComplete, TypeOK
<1>2. Live = {} /\ Live' = {} /\ Permits = {} /\ Permits' = {} /\ Idle'
  BY <1>1 DEF Live, Permits, Return, Idle
<1>3. TypeOK'
  BY DEF Return, TypeOK, Phase
<1>4. CallIsComplete'
  BY <1>1 DEF Return, CallIsComplete
<1>5. LocksAreHeld'
  <2>1. \A r \in Repos : lockOwner[r] = 0
    BY <1>1 DEF LocksAreHeld, TypeOK, Holding
  <2> QED
    BY <1>1, <2>1 DEF Return, LocksAreHeld, Holding
<1>6. PermitsAreCounted'
  BY <1>2 DEF Return, PermitsAreCounted
<1>7. SlotsAreHeld'
  BY <1>2 DEF Return, SlotsAreHeld
<1>8. StatusIsAccurate' /\ OutcomesAreKnown'
  BY <1>1 DEF Return, StatusIsAccurate, OutcomesAreKnown, Shown
<1> QED
  BY <1>3, <1>4, <1>5, <1>6, <1>7, <1>8

\* What is left of a stack that is popped.
LEMMA Popped ==
  ASSUME NEW s \in Seq(Workers), s # <<>>
  PROVE  /\ Len(SubSeq(s, 1, Len(s) - 1)) = Len(s) - 1
         /\ \A k \in 1..(Len(s) - 1) : SubSeq(s, 1, Len(s) - 1)[k] = s[k]
         /\ SubSeq(s, 1, Len(s) - 1) \in Seq(Workers)
<1> DEFINE m == Len(s) - 1
           t == SubSeq(s, 1, m)
<1>1. m \in Nat /\ \A k \in 1..m : s[k] \in Workers
  OBVIOUS
<1>2. /\ t \in Seq(Workers)
      /\ Len(t) = IF 1 <= m THEN m - 1 + 1 ELSE 0
      /\ \A k \in 1..(m - 1 + 1) : t[k] = s[1 + k - 1]
  <2> HIDE DEF m
  <2> QED
    BY <1>1, SubSeqProperties
<1> HIDE DEF m, t
<1>3. Len(t) = m
  BY <1>1, <1>2
<1>4. ASSUME NEW k \in 1..m PROVE t[k] = s[k]
  <2>1. k \in 1..(m - 1 + 1) /\ 1 + k - 1 = k
    BY <1>1
  <2> QED
    BY <1>2, <2>1
<1> QED
  BY <1>2, <1>3, <1>4 DEF m, t

\* There is a slot for every thread of the pool.
LEMMA SlotIsFree ==
  ASSUME Inv, NEW j \in Jobs, AcquireWorker(j)
  PROVE  Len(workerSlots) \in Nat \ {0} /\ workerSlots # <<>>
<1> USE RuntimeSchedulerAssumption DEF Inv
<1>1. ~Idle
  BY DEF AcquireWorker, Idle
<1>2. Cardinality(Live) \in Nat /\ Cardinality(Called) \in Nat
  BY JobsAreFinite DEF Live, Called
<1>3. Cardinality(Live) < WorkerCount
  BY <1>2 DEF AcquireWorker, PoolSize
<1>4. Len(workerSlots) \in Nat
  BY DEF TypeOK
<1> QED
  BY <1>1, <1>2, <1>3, <1>4 DEF SlotsAreHeld

LEMMA AcquireWorkerKeepsInv ==
  ASSUME Inv, NEW j \in Jobs, AcquireWorker(j)
  PROVE  Inv'
<1> USE RuntimeSchedulerAssumption DEF Inv
<1> DEFINE n == Len(workerSlots)
           w == workerSlots[n]
<1>1. n \in Nat \ {0} /\ w \in Workers
  BY SlotIsFree DEF TypeOK
<1>2. /\ pc[j] = "queued"
      /\ pc' = [pc EXCEPT ![j] = "slotted"]
      /\ worker' = [worker EXCEPT ![j] = w]
      /\ workerSlots' = SubSeq(workerSlots, 1, n - 1)
      /\ UNCHANGED <<repository, lockOwner, aiPermits, result, status>>
  BY SlotIsFree DEF AcquireWorker
<1>3. /\ Len(workerSlots') = n - 1
      /\ \A k \in 1..(n - 1) : workerSlots'[k] = workerSlots[k]
      /\ workerSlots' \in Seq(Workers)
  BY <1>2, SlotIsFree, Popped DEF TypeOK
<1>4. Live' = Live \cup {j} /\ j \notin Live
  BY <1>2 DEF Live, TypeOK
<1>5. TypeOK'
  BY <1>1, <1>2, <1>3 DEF TypeOK, Phase
<1>6. CallIsComplete' /\ OutcomesAreKnown'
  BY <1>2 DEF CallIsComplete, OutcomesAreKnown, TypeOK
<1>7. LocksAreHeld'
  BY <1>2 DEF LocksAreHeld, Holding, TypeOK
<1>8. PermitsAreCounted'
  <2>1. Permits' = Permits
    BY <1>2 DEF Permits, TypeOK
  <2> QED
    BY <1>2, <2>1 DEF PermitsAreCounted
<1>9. SlotsAreHeld'
  <2>1. \A k \in Live : worker'[k] = worker[k] /\ worker[k] # w
    BY <1>1, <1>2, <1>4 DEF SlotsAreHeld, TypeOK, Live
  <2>2. w # NoWorker /\ worker'[j] = w
    BY <1>1, <1>2 DEF TypeOK, Workers, NoWorker
  <2>3. \A k \in 1..(n - 1) : workerSlots[k] # w
    BY <1>1 DEF SlotsAreHeld
  <2>4. \A k \in Jobs : k \in Live' <=> worker'[k] # NoWorker
    BY <1>2, <1>4, <2>2 DEF SlotsAreHeld, TypeOK
  <2>5. \A k, l \in Live' : worker'[k] = worker'[l] => k = l
    BY <1>4, <2>1, <2>2 DEF SlotsAreHeld
  <2>6. \A k, l \in 1..Len(workerSlots') : workerSlots'[k] = workerSlots'[l] => k = l
    BY <1>1, <1>3 DEF SlotsAreHeld
  <2>7. \A k \in 1..Len(workerSlots') : \A l \in Live' : workerSlots'[k] # worker'[l]
    BY <1>1, <1>3, <1>4, <2>1, <2>2, <2>3 DEF SlotsAreHeld
  <2>8. Len(workerSlots') + Cardinality(Live') = WorkerCount
    <3>1. ~Idle
      BY <1>2 DEF Idle
    <3>2. Cardinality(Live') = Cardinality(Live) + 1
      BY <1>4, OneMore DEF Live
    <3>3. Cardinality(Live) \in Nat
      BY JobsAreFinite DEF Live
    <3> QED
      BY <1>1, <1>3, <3>1, <3>2, <3>3 DEF SlotsAreHeld
  <2> QED
    BY <2>4, <2>5, <2>6, <2>7, <2>8 DEF SlotsAreHeld
<1>10. StatusIsAccurate'
  BY <1>2 DEF StatusIsAccurate, Shown, TypeOK
<1> QED
  BY <1>5, <1>6, <1>7, <1>8, <1>9, <1>10

LEMMA ShowRunningKeepsInv ==
  ASSUME Inv, NEW j \in Jobs, ShowRunning(j)
  PROVE  Inv'
<1> USE DEF Inv
<1>1. /\ pc[j] = "slotted"
      /\ pc' = [pc EXCEPT ![j] = "waiting"]
      /\ status' = [status EXCEPT ![worker[j]] = [state |-> "running", job |-> j]]
      /\ UNCHANGED <<repository, worker, workerSlots, lockOwner, aiPermits, result>>
  BY DEF ShowRunning, Step
<1>2. j \in Live /\ worker[j] \in Workers
  BY <1>1 DEF Live, SlotsAreHeld, TypeOK
<1>3. Live' = Live /\ Permits' = Permits /\ ~Idle
  BY <1>1 DEF Live, Permits, Idle, TypeOK
<1>4. TypeOK'
  BY <1>1, <1>2 DEF TypeOK, Phase
<1>5. CallIsComplete' /\ OutcomesAreKnown'
  BY <1>1 DEF CallIsComplete, OutcomesAreKnown, TypeOK
<1>6. LocksAreHeld'
  BY <1>1 DEF LocksAreHeld, Holding, TypeOK
<1>7. PermitsAreCounted'
  BY <1>1, <1>3 DEF PermitsAreCounted
<1>8. SlotsAreHeld'
  BY <1>1, <1>3 DEF SlotsAreHeld
<1>9. StatusIsAccurate'
  <2>1. \A k \in Jobs : pc[k] \in Shown => k \in Live /\ worker[k] # worker[j]
    BY <1>1, <1>2 DEF SlotsAreHeld, Live, Shown
  <2>2. status'[worker[j]] = [state |-> "running", job |-> j]
    BY <1>1, <1>2 DEF TypeOK
  <2>3. \A w \in Workers : w # worker[j] => status'[w] = status[w]
    BY <1>1 DEF TypeOK
  <2>4. ASSUME NEW w \in Workers, status'[w].state = "running"
        PROVE  /\ status'[w].job \in Jobs
               /\ pc'[status'[w].job] \in Shown
               /\ worker'[status'[w].job] = w
    <3>1. CASE w = worker[j]
      BY <1>1, <2>2, <3>1 DEF TypeOK, Shown
    <3>2. CASE w # worker[j]
      BY <1>1, <2>3, <2>4, <3>2 DEF StatusIsAccurate, TypeOK
    <3> QED
      BY <3>1, <3>2
  <2>5. ASSUME NEW k \in Jobs, pc'[k] \in Shown
        PROVE  status'[worker'[k]] = [state |-> "running", job |-> k]
    <3>1. CASE k = j
      BY <1>1, <2>2, <3>1
    <3>2. CASE k # j
      <4>1. pc[k] \in Shown
        BY <1>1, <2>5, <3>2 DEF TypeOK
      <4>2. worker[k] \in Workers /\ worker[k] # worker[j]
        BY <2>1, <4>1 DEF SlotsAreHeld, TypeOK
      <4> QED
        BY <1>1, <2>3, <4>1, <4>2 DEF StatusIsAccurate
    <3> QED
      BY <3>1, <3>2
  <2> QED
    BY <2>4, <2>5 DEF StatusIsAccurate
<1> QED
  BY <1>4, <1>5, <1>6, <1>7, <1>8, <1>9

LEMMA LockRepositoryKeepsInv ==
  ASSUME Inv, NEW j \in Jobs, LockRepository(j)
  PROVE  Inv'
<1> USE RuntimeSchedulerAssumption DEF Inv
<1> DEFINE r == repository[j]
<1>1. /\ pc[j] = "waiting"
      /\ pc' = [pc EXCEPT ![j] = "locked"]
      /\ lockOwner[r] = 0
      /\ lockOwner' = [lockOwner EXCEPT ![r] = j]
      /\ UNCHANGED <<repository, worker, workerSlots, aiPermits, result, status>>
  BY DEF LockRepository, Step
<1>2. r \in Repos /\ j \in Nat \ {0}
  BY <1>1 DEF CallIsComplete, TypeOK, Jobs
<1>3. Live' = Live /\ Permits' = Permits /\ ~Idle
  BY <1>1 DEF Live, Permits, Idle, TypeOK
<1>4. TypeOK'
  BY <1>1, <1>2 DEF TypeOK, Phase
<1>5. CallIsComplete' /\ OutcomesAreKnown'
  BY <1>1 DEF CallIsComplete, OutcomesAreKnown, TypeOK
<1>6. LocksAreHeld'
  <2>1. ASSUME NEW k \in Jobs, pc'[k] \in Holding
        PROVE  lockOwner'[repository'[k]] = k
    <3>1. CASE k = j
      BY <1>1, <1>2, <3>1 DEF TypeOK
    <3>2. CASE k # j
      <4>1. pc[k] \in Holding /\ repository[k] \in Repos /\ k \in Nat \ {0}
        BY <1>1, <2>1, <3>2 DEF CallIsComplete, TypeOK, Holding, Jobs
      <4>2. repository[k] # r
        BY <1>1, <4>1 DEF LocksAreHeld
      <4> QED
        BY <1>1, <4>1, <4>2 DEF LocksAreHeld, TypeOK
    <3> QED
      BY <3>1, <3>2
  <2>2. ASSUME NEW q \in Repos, lockOwner'[q] # 0
        PROVE  pc'[lockOwner'[q]] \in Holding /\ repository'[lockOwner'[q]] = q
    <3>1. CASE q = r
      BY <1>1, <1>2, <3>1 DEF TypeOK, Holding
    <3>2. CASE q # r
      BY <1>1, <2>2, <3>2 DEF LocksAreHeld, TypeOK, Holding
    <3> QED
      BY <3>1, <3>2
  <2> QED
    BY <2>1, <2>2 DEF LocksAreHeld
<1>7. PermitsAreCounted'
  BY <1>1, <1>3 DEF PermitsAreCounted
<1>8. SlotsAreHeld'
  BY <1>1, <1>3 DEF SlotsAreHeld
<1>9. StatusIsAccurate'
  BY <1>1 DEF StatusIsAccurate, Shown, TypeOK
<1> QED
  BY <1>4, <1>5, <1>6, <1>7, <1>8, <1>9

LEMMA AcquireAiKeepsInv ==
  ASSUME Inv, NEW j \in Jobs, AcquireAi(j)
  PROVE  Inv'
<1> USE RuntimeSchedulerAssumption DEF Inv
<1>1. /\ pc[j] = "locked"
      /\ pc' = [pc EXCEPT ![j] = "running"]
      /\ aiPermits > 0
      /\ aiPermits' = aiPermits - 1
      /\ UNCHANGED <<repository, worker, workerSlots, lockOwner, result, status>>
  BY DEF AcquireAi, Step
<1>2. Live' = Live /\ ~Idle
  BY <1>1 DEF Live, Idle, TypeOK
<1>3. Permits' = Permits \cup {j} /\ j \notin Permits
  BY <1>1 DEF Permits, TypeOK
<1>4. TypeOK'
  BY <1>1 DEF TypeOK, Phase
<1>5. CallIsComplete' /\ OutcomesAreKnown'
  BY <1>1 DEF CallIsComplete, OutcomesAreKnown, TypeOK
<1>6. LocksAreHeld'
  BY <1>1 DEF LocksAreHeld, Holding, TypeOK
<1>7. PermitsAreCounted'
  <2>1. Cardinality(Permits') = Cardinality(Permits) + 1
    BY <1>3, OneMore DEF Permits
  <2>2. Cardinality(Permits) \in Nat
    BY JobsAreFinite DEF Permits
  <2> QED
    BY <1>1, <2>1, <2>2 DEF PermitsAreCounted, TypeOK
<1>8. SlotsAreHeld'
  BY <1>1, <1>2 DEF SlotsAreHeld
<1>9. StatusIsAccurate'
  BY <1>1 DEF StatusIsAccurate, Shown, TypeOK
<1> QED
  BY <1>4, <1>5, <1>6, <1>7, <1>8, <1>9

LEMMA RunJobKeepsInv ==
  ASSUME Inv, NEW j \in Jobs, RunJob(j)
  PROVE  Inv'
<1> USE DEF Inv
<1>1. PICK outcome \in {"ok", "error"} :
        /\ pc[j] = "running"
        /\ pc' = [pc EXCEPT ![j] = "ran"]
        /\ result' = [result EXCEPT ![j] = outcome]
        /\ UNCHANGED <<repository, worker, workerSlots, lockOwner, aiPermits, status>>
  BY DEF RunJob, Step
<1>2. Live' = Live /\ Permits' = Permits /\ ~Idle
  BY <1>1 DEF Live, Permits, Idle, TypeOK
<1>3. TypeOK'
  BY <1>1 DEF TypeOK, Phase
<1>4. CallIsComplete' /\ OutcomesAreKnown'
  BY <1>1 DEF CallIsComplete, OutcomesAreKnown, TypeOK
<1>5. LocksAreHeld'
  BY <1>1 DEF LocksAreHeld, Holding, TypeOK
<1>6. PermitsAreCounted'
  BY <1>1, <1>2 DEF PermitsAreCounted
<1>7. SlotsAreHeld'
  BY <1>1, <1>2 DEF SlotsAreHeld
<1>8. StatusIsAccurate'
  BY <1>1 DEF StatusIsAccurate, Shown, TypeOK
<1> QED
  BY <1>3, <1>4, <1>5, <1>6, <1>7, <1>8

LEMMA ReleaseAiKeepsInv ==
  ASSUME Inv, NEW j \in Jobs, ReleaseAi(j)
  PROVE  Inv'
<1> USE RuntimeSchedulerAssumption DEF Inv
<1>1. /\ pc[j] = "ran"
      /\ pc' = [pc EXCEPT ![j] = "released"]
      /\ aiPermits' = aiPermits + 1
      /\ UNCHANGED <<repository, worker, workerSlots, lockOwner, result, status>>
  BY DEF ReleaseAi, Step
<1>2. Live' = Live /\ ~Idle
  BY <1>1 DEF Live, Idle, TypeOK
<1>3. Permits' = Permits \ {j} /\ j \in Permits
  BY <1>1 DEF Permits, TypeOK
<1>4. /\ Cardinality(Permits') = Cardinality(Permits) - 1
      /\ Cardinality(Permits) \in Nat
      /\ Cardinality(Permits') \in Nat
  BY <1>3, OneLess, JobsAreFinite DEF Permits
<1>5. PermitsAreCounted'
  BY <1>1, <1>4 DEF PermitsAreCounted, TypeOK
<1>6. TypeOK'
  <2>1. aiPermits' \in 0..AiConcurrency
    BY <1>1, <1>4, <1>5 DEF PermitsAreCounted, TypeOK
  <2> QED
    BY <1>1, <2>1 DEF TypeOK, Phase
<1>7. CallIsComplete' /\ OutcomesAreKnown'
  BY <1>1 DEF CallIsComplete, OutcomesAreKnown, TypeOK
<1>8. LocksAreHeld'
  BY <1>1 DEF LocksAreHeld, Holding, TypeOK
<1>9. SlotsAreHeld'
  BY <1>1, <1>2 DEF SlotsAreHeld
<1>10. StatusIsAccurate'
  BY <1>1 DEF StatusIsAccurate, Shown, TypeOK
<1> QED
  BY <1>5, <1>6, <1>7, <1>8, <1>9, <1>10

LEMMA UnlockRepositoryKeepsInv ==
  ASSUME Inv, NEW j \in Jobs, UnlockRepository(j)
  PROVE  Inv'
<1> USE RuntimeSchedulerAssumption DEF Inv
<1> DEFINE r == repository[j]
<1>1. /\ pc[j] = "released"
      /\ pc' = [pc EXCEPT ![j] = "reporting"]
      /\ lockOwner' = [lockOwner EXCEPT ![r] = 0]
      /\ UNCHANGED <<repository, worker, workerSlots, aiPermits, result, status>>
  BY DEF UnlockRepository, Step
<1>2. r \in Repos /\ lockOwner[r] = j
  BY <1>1 DEF CallIsComplete, LocksAreHeld, TypeOK, Holding
<1>3. Live' = Live /\ Permits' = Permits /\ ~Idle
  BY <1>1 DEF Live, Permits, Idle, TypeOK
<1>4. TypeOK'
  BY <1>1, <1>2 DEF TypeOK, Phase
<1>5. CallIsComplete' /\ OutcomesAreKnown'
  BY <1>1 DEF CallIsComplete, OutcomesAreKnown, TypeOK
<1>6. LocksAreHeld'
  <2>1. ASSUME NEW k \in Jobs, pc'[k] \in Holding
        PROVE  lockOwner'[repository'[k]] = k
    <3>1. k # j /\ pc[k] \in Holding /\ repository[k] \in Repos
      BY <1>1, <2>1 DEF CallIsComplete, TypeOK, Holding
    <3>2. repository[k] # r
      BY <1>2, <3>1 DEF LocksAreHeld
    <3> QED
      BY <1>1, <3>1, <3>2 DEF LocksAreHeld, TypeOK
  <2>2. ASSUME NEW q \in Repos, lockOwner'[q] # 0
        PROVE  pc'[lockOwner'[q]] \in Holding /\ repository'[lockOwner'[q]] = q
    <3>1. q # r /\ lockOwner'[q] = lockOwner[q] /\ lockOwner[q] \in Jobs
      BY <1>1, <1>2, <2>2 DEF TypeOK
    <3>2. lockOwner[q] # j
      BY <2>2, <3>1 DEF LocksAreHeld
    <3> QED
      BY <1>1, <2>2, <3>1, <3>2 DEF LocksAreHeld, TypeOK
  <2> QED
    BY <2>1, <2>2 DEF LocksAreHeld
<1>7. PermitsAreCounted'
  BY <1>1, <1>3 DEF PermitsAreCounted
<1>8. SlotsAreHeld'
  BY <1>1, <1>3 DEF SlotsAreHeld
<1>9. StatusIsAccurate'
  BY <1>1 DEF StatusIsAccurate, Shown, TypeOK
<1> QED
  BY <1>4, <1>5, <1>6, <1>7, <1>8, <1>9

LEMMA ShowOutcomeKeepsInv ==
  ASSUME Inv, NEW j \in Jobs, ShowOutcome(j)
  PROVE  Inv'
<1> USE DEF Inv
<1>1. /\ pc[j] = "reporting"
      /\ pc' = [pc EXCEPT ![j] = "leaving"]
      /\ UNCHANGED <<repository, worker, workerSlots, lockOwner, aiPermits, result>>
  BY DEF ShowOutcome, Step
<1>2. PICK shown \in {"completed", "failed"} :
        status' = [status EXCEPT ![worker[j]] = [state |-> shown, job |-> j]]
  BY DEF ShowOutcome
<1>3. j \in Live /\ worker[j] \in Workers
  BY <1>1 DEF Live, SlotsAreHeld, TypeOK
<1>4. Live' = Live /\ Permits' = Permits /\ ~Idle
  BY <1>1 DEF Live, Permits, Idle, TypeOK
<1>5. TypeOK'
  BY <1>1, <1>2, <1>3 DEF TypeOK, Phase
<1>6. CallIsComplete' /\ OutcomesAreKnown'
  BY <1>1 DEF CallIsComplete, OutcomesAreKnown, TypeOK
<1>7. LocksAreHeld'
  BY <1>1 DEF LocksAreHeld, Holding, TypeOK
<1>8. PermitsAreCounted'
  BY <1>1, <1>4 DEF PermitsAreCounted
<1>9. SlotsAreHeld'
  BY <1>1, <1>4 DEF SlotsAreHeld
<1>10. StatusIsAccurate'
  <2>1. \A w \in Workers : w # worker[j] => status'[w] = status[w]
    BY <1>2, <1>3 DEF TypeOK
  <2>2. ASSUME NEW w \in Workers, status'[w].state = "running"
        PROVE  /\ status'[w].job \in Jobs
               /\ pc'[status'[w].job] \in Shown
               /\ worker'[status'[w].job] = w
    <3>1. w # worker[j]
      BY <1>2, <1>3, <2>2 DEF TypeOK
    <3>2. /\ status[w].job \in Jobs
          /\ pc[status[w].job] \in Shown
          /\ worker[status[w].job] = w
      BY <2>1, <2>2, <3>1 DEF StatusIsAccurate
    <3>3. status[w].job # j
      BY <3>1, <3>2
    <3> QED
      BY <1>1, <2>1, <3>1, <3>2, <3>3 DEF TypeOK
  <2>3. ASSUME NEW k \in Jobs, pc'[k] \in Shown
        PROVE  status'[worker'[k]] = [state |-> "running", job |-> k]
    <3>1. k # j /\ pc[k] \in Shown
      BY <1>1, <2>3 DEF TypeOK, Shown
    <3>2. worker[k] \in Workers /\ worker[k] # worker[j]
      BY <1>3, <3>1 DEF SlotsAreHeld, TypeOK, Live, Shown
    <3> QED
      BY <1>1, <2>1, <3>1, <3>2 DEF StatusIsAccurate
  <2> QED
    BY <2>2, <2>3 DEF StatusIsAccurate
<1> QED
  BY <1>5, <1>6, <1>7, <1>8, <1>9, <1>10

LEMMA ReleaseWorkerKeepsInv ==
  ASSUME Inv, NEW j \in Jobs, ReleaseWorker(j)
  PROVE  Inv'
<1> USE RuntimeSchedulerAssumption DEF Inv
<1> DEFINE n == Len(workerSlots)
           w == worker[j]
<1>1. /\ pc[j] = "leaving"
      /\ pc' = [pc EXCEPT ![j] = "ended"]
      /\ workerSlots' = Append(workerSlots, w)
      /\ worker' = [worker EXCEPT ![j] = NoWorker]
      /\ UNCHANGED <<repository, lockOwner, aiPermits, result, status>>
  BY DEF ReleaseWorker, Step
<1>2. j \in Live /\ w \in Workers /\ n \in Nat
  BY <1>1 DEF Live, SlotsAreHeld, TypeOK
<1>3. /\ Len(workerSlots') = n + 1
      /\ \A k \in 1..n : workerSlots'[k] = workerSlots[k]
      /\ workerSlots'[n + 1] = w
      /\ workerSlots' \in Seq(Workers)
  BY <1>1, <1>2 DEF TypeOK
<1>4. Live' = Live \ {j} /\ Permits' = Permits /\ ~Idle
  BY <1>1 DEF Live, Permits, Idle, TypeOK
<1>5. TypeOK'
  BY <1>1, <1>3 DEF TypeOK, Phase
<1>6. CallIsComplete' /\ OutcomesAreKnown'
  BY <1>1 DEF CallIsComplete, OutcomesAreKnown, TypeOK
<1>7. LocksAreHeld'
  BY <1>1 DEF LocksAreHeld, Holding, TypeOK
<1>8. PermitsAreCounted'
  BY <1>1, <1>4 DEF PermitsAreCounted
<1>9. SlotsAreHeld'
  <2>1. \A k \in Live' : worker'[k] = worker[k] /\ worker[k] # w
    BY <1>1, <1>2, <1>4 DEF SlotsAreHeld, TypeOK, Live
  <2>2. \A k \in Jobs : k \in Live' <=> worker'[k] # NoWorker
    BY <1>1, <1>4 DEF SlotsAreHeld, TypeOK
  <2>3. \A k, l \in Live' : worker'[k] = worker'[l] => k = l
    BY <1>4, <2>1 DEF SlotsAreHeld
  <2>4. \A k \in 1..n : workerSlots[k] # w
    BY <1>2 DEF SlotsAreHeld
  <2>5. \A k \in 1..Len(workerSlots') : k \in 1..n \/ k = n + 1
    BY <1>2, <1>3
  <2>6. \A k, l \in 1..Len(workerSlots') : workerSlots'[k] = workerSlots'[l] => k = l
    BY <1>3, <2>4, <2>5 DEF SlotsAreHeld
  <2>7. \A k \in 1..Len(workerSlots') : \A l \in Live' : workerSlots'[k] # worker'[l]
    BY <1>3, <1>4, <2>1, <2>5 DEF SlotsAreHeld
  <2>8. Len(workerSlots') + Cardinality(Live') = WorkerCount
    <3>1. /\ Cardinality(Live') = Cardinality(Live) - 1
          /\ Cardinality(Live) \in Nat
      BY <1>2, <1>4, OneLess, JobsAreFinite DEF Live
    <3> QED
      BY <1>2, <1>3, <1>4, <3>1 DEF SlotsAreHeld
  <2> QED
    BY <2>2, <2>3, <2>6, <2>7, <2>8 DEF SlotsAreHeld
<1>10. StatusIsAccurate'
  <2>1. ASSUME NEW v \in Workers, status'[v].state = "running"
        PROVE  /\ status'[v].job \in Jobs
               /\ pc'[status'[v].job] \in Shown
               /\ worker'[status'[v].job] = v
    <3>1. /\ status[v].job \in Jobs
          /\ pc[status[v].job] \in Shown
          /\ worker[status[v].job] = v
      BY <1>1, <2>1 DEF StatusIsAccurate
    <3>2. status[v].job # j
      BY <1>1, <3>1 DEF Shown
    <3> QED
      BY <1>1, <3>1, <3>2 DEF TypeOK
  <2>2. ASSUME NEW k \in Jobs, pc'[k] \in Shown
        PROVE  status'[worker'[k]] = [state |-> "running", job |-> k]
    <3>1. k # j /\ pc[k] \in Shown
      BY <1>1, <2>2 DEF TypeOK, Shown
    <3> QED
      BY <1>1, <3>1 DEF StatusIsAccurate, TypeOK
  <2> QED
    BY <2>1, <2>2 DEF StatusIsAccurate
<1> QED
  BY <1>5, <1>6, <1>7, <1>8, <1>9, <1>10

-------------------------------------------------------------------------------
(* The theorems. *)

LEMMA NextKeepsInv == Inv /\ [Next]_vars => Inv'
<1> SUFFICES ASSUME Inv, [Next]_vars PROVE Inv'
  OBVIOUS
<1>1. ASSUME NEW n \in Jobs, NEW jobs \in [1..n -> Repos], Execute(jobs)
      PROVE  Inv'
  BY <1>1, ExecuteKeepsInv
<1>2. CASE Return
  BY <1>2, ReturnKeepsInv
<1>3. ASSUME NEW j \in Jobs, Thread(j)
      PROVE  Inv'
  BY <1>3, AcquireWorkerKeepsInv, ShowRunningKeepsInv, LockRepositoryKeepsInv,
     AcquireAiKeepsInv, RunJobKeepsInv, ReleaseAiKeepsInv, UnlockRepositoryKeepsInv,
     ShowOutcomeKeepsInv, ReleaseWorkerKeepsInv DEF Thread
<1>4. CASE UNCHANGED vars
  <2>1. Live' = Live /\ Permits' = Permits /\ Idle' = Idle
    BY <1>4 DEF vars, Live, Permits, Idle
  <2> QED
    BY <1>4, <2>1 DEF vars, Inv, TypeOK, CallIsComplete, LocksAreHeld, PermitsAreCounted,
       SlotsAreHeld, StatusIsAccurate, OutcomesAreKnown
<1> QED
  BY <1>1, <1>2, <1>3, <1>4 DEF Next

\* In every reachable state locks, permits, slots and the worker table agree with where
\* the threads are.
THEOREM SchedulerInvariance == Spec => []Inv
<1> QED
  BY InitInv, NextKeepsInv, PTL DEF Spec

\* In every reachable state every variable has its type; in particular the semaphore
\* never counts below zero or above AiConcurrency.
THEOREM SchedulerTypeCorrect == Spec => []TypeOK
<1>1. Inv => TypeOK
  BY DEF Inv
<1> QED
  BY <1>1, SchedulerInvariance, PTL

\* snapshot(), which devbot status shows, never attributes a worker to a job that
\* has left it, and never hides a job that waits for or holds its repository.
THEOREM SchedulerStatusIsTrue == Spec => []StatusIsTrue
<1>1. Inv => StatusIsTrue
  BY DEF Inv, StatusIsTrue, StatusIsAccurate, Shown, Live
<1> QED
  BY <1>1, SchedulerInvariance, PTL

\* However many jobs, workers and repositories there are, no thread of the pool
\* finds the slot stack empty, so execute returns an outcome for each job.
THEOREM SchedulerEveryJobAnswered == Spec => []EveryJobAnswered
<1>1. Inv => EveryJobAnswered
  BY DEF Inv, EveryJobAnswered, OutcomesAreKnown
<1> QED
  BY <1>1, SchedulerInvariance, PTL

-------------------------------------------------------------------------------
(* The refinement. *)

\* What the execution of a call sees of the threads.
PhaseOf(at) ==
  CASE at = "absent" -> "none"
    [] at \in {"queued", "slotted", "waiting", "locked"} -> "waiting"
    [] at = "running" -> "running"
    [] OTHER -> "finished"

PhaseBar == [j \in Jobs |-> PhaseOf(pc[j])]

LEMMA PhaseOfEach ==
  /\ PhaseOf("absent") = "none"
  /\ \A at \in {"queued", "slotted", "waiting", "locked"} : PhaseOf(at) = "waiting"
  /\ PhaseOf("running") = "running"
  /\ \A at \in {"ran", "released", "reporting", "leaving", "ended"} : PhaseOf(at) = "finished"
BY DEF PhaseOf

LEMMA ExecuteOpens ==
  ASSUME Inv, NEW n \in Jobs, NEW jobs \in [1..n -> Repos], Execute(jobs)
  PROVE  Execution!Open
<1> DEFINE called == [j \in Jobs |-> IF j \in DOMAIN jobs THEN jobs[j] ELSE NoRepo]
<1>1. /\ repository' = called
      /\ pc' = [j \in Jobs |-> IF j \in DOMAIN jobs THEN "queued" ELSE "absent"]
      /\ pc = [j \in Jobs |-> "absent"]
  BY DEF Execute, Idle
<1>2. \A j \in Jobs : called[j] = NoRepo <=> j \notin DOMAIN jobs
  BY RuntimeSchedulerAssumption
<1>3. called \in [Jobs -> Repos \cup {NoRepo}]
  OBVIOUS
<1>4. PhaseBar = [j \in Jobs |-> "none"]
  BY <1>1, PhaseOfEach DEF PhaseBar
<1>5. repository = [j \in Jobs |-> NoRepo]
  BY <1>1 DEF Inv, TypeOK, CallIsComplete
<1>6. PhaseBar' = [j \in Jobs |-> IF called[j] = NoRepo THEN "none" ELSE "waiting"]
  BY <1>1, <1>2, PhaseOfEach DEF PhaseBar
<1> QED
  BY <1>1, <1>3, <1>4, <1>5, <1>6
     DEF Execution!Open, Execution!Closed, PhaseBar, PhaseOf

LEMMA ReturnCloses ==
  ASSUME Inv, Return
  PROVE  Execution!Close
<1>1. \A j \in Jobs : PhaseBar[j] \in {"none", "finished"}
  BY PhaseOfEach DEF Inv, Return, Called, CallIsComplete, PhaseBar
<1>2. /\ repository' = [j \in Jobs |-> NoRepo]
      /\ PhaseBar' = [j \in Jobs |-> "none"]
  BY PhaseOfEach DEF Return, PhaseBar
<1> QED
  BY <1>1, <1>2 DEF Execution!Close, Execution!Closed, PhaseBar, PhaseOf

\* A thread's step from one phase to another, seen by the execution.
LEMMA PhaseBarStep ==
  ASSUME Inv, NEW j \in Jobs, NEW to \in Phase, pc' = [pc EXCEPT ![j] = to]
  PROVE  PhaseBar' = [PhaseBar EXCEPT ![j] = PhaseOf(to)]
BY DEF Inv, TypeOK, PhaseBar

\* The semaphore keeps the number of running jobs within AiConcurrency, and the
\* repository lock keeps them in different repositories.
LEMMA AcquireAiRuns ==
  ASSUME Inv, NEW j \in Jobs, AcquireAi(j)
  PROVE  Execution!Run(j)
<1> USE RuntimeSchedulerAssumption DEF Inv
<1> DEFINE running == {k \in Jobs : PhaseBar[k] = "running"}
<1>1. pc[j] = "locked" /\ aiPermits > 0 /\ UNCHANGED repository
  BY DEF AcquireAi, Step
<1>2. PhaseBar[j] = "waiting"
  BY <1>1, PhaseOfEach DEF PhaseBar
<1>3. \A k \in running : pc[k] = "running"
  BY PhaseOfEach DEF PhaseBar, TypeOK, Phase
<1>4. \A k \in running : repository[k] # repository[j]
  BY <1>1, <1>3 DEF LocksAreHeld, Holding
<1>5. Cardinality(running) < AiConcurrency
  <2>1. running \subseteq Permits /\ Permits \subseteq Jobs
    BY <1>3 DEF Permits
  <2>2. /\ Cardinality(running) \in Nat
        /\ Cardinality(Permits) \in Nat
        /\ Cardinality(running) <= Cardinality(Permits)
    BY <2>1, JobsAreFinite, FS_Subset
  <2> QED
    BY <1>1, <2>2 DEF PermitsAreCounted, TypeOK
<1>6. PhaseBar' = [PhaseBar EXCEPT ![j] = "running"]
  BY PhaseBarStep, PhaseOfEach DEF AcquireAi, Step, Phase
<1>7. Execution!Running = running
  BY DEF Execution!Running, PhaseBar, PhaseOf
<1>8. Execution!Cardinality(running) < AiConcurrency
  BY <1>5 DEF Execution!Cardinality, Cardinality
<1> HIDE DEF running
<1> QED
  BY <1>1, <1>2, <1>4, <1>6, <1>7, <1>8
     DEF Execution!Run, PhaseBar, PhaseOf

LEMMA RunJobFinishes ==
  ASSUME Inv, NEW j \in Jobs, RunJob(j)
  PROVE  Execution!Finish(j)
<1>1. pc[j] = "running" /\ UNCHANGED repository
  BY DEF RunJob, Step
<1>2. PhaseBar[j] = "running"
  BY <1>1, PhaseOfEach DEF PhaseBar
<1>3. PhaseBar' = [PhaseBar EXCEPT ![j] = "finished"]
  BY PhaseBarStep, PhaseOfEach DEF RunJob, Step, Phase
<1> QED
  BY <1>1, <1>2, <1>3 DEF Execution!Finish, PhaseBar, PhaseOf

\* The other steps of a thread are not seen.
LEMMA RestStutters ==
  ASSUME Inv, NEW j \in Jobs,
         \/ AcquireWorker(j) \/ ShowRunning(j) \/ LockRepository(j) \/ ReleaseAi(j)
         \/ UnlockRepository(j) \/ ShowOutcome(j) \/ ReleaseWorker(j)
  PROVE  UNCHANGED <<repository, PhaseBar>>
<1>1. PICK to \in Phase :
        /\ pc' = [pc EXCEPT ![j] = to]
        /\ PhaseOf(to) = PhaseOf(pc[j])
        /\ UNCHANGED repository
  <2>1. CASE AcquireWorker(j)
    BY <2>1, SlotIsFree, PhaseOfEach DEF AcquireWorker, Phase
  <2>2. CASE ShowRunning(j)
    BY <2>2, PhaseOfEach DEF ShowRunning, Step, Phase
  <2>3. CASE LockRepository(j)
    BY <2>3, PhaseOfEach DEF LockRepository, Step, Phase
  <2>4. CASE ReleaseAi(j)
    BY <2>4, PhaseOfEach DEF ReleaseAi, Step, Phase
  <2>5. CASE UnlockRepository(j)
    BY <2>5, PhaseOfEach DEF UnlockRepository, Step, Phase
  <2>6. CASE ShowOutcome(j)
    BY <2>6, PhaseOfEach DEF ShowOutcome, Step, Phase
  <2>7. CASE ReleaseWorker(j)
    BY <2>7, PhaseOfEach DEF ReleaseWorker, Step, Phase
  <2> QED
    BY <2>1, <2>2, <2>3, <2>4, <2>5, <2>6, <2>7
<1>2. PhaseBar' = PhaseBar
  BY <1>1, PhaseBarStep DEF PhaseBar
<1> QED
  BY <1>1, <1>2

\* For every number of jobs, workers and permits, the threads implement the abstract
\* execution: each job of a call runs once, beside no job of its repository, within
\* AI_CONCURRENCY, and the call returns when all have an outcome.
THEOREM SchedulerImplementsExecution == Spec => ImplementsExecution
<1>1. Init => Execution!Init
  <2> SUFFICES ASSUME Init PROVE Execution!Init
    OBVIOUS
  <2>1. PhaseBar = [j \in Jobs |-> "none"]
    BY PhaseOfEach DEF Init, Idle, PhaseBar
  <2> QED
    BY <2>1 DEF Init, Execution!Init, Execution!Closed, PhaseBar, PhaseOf
<1>2. Inv /\ [Next]_vars => [Execution!Next]_(Execution!vars)
  <2> SUFFICES ASSUME Inv, [Next]_vars
               PROVE  Execution!Next \/ UNCHANGED <<repository, PhaseBar>>
    BY DEF Execution!vars, PhaseBar, PhaseOf
  <2>1. ASSUME NEW n \in Jobs, NEW jobs \in [1..n -> Repos], Execute(jobs)
        PROVE  Execution!Next
    BY <2>1, ExecuteOpens DEF Execution!Next
  <2>2. CASE Return
    BY <2>2, ReturnCloses DEF Execution!Next
  <2>3. ASSUME NEW j \in Jobs, Thread(j)
        PROVE  Execution!Next \/ UNCHANGED <<repository, PhaseBar>>
    BY <2>3, AcquireAiRuns, RunJobFinishes, RestStutters DEF Thread, Execution!Next
  <2>4. CASE UNCHANGED vars
    BY <2>4 DEF vars, PhaseBar
  <2> QED
    BY <2>1, <2>2, <2>3, <2>4 DEF Next
<1> QED
  BY <1>1, <1>2, SchedulerInvariance, PTL DEF Spec, ImplementsExecution, Execution!Spec

-------------------------------------------------------------------------------
(* Freedom from deadlock. *)

\* A set of jobs has a first one: its smallest initial segment has one element.
LEMMA HasFirst ==
  ASSUME NEW S \in SUBSET Jobs, S # {}
  PROVE  \E j \in S : \A k \in S : j <= k
<1> DEFINE upTo(j) == {k \in S : k <= j}
           T == {upTo(j) : j \in S}
<1>1. S \subseteq Nat
  BY JobsAreFinite
<1>2. FiniteSubsetsOf(S) = SUBSET S
  BY JobsAreFinite, FS_FiniteSubsetsOfFinite
<1>3. IsWellFoundedOn(StrictSubsetOrdering(S), SUBSET S)
  BY <1>2, FS_StrictSubsetOrderingWellFounded
<1>4. T \subseteq SUBSET S /\ T # {}
  OBVIOUS
<1>5. PICK X \in T : \A Y \in T : <<Y, X>> \notin StrictSubsetOrdering(S)
  <2> HIDE DEF T
  <2> QED
    BY <1>3, <1>4, WFMin
<1>6. PICK j \in S : X = upTo(j)
  BY <1>5
<1>7. ASSUME NEW k \in S, k < j
      PROVE  FALSE
  <2>1. upTo(k) \subseteq X /\ j \in X /\ j \notin upTo(k)
    <3>1. k \in Nat /\ j \in Nat
      BY <1>1
    <3>2. \A n \in upTo(k) : n \in S /\ n <= j
      BY <1>1, <1>7, <3>1
    <3>3. j \in upTo(j) /\ j \notin upTo(k)
      BY <1>7, <3>1
    <3> QED
      BY <1>6, <3>2, <3>3
  <2>2. <<upTo(k), X>> \in StrictSubsetOrdering(S)
    BY <1>4, <1>5, <2>1 DEF StrictSubsetOrdering
  <2> QED
    BY <1>5, <2>2
<1> QED
  BY <1>1, <1>7

\* Whoever holds a repository lock or waits for a permit is not waited for in turn: the
\* permits that are out are with jobs that wait for nothing.
LEMMA SomebodyMayMove ==
  ASSUME Inv, NEW i \in Called, pc[i] # "ended"
  PROVE  \E j \in Called : MayMove(j)
<1> SUFFICES ASSUME \A j \in Called : ~MayMove(j)
             PROVE  FALSE
  OBVIOUS
<1> USE RuntimeSchedulerAssumption
<1>1. /\ \A j \in Jobs : pc[j] \in Phase
      /\ \A j \in Jobs : j \in Called <=> pc[j] # "absent"
      /\ \A j \in Called : repository[j] \in Repos
  BY DEF Inv, TypeOK, CallIsComplete, Called
<1>2. \A j \in Jobs : pc[j] \in {"absent", "queued", "waiting", "locked", "ended"}
  BY <1>1 DEF MayMove, Phase
<1>3. \A j \in Jobs : pc[j] # "locked"
  <2>1. Permits = {}
    BY <1>2 DEF Permits
  <2>2. aiPermits + 0 = AiConcurrency
    BY <2>1, FS_EmptySet DEF Inv, PermitsAreCounted
  <2>3. aiPermits > 0
    BY <2>2 DEF Inv, TypeOK
  <2> QED
    BY <1>1, <2>3 DEF MayMove
<1>4. \A j \in Jobs : pc[j] # "waiting"
  <2>1. ASSUME NEW j \in Jobs, pc[j] = "waiting"
        PROVE  FALSE
    <3>1. j \in Called /\ lockOwner[repository[j]] # 0
      BY <1>1, <2>1 DEF MayMove
    <3>2. lockOwner[repository[j]] \in Jobs /\ pc[lockOwner[repository[j]]] \in Holding
      BY <1>1, <3>1 DEF Inv, TypeOK, LocksAreHeld
    <3> QED
      BY <1>2, <1>3, <3>2 DEF Holding
  <2> QED
    BY <2>1
<1>5. Live = {} /\ Cardinality(Live) = 0
  <2>1. Live = {}
    BY <1>2, <1>3, <1>4 DEF Live
  <2> QED
    BY <2>1, FS_EmptySet
<1>6. PoolSize > 0
  <2>1. Called \in SUBSET Jobs /\ Called # {}
    BY DEF Called
  <2>2. Cardinality(Called) \in Nat /\ Cardinality(Called) # 0
    BY <2>1, JobsAreFinite, FS_EmptySet
  <2> QED
    BY <2>2 DEF PoolSize
<1>7. PICK j \in {k \in Jobs : pc[k] = "queued"} :
        \A k \in {n \in Jobs : pc[n] = "queued"} : j <= k
  <2>1. i \in {k \in Jobs : pc[k] = "queued"}
    BY <1>1, <1>2, <1>3, <1>4 DEF Called
  <2> QED
    BY <2>1, HasFirst
<1>8. \A k \in 1..(j - 1) : pc[k] # "queued"
  <2>1. \A k \in 1..(j - 1) : k \in Jobs /\ k < j
    BY DEF Jobs
  <2> QED
    BY <1>7, <2>1, JobsAreFinite
<1> QED
  BY <1>1, <1>5, <1>6, <1>7, <1>8 DEF MayMove

\* Until the last job of a call has ended, some thread may go on, for every number of
\* workers, permits, repositories and jobs.
THEOREM SchedulerNobodyIsStuck == Spec => []NobodyIsStuck
<1>1. Inv => NobodyIsStuck
  BY SomebodyMayMove DEF NobodyIsStuck
<1> QED
  BY <1>1, SchedulerInvariance, PTL

===============================================================================
