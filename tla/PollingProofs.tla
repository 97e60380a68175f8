---------------------------- MODULE PollingProofs ----------------------------
(***************************************************************************)
(* Theorems of Polling, for every value of its constants.                  *)
(***************************************************************************)
EXTENDS Polling, FiniteSetTheorems, TLAPS

(* What a written label set stands for. *)

\* An Issue is in state s only if it carries the label of s.
LEMMA StateIsLabelled ==
  ASSUME NEW ls, NEW s \in TaskState, CurrentState(ls) = s
  PROVE  s \in ls
<1>1. ls \cap TaskState # {}
  BY DEF CurrentState, NoState, TaskState
<1>2. PICK t \in TaskState : t \in ls
  BY <1>1
<1> DEFINE First(k) == /\ LabelPrecedence[k] \in ls
                       /\ \A j \in 1..(k - 1) : LabelPrecedence[j] \notin ls
<1>3. \E k \in 1..7 : First(k)
  BY <1>2 DEF TaskState, LabelPrecedence
<1>4. First(CHOOSE k \in 1..7 : First(k))
  BY <1>3
<1>5. CurrentState(ls) = LabelPrecedence[CHOOSE k \in 1..7 : First(k)]
  BY <1>1 DEF CurrentState
<1> QED
  BY <1>4, <1>5

\* A write leaves the Issue in the state it was meant for.
LEMMA StateOfRelabelled ==
  ASSUME NEW ls, NEW to \in TaskState, NEW extra \in SUBSET {ValidationPaused}
  PROVE  CurrentState(Relabelled(ls, to, extra)) = to
<1> DEFINE new == Relabelled(ls, to, extra)
<1>1. new \cap TaskState = {to}
  BY DEF Relabelled, TaskState, ValidationPaused
<1> DEFINE First(k) == /\ LabelPrecedence[k] \in new
                       /\ \A j \in 1..(k - 1) : LabelPrecedence[j] \notin new
<1>2. \A k \in 1..7 : LabelPrecedence[k] \in TaskState
  BY DEF LabelPrecedence, TaskState
<1>3. \E k \in 1..7 : LabelPrecedence[k] = to
  BY DEF LabelPrecedence, TaskState
<1>4. \A j, k \in 1..7 : LabelPrecedence[j] = LabelPrecedence[k] => j = k
  BY DEF LabelPrecedence
<1>5. \A k \in 1..7 : First(k) => LabelPrecedence[k] = to
  BY <1>1, <1>2
<1>6. \E k \in 1..7 : First(k)
  <2>1. PICK k \in 1..7 : LabelPrecedence[k] = to
    BY <1>3
  <2>2. ASSUME NEW j \in 1..(k - 1)
        PROVE  LabelPrecedence[j] \notin new
    BY <2>1, <1>1, <1>2, <1>4
  <2> QED
    BY <2>1, <2>2, <1>1
<1>7. LabelPrecedence[CHOOSE k \in 1..7 : First(k)] = to
  BY <1>5, <1>6
<1>8. CurrentState(new) = LabelPrecedence[CHOOSE k \in 1..7 : First(k)]
  BY <1>1 DEF CurrentState
<1> QED
  BY <1>7, <1>8

LEMMA RelabelledType ==
  ASSUME NEW ls \in SUBSET Labels, NEW to \in TaskState,
         NEW extra \in SUBSET {ValidationPaused}
  PROVE  Relabelled(ls, to, extra) \in SUBSET Labels
BY DEF Relabelled, Labels

-------------------------------------------------------------------------------
(* What the writes of the daemon do.  Every action that writes a label is one *)
(* of these two, the merge stage's mark_done or the sweep's block.            *)

JobClaim(i) ==
  \/ BeginImplement(i) \/ BeginRework(i) \/ BeginReview(i)
  \/ EscalateMissingPR(i)

JobEnd(i) ==
  \/ RequireManualAction(i) \/ Preflight(i) \/ BlockAfterFailure(i)
  \/ EndImplement(i) \/ EndRework(i) \/ EndReview(i)

Stable == TaskState \ {"working"}
Extras == SUBSET {ValidationPaused}
Outcomes == {"ok", "lost", "late", "comment"}

LEMMA TransitionEffect ==
  ASSUME TypeOK, NEW i \in Issues, NEW to \in Stable, NEW extra \in Extras,
         NEW outcome \in Outcomes, Transition(i, to, extra, outcome)
  PROVE  /\ labels' \in [Issues -> SUBSET Labels]
         /\ claimed' \subseteq Issues
         /\ faults' \in 0..MaxFaults
         /\ \A j \in Issues \ {i} : /\ labels'[j] = labels[j]
                                    /\ j \in claimed' <=> j \in claimed
         /\ faults' = 0 => /\ outcome = "ok"
                           /\ faults = 0
                           /\ claimed' = claimed \ {i}
                           /\ labels' = [labels EXCEPT ![i] = Relabelled(snapshot[i], to, extra)]
                           /\ CurrentState(labels'[i]) = to
<1>1. Relabelled(snapshot[i], to, extra) \in SUBSET Labels
  BY RelabelledType DEF TypeOK, Stable, Extras
<1>2. labels' \in [Issues -> SUBSET Labels] /\ claimed' \subseteq Issues
  BY <1>1 DEF Transition, SetLabels, TypeOK
<1>3. /\ faults' \in 0..MaxFaults
      /\ faults' = 0 => outcome = "ok" /\ faults = 0
  BY PollingAssumption DEF Transition, SetLabels, Fault, TypeOK
<1>4. CurrentState(Relabelled(snapshot[i], to, extra)) = to
  BY StateOfRelabelled DEF TypeOK, Stable, Extras
<1> QED
  BY <1>1, <1>2, <1>3, <1>4 DEF Transition, SetLabels, TypeOK

LEMMA JobEndEffect ==
  ASSUME NEW i \in Issues, JobEnd(i)
  PROVE  /\ job[i] \in ActiveJob
         /\ \E to \in Stable, extra \in Extras, outcome \in Outcomes,
               next \in {"none", "fallback"} :
              /\ Transition(i, to, extra, outcome)
              /\ next = "fallback" => outcome # "ok"
              /\ job' = [job EXCEPT ![i] = next]
         /\ UNCHANGED <<daemon, snapshot, todo, candidates, restarts>>
<1> DEFINE Ends == \E to \in Stable, extra \in Extras, outcome \in Outcomes,
                     next \in {"none", "fallback"} :
                       /\ Transition(i, to, extra, outcome)
                       /\ next = "fallback" => outcome # "ok"
                       /\ job' = [job EXCEPT ![i] = next]
           Rest == UNCHANGED <<daemon, snapshot, todo, candidates, restarts>>
<1>1. ASSUME NEW to \in Stable, NEW extra \in Extras, EndWith(i, to, extra)
      PROVE  Ends /\ Rest
  BY <1>1 DEF EndWith, Outcomes
<1>2. ASSUME NEW to \in Stable, EndOrFallBack(i, to)
      PROVE  Ends /\ Rest
  <2>1. PICK outcome \in Outcomes :
          /\ Transition(i, to, {}, outcome)
          /\ job' = [job EXCEPT ![i] = IF outcome = "ok" THEN "none" ELSE "fallback"]
          /\ Rest
    BY <1>2 DEF EndOrFallBack, Outcomes
  <2>2. {} \in Extras
    BY DEF Extras
  <2> QED
    BY <2>1, <2>2
<1>3. /\ {"ready", "blocked", "manual-action", "review", "rework"} \subseteq Stable
      /\ {} \in Extras /\ {ValidationPaused} \in Extras
  BY DEF Stable, TaskState, Extras
<1>4. CASE RequireManualAction(i) \/ Preflight(i) \/ BlockAfterFailure(i)
  BY <1>1, <1>3, <1>4 DEF RequireManualAction, Preflight, BlockAfterFailure, ActiveJob
<1>5. CASE EndImplement(i)
  BY <1>1, <1>2, <1>3, <1>5
     DEF EndImplement, EndUndelivered, EndUnverified, EndDelivered, ActiveJob
<1>6. CASE EndRework(i)
  BY <1>1, <1>2, <1>3, <1>6 DEF EndRework, ActiveJob
<1>7. CASE EndReview(i)
  BY <1>1, <1>2, <1>3, <1>7 DEF EndReview, ActiveJob
<1> QED
  BY <1>4, <1>5, <1>6, <1>7 DEF JobEnd

Reserved(i, next) ==
  /\ i \notin claimed
  /\ claimed' = claimed \cup {i}
  /\ labels' = [labels EXCEPT ![i] = Relabelled(snapshot[i], "working", {})]
  /\ snapshot' = [snapshot EXCEPT ![i] = Relabelled(snapshot[i], "working", {})]
  /\ job' = [job EXCEPT ![i] = next]

Refused(i) ==
  /\ claimed' = claimed
  /\ snapshot' = snapshot
  /\ job' = [job EXCEPT ![i] = "none"]
  /\ faults' = 0 => labels' = labels /\ i \in claimed

\* What a claim attempt leaves alone, whatever its outcome.
ClaimFrame(i) ==
  /\ labels' \in [Issues -> SUBSET Labels]
  /\ snapshot' \in [Issues -> SUBSET Labels]
  /\ claimed' \subseteq Issues
  /\ faults' \in 0..MaxFaults
  /\ \A j \in Issues \ {i} : /\ labels'[j] = labels[j]
                             /\ snapshot'[j] = snapshot[j]
                             /\ j \in claimed' <=> j \in claimed
  /\ faults' = 0 => faults = 0

LEMMA ClaimAsEffect ==
  ASSUME TypeOK, NEW i \in Issues, NEW next, ClaimAs(i, next)
  PROVE  ClaimFrame(i) /\ (Reserved(i, next) \/ Refused(i))
<1>1. Relabelled(snapshot[i], "working", {}) \in SUBSET Labels
  BY RelabelledType DEF TypeOK, TaskState
<1>2. CASE i \in claimed /\ UNCHANGED <<labels, claimed, snapshot, faults>>
            /\ job' = [job EXCEPT ![i] = "none"]
  BY <1>2 DEF TypeOK, ClaimFrame, Refused
<1>3. ASSUME NEW outcome \in {"ok", "lost", "late"},
             i \notin claimed,
             SetLabels(i, "working", {}, outcome),
             IF outcome = "ok"
             THEN /\ claimed' = claimed \cup {i}
                  /\ snapshot' = [snapshot EXCEPT
                                   ![i] = Relabelled(snapshot[i], "working", {})]
                  /\ job' = [job EXCEPT ![i] = next]
             ELSE /\ job' = [job EXCEPT ![i] = "none"]
                  /\ UNCHANGED <<claimed, snapshot>>
      PROVE  ClaimFrame(i) /\ (Reserved(i, next) \/ Refused(i))
  <2>1. /\ labels' \in [Issues -> SUBSET Labels]
        /\ snapshot' \in [Issues -> SUBSET Labels]
        /\ claimed' \subseteq Issues
    BY <1>1, <1>3 DEF SetLabels, TypeOK
  <2>2. /\ faults' \in 0..MaxFaults
        /\ faults' = 0 => faults = 0 /\ outcome = "ok"
    BY <1>3, PollingAssumption DEF SetLabels, Fault, TypeOK
  <2> QED
    BY <1>3, <2>1, <2>2 DEF SetLabels, TypeOK, ClaimFrame, Reserved, Refused
<1> QED
  BY <1>2, <1>3 DEF ClaimAs

LEMMA JobClaimEffect ==
  ASSUME TypeOK, NEW i \in Issues, JobClaim(i)
  PROVE  /\ ClaimFrame(i)
         /\ \/ \E next \in ActiveJob : Reserved(i, next)
            \/ Refused(i)
         /\ \/ job[i] = "selected" /\ Cardinality(Active) < AiConcurrency
            \/ daemon = "collect" /\ job = NoJobs
         /\ todo' \subseteq todo
         /\ UNCHANGED <<daemon, candidates, restarts>>
<1>1. \A next \in ActiveJob :
        ClaimAs(i, next) => ClaimFrame(i) /\ (Reserved(i, next) \/ Refused(i))
  BY ClaimAsEffect
<1>2. {"escalate", "preflight", "reworking", "reviewing"} \subseteq ActiveJob
  BY DEF ActiveJob
<1> QED
  BY <1>1, <1>2
  DEF JobClaim, BeginImplement, BeginRework, BeginReview, EscalateMissingPR, Begins, Examine

-------------------------------------------------------------------------------
(* The inductive invariant. *)

\* Where the main thread is while Jobs exist.
JobsHavePhase ==
  /\ daemon \notin {"collect", "execute"} => job = NoJobs
  /\ daemon = "collect" =>
       \A i, j \in Issues : job[i] # "none" /\ job[j] # "none" => i = j
  /\ \A i \in Issues : job[i] = "selected" => daemon = "execute"
  /\ daemon \in {"down", "sweep"} => claimed = {}

\* Every remnant the sweep has not reached yet is on its list.
SweepReachesRemnants ==
  faults = 0 /\ daemon = "sweep" =>
    \A i \in Issues :
      CurrentState(labels[i]) = "working" => i \in todo /\ Seen(i) = "working"

Inv ==
  /\ TypeOK
  /\ JobsHavePhase
  /\ OneJobPerRepository
  /\ AgentHoldsClaim
  /\ ClaimsAreActive
  /\ SweepReachesRemnants
  /\ WorkingHasOwner

LEMMA InitInv == Init => Inv
BY PollingAssumption
DEF Init, Inv, TypeOK, JobsHavePhase, OneJobPerRepository, AgentHoldsClaim, ClaimsAreActive,
    SweepReachesRemnants, WorkingHasOwner, NoJobs, NoSnapshot, Active, ActiveJob, JobPhase,
    DaemonPhase

\* The best candidate of a repository is unique.
LEMMA SelectedOnePerRepository ==
  ASSUME TypeOK, NEW i \in Selected, NEW j \in Selected, RepoOf[i] = RepoOf[j]
  PROVE  i = j
<1>1. i \in Issues /\ j \in Issues /\ ~Before(i, j) /\ ~Before(j, i)
  BY DEF Selected, BestOfRepository, TypeOK
<1>2. JobTypeOrder(i) \in 0..2 /\ JobTypeOrder(j) \in 0..2
  BY DEF JobTypeOrder
<1>3. Priority[i] \in Nat /\ Priority[j] \in Nat
  BY <1>1, PollingAssumption
<1>4. Priority[i] = Priority[j]
  BY <1>1, <1>2, <1>3 DEF Before
<1> QED
  BY <1>1, <1>4, PollingAssumption

LEMMA JobClaimKeepsInv ==
  ASSUME Inv, NEW i \in Issues, JobClaim(i)
  PROVE  Inv'
<1> USE DEF Inv
<1>1. /\ ClaimFrame(i)
      /\ \/ \E next \in ActiveJob : Reserved(i, next)
         \/ Refused(i)
      /\ \/ job[i] = "selected"
         \/ daemon = "collect" /\ job = NoJobs
      /\ todo' \subseteq todo
      /\ UNCHANGED <<daemon, candidates, restarts>>
  BY JobClaimEffect
<1>2. daemon \in {"collect", "execute"}
  BY <1>1 DEF JobsHavePhase
<1>3. /\ \A j \in Issues \ {i} : job'[j] = job[j]
      /\ job' \in [Issues -> JobPhase]
      /\ job'[i] \in ActiveJob \cup {"none"}
  BY <1>1 DEF Reserved, Refused, TypeOK, JobPhase
<1>4. TypeOK'
  BY <1>1, <1>3 DEF TypeOK, ClaimFrame
<1>5. JobsHavePhase'
  BY <1>1, <1>2, <1>3 DEF JobsHavePhase, NoJobs, ActiveJob
<1>6. OneJobPerRepository'
  BY <1>1, <1>3 DEF OneJobPerRepository, NoJobs
<1>7. AgentHoldsClaim'
  BY <1>1, <1>3 DEF AgentHoldsClaim, ClaimFrame, Reserved, Refused, TypeOK
<1>8. ClaimsAreActive'
  <2>1. SUFFICES ASSUME faults' = 0 PROVE claimed' = Active'
    BY DEF ClaimsAreActive
  <2>2. faults = 0 /\ claimed = Active
    BY <1>1, <2>1 DEF ClaimFrame, ClaimsAreActive
  <2>3. i \notin Active
    BY <1>1 DEF Active, NoJobs, ActiveJob
  <2> QED
    BY <1>1, <1>3, <2>1, <2>2, <2>3 DEF Reserved, Refused, Active, TypeOK
<1>9. SweepReachesRemnants'
  BY <1>1, <1>2 DEF SweepReachesRemnants
<1>10. WorkingHasOwner'
  <2>1. SUFFICES ASSUME faults' = 0, NEW j \in Issues, CurrentState(labels'[j]) = "working"
                 PROVE  j \in Active'
    BY DEF WorkingHasOwner
  <2>2. faults = 0
    BY <1>1, <2>1 DEF ClaimFrame
  <2>3. CASE j # i
    BY <1>1, <1>2, <1>3, <2>1, <2>2, <2>3 DEF ClaimFrame, WorkingHasOwner, Active
  <2>4. CASE j = i /\ Refused(i)
    BY <1>1, <1>2, <2>1, <2>2, <2>4 DEF Refused, WorkingHasOwner, Active, ClaimsAreActive,
       NoJobs, ActiveJob
  <2>5. CASE j = i /\ \E next \in ActiveJob : Reserved(i, next)
    BY <2>5 DEF Reserved, Active, TypeOK
  <2> QED
    BY <1>1, <2>3, <2>4, <2>5
<1> QED
  BY <1>4, <1>5, <1>6, <1>7, <1>8, <1>9, <1>10

LEMMA JobEndKeepsInv ==
  ASSUME Inv, NEW i \in Issues, JobEnd(i)
  PROVE  Inv'
<1> USE DEF Inv
<1>1. /\ job[i] \in ActiveJob
      /\ UNCHANGED <<daemon, snapshot, todo, candidates, restarts>>
  BY JobEndEffect
<1>2. PICK to \in Stable, extra \in Extras, outcome \in Outcomes, next \in {"none", "fallback"} :
        /\ Transition(i, to, extra, outcome)
        /\ next = "fallback" => outcome # "ok"
        /\ job' = [job EXCEPT ![i] = next]
  BY JobEndEffect
<1>3. /\ labels' \in [Issues -> SUBSET Labels]
      /\ claimed' \subseteq Issues
      /\ faults' \in 0..MaxFaults
      /\ \A j \in Issues \ {i} : /\ labels'[j] = labels[j]
                                 /\ j \in claimed' <=> j \in claimed
      /\ faults' = 0 => /\ outcome = "ok"
                        /\ faults = 0
                        /\ claimed' = claimed \ {i}
                        /\ CurrentState(labels'[i]) = to
  BY <1>2, TransitionEffect
<1>4. daemon \in {"collect", "execute"}
  BY <1>1 DEF JobsHavePhase, NoJobs, ActiveJob
<1>5. TypeOK'
  BY <1>1, <1>2, <1>3 DEF TypeOK, JobPhase, ActiveJob
<1>6. JobsHavePhase'
  BY <1>1, <1>2, <1>4 DEF JobsHavePhase, TypeOK, ActiveJob
<1>7. OneJobPerRepository'
  BY <1>1, <1>2 DEF OneJobPerRepository, TypeOK, ActiveJob
<1>8. AgentHoldsClaim'
  BY <1>2, <1>3 DEF AgentHoldsClaim, TypeOK
<1>9. ClaimsAreActive'
  BY <1>2, <1>3 DEF ClaimsAreActive, Active, TypeOK, ActiveJob
<1>10. SweepReachesRemnants'
  BY <1>1, <1>4 DEF SweepReachesRemnants
<1>11. WorkingHasOwner'
  BY <1>1, <1>2, <1>3, <1>4 DEF WorkingHasOwner, Active, TypeOK, Stable
<1> QED
  BY <1>5, <1>6, <1>7, <1>8, <1>9, <1>10, <1>11

\* The steps of the main thread that write no label and start no Job.
LEMMA MainThreadKeepsInv ==
  ASSUME Inv, MainThread, \A i \in Issues : ~EscalateMissingPR(i)
  PROVE  Inv'
<1> USE DEF Inv
<1>1. ASSUME daemon' \in DaemonPhase,
             snapshot' \in [Issues -> SUBSET Labels],
             todo' \subseteq Issues, candidates' \subseteq Issues,
             faults' \in 0..MaxFaults, faults' = 0 => faults = 0,
             UNCHANGED <<labels, claimed, job, restarts>>,
             daemon' # daemon => job = NoJobs,
             daemon' \in {"down", "sweep"} => claimed = {} /\ daemon \in {"down", "sweep"},
             SweepReachesRemnants', WorkingHasOwner'
      PROVE  Inv'
  <2>1. TypeOK'
    BY <1>1 DEF TypeOK
  <2>2. JobsHavePhase'
    BY <1>1 DEF JobsHavePhase, NoJobs
  <2>3. OneJobPerRepository' /\ AgentHoldsClaim' /\ ClaimsAreActive'
    BY <1>1 DEF OneJobPerRepository, AgentHoldsClaim, ClaimsAreActive, Active
  <2> QED
    BY <1>1, <2>1, <2>2, <2>3
<1>2. CASE Start
  <2>1. ASSUME NEW i \in Issues, CurrentState(labels[i]) = "working"
        PROVE  i \in todo' /\ Seen(i)' = "working"
    <3>1. "working" \in labels[i]
      BY <2>1, StateIsLabelled DEF TaskState
    <3> QED
      BY <1>2, <2>1, <3>1 DEF Start, Seen
  <2>2. SweepReachesRemnants' /\ WorkingHasOwner'
    BY <1>2, <2>1 DEF Start, SweepReachesRemnants, WorkingHasOwner
  <2> QED
    BY <1>1, <1>2, <2>2 DEF Start, TypeOK, JobsHavePhase, DaemonPhase
<1>3. ASSUME NEW i \in Issues, SweepIssue(i)
      PROVE  Inv'
  <2>1. CASE ~Allowed(i, "blocked") /\ UNCHANGED <<labels, claimed, faults>>
    <3>1. Seen(i) # "working"
      BY <2>1 DEF Allowed, AllowedTransitions
    <3>2. SweepReachesRemnants' /\ WorkingHasOwner'
      BY <1>3, <2>1, <3>1
      DEF SweepIssue, SweepReachesRemnants, WorkingHasOwner, Seen
    <3> QED
      BY <1>1, <1>3, <2>1, <3>2 DEF SweepIssue, TypeOK, JobsHavePhase
  <2>2. ASSUME NEW outcome \in Outcomes, Transition(i, "blocked", {}, outcome)
        PROVE  Inv'
    <3>1. /\ labels' \in [Issues -> SUBSET Labels]
          /\ claimed' \subseteq Issues
          /\ faults' \in 0..MaxFaults
          /\ \A j \in Issues \ {i} : labels'[j] = labels[j]
          /\ faults' = 0 => faults = 0 /\ CurrentState(labels'[i]) = "blocked"
      BY <2>2, TransitionEffect DEF Stable, Extras, TaskState
    <3>2. daemon = "sweep" /\ claimed = {} /\ claimed' = {} /\ job = NoJobs
      BY <1>3, <2>2 DEF SweepIssue, JobsHavePhase, Transition
    <3>3. TypeOK' /\ JobsHavePhase' /\ OneJobPerRepository'
      BY <1>3, <3>1, <3>2 DEF SweepIssue, TypeOK, JobsHavePhase, OneJobPerRepository, NoJobs
    <3>4. AgentHoldsClaim' /\ ClaimsAreActive'
      BY <1>3, <3>2 DEF SweepIssue, AgentHoldsClaim, ClaimsAreActive, Active, NoJobs, ActiveJob
    <3>5. SweepReachesRemnants' /\ WorkingHasOwner'
      BY <1>3, <3>1, <3>2 DEF SweepIssue, SweepReachesRemnants, WorkingHasOwner, Seen
    <3> QED
      BY <3>3, <3>4, <3>5
  <2> QED
    BY <1>3, <2>1, <2>2 DEF SweepIssue, Outcomes
<1>4. ASSUME NEW r \in Repos, SweepListingFails(r)
      PROVE  Inv'
  <2>1. faults' = faults + 1 /\ faults' \in 0..MaxFaults /\ faults' # 0
    BY <1>4, PollingAssumption DEF SweepListingFails, Fault, TypeOK
  <2> QED
    BY <1>1, <1>4, <2>1
    DEF SweepListingFails, TypeOK, JobsHavePhase, SweepReachesRemnants, WorkingHasOwner
<1>5. CASE SweepEnd
  <2>1. SweepReachesRemnants' /\ WorkingHasOwner'
    BY <1>5 DEF SweepEnd, SweepReachesRemnants, WorkingHasOwner
  <2> QED
    BY <1>1, <1>5, <2>1 DEF SweepEnd, TypeOK, JobsHavePhase, DaemonPhase, NoSnapshot
<1>6. CASE Collect \/ MergeEnd
  <2>1. SweepReachesRemnants' /\ WorkingHasOwner'
    BY <1>6 DEF Collect, MergeEnd, SweepReachesRemnants, WorkingHasOwner, Active
  <2> QED
    BY <1>1, <1>6, <2>1 DEF Collect, MergeEnd, Examined, TypeOK, JobsHavePhase, DaemonPhase
<1>7. CASE \E i \in Issues : MergeHeld(i) \/ Candidate(i) \/ Excluded(i)
  <2>1. SweepReachesRemnants' /\ WorkingHasOwner'
    BY <1>7
    DEF MergeHeld, Candidate, Excluded, Examine, SweepReachesRemnants, WorkingHasOwner, Active
  <2> QED
    BY <1>1, <1>7, <2>1 DEF MergeHeld, Candidate, Excluded, Examine, TypeOK, JobsHavePhase
<1>8. ASSUME NEW i \in Issues, MergeDone(i)
      PROVE  Inv'
  <2>1. /\ labels' \in [Issues -> SUBSET Labels]
        /\ claimed' \subseteq Issues
        /\ faults' \in 0..MaxFaults
        /\ \A j \in Issues \ {i} : labels'[j] = labels[j] /\ (j \in claimed' <=> j \in claimed)
        /\ faults' = 0 => /\ faults = 0
                          /\ claimed' = claimed \ {i}
                          /\ CurrentState(labels'[i]) = "done"
    BY <1>8, TransitionEffect DEF MergeDone, Stable, Extras, TaskState, Outcomes
  <2>2. daemon = "merge" /\ daemon' = daemon /\ job = NoJobs /\ job' = job
    BY <1>8 DEF MergeDone, JobsHavePhase
  <2>3. TypeOK' /\ JobsHavePhase' /\ OneJobPerRepository'
    BY <1>8, <2>1, <2>2 DEF MergeDone, TypeOK, JobsHavePhase, OneJobPerRepository, NoJobs
  <2>4. AgentHoldsClaim' /\ ClaimsAreActive'
    BY <2>1, <2>2 DEF AgentHoldsClaim, ClaimsAreActive, Active, NoJobs, ActiveJob
  <2>5. SweepReachesRemnants' /\ WorkingHasOwner'
    BY <2>1, <2>2 DEF SweepReachesRemnants, WorkingHasOwner, Active
  <2> QED
    BY <2>3, <2>4, <2>5
<1>9. CASE MergeRaises
  <2>1. CASE UNCHANGED <<labels, claimed>> /\ faults' \in 0..MaxFaults /\ (faults' = 0 => faults = 0)
    <3>1. SweepReachesRemnants' /\ WorkingHasOwner'
      BY <1>9, <2>1 DEF MergeRaises, SweepReachesRemnants, WorkingHasOwner, Active
    <3> QED
      BY <1>1, <1>9, <2>1, <3>1
      DEF MergeRaises, TypeOK, JobsHavePhase, DaemonPhase, NoSnapshot
  <2>2. ASSUME NEW i \in todo, Transition(i, "done", {}, "late")
        PROVE  Inv'
    <3>0. i \in Issues
      BY DEF TypeOK
    <3>1. /\ labels' \in [Issues -> SUBSET Labels]
          /\ claimed' = claimed
          /\ faults' \in 0..MaxFaults /\ faults' # 0
      BY <2>2, <3>0, TransitionEffect DEF Stable, Extras, TaskState, Outcomes, Transition
    <3>2. daemon = "merge" /\ daemon' = "idle" /\ job = NoJobs /\ job' = job
      BY <1>9 DEF MergeRaises, JobsHavePhase
    <3>3. TypeOK' /\ JobsHavePhase' /\ OneJobPerRepository'
      BY <1>9, <3>1, <3>2
      DEF MergeRaises, TypeOK, JobsHavePhase, OneJobPerRepository, NoJobs, DaemonPhase, NoSnapshot
    <3>4. AgentHoldsClaim' /\ ClaimsAreActive' /\ SweepReachesRemnants' /\ WorkingHasOwner'
      BY <3>1, <3>2
      DEF AgentHoldsClaim, ClaimsAreActive, SweepReachesRemnants, WorkingHasOwner
    <3> QED
      BY <3>3, <3>4
  <2>3. Fault(TRUE) => faults' \in 0..MaxFaults /\ faults' # 0
    BY PollingAssumption DEF Fault, TypeOK
  <2> QED
    BY <1>9, <2>1, <2>2, <2>3 DEF MergeRaises, TypeOK
<1>10. CASE Select
  <2>1. job' \in [Issues -> {"none", "selected"}] /\ Active' = {} /\ Active = {}
    BY <1>10 DEF Select, Active, ActiveJob, NoJobs
  <2>2. daemon' = "execute" /\ UNCHANGED <<labels, claimed, snapshot, todo, faults, restarts>>
    BY <1>10 DEF Select
  <2>3. TypeOK' /\ JobsHavePhase'
    BY <1>10, <2>1, <2>2 DEF Select, TypeOK, JobsHavePhase, JobPhase, DaemonPhase
  <2>4. OneJobPerRepository'
    BY <1>10, SelectedOnePerRepository DEF Select, OneJobPerRepository
  <2>5. AgentHoldsClaim' /\ ClaimsAreActive' /\ SweepReachesRemnants'
    BY <2>1, <2>2 DEF AgentHoldsClaim, ClaimsAreActive, SweepReachesRemnants
  <2>6. WorkingHasOwner'
    BY <1>10, <2>1, <2>2 DEF Select, WorkingHasOwner
  <2> QED
    BY <2>3, <2>4, <2>5, <2>6
<1>11. CASE CycleEnd
  <2>1. SweepReachesRemnants' /\ WorkingHasOwner'
    BY <1>11 DEF CycleEnd, SweepReachesRemnants, WorkingHasOwner, Active
  <2> QED
    BY <1>1, <1>11, <2>1 DEF CycleEnd, TypeOK, JobsHavePhase, DaemonPhase, NoSnapshot
<1> QED
  BY <1>2, <1>3, <1>4, <1>5, <1>6, <1>7, <1>8, <1>9, <1>10, <1>11 DEF MainThread

LEMMA NextKeepsInv == Inv /\ [Next]_vars => Inv'
<1> SUFFICES ASSUME Inv, [Next]_vars PROVE Inv'
  OBVIOUS
<1> USE DEF Inv
<1>1. ASSUME NEW i \in Issues, JobClaim(i) PROVE Inv'
  BY <1>1, JobClaimKeepsInv
<1>2. ASSUME NEW i \in Issues, JobEnd(i) PROVE Inv'
  BY <1>2, JobEndKeepsInv
<1>3. CASE MainThread
  BY <1>1, <1>3, MainThreadKeepsInv DEF JobClaim
<1>4. ASSUME NEW i \in Issues, RunImplementer(i) PROVE Inv'
  <2>1. /\ job[i] = "preflight"
        /\ job' = [job EXCEPT ![i] = "implementing"]
        /\ UNCHANGED <<labels, claimed, daemon, snapshot, todo, candidates, faults, restarts>>
    BY <1>4 DEF RunImplementer
  <2>2. TypeOK' /\ JobsHavePhase' /\ OneJobPerRepository'
    BY <2>1 DEF TypeOK, JobsHavePhase, OneJobPerRepository, NoJobs, JobPhase, ActiveJob
  <2>3. AgentHoldsClaim' /\ ClaimsAreActive' /\ SweepReachesRemnants' /\ WorkingHasOwner'
    BY <2>1 DEF AgentHoldsClaim, ClaimsAreActive, SweepReachesRemnants, WorkingHasOwner,
       Seen, Active, ActiveJob, TypeOK
  <2> QED
    BY <2>2, <2>3
<1>5. ASSUME NEW i \in Issues, Abandon(i) PROVE Inv'
  <2>1. /\ job[i] = "selected"
        /\ job' = [job EXCEPT ![i] = "none"]
        /\ UNCHANGED <<labels, claimed, daemon, snapshot, todo, candidates, faults, restarts>>
    BY <1>5 DEF Abandon, Begins
  <2>2. TypeOK' /\ JobsHavePhase' /\ OneJobPerRepository'
    BY <2>1 DEF TypeOK, JobsHavePhase, OneJobPerRepository, NoJobs, JobPhase, ActiveJob
  <2>3. AgentHoldsClaim' /\ ClaimsAreActive' /\ SweepReachesRemnants' /\ WorkingHasOwner'
    BY <2>1 DEF AgentHoldsClaim, ClaimsAreActive, SweepReachesRemnants, WorkingHasOwner,
       Seen, Active, ActiveJob, TypeOK
  <2> QED
    BY <2>2, <2>3
<1>6. CASE Stop \/ Crash
  <2>1. /\ daemon' = "down" /\ claimed' = {} /\ snapshot' = NoSnapshot /\ todo' = {}
        /\ candidates' = {} /\ job' = NoJobs
        /\ UNCHANGED <<labels, faults>>
        /\ restarts < MaxRestarts /\ restarts' = restarts + 1
    BY <1>6 DEF Stop, Crash, Exit
  <2>2. TypeOK' /\ JobsHavePhase' /\ OneJobPerRepository'
    BY <2>1, PollingAssumption DEF TypeOK, JobsHavePhase, OneJobPerRepository, NoJobs, NoSnapshot,
       DaemonPhase, JobPhase, ActiveJob
  <2>3. AgentHoldsClaim' /\ ClaimsAreActive' /\ SweepReachesRemnants' /\ WorkingHasOwner'
    BY <2>1 DEF AgentHoldsClaim, ClaimsAreActive, SweepReachesRemnants, WorkingHasOwner,
       Active, ActiveJob, NoJobs
  <2> QED
    BY <2>2, <2>3
<1>7. ASSUME NEW i \in Issues, HumanEdit(i) PROVE Inv'
  <2>1. PICK ls \in HumanLabels : labels' = [labels EXCEPT ![i] = ls]
    BY <1>7 DEF HumanEdit
  <2>2. ls \in SUBSET Labels /\ "working" \notin ls
    BY <2>1, PollingAssumption
  <2>3. CurrentState(ls) # "working"
    BY <2>2, StateIsLabelled DEF TaskState
  <2>4. UNCHANGED <<claimed, daemon, snapshot, todo, candidates, job, faults, restarts>>
    BY <1>7 DEF HumanEdit
  <2>5. TypeOK' /\ JobsHavePhase' /\ OneJobPerRepository' /\ AgentHoldsClaim' /\ ClaimsAreActive'
    BY <2>1, <2>2, <2>4
    DEF TypeOK, JobsHavePhase, OneJobPerRepository, AgentHoldsClaim, ClaimsAreActive, Active
  <2>6. SweepReachesRemnants' /\ WorkingHasOwner'
    BY <2>1, <2>3, <2>4 DEF SweepReachesRemnants, WorkingHasOwner, Seen, Active, TypeOK
  <2> QED
    BY <2>5, <2>6
<1>8. CASE UNCHANGED vars
  BY <1>8 DEF vars, TypeOK, JobsHavePhase, OneJobPerRepository, AgentHoldsClaim, ClaimsAreActive,
     SweepReachesRemnants, WorkingHasOwner, Seen, Active
<1> QED
  BY <1>1, <1>2, <1>3, <1>4, <1>5, <1>6, <1>7, <1>8
  DEF Next, DaemonStep, JobThread, JobClaim, JobEnd

-------------------------------------------------------------------------------
(* Theorems of the specification. *)

LEMMA Invariance == Spec => []Inv
BY InitInv, NextKeepsInv, PTL DEF Spec

\* Every variable keeps its type, for any number of Issues, repositories and
\* failures.
THEOREM PollingTypeCorrect == Spec => []TypeOK
BY Invariance, PTL DEF Inv

\* The scheduler never lets two Jobs share a repository's workspace, whatever
\* fails and whatever people edit meanwhile.
THEOREM PollingOneJobPerRepository == Spec => []OneJobPerRepository
BY Invariance, PTL DEF Inv

\* An agent runs only for an Issue its process has reserved.
THEOREM PollingAgentHoldsClaim == Spec => []AgentHoldsClaim
BY Invariance, PTL DEF Inv

\* Reservations and Jobs come and go together as long as no GitHub call fails.
THEOREM PollingClaimsAreActive == Spec => []ClaimsAreActive
BY Invariance, PTL DEF Inv

\* After the start-up sweep no Issue is left working without a Job, as long as
\* no GitHub call fails: crashes and people's edits alone cannot strand one.
THEOREM PollingWorkingHasOwner == Spec => []WorkingHasOwner
BY Invariance, PTL DEF Inv

-------------------------------------------------------------------------------
(* The limits of a cycle. *)

LEMMA BeforeIsOrder ==
  ASSUME TypeOK, NEW i \in Issues, NEW j \in Issues
  PROVE  /\ ~Before(i, i)
         /\ i # j => Before(i, j) \/ Before(j, i)
         /\ \A k \in Issues : Before(k, i) /\ Before(i, j) => Before(k, j)
<1>1. \A k \in Issues : JobTypeOrder(k) \in 0..2 /\ Priority[k] \in Nat
  BY PollingAssumption DEF JobTypeOrder
<1>2. i # j => Priority[i] # Priority[j]
  BY PollingAssumption
<1> QED
  BY <1>1, <1>2 DEF Before

\* The selected candidates are numbered by how many of the best come before them, and
\* these numbers are below MaxConcurrentJobs.
LEMMA SelectedWithinLimit ==
  ASSUME TypeOK
  PROVE  IsFiniteSet(Selected) /\ Cardinality(Selected) <= MaxConcurrentJobs
<1> DEFINE Ahead(i) == {j \in BestOfRepository : Before(j, i)}
<1> DEFINE rank == [i \in Selected |-> Cardinality(Ahead(i))]
<1> DEFINE ranks == 0..(MaxConcurrentJobs - 1)
<1>1. BestOfRepository \subseteq Issues /\ Selected \subseteq BestOfRepository
  BY DEF Selected, BestOfRepository, TypeOK
<1>2. \A i \in Issues : IsFiniteSet(Ahead(i)) /\ Cardinality(Ahead(i)) \in Nat
  BY <1>1, PollingAssumption, FS_Subset, FS_CardinalityType
<1>3. ASSUME NEW i \in Selected
      PROVE  Cardinality(Ahead(i)) \in ranks
  <2>1. i \in Issues /\ Cardinality(Ahead(i)) < MaxConcurrentJobs
    BY <1>1 DEF Selected
  <2>2. Cardinality(Ahead(i)) \in Nat
    BY <1>2, <2>1
  <2> HIDE DEF Ahead
  <2> QED
    BY <2>1, <2>2, PollingAssumption
<1>3a. rank \in [Selected -> ranks]
  BY <1>3
<1>4. ASSUME NEW i \in Selected, NEW j \in Selected, Before(i, j)
      PROVE  Cardinality(Ahead(i)) # Cardinality(Ahead(j))
  <2>1. Ahead(i) \subseteq Ahead(j) /\ i \in Ahead(j) /\ i \notin Ahead(i)
    BY <1>1, <1>4, BeforeIsOrder
  <2> HIDE DEF Ahead
  <2> QED
    BY <1>1, <1>2, <2>1, FS_Subset
<1>5. ASSUME NEW i \in Selected, NEW j \in Selected, rank[i] = rank[j]
      PROVE  i = j
  <2>1. Cardinality(Ahead(i)) = Cardinality(Ahead(j))
    BY <1>5
  <2> HIDE DEF Ahead, rank
  <2> QED
    BY <1>1, <1>4, <2>1, BeforeIsOrder
<1> HIDE DEF rank
<1>6. rank \in Injection(Selected, ranks)
  BY <1>3a, <1>5 DEF Injection, IsInjective
<1>7. IsFiniteSet(ranks) /\ Cardinality(ranks) = MaxConcurrentJobs
  BY PollingAssumption, FS_Interval
<1> HIDE DEF ranks
<1> QED
  BY <1>6, <1>7, FS_Injection

LEMMA FirstOfCandidates ==
  ASSUME TypeOK, NEW S \in SUBSET Issues, S # {}
  PROVE  \E i \in S : \A j \in S : ~Before(j, i)
<1> DEFINE ahead(i) == {j \in S : Before(j, i)}
           T == {ahead(i) : i \in S}
<1>1. IsFiniteSet(S)
  BY PollingAssumption, FS_Subset
<1>2. IsWellFoundedOn(StrictSubsetOrdering(S), SUBSET S)
  BY <1>1, FS_FiniteSubsetsOfFinite, FS_StrictSubsetOrderingWellFounded
<1>3. T \subseteq SUBSET S /\ T # {}
  OBVIOUS
<1>4. PICK X \in T : \A Y \in T : <<Y, X>> \notin StrictSubsetOrdering(S)
  <2> HIDE DEF T
  <2> QED
    BY <1>2, <1>3, WFMin
<1>5. PICK i \in S : X = ahead(i)
  BY <1>4
<1>6. ASSUME NEW j \in S, Before(j, i)
      PROVE  FALSE
  <2>1. ahead(j) \subseteq ahead(i) /\ j \in ahead(i) /\ j \notin ahead(j)
    BY <1>6, BeforeIsOrder
  <2>2. <<ahead(j), X>> \in StrictSubsetOrdering(S)
    BY <1>3, <1>5, <2>1 DEF StrictSubsetOrdering
  <2> QED
    BY <1>4, <2>2
<1> QED
  BY <1>6

\* Numbered by how many of the best come before them, those before a best candidate
\* that is not selected fill every place.
LEMMA SelectedFillPlaces ==
  ASSUME TypeOK, NEW i \in BestOfRepository, i \notin Selected
  PROVE  MaxConcurrentJobs <= Cardinality({j \in Selected : Before(j, i)})
<1> DEFINE Ahead(k) == {j \in BestOfRepository : Before(j, k)}
           A == Ahead(i)
           n == Cardinality(A)
           chosen == {j \in Selected : Before(j, i)}
           rank == [j \in A |-> Cardinality(Ahead(j))]
           ranks == 0..(n - 1)
           places == 0..(MaxConcurrentJobs - 1)
<1>1. /\ BestOfRepository \subseteq Issues /\ A \subseteq Issues /\ chosen \subseteq A
      /\ \A j \in A : j \in BestOfRepository /\ Before(j, i)
      /\ \A j \in BestOfRepository :
           Cardinality(Ahead(j)) < MaxConcurrentJobs => j \in Selected
  BY DEF Selected, BestOfRepository, TypeOK
<1>2. \A j \in Issues : IsFiniteSet(Ahead(j)) /\ Cardinality(Ahead(j)) \in Nat
  BY <1>1, PollingAssumption, FS_Subset, FS_CardinalityType
<1>3. n \in Nat /\ IsFiniteSet(A) /\ ~(n < MaxConcurrentJobs)
  BY <1>1, <1>2
<1>4. \A j, k \in Issues :
        Before(j, k) /\ j \in BestOfRepository => Cardinality(Ahead(j)) < Cardinality(Ahead(k))
  <2> SUFFICES ASSUME NEW j \in Issues, NEW k \in Issues, Before(j, k), j \in BestOfRepository
               PROVE  Cardinality(Ahead(j)) < Cardinality(Ahead(k))
    OBVIOUS
  <2>1. Ahead(j) \subseteq Ahead(k) /\ j \in Ahead(k) /\ j \notin Ahead(j)
    BY <1>1, BeforeIsOrder
  <2> HIDE DEF Ahead
  <2>2. Cardinality(Ahead(j)) <= Cardinality(Ahead(k)) /\ Cardinality(Ahead(j)) # Cardinality(Ahead(k))
    BY <1>2, <2>1, FS_Subset
  <2> QED
    BY <1>2, <2>2
<1>5. \A j \in A : Cardinality(Ahead(j)) \in ranks
  <2> SUFFICES ASSUME NEW j \in A PROVE Cardinality(Ahead(j)) \in ranks
    OBVIOUS
  <2>1. Cardinality(Ahead(j)) < n /\ Cardinality(Ahead(j)) \in Nat
    BY <1>1, <1>2, <1>4
  <2> HIDE DEF Ahead, n
  <2> QED
    BY <1>3, <2>1
<1>6. \A j, k \in A : Cardinality(Ahead(j)) = Cardinality(Ahead(k)) => j = k
  <2> SUFFICES ASSUME NEW j \in A, NEW k \in A, j # k
               PROVE  Cardinality(Ahead(j)) # Cardinality(Ahead(k))
    OBVIOUS
  <2>1. Before(j, k) \/ Before(k, j)
    BY <1>1, BeforeIsOrder
  <2>2. Cardinality(Ahead(j)) < Cardinality(Ahead(k)) \/ Cardinality(Ahead(k)) < Cardinality(Ahead(j))
    BY <1>1, <1>4, <2>1
  <2>3. Cardinality(Ahead(j)) \in Nat /\ Cardinality(Ahead(k)) \in Nat
    BY <1>1, <1>2
  <2> HIDE DEF Ahead
  <2> QED
    BY <2>2, <2>3
<1>7. rank \in Injection(A, ranks)
  BY <1>5, <1>6 DEF Injection, IsInjective
<1>8. IsFiniteSet(ranks) /\ Cardinality(ranks) = n
  <2> HIDE DEF n
  <2> QED
    BY <1>3, FS_Interval
<1>9. rank \in Surjection(A, ranks)
  <2> HIDE DEF rank, ranks, A, n
  <2>1. Cardinality(A) = Cardinality(ranks)
    BY <1>8 DEF n
  <2> QED
    BY <1>7, <1>8, <2>1, FS_Injection
<1>10. \A k \in places : \E j \in chosen : rank[j] = k
  <2> SUFFICES ASSUME NEW k \in places PROVE \E j \in chosen : rank[j] = k
    OBVIOUS
  <2>1. k \in ranks
    <3> HIDE DEF n
    <3> QED
      BY <1>3, PollingAssumption
  <2>2. PICK j \in A : rank[j] = k
    <3> HIDE DEF rank, ranks, A
    <3> QED
      BY <1>9, <2>1 DEF Surjection
  <2>3. Cardinality(Ahead(j)) = k
    BY <2>2
  <2>4. Cardinality(Ahead(j)) < MaxConcurrentJobs
    <3> HIDE DEF Ahead
    <3> QED
      BY <2>3, PollingAssumption
  <2>5. j \in Selected /\ Before(j, i)
    BY <1>1, <2>4
  <2> QED
    BY <2>2, <2>5
<1> DEFINE placed == {j \in chosen : rank[j] \in places}
           place == [j \in placed |-> rank[j]]
<1>11. place \in Surjection(placed, places)
  <2> HIDE DEF chosen, rank, places
  <2> QED
    BY <1>10 DEF Surjection
<1>12. IsFiniteSet(chosen) /\ placed \subseteq chosen /\ IsFiniteSet(placed)
  BY <1>1, <1>3, FS_Subset
<1>13. Cardinality(places) = MaxConcurrentJobs
  BY PollingAssumption, FS_Interval
<1> HIDE DEF placed, place, places, chosen
<1>14. /\ Cardinality(places) <= Cardinality(placed)
       /\ Cardinality(placed) <= Cardinality(chosen)
       /\ Cardinality(placed) \in Nat /\ Cardinality(chosen) \in Nat
  BY <1>11, <1>12, FS_Surjection, FS_Subset, FS_CardinalityType
<1> QED
  BY <1>13, <1>14, PollingAssumption DEF chosen

\* For every number of candidates, repositories and places: the selection keeps to the
\* places there are, and leaves none empty that a candidate it passed over could have had.
THEOREM PollingNobodyPassedOver == Spec => NobodyPassedOver
<1> DEFINE Fair == daemon = "collect" /\ daemon' = "execute" =>
              LET chosen == {j \in Issues : job'[j] = "selected"}
                  ahead(i) == {j \in chosen : Before(j, i)}
              IN /\ Cardinality(chosen) <= MaxConcurrentJobs
                 /\ \A i \in candidates :
                      \/ i \in chosen
                      \/ \E j \in ahead(i) : RepoOf[j] = RepoOf[i]
                      \/ Cardinality(ahead(i)) = MaxConcurrentJobs
<1>1. TypeOK /\ [Next]_vars => [Fair]_vars
  <2> SUFFICES ASSUME TypeOK, Select PROVE Fair
    <3>1. ASSUME TypeOK, Next, daemon = "collect", daemon' = "execute" PROVE Select
      <4>1. \A i \in Issues : JobClaim(i) \/ JobEnd(i) => daemon' = daemon
        BY <3>1, JobClaimEffect, JobEndEffect
      <4>2. \A i \in Issues : ~RunImplementer(i) /\ ~Abandon(i) /\ ~HumanEdit(i)
        BY <3>1 DEF RunImplementer, Abandon, HumanEdit
      <4>3. ~Stop /\ ~Crash
        BY <3>1 DEF Stop, Crash, Exit
      <4>4. MainThread => Select \/ \E i \in Issues : EscalateMissingPR(i)
        BY <3>1 DEF MainThread, Start, SweepEnd, Collect, MergeRaises, MergeEnd, CycleEnd,
           SweepListingFails, SweepIssue, MergeHeld, MergeDone, Candidate, Excluded, Examine
      <4> QED
        BY <3>1, <4>1, <4>2, <4>3, <4>4
        DEF Next, DaemonStep, JobThread, JobClaim, JobEnd
    <3> QED
      BY <3>1 DEF Next, vars
  <2> DEFINE chosen == {j \in Issues : job'[j] = "selected"}
             ahead(i) == {j \in chosen : Before(j, i)}
  <2>1. Selected \subseteq Issues /\ chosen = Selected
    BY DEF Select, Selected, BestOfRepository, TypeOK
  <2>2. \A i : ahead(i) = {j \in Selected : Before(j, i)}
    BY <2>1
  <2>3. ASSUME NEW i \in Issues, NEW b \in BestOfRepository, b \notin Selected,
               b = i \/ Before(b, i)
        PROVE  Cardinality(ahead(i)) = MaxConcurrentJobs
    <3> DEFINE A == {j \in Selected : Before(j, i)}
               B == {j \in Selected : Before(j, b)}
    <3>1. b \in Issues /\ MaxConcurrentJobs <= Cardinality(B)
      BY <2>3, SelectedFillPlaces DEF BestOfRepository, TypeOK
    <3>2. B \subseteq A
      BY <2>1, <2>3, <3>1, BeforeIsOrder
    <3>3. IsFiniteSet(Selected) /\ Cardinality(Selected) <= MaxConcurrentJobs
      BY SelectedWithinLimit
    <3>4. IsFiniteSet(A) /\ Cardinality(A) <= Cardinality(Selected)
      BY <3>3, FS_Subset
    <3>5. IsFiniteSet(B) /\ Cardinality(B) <= Cardinality(A)
      BY <3>2, <3>4, FS_Subset
    <3>6. Cardinality(A) \in Nat /\ Cardinality(B) \in Nat /\ Cardinality(Selected) \in Nat
      BY <3>3, <3>4, <3>5, FS_CardinalityType
    <3>7. ahead(i) = A
      BY <2>2
    <3> HIDE DEF A, B, ahead
    <3> QED
      BY <3>1, <3>3, <3>4, <3>5, <3>6, <3>7, PollingAssumption
  <2>4. ASSUME NEW i \in candidates
        PROVE  \/ i \in Selected
               \/ \E j \in ahead(i) : RepoOf[j] = RepoOf[i]
               \/ Cardinality(ahead(i)) = MaxConcurrentJobs
    <3> DEFINE rivals == {j \in candidates : RepoOf[j] = RepoOf[i]}
    <3>1. rivals \in SUBSET Issues /\ i \in rivals /\ i \in Issues
      BY DEF TypeOK
    <3>2. PICK b \in rivals : \A j \in rivals : ~Before(j, b)
      BY <3>1, FirstOfCandidates
    <3>3. b \in BestOfRepository /\ b \in Issues /\ (b = i \/ Before(b, i))
      BY <3>1, <3>2, BeforeIsOrder DEF BestOfRepository
    <3>4. CASE b \notin Selected
      BY <2>3, <3>1, <3>3, <3>4
    <3>5. CASE b \in Selected
      BY <2>2, <3>3, <3>5
    <3> QED
      BY <3>4, <3>5
  <2>5. Cardinality(chosen) <= MaxConcurrentJobs
    BY <2>1, SelectedWithinLimit
  <2> HIDE DEF ahead
  <2> QED
    BY <2>1, <2>4, <2>5 DEF ahead
<1> QED
  BY <1>1, PollingTypeCorrect, PTL DEF Spec, NobodyPassedOver

==============================================================================
