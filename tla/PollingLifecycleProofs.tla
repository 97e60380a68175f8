------------------------ MODULE PollingLifecycleProofs ------------------------
(***************************************************************************)
(* The polling daemon implements IssueLifecycle, and what that rests on:   *)
(* the Issue a Job holds is as its claim left it.                          *)
(***************************************************************************)
EXTENDS PollingProofs

Due == {"ready", "rework", "review"}

\* The states of the Issues that Jobs and candidates hold.
HeldStates ==
  /\ daemon # "collect" => candidates = {}
  /\ daemon \notin {"sweep", "merge", "collect"} => todo = {}
  /\ todo \cap candidates = {}
  /\ daemon = "merge" => \A i \in todo : Seen(i) = "review"
  /\ daemon = "collect" => \A i \in todo \cup candidates : Seen(i) \in Due /\ job[i] = "none"
  /\ \A i \in Issues : job[i] = "selected" => Seen(i) \in Due
  /\ \A i \in Issues : job[i] \in ActiveJob => Seen(i) = "working"

\* The Issues the daemon may still write to in this phase.
Held ==
  CASE daemon = "sweep" -> todo
    [] daemon = "merge" -> {i \in Issues : Seen(i) # NoState}
    [] daemon \in {"collect", "execute"} ->
         {i \in Issues : i \in todo \cup candidates \/ job[i] # "none"}
    [] OTHER -> {}

\* When people edit between cycles only and no call failed, the daemon knows their states.
HeldIsCurrent ==
  faults = 0 => \A i \in Held : CurrentState(labels[i]) = Seen(i)

HeldInv == Inv /\ HeldStates

-------------------------------------------------------------------------------
(* The states of held Issues, whatever fails. *)

LEMMA SeenRelabelled ==
  ASSUME TypeOK, NEW i \in Issues,
         snapshot' = [snapshot EXCEPT ![i] = Relabelled(snapshot[i], "working", {})]
  PROVE  /\ Seen(i)' = "working"
         /\ \A j \in Issues \ {i} : Seen(j)' = Seen(j)
<1>1. CurrentState(Relabelled(snapshot[i], "working", {})) = "working"
  BY StateOfRelabelled DEF TaskState
<1> QED
  BY <1>1 DEF Seen, TypeOK

LEMMA InitHeldStates == Init => HeldStates
BY DEF Init, HeldStates, NoJobs, ActiveJob

LEMMA JobClaimKeepsHeld ==
  ASSUME HeldInv, NEW i \in Issues, JobClaim(i)
  PROVE  HeldStates'
<1> USE DEF HeldInv, Inv
<1>1. /\ \/ \E next \in ActiveJob : Reserved(i, next)
         \/ Refused(i)
      /\ \/ job[i] = "selected"
         \/ daemon = "collect" /\ job = NoJobs
      /\ UNCHANGED <<daemon, candidates, restarts>>
  BY JobClaimEffect
<1>2. \/ todo' = todo /\ job[i] = "selected"
      \/ todo' = todo \ {i} /\ i \in todo /\ daemon = "collect"
  BY DEF JobClaim, BeginImplement, BeginRework, BeginReview, Begins, EscalateMissingPR, Examine
<1>3. \A j \in Issues \ {i} : Seen(j)' = Seen(j) /\ job'[j] = job[j]
  BY <1>1, SeenRelabelled DEF Reserved, Refused, Seen, TypeOK
<1>4. i \notin todo' \cup candidates'
  BY <1>1, <1>2 DEF HeldStates, JobsHavePhase
<1>5. job'[i] = "none" \/ (job'[i] \in ActiveJob /\ Seen(i)' = "working")
  BY <1>1, SeenRelabelled DEF Reserved, Refused, TypeOK
<1>6. "none" \notin ActiveJob /\ "selected" \notin ActiveJob /\ daemon \in {"collect", "execute"}
  BY <1>1 DEF ActiveJob, JobsHavePhase
<1> QED
  BY <1>1, <1>2, <1>3, <1>4, <1>5, <1>6 DEF HeldStates, TypeOK

LEMMA JobEndKeepsHeld ==
  ASSUME HeldInv, NEW i \in Issues, JobEnd(i) \/ RunImplementer(i) \/ Abandon(i)
  PROVE  HeldStates'
<1> USE DEF HeldInv, Inv
<1>1. /\ \E next \in {"none", "fallback", "implementing"} :
           /\ job' = [job EXCEPT ![i] = next]
           /\ job[i] \in ActiveJob \/ next = "none"
      /\ UNCHANGED <<daemon, snapshot, todo, candidates, restarts>>
  BY JobEndEffect DEF RunImplementer, Abandon, ActiveJob
<1>2. \A j \in Issues : Seen(j)' = Seen(j)
  BY <1>1 DEF Seen
<1>3. daemon = "collect" /\ job[i] # "none" => i \notin todo \cup candidates
  BY DEF HeldStates
<1> QED
  BY <1>1, <1>2, <1>3 DEF HeldStates, TypeOK, ActiveJob

LEMMA MainThreadKeepsHeld ==
  ASSUME HeldInv, MainThread, \A i \in Issues : ~EscalateMissingPR(i)
  PROVE  HeldStates'
<1> USE DEF HeldInv, Inv
<1>1. CASE Start \/ SweepEnd \/ CycleEnd
  BY <1>1 DEF Start, SweepEnd, CycleEnd, HeldStates, JobsHavePhase, NoJobs, ActiveJob
<1>2. CASE Collect
  BY <1>2 DEF Collect, HeldStates, JobsHavePhase, NoJobs, ActiveJob, Seen
<1>3. CASE MergeRaises
  BY <1>3 DEF MergeRaises, HeldStates, JobsHavePhase, NoJobs, ActiveJob
<1>4. CASE MergeEnd
  BY <1>4 DEF MergeEnd, HeldStates, JobsHavePhase, NoJobs, ActiveJob, Seen, Examined, Due
<1>5. CASE Select
  <2>1. \A i \in Issues : job'[i] = "selected" => i \in candidates
    BY <1>5 DEF Select, Selected, BestOfRepository
  <2>2. \A i \in Issues : job'[i] \in {"selected", "none"} /\ Seen(i)' = Seen(i)
    BY <1>5 DEF Select, Seen
  <2> QED
    BY <1>5, <2>1, <2>2 DEF Select, HeldStates, ActiveJob
<1>6. ASSUME NEW r \in Repos, SweepListingFails(r)
      PROVE  HeldStates'
  BY <1>6 DEF SweepListingFails, HeldStates, Seen
<1>7. ASSUME NEW i \in Issues, SweepIssue(i) \/ MergeHeld(i)
      PROVE  HeldStates'
  BY <1>7 DEF SweepIssue, MergeHeld, HeldStates, Seen
<1>8. ASSUME NEW i \in Issues, MergeDone(i)
      PROVE  HeldStates'
  BY <1>8 DEF MergeDone, HeldStates, Seen, TypeOK, JobsHavePhase, NoJobs, ActiveJob
<1>9. ASSUME NEW i \in Issues, Candidate(i) \/ Excluded(i)
      PROVE  HeldStates'
  BY <1>9 DEF Candidate, Excluded, Examine, HeldStates, Seen
<1> QED
  BY <1>1, <1>2, <1>3, <1>4, <1>5, <1>6, <1>7, <1>8, <1>9 DEF MainThread

LEMMA NextKeepsHeldStates == HeldInv /\ [Next]_vars => HeldStates'
<1> SUFFICES ASSUME HeldInv, [Next]_vars PROVE HeldStates'
  OBVIOUS
<1>1. ASSUME NEW i \in Issues, JobClaim(i) PROVE HeldStates'
  BY <1>1, JobClaimKeepsHeld
<1>2. ASSUME NEW i \in Issues, JobEnd(i) \/ RunImplementer(i) \/ Abandon(i) PROVE HeldStates'
  BY <1>2, JobEndKeepsHeld
<1>3. CASE MainThread
  BY <1>1, <1>3, MainThreadKeepsHeld DEF JobClaim
<1>4. CASE Stop \/ Crash
  BY <1>4 DEF Stop, Crash, Exit, HeldStates, NoJobs, ActiveJob
<1>5. CASE (\E i \in Issues : HumanEdit(i)) \/ UNCHANGED vars
  BY <1>5 DEF HumanEdit, vars, HeldInv, HeldStates, Seen
<1> QED
  BY <1>1, <1>2, <1>3, <1>4, <1>5 DEF Next, DaemonStep, JobThread, JobClaim, JobEnd

LEMMA HeldInvariance == Spec => []HeldInv
<1>1. Init => HeldInv
  BY InitInv, InitHeldStates DEF HeldInv
<1>2. HeldInv /\ [Next]_vars => HeldInv'
  BY NextKeepsInv, NextKeepsHeldStates DEF HeldInv
<1> QED
  BY <1>1, <1>2, PTL DEF Spec

\* Whatever fails and whatever people edit, the transition table never refuses the write
\* that ends a Job: the Job holds the Issue its claim returned.
THEOREM PollingJobEndsAreAllowed == Spec => []JobEndsAreAllowed
<1>1. HeldInv => JobEndsAreAllowed
  BY DEF HeldInv, HeldStates, JobEndsAreAllowed, Allowed, AllowedTransitions
<1> QED
  BY <1>1, HeldInvariance, PTL

-------------------------------------------------------------------------------
(* The daemon's knowledge is current while no call fails and people edit      *)
(* between cycles only.                                                       *)

LEMMA InitHeldIsCurrent == Init => HeldIsCurrent
BY DEF Init, HeldIsCurrent, Held

\* What a Job's end writes, when nothing failed.
LEMMA JobEndMoves ==
  ASSUME HeldInv, HeldIsCurrent, faults' = 0, NEW i \in Issues, JobEnd(i)
  PROVE  /\ faults = 0 /\ daemon \in {"collect", "execute"}
         /\ UNCHANGED <<daemon, snapshot, todo, candidates>>
         /\ job[i] \in ActiveJob /\ job' = [job EXCEPT ![i] = "none"]
         /\ CurrentState(labels[i]) = "working"
         /\ <<"working", CurrentState(labels'[i])>> \in AllowedTransitions
         /\ CurrentState(labels'[i]) \in TaskState
         /\ \A j \in Issues \ {i} : labels'[j] = labels[j]
<1> USE DEF HeldInv, Inv
<1>1. /\ job[i] \in ActiveJob
      /\ UNCHANGED <<daemon, snapshot, todo, candidates, restarts>>
  BY JobEndEffect
<1>2. PICK to \in Stable, extra \in Extras, outcome \in Outcomes, next \in {"none", "fallback"} :
        /\ Transition(i, to, extra, outcome)
        /\ next = "fallback" => outcome # "ok"
        /\ job' = [job EXCEPT ![i] = next]
  BY JobEndEffect
<1>3. /\ \A j \in Issues \ {i} : labels'[j] = labels[j]
      /\ outcome = "ok" /\ faults = 0 /\ CurrentState(labels'[i]) = to
  BY <1>2, TransitionEffect
<1>4. daemon \in {"collect", "execute"} /\ Seen(i) = "working"
  BY <1>1 DEF JobsHavePhase, NoJobs, ActiveJob, HeldStates
<1>5. CurrentState(labels[i]) = "working"
  BY <1>1, <1>3, <1>4 DEF HeldIsCurrent, Held, ActiveJob
<1>6. <<"working", to>> \in AllowedTransitions
  BY <1>2, <1>4 DEF Transition, Allowed
<1> QED
  BY <1>1, <1>2, <1>3, <1>4, <1>5, <1>6 DEF Stable

\* What a claim writes, when nothing failed.
LEMMA JobClaimMoves ==
  ASSUME HeldInv, HeldIsCurrent, faults' = 0, NEW i \in Issues, JobClaim(i)
  PROVE  /\ faults = 0 /\ daemon \in {"collect", "execute"} /\ UNCHANGED <<daemon, candidates>>
         /\ todo' \subseteq todo /\ i \notin todo' \cup candidates
         /\ \A j \in Issues \ {i} :
              labels'[j] = labels[j] /\ Seen(j)' = Seen(j) /\ job'[j] = job[j]
         /\ \/ labels' = labels /\ job'[i] = "none"
            \/ /\ CurrentState(labels[i]) \in Due
               /\ CurrentState(labels'[i]) = "working" /\ Seen(i)' = "working"
<1> USE DEF HeldInv, Inv
<1>1. /\ ClaimFrame(i)
      /\ \/ \E next \in ActiveJob : Reserved(i, next)
         \/ Refused(i)
      /\ \/ job[i] = "selected"
         \/ daemon = "collect" /\ job = NoJobs
      /\ todo' \subseteq todo
      /\ UNCHANGED <<daemon, candidates, restarts>>
  BY JobClaimEffect
<1>2. faults = 0 /\ daemon \in {"collect", "execute"}
  BY <1>1 DEF ClaimFrame, JobsHavePhase
<1>3. \/ todo' = todo /\ job[i] = "selected"
      \/ todo' = todo \ {i} /\ i \in todo /\ daemon = "collect"
  BY DEF JobClaim, BeginImplement, BeginRework, BeginReview, Begins, EscalateMissingPR, Examine
<1>4. i \notin todo' \cup candidates
  BY <1>1, <1>3 DEF HeldStates, JobsHavePhase
<1>5. i \in Held /\ Seen(i) \in Due
  BY <1>2, <1>3 DEF Held, HeldStates
<1>6. CurrentState(labels[i]) = Seen(i)
  BY <1>2, <1>5 DEF HeldIsCurrent
<1>7. CASE Refused(i)
  BY <1>1, <1>2, <1>4, <1>7 DEF Refused, Seen, TypeOK
<1>8. ASSUME NEW next \in ActiveJob, Reserved(i, next)
      PROVE  /\ CurrentState(labels'[i]) = "working" /\ Seen(i)' = "working"
             /\ \A j \in Issues \ {i} :
                  labels'[j] = labels[j] /\ Seen(j)' = Seen(j) /\ job'[j] = job[j]
  <2>1. CurrentState(Relabelled(snapshot[i], "working", {})) = "working"
    BY StateOfRelabelled DEF TaskState
  <2> QED
    BY <1>8, <2>1, SeenRelabelled DEF Reserved, TypeOK
<1> QED
  BY <1>1, <1>2, <1>4, <1>5, <1>6, <1>7, <1>8

\* What the sweep and the merge stage write, when nothing failed.
LEMMA ListedMoves ==
  ASSUME HeldInv, HeldIsCurrent, faults' = 0, NEW i \in todo, NEW to \in {"blocked", "done"},
         NEW outcome \in Outcomes, Transition(i, to, {}, outcome), daemon \in {"sweep", "merge"}
  PROVE  /\ faults = 0 /\ i \in Issues
         /\ <<CurrentState(labels[i]), to>> \in AllowedTransitions
         /\ CurrentState(labels'[i]) = to
         /\ \A j \in Issues \ {i} : labels'[j] = labels[j]
<1> USE DEF HeldInv, Inv
<1>1. i \in Issues /\ to \in Stable /\ {} \in Extras
  BY DEF TypeOK, Stable, TaskState, Extras
<1>2. /\ faults = 0 /\ CurrentState(labels'[i]) = to
      /\ \A j \in Issues \ {i} : labels'[j] = labels[j]
  BY <1>1, TransitionEffect
<1>3. Seen(i) # NoState
  BY DEF Transition, Allowed, AllowedTransitions, NoState
<1>4. CurrentState(labels[i]) = Seen(i)
  BY <1>1, <1>2, <1>3 DEF HeldIsCurrent, Held
<1> QED
  BY <1>1, <1>2, <1>4 DEF Transition, Allowed

LEMMA MainThreadKeepsCurrent ==
  ASSUME HeldInv, HeldIsCurrent, MainThread, \A i \in Issues : ~EscalateMissingPR(i)
  PROVE  HeldIsCurrent'
<1> USE DEF HeldInv, Inv
<1>1. CASE Start \/ Collect
  BY <1>1 DEF Start, Collect, HeldIsCurrent, Held, Seen, TypeOK
<1>2. CASE SweepEnd \/ CycleEnd \/ MergeRaises
  BY <1>2 DEF SweepEnd, CycleEnd, MergeRaises, HeldIsCurrent, Held
<1>3. CASE MergeEnd
  BY <1>3 DEF MergeEnd, HeldIsCurrent, Held, Seen, Examined, HeldStates, JobsHavePhase, NoJobs,
     NoState
<1>4. CASE Select
  <2>1. \A i \in Issues : job'[i] # "none" => i \in candidates
    BY <1>4 DEF Select, Selected, BestOfRepository
  <2> QED
    BY <1>4, <2>1 DEF Select, HeldIsCurrent, Held, Seen
<1>5. ASSUME NEW r \in Repos, SweepListingFails(r)
      PROVE  HeldIsCurrent'
  BY <1>5, PollingAssumption DEF SweepListingFails, Fault, HeldIsCurrent, TypeOK
<1>6. ASSUME NEW i \in Issues, SweepIssue(i)
      PROVE  HeldIsCurrent'
  <2> SUFFICES ASSUME faults' = 0 PROVE \A j \in Held' : CurrentState(labels'[j]) = Seen(j)'
    BY DEF HeldIsCurrent
  <2>1. daemon = "sweep" /\ i \in todo /\ todo' = todo \ {i} /\ UNCHANGED <<daemon, snapshot>>
    BY <1>6 DEF SweepIssue
  <2>2. faults = 0 /\ \A j \in Issues \ {i} : labels'[j] = labels[j]
    <3>1. CASE \E outcome \in Outcomes : Transition(i, "blocked", {}, outcome)
      BY <2>1, <3>1, ListedMoves
    <3> QED
      BY <1>6, <3>1 DEF SweepIssue, Outcomes
  <2>3. \A j \in Held' : j \in Held /\ j \in Issues \ {i} /\ Seen(j)' = Seen(j)
    BY <2>1 DEF Held, TypeOK, Seen
  <2> QED
    BY <2>2, <2>3 DEF HeldIsCurrent
<1>7. ASSUME NEW i \in Issues, MergeDone(i)
      PROVE  HeldIsCurrent'
  <2> SUFFICES ASSUME faults' = 0 PROVE \A j \in Held' : CurrentState(labels'[j]) = Seen(j)'
    BY DEF HeldIsCurrent
  <2>1. /\ daemon = "merge" /\ i \in todo /\ daemon' = daemon
        /\ snapshot' = [snapshot EXCEPT ![i] = {}]
        /\ Transition(i, "done", {}, "ok")
    BY <1>7 DEF MergeDone
  <2>2. faults = 0 /\ \A j \in Issues \ {i} : labels'[j] = labels[j]
    BY <2>1, ListedMoves DEF Outcomes
  <2>3. /\ Seen(i)' = NoState
        /\ \A j \in Issues \ {i} : Seen(j)' = Seen(j)
    BY <2>1 DEF Seen, TypeOK, CurrentState
  <2>4. \A j \in Held' : j \in Held /\ j \in Issues \ {i}
    BY <2>1, <2>3 DEF Held
  <2> QED
    BY <2>2, <2>3, <2>4 DEF HeldIsCurrent
<1>8. ASSUME NEW i \in Issues, MergeHeld(i) \/ Candidate(i) \/ Excluded(i)
      PROVE  HeldIsCurrent'
  BY <1>8 DEF MergeHeld, Candidate, Excluded, Examine, HeldIsCurrent, Held, Seen
<1> QED
  BY <1>1, <1>2, <1>3, <1>4, <1>5, <1>6, <1>7, <1>8 DEF MainThread

LEMMA NextKeepsCurrent ==
  ASSUME ~EditsAnytime, HeldInv, HeldIsCurrent, [Next]_vars
  PROVE  HeldIsCurrent'
<1> USE DEF HeldInv, Inv
<1>1. ASSUME NEW i \in Issues, JobClaim(i) PROVE HeldIsCurrent'
  <2> SUFFICES ASSUME faults' = 0 PROVE \A j \in Held' : CurrentState(labels'[j]) = Seen(j)'
    BY DEF HeldIsCurrent
  <2>1. /\ faults = 0 /\ daemon \in {"collect", "execute"} /\ UNCHANGED <<daemon, candidates>>
        /\ todo' \subseteq todo /\ i \notin todo' \cup candidates
        /\ \A j \in Issues \ {i} :
             labels'[j] = labels[j] /\ Seen(j)' = Seen(j) /\ job'[j] = job[j]
        /\ \/ labels' = labels /\ job'[i] = "none"
           \/ CurrentState(labels'[i]) = "working" /\ Seen(i)' = "working"
    BY <1>1, JobClaimMoves
  <2>2. \A j \in Held' : j \in Issues /\ (j # i => j \in Held)
    BY <2>1 DEF Held
  <2>3. i \in Held' => CurrentState(labels'[i]) = Seen(i)'
    BY <2>1 DEF Held
  <2> QED
    BY <2>1, <2>2, <2>3 DEF HeldIsCurrent
<1>2. ASSUME NEW i \in Issues, JobEnd(i) PROVE HeldIsCurrent'
  <2> SUFFICES ASSUME faults' = 0 PROVE \A j \in Held' : CurrentState(labels'[j]) = Seen(j)'
    BY DEF HeldIsCurrent
  <2>1. /\ faults = 0 /\ daemon \in {"collect", "execute"}
        /\ UNCHANGED <<daemon, snapshot, todo, candidates>>
        /\ job[i] \in ActiveJob /\ job' = [job EXCEPT ![i] = "none"]
        /\ \A j \in Issues \ {i} : labels'[j] = labels[j]
    BY <1>2, JobEndMoves
  <2>2. \A j \in Issues : Seen(j)' = Seen(j)
    BY <2>1 DEF Seen
  <2>3. i \notin todo \cup candidates
    BY <2>1 DEF HeldStates, ActiveJob, JobsHavePhase
  <2>4. \A j \in Held' : j \in Held /\ j \in Issues \ {i}
    BY <2>1, <2>3 DEF Held, TypeOK
  <2> QED
    BY <2>1, <2>2, <2>4 DEF HeldIsCurrent
<1>3. ASSUME NEW i \in Issues, RunImplementer(i) \/ Abandon(i) PROVE HeldIsCurrent'
  BY <1>3 DEF RunImplementer, Abandon, Begins, HeldIsCurrent, Held, Seen, TypeOK
<1>4. CASE MainThread
  BY <1>1, <1>4, MainThreadKeepsCurrent DEF JobClaim
<1>5. CASE Stop \/ Crash
  BY <1>5 DEF Stop, Crash, Exit, HeldIsCurrent, Held
<1>6. CASE \E i \in Issues : HumanEdit(i)
  BY <1>6 DEF HumanEdit, HeldIsCurrent, Held
<1>7. CASE UNCHANGED vars
  BY <1>7 DEF vars, HeldIsCurrent, Held, Seen
<1> QED
  BY <1>1, <1>2, <1>3, <1>4, <1>5, <1>6, <1>7 DEF Next, DaemonStep, JobThread, JobClaim, JobEnd

-------------------------------------------------------------------------------
(* The refinement: every step is one of IssueLifecycle or is not seen there.  *)

StateBar == [i \in Issues |-> CurrentState(labels[i])]
InCycleBar == daemon \notin {"idle", "down"}

LEMMA StateBarType ==
  ASSUME NEW ls
  PROVE  CurrentState(ls) \in TaskState \cup {NoState}
<1>1. CASE ls \cap TaskState = {}
  BY <1>1 DEF CurrentState
<1>2. CASE ls \cap TaskState # {}
  <2> DEFINE First(k) == /\ LabelPrecedence[k] \in ls
                         /\ \A j \in 1..(k - 1) : LabelPrecedence[j] \notin ls
             Has(k) == LabelPrecedence[k] \in ls
  <2>1. \E k \in 1..7 : Has(k)
    BY <1>2 DEF TaskState, LabelPrecedence
  <2>2. \E k \in 1..7 : First(k)
    <3>1. \/ Has(1) \/ Has(2) \/ Has(3) \/ Has(4) \/ Has(5) \/ Has(6) \/ Has(7)
      BY <2>1
    <3> HIDE DEF Has
    <3>2. \E k \in 1..7 : Has(k) /\ \A j \in 1..(k - 1) : ~Has(j)
      BY <3>1
    <3> QED
      BY <3>2 DEF Has
  <2>3. (CHOOSE k \in 1..7 : First(k)) \in 1..7
    BY <2>2
  <2>4. \A k \in 1..7 : LabelPrecedence[k] \in TaskState
    BY DEF LabelPrecedence, TaskState
  <2>5. CurrentState(ls) = LabelPrecedence[CHOOSE k \in 1..7 : First(k)]
    BY <1>2 DEF CurrentState
  <2> QED
    BY <2>3, <2>4, <2>5
<1> QED
  BY <1>1, <1>2

\* A write to one Issue along the table, in a cycle.
LEMMA MoveIsDaemonMove ==
  ASSUME TypeOK, NEW i \in Issues, InCycleBar, InCycleBar', labels' \in [Issues -> SUBSET Labels],
         CurrentState(labels[i]) \notin {"manual-action", "blocked", "done"},
         <<CurrentState(labels[i]), CurrentState(labels'[i])>> \in AllowedTransitions,
         \A j \in Issues \ {i} : labels'[j] = labels[j]
  PROVE  Lifecycle!DaemonMove(i)
<1>1. CurrentState(labels'[i]) \in TaskState
  BY DEF AllowedTransitions, TaskState
<1>2. StateBar' = [StateBar EXCEPT ![i] = CurrentState(labels'[i])]
  BY DEF StateBar
<1>3. StateBar[i] = CurrentState(labels[i])
  BY DEF StateBar
<1> QED
  BY <1>1, <1>2, <1>3
  DEF Lifecycle!DaemonMove, Lifecycle!WaitsForPerson, Lifecycle!TaskState, TaskState,
      Lifecycle!AllowedTransitions, AllowedTransitions, StateBar, InCycleBar

LEMMA JobMoves ==
  ASSUME HeldInv, HeldInv', HeldIsCurrent, faults' = 0, NEW i \in Issues, JobClaim(i) \/ JobEnd(i)
  PROVE  Lifecycle!DaemonMove(i) \/ UNCHANGED <<StateBar, InCycleBar>>
<1> USE DEF HeldInv, Inv
<1>1. TypeOK /\ labels' \in [Issues -> SUBSET Labels]
  BY DEF TypeOK
<1>2. CASE JobClaim(i)
  <2>1. /\ daemon \in {"collect", "execute"} /\ daemon' = daemon
        /\ \A j \in Issues \ {i} : labels'[j] = labels[j]
        /\ \/ labels' = labels
           \/ CurrentState(labels[i]) \in Due /\ CurrentState(labels'[i]) = "working"
    BY <1>2, JobClaimMoves
  <2>2. InCycleBar /\ InCycleBar' /\ InCycleBar' = InCycleBar
    BY <2>1 DEF InCycleBar
  <2>3. CASE labels' = labels
    BY <2>2, <2>3 DEF StateBar
  <2>4. CASE CurrentState(labels[i]) \in Due /\ CurrentState(labels'[i]) = "working"
    <3>1. /\ CurrentState(labels[i]) \notin {"manual-action", "blocked", "done"}
          /\ <<CurrentState(labels[i]), CurrentState(labels'[i])>> \in AllowedTransitions
      BY <2>4 DEF Due, AllowedTransitions
    <3> QED
      BY <1>1, <2>1, <2>2, <3>1, MoveIsDaemonMove
  <2> QED
    BY <2>1, <2>3, <2>4
<1>3. CASE JobEnd(i)
  <2>1. /\ daemon \in {"collect", "execute"} /\ daemon' = daemon
        /\ \A j \in Issues \ {i} : labels'[j] = labels[j]
        /\ CurrentState(labels[i]) = "working"
        /\ <<"working", CurrentState(labels'[i])>> \in AllowedTransitions
    BY <1>3, JobEndMoves
  <2>2. InCycleBar /\ InCycleBar'
    BY <2>1 DEF InCycleBar
  <2> QED
    BY <1>1, <2>1, <2>2, MoveIsDaemonMove
<1> QED
  BY <1>2, <1>3

LEMMA ListedMove ==
  ASSUME HeldInv, HeldInv', HeldIsCurrent, faults' = 0, NEW i \in todo, NEW to \in {"blocked", "done"},
         NEW outcome \in Outcomes, Transition(i, to, {}, outcome), daemon \in {"sweep", "merge"},
         daemon' = daemon
  PROVE  Lifecycle!DaemonMove(i)
<1>1. TypeOK /\ labels' \in [Issues -> SUBSET Labels] /\ InCycleBar /\ InCycleBar'
  BY DEF HeldInv, Inv, TypeOK, InCycleBar
<1>2. /\ i \in Issues
      /\ <<CurrentState(labels[i]), CurrentState(labels'[i])>> \in AllowedTransitions
      /\ \A j \in Issues \ {i} : labels'[j] = labels[j]
      /\ CurrentState(labels'[i]) \in {"blocked", "done"}
  BY ListedMoves
<1>3. CurrentState(labels[i]) \notin {"manual-action", "blocked", "done"}
  BY <1>2 DEF AllowedTransitions
<1> QED
  BY <1>1, <1>2, <1>3, MoveIsDaemonMove

LEMMA HumanEditMoves ==
  ASSUME TypeOK, ~EditsAnytime, NEW i \in Issues, HumanEdit(i)
  PROVE  Lifecycle!HumanMove(i)
<1>1. PICK ls \in HumanLabels : labels' = [labels EXCEPT ![i] = ls]
  BY DEF HumanEdit
<1>2. ~InCycleBar /\ InCycleBar' = InCycleBar
  BY DEF HumanEdit, InCycleBar
<1>3. CurrentState(ls) \in TaskState \cup {NoState}
  BY StateBarType
<1>4. CurrentState(ls) # "working"
  BY StateIsLabelled, PollingAssumption DEF TaskState
<1>5. StateBar' = [StateBar EXCEPT ![i] = CurrentState(ls)]
  BY <1>1 DEF StateBar, TypeOK
<1> QED
  BY <1>2, <1>3, <1>4, <1>5
  DEF Lifecycle!HumanMove, Lifecycle!TaskState, TaskState, Lifecycle!NoState, NoState,
      StateBar, InCycleBar

\* Cycles begin and end; the other steps of the main thread are not seen.
LEMMA MainThreadRefines ==
  ASSUME HeldInv, HeldInv', HeldIsCurrent, faults' = 0, MainThread,
         \A i \in Issues : ~EscalateMissingPR(i)
  PROVE  Lifecycle!Next \/ UNCHANGED <<StateBar, InCycleBar>>
<1> USE DEF HeldInv, Inv
<1>1. CASE Start \/ Collect
  <2>1. ~InCycleBar /\ InCycleBar' = TRUE /\ UNCHANGED StateBar
    BY <1>1 DEF Start, Collect, InCycleBar, StateBar
  <2> QED
    BY <2>1 DEF Lifecycle!Next, Lifecycle!Begin, InCycleBar, StateBar
<1>2. CASE SweepEnd \/ CycleEnd \/ MergeRaises
  <2>1. labels' = labels
    <3>1. ASSUME MergeRaises PROVE labels' = labels
      <4>1. ~Fault(TRUE)
        BY PollingAssumption DEF Fault, TypeOK
      <4>2. \A i \in todo : ~Transition(i, "done", {}, "late")
        BY <4>1 DEF Transition, SetLabels, Fault
      <4> QED
        BY <3>1, <4>1, <4>2 DEF MergeRaises
    <3> QED
      BY <1>2, <3>1 DEF SweepEnd, CycleEnd
  <2>2. InCycleBar /\ InCycleBar' = FALSE /\ UNCHANGED StateBar
    BY <1>2, <2>1 DEF SweepEnd, CycleEnd, MergeRaises, InCycleBar, StateBar
  <2> QED
    BY <2>2 DEF Lifecycle!Next, Lifecycle!End, InCycleBar, StateBar
<1>3. CASE MergeEnd \/ Select
  BY <1>3 DEF MergeEnd, Select, StateBar, InCycleBar
<1>4. ASSUME NEW r \in Repos, SweepListingFails(r)
      PROVE  UNCHANGED <<StateBar, InCycleBar>>
  BY <1>4 DEF SweepListingFails, StateBar, InCycleBar
<1>5. ASSUME NEW i \in Issues, SweepIssue(i)
      PROVE  Lifecycle!DaemonMove(i) \/ UNCHANGED <<StateBar, InCycleBar>>
  <2>1. i \in todo /\ daemon = "sweep" /\ daemon' = daemon
    BY <1>5 DEF SweepIssue
  <2>2. CASE \E outcome \in Outcomes : Transition(i, "blocked", {}, outcome)
    BY <2>1, <2>2, ListedMove
  <2>3. CASE UNCHANGED labels
    BY <2>1, <2>3 DEF StateBar, InCycleBar
  <2> QED
    BY <1>5, <2>2, <2>3 DEF SweepIssue, Outcomes
<1>6. ASSUME NEW i \in Issues, MergeDone(i)
      PROVE  Lifecycle!DaemonMove(i)
  BY <1>6, ListedMove DEF MergeDone, Outcomes
<1>7. ASSUME NEW i \in Issues, MergeHeld(i) \/ Candidate(i) \/ Excluded(i)
      PROVE  UNCHANGED <<StateBar, InCycleBar>>
  BY <1>7 DEF MergeHeld, Candidate, Excluded, Examine, StateBar, InCycleBar
<1> QED
  BY <1>1, <1>2, <1>3, <1>4, <1>5, <1>6, <1>7 DEF MainThread, Lifecycle!Next

LEMMA StepRefines ==
  ASSUME ~EditsAnytime, HeldInv, HeldInv', HeldIsCurrent, faults' = 0, [Next]_vars
  PROVE  [Lifecycle!Next]_(Lifecycle!vars)
<1> SUFFICES Lifecycle!Next \/ UNCHANGED <<StateBar, InCycleBar>>
  BY DEF Lifecycle!vars, StateBar, InCycleBar
<1> USE DEF HeldInv, Inv
<1>1. ASSUME NEW i \in Issues, JobClaim(i) \/ JobEnd(i)
      PROVE  Lifecycle!Next \/ UNCHANGED <<StateBar, InCycleBar>>
  BY <1>1, JobMoves DEF Lifecycle!Next
<1>2. ASSUME NEW i \in Issues, RunImplementer(i) \/ Abandon(i)
      PROVE  UNCHANGED <<StateBar, InCycleBar>>
  BY <1>2 DEF RunImplementer, Abandon, StateBar, InCycleBar
<1>3. CASE MainThread
  BY <1>1, <1>3, MainThreadRefines DEF JobClaim
<1>4. CASE Stop
  BY <1>4 DEF Stop, Exit, StateBar, InCycleBar
<1>5. CASE Crash
  <2>1. UNCHANGED StateBar /\ InCycleBar' = FALSE
    BY <1>5 DEF Crash, Exit, StateBar, InCycleBar
  <2>2. CASE InCycleBar
    BY <2>1, <2>2 DEF Lifecycle!Next, Lifecycle!End, InCycleBar, StateBar
  <2>3. CASE InCycleBar = FALSE
    BY <2>1, <2>3
  <2> QED
    BY <2>2, <2>3 DEF InCycleBar
<1>6. ASSUME NEW i \in Issues, HumanEdit(i)
      PROVE  Lifecycle!Next
  BY <1>6, HumanEditMoves DEF Lifecycle!Next
<1>7. CASE UNCHANGED vars
  BY <1>7 DEF vars, StateBar, InCycleBar
<1> QED
  BY <1>1, <1>2, <1>3, <1>4, <1>5, <1>6, <1>7 DEF Next, DaemonStep, JobThread, JobClaim, JobEnd

\* For every number of Issues, Jobs and restarts: while no GitHub call fails and people edit
\* between cycles only, the daemon implements IssueLifecycle.  In a cycle it alone moves
\* Issues, along the table and never out of a state that waits for a person.
THEOREM PollingImplementsLifecycle ==
  MaxFaults = 0 /\ ~EditsAnytime => (Spec => ImplementsLifecycle)
<1> SUFFICES ASSUME MaxFaults = 0, ~EditsAnytime PROVE Spec => ImplementsLifecycle
  OBVIOUS
<1> DEFINE I == HeldInv /\ HeldIsCurrent
<1>1. Init => I /\ Lifecycle!Init
  <2> SUFFICES ASSUME Init PROVE I /\ Lifecycle!Init
    OBVIOUS
  <2>1. StateBar \in [Issues -> TaskState \cup {NoState}] /\ InCycleBar = FALSE
    BY StateBarType DEF Init, StateBar, InCycleBar
  <2> QED
    BY <2>1, InitInv, InitHeldStates, InitHeldIsCurrent
    DEF HeldInv, Lifecycle!Init, Lifecycle!TaskState, TaskState, Lifecycle!NoState, NoState,
        StateBar, InCycleBar
<1>2. I /\ [Next]_vars => I' /\ [Lifecycle!Next]_(Lifecycle!vars)
  <2> SUFFICES ASSUME I, [Next]_vars PROVE I' /\ [Lifecycle!Next]_(Lifecycle!vars)
    OBVIOUS
  <2>1. I'
    BY NextKeepsInv, NextKeepsHeldStates, NextKeepsCurrent DEF HeldInv
  <2>2. faults' = 0
    BY <2>1 DEF HeldInv, Inv, TypeOK
  <2> QED
    BY <2>1, <2>2, StepRefines
<1> QED
  BY <1>1, <1>2, PTL DEF Spec, ImplementsLifecycle, Lifecycle!Spec

===============================================================================
