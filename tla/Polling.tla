-------------------------------- MODULE Polling --------------------------------
(***************************************************************************)
(* The polling daemon (polling.PollingService, main's start-up sweep) and  *)
(* the Issue state writer (issue_state.IssueStateWriter) over the labels   *)
(* of GitHub Issues that people may edit at the same time.                 *)
(*                                                                         *)
(* A cycle takes one snapshot of every Issue and works from it to its end: *)
(* every write is validated against, and computed from, the snapshot.      *)
(* Facts the daemon reads from pull requests and worktrees are             *)
(* nondeterministic here.                                                  *)
(*                                                                         *)
(* Bounds: MaxFaults failing GitHub calls, MaxRestarts stops and crashes.  *)
(***************************************************************************)
EXTENDS IssueLabels, FiniteSets

CONSTANTS
  Issues,
  Repos,
  RepoOf,             \* the repository of an Issue
  Priority,           \* priority label, creation time, number: smaller first
  MaxConcurrentJobs,
  AiConcurrency,
  InitialLabels,      \* label sets an Issue may carry when the model starts
  HumanLabels,        \* label sets people set
  EditsAnytime,       \* people also edit labels during a cycle
  UnmergeablePRs,     \* Issues whose PR is approved but GitHub refuses to merge
  MaxFaults,
  MaxRestarts

ASSUME PollingAssumption ==
  /\ IsFiniteSet(Issues)
  /\ RepoOf \in [Issues -> Repos]
  /\ Priority \in [Issues -> Nat]
  /\ \A i, j \in Issues : Priority[i] = Priority[j] => i = j
  /\ MaxConcurrentJobs \in Nat \ {0}
  /\ AiConcurrency \in Nat \ {0}
  /\ InitialLabels \subseteq SUBSET Labels
  /\ HumanLabels \subseteq SUBSET (Labels \ {"working"})
  /\ EditsAnytime \in BOOLEAN
  /\ UnmergeablePRs \subseteq Issues
  /\ MaxFaults \in Nat
  /\ MaxRestarts \in Nat

VARIABLES
  labels,      \* labels[i]: the labels on GitHub
  claimed,     \* IssueStateWriter._claimed, the in-process reservations
  daemon,      \* where the main thread is
  snapshot,    \* snapshot[i]: the labels of the GitHubIssue the daemon holds;
               \*   empty when it holds none
  todo,        \* Issues the current loop of the main thread still has to visit
  candidates,  \* Issues with a candidate Job
  job,         \* job[i]: the Job or escalation of Issue i
  faults,      \* GitHub calls that failed so far
  restarts     \* stops and crashes so far

vars == <<labels, claimed, daemon, snapshot, todo, candidates, job, faults, restarts>>

DaemonPhase == {"down", "sweep", "idle", "merge", "collect", "execute"}

\* Jobs past their claim.  "escalate": manual-action is due; "preflight": an
\* implement job before its agent runs; "fallback": a write raised, and the
\* handler is about to try block().
ActiveJob ==
  {"escalate", "preflight", "implementing", "reworking", "reviewing", "fallback"}

\* "selected": queued in the RuntimeScheduler, not yet claimed.
JobPhase == {"none", "selected"} \cup ActiveJob

NoSnapshot == [i \in Issues |-> {}]
NoJobs == [i \in Issues |-> "none"]

Active == {i \in Issues : job[i] \in ActiveJob}

\* Faulty: the first matching state in the order TaskState declares them.
SeenInDeclarationOrder(i) ==
  IF "ready" \in snapshot[i] THEN "ready" ELSE CurrentState(snapshot[i])

\* The state of the Issue the daemon holds, and the Issues it holds in states S.
Seen(i) == CurrentState(snapshot[i])
SeenIn(r, S) == {i \in Issues : RepoOf[i] = r /\ Seen(i) \in S}

Init ==
  /\ labels \in [Issues -> InitialLabels]
  /\ claimed = {}
  /\ daemon = "down"
  /\ snapshot = NoSnapshot
  /\ todo = {}
  /\ candidates = {}
  /\ job = NoJobs
  /\ faults = 0
  /\ restarts = 0

-------------------------------------------------------------------------------
(* The state writer.  A write ends "ok"; "lost", not applied; "late", applied *)
(* but raised, the response lost; or "comment": the label moved and the       *)
(* comment that explains it failed.                                           *)

Fault(raised) ==
  /\ faults' = IF raised THEN faults + 1 ELSE faults
  /\ faults' <= MaxFaults

SetLabels(i, to, extra, outcome) ==
  /\ Fault(outcome # "ok")
  /\ labels' = IF outcome = "lost" THEN labels
               ELSE [labels EXCEPT ![i] = Relabelled(snapshot[i], to, extra)]

Allowed(i, to) == <<Seen(i), to>> \in AllowedTransitions

\* Faulty: no transition out of working releases the reservation.
TransitionKeepingClaim(i, to, extra, outcome) ==
  /\ Allowed(i, to)
  /\ outcome \in {"ok", "lost", "late"}
  /\ SetLabels(i, to, extra, outcome)
  /\ UNCHANGED claimed

\* restore, block, mark_for_review, mark_done, send_to_rework and
\* require_manual_action: a write that raises keeps the reservation.
Transition(i, to, extra, outcome) ==
  /\ Allowed(i, to)
  /\ outcome \in {"ok", "lost", "late", "comment"}
  /\ outcome = "comment" => to \in {"blocked", "manual-action"}
  /\ SetLabels(i, to, extra, outcome)
  /\ claimed' = IF outcome \in {"ok", "comment"} THEN claimed \ {i} ELSE claimed

\* The job ends whatever becomes of its write.
EndWith(i, to, extra) ==
  /\ \E outcome \in {"ok", "lost", "late", "comment"} : Transition(i, to, extra, outcome)
  /\ job' = [job EXCEPT ![i] = "none"]
  /\ UNCHANGED <<daemon, snapshot, todo, candidates, restarts>>

\* A write that raises reaches a handler that tries block().
EndOrFallBack(i, to) ==
  \E outcome \in {"ok", "lost", "late", "comment"} :
    /\ Transition(i, to, {}, outcome)
    /\ job' = [job EXCEPT ![i] = IF outcome = "ok" THEN "none" ELSE "fallback"]
    /\ UNCHANGED <<daemon, snapshot, todo, candidates, restarts>>

\* Faulty: the claim only sets the label.
ClaimUnreserved(i, next) ==
  /\ Allowed(i, "working")
  /\ SetLabels(i, "working", {}, "ok")
  /\ snapshot' = [snapshot EXCEPT ![i] = Relabelled(snapshot[i], "working", {})]
  /\ job' = [job EXCEPT ![i] = next]
  /\ UNCHANGED claimed

\* Faulty: the Job keeps the Issue it had before its claim.
ClaimUnrefreshed(i, next) ==
  /\ i \notin claimed
  /\ Allowed(i, "working")
  /\ SetLabels(i, "working", {}, "ok")
  /\ claimed' = claimed \cup {i}
  /\ job' = [job EXCEPT ![i] = next]
  /\ UNCHANGED snapshot

\* claim, then the job goes on as `next`.  A refused or failed claim ends it;
\* only a successful one keeps the reservation.
ClaimAs(i, next) ==
  \/ /\ i \notin claimed
     /\ Allowed(i, "working")
     /\ \E outcome \in {"ok", "lost", "late"} :
          /\ SetLabels(i, "working", {}, outcome)
          /\ IF outcome = "ok"
             THEN /\ claimed' = claimed \cup {i}
                  /\ snapshot' = [snapshot EXCEPT
                                   ![i] = Relabelled(snapshot[i], "working", {})]
                  /\ job' = [job EXCEPT ![i] = next]
             ELSE /\ job' = [job EXCEPT ![i] = "none"]
                  /\ UNCHANGED <<claimed, snapshot>>
  \/ /\ i \in claimed                                   \* ClaimConflictError
     /\ job' = [job EXCEPT ![i] = "none"]
     /\ UNCHANGED <<labels, claimed, snapshot, faults>>

-------------------------------------------------------------------------------
(* Start-up, under the process lock. *)

\* Faulty: no sweep of what a crash left behind.
StartWithoutSweep ==
  /\ daemon = "down"
  /\ daemon' = "sweep"
  /\ UNCHANGED <<labels, claimed, snapshot, todo, candidates, job, faults, restarts>>

Start ==
  /\ daemon = "down"
  /\ daemon' = "sweep"
  /\ snapshot' = labels
  /\ todo' = {i \in Issues : "working" \in labels[i]}
  /\ UNCHANGED <<labels, claimed, candidates, job, faults, restarts>>

SweepIssue(i) ==
  /\ daemon = "sweep"
  /\ i \in todo
  /\ todo' = todo \ {i}
  /\ \/ \E outcome \in {"ok", "lost", "late", "comment"} :
          Transition(i, "blocked", {}, outcome)
     \/ /\ ~Allowed(i, "blocked")                \* InvalidStateTransitionError
        /\ UNCHANGED <<labels, claimed, faults>>
  /\ UNCHANGED <<daemon, snapshot, candidates, job, restarts>>

\* Listing a repository's working Issues failed: its Issues are skipped.
SweepListingFails(r) ==
  LET stuck == {i \in Issues : RepoOf[i] = r /\ "working" \in snapshot[i]}
  IN /\ daemon = "sweep"
     /\ stuck # {} /\ stuck \subseteq todo
     /\ todo' = todo \ stuck
     /\ Fault(TRUE)
     /\ UNCHANGED <<labels, claimed, daemon, snapshot, candidates, job, restarts>>

SweepEnd ==
  /\ daemon = "sweep"
  /\ todo = {}
  /\ daemon' = "idle"
  /\ snapshot' = NoSnapshot
  /\ UNCHANGED <<labels, claimed, todo, candidates, job, faults, restarts>>

-------------------------------------------------------------------------------
(* One polling cycle: collect, merge, find candidates, select, execute. *)

\* A listing that fails ends the cycle before it changed anything.
Collect ==
  /\ daemon = "idle"
  /\ daemon' = "merge"
  /\ snapshot' = labels
  /\ todo' = {i \in Issues : CurrentState(labels[i]) = "review"}
  /\ UNCHANGED <<labels, claimed, candidates, job, faults, restarts>>

\* No linked PR, no ready-to-merge label, or a gate holds the merge.
MergeHeld(i) ==
  /\ daemon = "merge"
  /\ i \in todo
  /\ todo' = todo \ {i}
  /\ UNCHANGED <<labels, claimed, daemon, snapshot, candidates, job, faults, restarts>>

\* Merged now or found merged: done, and no longer one of the cycle's tasks.
MergeDone(i) ==
  /\ daemon = "merge"
  /\ i \in todo
  /\ todo' = todo \ {i}
  /\ Transition(i, "done", {}, "ok")
  /\ snapshot' = [snapshot EXCEPT ![i] = {}]
  /\ UNCHANGED <<daemon, candidates, job, restarts>>

\* Nothing in run_cycle catches an exception of this stage: the cycle is over
\* for every repository.
MergeRaises ==
  /\ daemon = "merge"
  /\ \/ /\ Fault(TRUE)                             \* listing the PRs failed
        /\ UNCHANGED <<labels, claimed>>
     \/ \E i \in todo : Transition(i, "done", {}, "late")
     \/ /\ todo \cap UnmergeablePRs # {}           \* GitHub refused the merge
        /\ UNCHANGED <<labels, claimed, faults>>
  /\ daemon' = "idle"
  /\ snapshot' = NoSnapshot
  /\ todo' = {}
  /\ UNCHANGED <<candidates, job, restarts>>

\* Faulty: the global gate, one working Issue anywhere holds every repository.
ExaminedUnderGlobalGate ==
  {i \in Issues :
     /\ \A j \in Issues : Seen(j) # "working"
     /\ Seen(i) \in {"rework", "review", "ready"}}

\* The Issues _collect_job_candidates looks into: none of a repository with a
\* working Issue, and a ready one only if no rework or review Issue is open.
Examined ==
  {i \in Issues :
     /\ SeenIn(RepoOf[i], {"working"}) = {}
     /\ \/ Seen(i) \in {"rework", "review"}
        \/ Seen(i) = "ready" /\ SeenIn(RepoOf[i], {"rework", "review"}) = {}}

MergeEnd ==
  /\ daemon = "merge"
  /\ todo = {}
  /\ daemon' = "collect"
  /\ todo' = Examined
  /\ UNCHANGED <<labels, claimed, snapshot, candidates, job, faults, restarts>>

Examine(i) ==
  /\ daemon = "collect"
  /\ job = NoJobs
  /\ i \in todo
  /\ todo' = todo \ {i}
  /\ UNCHANGED <<daemon, restarts>>

Candidate(i) ==
  /\ Examine(i)
  /\ candidates' = candidates \cup {i}
  /\ UNCHANGED <<labels, claimed, snapshot, job, faults>>

\* No unprocessed feedback, head already reviewed, PR reads failed; a ready
\* Issue only when its validation is paused.
Excluded(i) ==
  /\ Examine(i)
  /\ Seen(i) = "ready" => ValidationPaused \in snapshot[i]
  /\ UNCHANGED <<labels, claimed, snapshot, candidates, job, faults>>

EscalateMissingPR(i) ==
  /\ Examine(i)
  /\ Seen(i) \in {"rework", "review"}
  /\ ClaimAs(i, "escalate")
  /\ UNCHANGED candidates

\* Also the review loop limit's path, and the rework of a comment that no
\* commit can answer.
RequireManualAction(i) ==
  /\ job[i] = "escalate"
  /\ EndWith(i, "manual-action", {})

JobTypeOrder(i) ==
  CASE Seen(i) = "rework" -> 0 [] Seen(i) = "review" -> 1 [] OTHER -> 2

Before(i, j) ==
  \/ JobTypeOrder(i) < JobTypeOrder(j)
  \/ JobTypeOrder(i) = JobTypeOrder(j) /\ Priority[i] < Priority[j]

\* Faulty: the set of used repositories is not kept.
SelectedAnyRepository ==
  {i \in candidates : Cardinality({j \in candidates : Before(j, i)}) < MaxConcurrentJobs}

\* Faulty: the limit is applied before the candidates of used repositories are skipped.
SelectedFromTheFirst ==
  {i \in candidates :
     /\ \A j \in candidates : RepoOf[j] = RepoOf[i] => ~Before(j, i)
     /\ Cardinality({j \in candidates : Before(j, i)}) < MaxConcurrentJobs}

\* The best candidate of each repository, and the best MaxConcurrentJobs of these.
BestOfRepository ==
  {i \in candidates : \A j \in candidates : RepoOf[j] = RepoOf[i] => ~Before(j, i)}

Selected ==
  {i \in BestOfRepository :
     Cardinality({j \in BestOfRepository : Before(j, i)}) < MaxConcurrentJobs}

Select ==
  /\ daemon = "collect"
  /\ todo = {}
  /\ job = NoJobs
  /\ daemon' = "execute"
  /\ job' = [i \in Issues |-> IF i \in Selected THEN "selected" ELSE "none"]
  /\ candidates' = {}
  /\ UNCHANGED <<labels, claimed, snapshot, todo, faults, restarts>>

-------------------------------------------------------------------------------
(* Jobs.  A queued Job starts when it gets the AI semaphore, however long     *)
(* after the snapshot that is, and keeps it until it ends.                    *)

Begins(i, type) ==
  /\ job[i] = "selected"
  /\ Seen(i) = type
  /\ Cardinality(Active) < AiConcurrency

BeginImplement(i) ==
  /\ Begins(i, "ready")
  /\ ClaimAs(i, "preflight")
  /\ UNCHANGED <<daemon, todo, candidates, restarts>>

\* PR listing, workspace preparation or integration check failed, or there was
\* nothing to process: the Job ends before any claim.
Abandon(i) ==
  /\ Begins(i, "rework") \/ Begins(i, "review")
  /\ job' = [job EXCEPT ![i] = "none"]
  /\ UNCHANGED <<labels, claimed, daemon, snapshot, todo, candidates, faults, restarts>>

BeginRework(i) ==
  /\ Begins(i, "rework")
  /\ ClaimAs(i, "reworking") \/ ClaimAs(i, "escalate")
  /\ UNCHANGED <<daemon, todo, candidates, restarts>>

BeginReview(i) ==
  /\ Begins(i, "review")
  /\ ClaimAs(i, "reviewing") \/ ClaimAs(i, "escalate")
  /\ UNCHANGED <<daemon, todo, candidates, restarts>>

\* Faulty: a failed workspace preparation returns without undoing the claim.
PreflightWithoutRestore(i) ==
  /\ job[i] = "preflight"
  /\ job' = [job EXCEPT ![i] = "none"]
  /\ UNCHANGED <<labels, claimed, daemon, snapshot, todo, candidates, faults, restarts>>

\* Before the implementer runs: undo the claim, pausing the Issue when its
\* contract is invalid; give up on a dirty worktree; or block on the unexpected.
Preflight(i) ==
  /\ job[i] = "preflight"
  /\ \/ EndWith(i, "ready", {})
     \/ EndWith(i, "ready", {ValidationPaused})
     \/ EndWith(i, "manual-action", {})
     \/ EndWith(i, "blocked", {})

RunImplementer(i) ==
  /\ job[i] = "preflight"
  /\ job' = [job EXCEPT ![i] = "implementing"]
  /\ UNCHANGED <<labels, claimed, daemon, snapshot, todo, candidates, faults, restarts>>

\* The agent timed out, failed or needs a person, or the delivery raised.
EndUndelivered(i) == \E to \in {"ready", "blocked", "manual-action"} : EndWith(i, to, {})

\* These writes are unprotected: block() follows one that raised, unless the
\* failure was transient.
EndUnverified(i) ==
  \E to \in {"rework", "manual-action", "blocked"} : EndWith(i, to, {}) \/ EndOrFallBack(i, to)

\* Pushed, or there was nothing to push.
EndDelivered(i) == \E to \in {"review", "manual-action", "blocked"} : EndWith(i, to, {})

EndImplement(i) ==
  /\ job[i] = "implementing"
  /\ EndUndelivered(i) \/ EndUnverified(i) \/ EndDelivered(i)

\* Only the final move to review is protected.
EndRework(i) ==
  /\ job[i] = "reworking"
  /\ \/ \E to \in {"rework", "manual-action", "blocked"} : EndWith(i, to, {})
     \/ EndOrFallBack(i, "review")

\* Protected from the moment the review comment is posted.
EndReview(i) ==
  /\ job[i] = "reviewing"
  /\ \/ \E to \in {"manual-action", "blocked"} : EndWith(i, to, {})
     \/ \E to \in {"rework", "manual-action", "review"} : EndOrFallBack(i, to)

BlockAfterFailure(i) ==
  /\ job[i] = "fallback"
  /\ EndWith(i, "blocked", {})

CycleEnd ==
  /\ daemon = "execute"
  /\ job = NoJobs
  /\ daemon' = "idle"
  /\ snapshot' = NoSnapshot
  /\ UNCHANGED <<labels, claimed, todo, candidates, job, faults, restarts>>

-------------------------------------------------------------------------------
(* The end of the process, and people. *)

\* The process's memory is gone; the labels stay.
Exit ==
  /\ restarts < MaxRestarts
  /\ restarts' = restarts + 1
  /\ daemon' = "down"
  /\ claimed' = {}
  /\ snapshot' = NoSnapshot
  /\ todo' = {}
  /\ candidates' = {}
  /\ job' = NoJobs
  /\ UNCHANGED <<labels, faults>>

\* A signal is honoured between cycles only.
Stop == daemon = "idle" /\ Exit

Crash == daemon # "down" /\ Exit

HumanEdit(i) ==
  /\ EditsAnytime \/ daemon \in {"idle", "down"}
  /\ \E ls \in HumanLabels : labels' = [labels EXCEPT ![i] = ls]
  /\ UNCHANGED <<claimed, daemon, snapshot, todo, candidates, job, faults, restarts>>

-------------------------------------------------------------------------------
MainThread ==
  \/ Start \/ SweepEnd \/ Collect \/ MergeRaises \/ MergeEnd \/ Select \/ CycleEnd
  \/ \E r \in Repos : SweepListingFails(r)
  \/ \E i \in Issues :
       \/ SweepIssue(i) \/ MergeHeld(i) \/ MergeDone(i)
       \/ Candidate(i) \/ Excluded(i) \/ EscalateMissingPR(i)

JobThread(i) ==
  \/ RequireManualAction(i)
  \/ BeginImplement(i) \/ Preflight(i) \/ RunImplementer(i) \/ EndImplement(i)
  \/ Abandon(i) \/ BeginRework(i) \/ EndRework(i)
  \/ BeginReview(i) \/ EndReview(i)
  \/ BlockAfterFailure(i)

DaemonStep == MainThread \/ \E i \in Issues : JobThread(i)

Next == DaemonStep \/ Stop \/ Crash \/ \E i \in Issues : HumanEdit(i)

Spec == Init /\ [][Next]_vars

\* The process is scheduled and every agent run is bounded by its time-out.
FairSpec == Spec /\ WF_vars(DaemonStep)

-------------------------------------------------------------------------------
(* Properties. *)

\* Every variable has its type.
TypeOK ==
  /\ labels \in [Issues -> SUBSET Labels]
  /\ claimed \subseteq Issues
  /\ daemon \in DaemonPhase
  /\ snapshot \in [Issues -> SUBSET Labels]
  /\ todo \subseteq Issues
  /\ candidates \subseteq Issues
  /\ job \in [Issues -> JobPhase]
  /\ faults \in 0..MaxFaults
  /\ restarts \in 0..MaxRestarts

\* Task 012: two Jobs never run, wait or escalate for the same repository, whose
\* one local workspace they would share.
OneJobPerRepository ==
  \A i, j \in Issues :
    job[i] # "none" /\ job[j] # "none" /\ RepoOf[i] = RepoOf[j] => i = j

\* CP-014-7, CP-B1: unless a GitHub call failed, an Issue whose label says
\* working once the start-up sweep is over has a Job behind it.
WorkingHasOwner ==
  faults = 0 /\ daemon \notin {"down", "sweep"} =>
    \A i \in Issues : CurrentState(labels[i]) = "working" => i \in Active

\* CP-014-8: unless a GitHub call failed, exactly the Issues with a Job past its
\* claim are reserved, so no reservation outlives its Job.
ClaimsAreActive == faults = 0 => claimed = Active

\* CP-014-8: whatever fails and whatever people edit, no agent runs for an
\* Issue that is not reserved.
AgentHoldsClaim ==
  \A i \in Issues :
    job[i] \in {"preflight", "implementing", "reworking", "reviewing"} => i \in claimed

\* CP-014-7, "never leave working behind": however a Job past its claim ends, the
\* transition table has the move its end writes.  A refused one would strand the Issue.
JobEndsAreAllowed ==
  \A i \in Issues : job[i] \in ActiveJob =>
    \A to \in {"ready", "review", "rework", "manual-action", "blocked"} : Allowed(i, to)

\* CP-013-7: at most MaxConcurrentJobs candidates are selected, and one is excluded for
\* one of two reasons: that one of its repository was selected before it, or that all
\* places were taken by ones before it.
NobodyPassedOver ==
  [][daemon = "collect" /\ daemon' = "execute" =>
       LET chosen == {j \in Issues : job'[j] = "selected"}
           ahead(i) == {j \in chosen : Before(j, i)}
       IN /\ Cardinality(chosen) <= MaxConcurrentJobs
          /\ \A i \in candidates :
               \/ i \in chosen
               \/ \E j \in ahead(i) : RepoOf[j] = RepoOf[i]
               \/ Cardinality(ahead(i)) = MaxConcurrentJobs]_vars

\* The daemon keeps the promise of IssueLifecycle when no call fails and people
\* edit between cycles only.
Lifecycle ==
  INSTANCE IssueLifecycle WITH
    state <- [i \in Issues |-> CurrentState(labels[i])],
    inCycle <- daemon \notin {"idle", "down"}

ImplementsLifecycle == Lifecycle!Spec

\* "Working must be transient": an Issue does not stay working, even when the
\* process crashes while its Job runs.
WorkingIsLeft ==
  \A i \in Issues :
    CurrentState(labels[i]) = "working" ~> CurrentState(labels[i]) # "working"

LoneIssues == {i \in Issues : \A j \in Issues : RepoOf[j] = RepoOf[i] => j = i}

LoneReady(i) == labels[i] = {"ready"} /\ i \notin claimed

\* Jobs of other repositories that come before Issue i take every place of the cycle.
OutPlaced(i) ==
  /\ daemon = "execute"
  /\ Cardinality({j \in Issues : job[j] = "selected" /\ RepoOf[j] # RepoOf[i] /\ Before(j, i)})
       = MaxConcurrentJobs

\* Task 012: whatever fails, in every cycle a ready Issue that is alone in its repository
\* is claimed (or a person moves it), unless the Jobs of other repositories that come
\* before it take all MaxConcurrentJobs places: nothing else of theirs holds it up.
LoneReadyGetsAPlace ==
  \A i \in LoneIssues : LoneReady(i) ~> (labels[i] # {"ready"} \/ OutPlaced(i))

\* Task 012: a ready Issue that is alone in its repository gets its turn (or is moved by a
\* person), whatever happens to the Issues of other repositories.
LoneReadyIsClaimed == \A i \in LoneIssues : LoneReady(i) ~> labels[i] # {"ready"}
==============================================================================
