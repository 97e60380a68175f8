----------------------------- MODULE ReviewCycle -----------------------------
(***************************************************************************)
(* One Issue from its contract to its merge: implement, review, rework,    *)
(* ready-to-merge and automatic merge (polling's Jobs, review, rework,     *)
(* delivery, automerge) over the branch of TaskBranch, while people push   *)
(* to the pull request, comment on it, merge it and move the Issue, and    *)
(* other pull requests advance main.                                       *)
(*                                                                         *)
(* A Job is a sequence of steps that end where it calls git or GitHub. Its *)
(* snapshot of the pull request is taken when it starts.  People move the  *)
(* Issue between cycles; what they do in the middle of one, and how the    *)
(* writes of a label fail, is the subject of Polling.                      *)
(*                                                                         *)
(* Bounds: those of TaskBranch, MaxEdits acts of people, MaxFaults failing *)
(* calls and crashes.                                                      *)
(***************************************************************************)
EXTENDS TaskBranch, AgentOutcome, CIStatus, Integers, Sequences

CONSTANTS
  ReviewLoopLimit,      \* 0 or less: unlimited
  ResumeAttemptLimit,
  RequestAttempts,      \* GitHubRetryConfig.max_attempts
  MaxEdits,
  MaxFaults

ASSUME ReviewCycleAssumption ==
  /\ ReviewLoopLimit \in Int
  /\ ResumeAttemptLimit \in Nat \ {0}
  /\ RequestAttempts \in Nat \ {0}
  /\ MaxEdits \in Nat
  /\ MaxFaults \in Nat

VARIABLES
  issue,      \* the Issue's state label
  pr,         \* the pull request, its ready-to-merge label, whether a planner opened it,
              \*   whether GitHub refuses to merge it (a protected branch, a draft)
  comments,   \* the pull request's comments that DevBot reads
  resumes,    \* attempt of the last resume marker on the Issue, capped
  job,        \* what the daemon does
  landed,     \* the commit that was merged
  checked,    \* auxiliary: the head whose CI this cycle read: nothing failing or pending
  agents,     \* auxiliary: the changes agents made
  edits,
  faults

prVars == <<issue, pr, comments, resumes>>
auxVars == <<landed, checked, agents, edits, faults>>
vars == <<branchVars, prVars, job, auxVars>>

Verdict3 == {"none", "merge-ready", "request-changes"}

\* verdict, head: of an automatic review, and its marker.  tree: auxiliary, the
\* commit the reviewer had before it.  mention: an @devbot request; commit: a
\* commit can answer it; eyes: DevBot's "processed" reaction.
Comment ==
  [verdict : Verdict3, head : Commit \cup {NoCommit}, tree : Commit \cup {NoCommit},
   mention : BOOLEAN, commit : BOOLEAN, eyes : BOOLEAN]

JobKind == {"none", "merge", "implement", "rework", "review"}

JobStep ==
  {"idle", "collect", "ci", "merge", "prepare", "lease", "claim", "agent", "deliver",
   "push", "announce", "post", "gate", "label", "hand-over"}

\* head: of the snapshot.  comment: the request a rework answers, or the first
\* unprocessed request a review's snapshot holds; 0 for none.
Job ==
  [kind : JobKind, step : JobStep, head : Commit \cup {NoCommit},
   comment : Nat, verdict : Verdict3, commit : BOOLEAN]

Idle ==
  [kind |-> "none", step |-> "idle", head |-> NoCommit, comment |-> 0,
   verdict |-> "none", commit |-> FALSE]

PRState == {"none", "open", "merged"}

\* The state the daemon finds: a new Issue, or one whose planner opened a pull
\* request with the contract's commit.
Init ==
  /\ main = 0
  /\ conflict = FALSE
  /\ \E barred \in BOOLEAN :
       pr \in {[state |-> "none", ready |-> FALSE, planned |-> FALSE, barred |-> barred],
              [state |-> "open", ready |-> FALSE, planned |-> TRUE, barred |-> barred]}
  /\ origin = IF pr.planned THEN [work |-> {}, base |-> 0] ELSE NoCommit
  /\ local = NoCommit
  /\ worktree = "absent"
  /\ made = 0
  /\ issue = "ready"
  /\ comments = <<>>
  /\ resumes = 0
  /\ job = Idle
  /\ landed = NoCommit
  /\ checked = NoCommit
  /\ agents = {}
  /\ edits = 0
  /\ faults = 0

-------------------------------------------------------------------------------
(* What DevBot reads from the comments. *)

\* Faulty: any marker counts as a review of the head.
ReviewedOnce(head) == \E k \in DOMAIN comments : comments[k].verdict # "none"

\* Faulty: only the marker of a MERGE READY review counts.
ReviewedReady(head) ==
  \E k \in DOMAIN comments : comments[k].verdict = "merge-ready" /\ comments[k].head = head

\* has_review_marker_for_head.
Reviewed(head) ==
  \E k \in DOMAIN comments : comments[k].verdict # "none" /\ comments[k].head = head

ReviewMarkers == {k \in DOMAIN comments : comments[k].verdict # "none"}

\* find_unprocessed_devbot_comments.
Unprocessed == {k \in DOMAIN comments : comments[k].mention /\ ~comments[k].eyes}

\* 0 stands for none.
IsFirstUnprocessed(k) ==
  \/ k = 0 /\ Unprocessed = {}
  \/ k \in Unprocessed /\ \A j \in Unprocessed : k <= j

-------------------------------------------------------------------------------
(* Steps.  The actions of the daemon state how they change the Job. *)

At(kind, step) == job.kind = kind /\ job.step = step

Go(step) == job' = [job EXCEPT !.step = step] /\ UNCHANGED issue

\* Faulty: the old label is removed and the new one not added.
EndUnlabelled(to) == issue' = "none" /\ job' = Idle

\* The Job is over and the Issue is left as `to`.
End(to) == issue' = to /\ job' = Idle

\* A refused preparation: an implement Job gives the Issue back, the others have
\* not claimed it yet.
Refuse == End(IF job.kind = "implement" THEN "ready" ELSE issue)

Fault == faults < MaxFaults /\ faults' = faults + 1
NoFault == UNCHANGED faults

-------------------------------------------------------------------------------
(* A cycle: the merge stage, then the Job this Issue is a candidate for. *)

MergeDue == issue = "review" /\ pr.state = "open" /\ pr.ready

\* An Issue in review whose pull request was merged is reconciled.
BeginCycle ==
  /\ job = Idle
  /\ issue \in {"ready", "review", "rework"}
  /\ IF issue = "review" /\ pr.state = "merged" THEN End("done")
     ELSE /\ job' = IF MergeDue
                    THEN [Idle EXCEPT !.kind = "merge", !.step = "ci", !.head = origin]
                    ELSE [Idle EXCEPT !.step = "collect"]
          /\ UNCHANGED issue
  /\ UNCHANGED <<branchVars, pr, comments, resumes, auxVars>>

\* A verdict that is not green, the kill switch, the allow list or DevBot's own
\* repository hold the merge; the label stays and the cycle goes on.
EvaluateCI ==
  /\ At("merge", "ci")
  /\ \E reading \in Readings :
       /\ job' = IF Verdict(reading) = "green" THEN [job EXCEPT !.step = "merge"]
                 ELSE [Idle EXCEPT !.step = "collect"]
       /\ checked' = IF \A s \in CISource : reading[s] \notin {"failing", "pending"}
                     THEN job.head ELSE NoCommit
  /\ UNCHANGED <<branchVars, issue, pr, comments, resumes, landed, agents, edits, faults>>

\* Faulty: no expected_head_sha in the request.
MergeableAnyHead == pr.state = "open" /\ ~pr.barred /\ Integrates(origin)

\* GitHub merges an open pull request without conflicts whose head is still the
\* expected one, unless its rules forbid it.
Mergeable == pr.state = "open" /\ ~pr.barred /\ Integrates(origin) /\ origin = job.head

\* An exception here, the refusal included, ends the cycle.
Merge ==
  /\ At("merge", "merge")
  /\ \/ /\ Mergeable
        /\ landed' = origin
        /\ pr' = [pr EXCEPT !.state = "merged"]
        /\ (End("done") /\ NoFault) \/ (End(issue) /\ Fault)
     \/ /\ End(issue)
        /\ (~Mergeable /\ NoFault) \/ Fault
        /\ UNCHANGED <<landed, pr>>
  /\ checked' = NoCommit
  /\ UNCHANGED <<branchVars, comments, resumes, agents, edits>>

Begin(kind, request) ==
  job' = [Idle EXCEPT !.kind = kind, !.step = "prepare",
                      !.head = IF pr.state = "open" THEN origin ELSE NoCommit,
                      !.comment = request]

\* Candidate and snapshot of its Job.  A review or rework Issue without an open
\* pull request goes to a person.  (A model out of changes takes up no work.)
Collect ==
  /\ At("none", "collect")
  /\ \/ /\ issue = "ready" /\ pr.state # "merged" /\ made < MaxChanges
        /\ Begin("implement", 0)
        /\ issue' = "working"
     \/ /\ issue \in {"review", "rework"} /\ pr.state # "open"
        /\ End("manual-action")
     \/ /\ issue = "rework" /\ pr.state = "open" /\ made < MaxChanges
        /\ \E k \in Unprocessed : IsFirstUnprocessed(k) /\ Begin("rework", k)
        /\ UNCHANGED issue
     \/ /\ issue = "review" /\ pr.state = "open" /\ ~Reviewed(origin)
        /\ \E k \in {0} \cup Unprocessed : IsFirstUnprocessed(k) /\ Begin("review", k)
        /\ UNCHANGED issue
     \/ /\ \/ issue = "ready" /\ (pr.state = "merged" \/ made = MaxChanges)
           \/ issue = "rework" /\ pr.state = "open" /\ (Unprocessed = {} \/ made = MaxChanges)
           \/ issue = "review" /\ pr.state = "open" /\ Reviewed(origin)
        /\ End(issue)
  /\ checked' = NoCommit
  /\ UNCHANGED <<branchVars, pr, comments, resumes, landed, agents, edits, faults>>

-------------------------------------------------------------------------------
(* The workspace. *)

\* fetch failed: nothing was touched.
FetchFails ==
  /\ job.step = "prepare"
  /\ Refuse /\ Fault
  /\ UNCHANGED <<branchVars, pr, comments, resumes, landed, checked, agents, edits>>

\* Without a linked PR.  Leftovers in a reused worktree are resumed, until the
\* attempts are used up.
PrepareBootstrap ==
  /\ At("implement", "prepare") /\ job.head = NoCommit
  /\ Bootstrapped
  /\ IF local # NoCommit /\ worktree' = "dirty" /\ resumes >= ResumeAttemptLimit
     THEN End("manual-action") ELSE Go("agent")
  /\ UNCHANGED <<pr, comments, resumes, auxVars>>

\* With a linked PR: a head that moved and leftovers are refused.  A review only
\* validates the integration with main; the others rebase.
PreparePR ==
  /\ job.step = "prepare" /\ job.head # NoCommit
  /\ IF origin # job.head \/ Dirty \/ ~Integrates(LocalTip)
     THEN CheckedOut(LocalTip) /\ Refuse
     ELSE IF job.kind = "review" \/ LocalTip.base = main
     THEN CheckedOut(LocalTip) /\ Go(IF job.kind = "implement" THEN "agent" ELSE "claim")
     ELSE CheckedOut([LocalTip EXCEPT !.base = main]) /\ Go("lease")
  /\ UNCHANGED <<main, conflict, origin, made, pr, comments, resumes, auxVars>>

\* The rebased branch is pushed over the fetched one.  A push that fails leaves
\* the rebased branch behind, and so does one whose answer is lost.
PushRebased ==
  /\ job.step = "lease"
  /\ \/ /\ PushedWithLease(job.head)
        /\ Go(IF job.kind = "implement" THEN "agent" ELSE "claim")
        /\ NoFault
     \/ PushedWithLease(job.head) /\ Refuse /\ Fault
     \/ /\ Refuse
        /\ (origin # job.head /\ NoFault) \/ Fault
        /\ UNCHANGED branchVars
  /\ UNCHANGED <<pr, comments, resumes, landed, checked, agents, edits>>

-------------------------------------------------------------------------------
(* Implement and rework. *)

\* classify_rework_action_scope.
CommitCanAnswer == comments[job.comment].commit

\* A request that no commit can answer goes to a person.
ClaimRework ==
  /\ At("rework", "claim")
  /\ IF CommitCanAnswer
     THEN issue' = "working" /\ job' = [job EXCEPT !.step = "agent"]
     ELSE End("manual-action")
  /\ UNCHANGED <<branchVars, pr, comments, resumes, auxVars>>

\* Whatever becomes of the run, the edits stay in the worktree.  An interrupted
\* implementer is resumed (the marker is best effort); rework has no resume.
RunImplementer ==
  /\ job.kind \in {"implement", "rework"} /\ job.step = "agent"
  /\ worktree' \in {worktree, "dirty"}
  /\ \E outcome \in AgentOutcomes :
       LET to == TransitionFor(outcome) IN
       CASE to = "delivery" -> Go("deliver") /\ NoFault /\ UNCHANGED resumes
         [] to = "resume" /\ job.kind = "implement" ->
              /\ End("ready")
              /\ \/ /\ resumes' = IF resumes < ResumeAttemptLimit THEN resumes + 1 ELSE resumes
                    /\ NoFault
                 \/ UNCHANGED resumes /\ Fault
         [] to = "resume" /\ job.kind = "rework" -> End("blocked") /\ NoFault /\ UNCHANGED resumes
         [] OTHER -> End(to) /\ NoFault /\ UNCHANGED resumes
  /\ UNCHANGED <<main, conflict, origin, local, made, pr, comments,
                 landed, checked, agents, edits>>

\* A failed verification keeps the edits too.
VerificationFails ==
  /\ job.step = "deliver"
  /\ \E to \in {"rework", "manual-action", "blocked"} : End(to)
  /\ UNCHANGED <<branchVars, pr, comments, resumes, auxVars>>

CommitChanges ==
  /\ job.step = "deliver"
  /\ Committed
  /\ agents' = agents \cup {made'}
  /\ Go("push")
  /\ UNCHANGED <<pr, comments, resumes, landed, checked, edits, faults>>

Processed == [comments EXCEPT ![job.comment].eyes = TRUE]

\* no_repository_changes.  A rework counts as done; an implementation needs
\* evidence in the linked PR.
NothingToCommit ==
  /\ job.step = "deliver" /\ ~Dirty
  /\ IF job.kind = "rework"
     THEN \/ comments' = Processed /\ End("review") /\ NoFault
          \/ UNCHANGED comments /\ End("blocked") /\ Fault
          \/ comments' = Processed /\ End("blocked") /\ Fault
     ELSE /\ End(IF job.head # NoCommit
                    /\ HasImplementationEvidence(IF pr.planned THEN 1 ELSE 0)
                 THEN "review" ELSE "manual-action")
          /\ NoFault /\ UNCHANGED comments
  /\ UNCHANGED <<branchVars, pr, resumes, landed, checked, agents, edits>>

\* A push whose answer is lost blocks the Issue like one that failed.
Push ==
  /\ job.step = "push"
  /\ \/ Pushed /\ Go("announce") /\ NoFault
     \/ Pushed /\ End("blocked") /\ Fault
     \/ /\ End("blocked")
        /\ (~Contains(local, origin) /\ NoFault) \/ Fault
        /\ UNCHANGED branchVars
  /\ UNCHANGED <<pr, comments, resumes, landed, checked, agents, edits>>

\* The pull request and its comment; for a rework, the processed reaction.
Announce ==
  /\ job.step = "announce"
  /\ \/ Go("hand-over") /\ NoFault
     \/ End("blocked") /\ Fault
  /\ IF job.kind = "rework"
     THEN comments' \in {Processed} \cup (IF issue' = "blocked" THEN {comments} ELSE {})
          /\ UNCHANGED pr
     ELSE pr' \in {[pr EXCEPT !.state = IF @ = "none" THEN "open" ELSE @]}
                    \cup (IF issue' = "blocked" THEN {pr} ELSE {})
          /\ UNCHANGED comments
  /\ UNCHANGED <<branchVars, resumes, landed, checked, agents, edits>>

\* mark_for_review, the last write of every kind of Job.  An implement Job whose
\* write fails leaves the Issue working.
HandOver ==
  /\ job.step = "hand-over"
  /\ \/ End("review") /\ NoFault
     \/ End(IF job.kind = "implement" THEN "working" ELSE "blocked") /\ Fault
  /\ UNCHANGED <<branchVars, pr, comments, resumes, landed, checked, agents, edits>>

-------------------------------------------------------------------------------
(* Review. *)

\* Faulty: the limit is compared before this attempt is counted.
AttemptsUsedUpLate == ReviewLoopLimit > 0 /\ Cardinality(ReviewMarkers) > ReviewLoopLimit

\* review_marker_count: each comment with a marker is an attempt.
AttemptsUsedUp == ReviewLoopLimit > 0 /\ Cardinality(ReviewMarkers) + 1 > ReviewLoopLimit

ClaimReview ==
  /\ At("review", "claim")
  /\ IF AttemptsUsedUp THEN End("manual-action")
     ELSE issue' = "working" /\ job' = [job EXCEPT !.step = "agent"]
  /\ UNCHANGED <<branchVars, pr, comments, resumes, auxVars>>

\* The run failed, wants approval or has no valid summary; or it has a verdict.
RunReviewer ==
  /\ At("review", "agent")
  /\ \/ \E to \in {"blocked", "manual-action"} : End(to)
     \/ \E v \in Verdict3 \ {"none"}, byCommit \in BOOLEAN :
          /\ v = "merge-ready" => ~byCommit
          /\ job' = [job EXCEPT !.step = "post", !.verdict = v, !.commit = byCommit]
          /\ UNCHANGED issue
  /\ UNCHANGED <<branchVars, pr, comments, resumes, auxVars>>

\* Only a request a commit can answer mentions @devbot.
ReviewComment ==
  [verdict |-> job.verdict, head |-> job.head, tree |-> local,
   mention |-> job.commit, commit |-> job.commit, eyes |-> FALSE]

Copies(k) == [n \in 1..k |-> ReviewComment]

\* The marker is part of the comment, so the verdict and the marker appear together
\* or not at all.  A request without an answer is repeated, though GitHub may have
\* applied it; when the attempts are used up the Issue is blocked.
PostReview ==
  /\ At("review", "post")
  /\ \E k \in 0..RequestAttempts :
       /\ comments' = comments \o Copies(k)
       /\ \/ k = 1 /\ Go("gate") /\ NoFault
          \/ k >= 1 /\ Go("gate") /\ Fault
          \/ End("blocked") /\ Fault
  /\ UNCHANGED <<branchVars, pr, resumes, landed, checked, agents, edits>>

\* MERGE READY is put on the pull request only if the head is read again and is
\* still the reviewed one, and the snapshot held no open request.
Gate ==
  /\ At("review", "gate")
  /\ \/ /\ job.verdict = "request-changes"
        /\ \/ End(IF job.commit THEN "rework" ELSE "manual-action") /\ NoFault
           \/ End("blocked") /\ Fault
     \/ /\ job.verdict = "merge-ready"
        /\ \/ /\ IF origin = job.head /\ job.comment = 0
                 THEN Go("label") ELSE End("manual-action")
              /\ NoFault
           \/ End("manual-action") /\ Fault
  /\ UNCHANGED <<branchVars, pr, comments, resumes, landed, checked, agents, edits>>

LabelReady ==
  /\ At("review", "label")
  /\ \/ pr' = [pr EXCEPT !.ready = TRUE] /\ Go("hand-over") /\ NoFault
     \/ pr' \in {pr, [pr EXCEPT !.ready = TRUE]} /\ End("blocked") /\ Fault
  /\ UNCHANGED <<branchVars, comments, resumes, landed, checked, agents, edits>>

-------------------------------------------------------------------------------
(* The process ends and is started again: the sweep blocks a working Issue. *)

Restart ==
  /\ Fault
  /\ End(IF issue = "working" THEN "blocked" ELSE issue)
  /\ checked' = NoCommit
  /\ UNCHANGED <<branchVars, pr, comments, resumes, landed, agents, edits>>

-------------------------------------------------------------------------------
(* People. *)

Act == edits < MaxEdits /\ edits' = edits + 1

\* A commit on top of the pull request's head.  (A change is left for the Job.)
PersonPushes ==
  /\ pr.state = "open" /\ made + 1 < MaxChanges
  /\ Act
  /\ made' = made + 1
  /\ origin' = [origin EXCEPT !.work = @ \cup {made + 1}]
  /\ UNCHANGED <<main, conflict, local, worktree, issue, pr, comments, resumes, job,
                 landed, checked, agents, faults>>

PersonRequests ==
  /\ pr.state = "open"
  /\ Act
  /\ \E byCommit \in BOOLEAN :
       comments' = Append(comments,
         [verdict |-> "none", head |-> NoCommit, tree |-> NoCommit,
          mention |-> TRUE, commit |-> byCommit, eyes |-> FALSE])
  /\ UNCHANGED <<branchVars, issue, pr, resumes, job, landed, checked, agents, faults>>

PersonMoves ==
  /\ job = Idle
  /\ issue \in {"blocked", "manual-action", "review"}
  /\ Act
  /\ issue' \in {"ready", "review", "rework"} \ {issue}
  /\ UNCHANGED <<branchVars, pr, comments, resumes, job, landed, checked, agents, faults>>

\* validate_blocked_resume: the worktree the agent left is there, and the Issue's body
\* names its contract, which a planner's does.
MayResume == issue = "blocked" /\ worktree # "absent" /\ pr.planned

\* devbot resume, between cycles.
OperatorResumes ==
  /\ job = Idle /\ MayResume
  /\ Act
  /\ issue' = "ready"
  /\ UNCHANGED <<branchVars, pr, comments, resumes, job, landed, checked, agents, faults>>

PersonMerges ==
  /\ pr.state = "open" /\ Integrates(origin)
  /\ Act
  /\ pr' = [pr EXCEPT !.state = "merged"]
  /\ landed' = origin
  /\ UNCHANGED <<branchVars, issue, comments, resumes, job, checked, agents, faults>>

\* devbot worktree cleanup, between cycles; the local branch stays.
OperatorCleansUp ==
  /\ job = Idle /\ worktree # "absent"
  /\ Act
  /\ worktree' = "absent"
  /\ UNCHANGED <<main, conflict, origin, local, made, issue, pr, comments, resumes, job,
                 landed, checked, agents, faults>>

\* Another pull request is merged.
MainAdvances ==
  /\ main < MaxBase
  /\ main' = main + 1
  /\ conflict' \in {conflict, TRUE}
  /\ UNCHANGED <<origin, local, worktree, made, issue, pr, comments, resumes, job, auxVars>>

-------------------------------------------------------------------------------
Daemon ==
  \/ BeginCycle \/ EvaluateCI \/ Merge \/ Collect
  \/ FetchFails \/ PrepareBootstrap \/ PreparePR \/ PushRebased
  \/ ClaimRework \/ RunImplementer \/ VerificationFails \/ CommitChanges \/ NothingToCommit
  \/ Push \/ Announce \/ HandOver
  \/ ClaimReview \/ RunReviewer \/ PostReview \/ Gate \/ LabelReady

People ==
  \/ PersonPushes \/ PersonRequests \/ PersonMoves \/ PersonMerges
  \/ OperatorResumes \/ OperatorCleansUp \/ MainAdvances

Next == Daemon \/ Restart \/ People

Spec == Init /\ [][Next]_vars

\* The polling loop runs, and agents are bounded by their time-out.
FairSpec == Spec /\ WF_vars(Daemon)

-------------------------------------------------------------------------------
(* Properties. *)

\* Every variable has its type.
TypeOK ==
  /\ main \in 0..MaxBase
  /\ conflict \in BOOLEAN
  /\ origin \in Commit \cup {NoCommit}
  /\ local \in Commit \cup {NoCommit}
  /\ worktree \in Worktree
  /\ made \in 0..MaxChanges
  /\ issue \in TaskState
  /\ pr \in [state : PRState, ready : BOOLEAN, planned : BOOLEAN, barred : BOOLEAN]
  /\ comments \in Seq(Comment)
  /\ resumes \in 0..ResumeAttemptLimit
  /\ job \in Job
  /\ landed \in Commit \cup {NoCommit}
  /\ checked \in Commit \cup {NoCommit}
  /\ agents \subseteq Change
  /\ edits \in 0..MaxEdits
  /\ faults \in 0..MaxFaults

\* CP-027-5: the reviewer does not run again for a head that has a review, whatever
\* failed or was restarted in between: no further comment carries the head's marker.
OneVerdictPerHead ==
  [][\A head \in {comments[k].head : k \in ReviewMarkers} :
       {k \in ReviewMarkers' : comments'[k].head = head}
         = {k \in ReviewMarkers : comments[k].head = head}]_vars

\* The review loop is bounded over the life of the pull request: at most so many of
\* its heads are reviewed.  (A comment that was posted twice counts as two attempts.)
ReviewLoopEnds ==
  ReviewLoopLimit > 0 =>
    Cardinality({comments[k].head : k \in ReviewMarkers}) <= ReviewLoopLimit

\* A reviewer may work in a branch that is behind origin, but what DevBot itself
\* brought to the pull request is in the tree it reads.
ReviewerSeesAgentWork ==
  \A k \in ReviewMarkers : comments[k].head.work \cap agents \subseteq comments[k].tree.work

\* Task 026: the committed work of an agent is never lost, by no rebase, failed
\* push, merge or restart: the local branch keeps it.
AgentWorkSurvives == agents # {} => local # NoCommit /\ agents \subseteq local.work

\* What the daemon merged is exactly the head whose CI it read as not failing
\* and not pending, though people push between the reading and the merge.
MergedHeadWasChecked == [][landed' # landed /\ job # Idle /\ job' = Idle => landed' = checked]_vars

\* CP-027-14, CP-026-1: DevBot does not discard uncommitted work; it becomes a
\* commit or stays, until the operator removes the worktree.
DirtyWorkIsKept ==
  [][Dirty /\ worktree' # "dirty" =>
       \/ made' = made + 1 /\ made' \in local'.work
       \/ job = Idle /\ worktree' = "absent"]_vars

\* An unreviewed head is taken up: reviewed, or the Issue is moved, unless the
\* worktree holds leftovers, main conflicts, or each cycle ends when GitHub refuses to
\* merge the pull request that an earlier review labelled ready (polling.py:1231).
ReviewDue ==
  /\ issue = "review" /\ pr.state = "open"
  /\ \A k \in ReviewMarkers : comments[k].head # origin
  /\ ~Dirty /\ Integrates(LocalTip) /\ Integrates(origin)
  /\ ~(pr.ready /\ pr.barred)

ReviewIsTaken == ReviewDue ~> ~ReviewDue

\* "Merged automatically by DevBot after MERGE READY and green CI": a head the
\* daemon merges carries a MERGE READY review.
MergedHeadWasApproved ==
  [][landed' # landed /\ job # Idle /\ job' = Idle =>
       \E k \in ReviewMarkers : comments[k].verdict = "merge-ready" /\ comments[k].head = landed']_vars
==============================================================================
