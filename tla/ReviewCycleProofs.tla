--------------------------- MODULE ReviewCycleProofs ---------------------------
(* Theorems about ReviewCycle, for any bounds. *)
EXTENDS ReviewCycle, SequenceTheorems, FiniteSetTheorems, TLAPS

\* Where a commit, a request or room for a change has to be, for the step of the Job.
Places ==
  /\ pr.state # "none" => origin # NoCommit
  /\ job.step \in {"lease", "claim", "agent", "deliver", "push"} => local # NoCommit
  /\ job.step = "announce" => origin # NoCommit
  /\ job.kind = "rework" => job.comment \in DOMAIN comments
  /\ job.step = "prepare" => job.kind \in {"implement", "rework", "review"}
  /\ job.step \in {"lease", "deliver"} => job.kind \in {"implement", "rework"}
  /\ job.kind \in {"implement", "rework"} /\
     job.step \in {"prepare", "lease", "claim", "agent", "deliver"} => made < MaxChanges

TypeInv == TypeOK /\ Places

-------------------------------------------------------------------------------
(* Steps of the Job, and what an agent's outcome leads to. *)

LEMMA IdleIsJob == Idle \in Job /\ Idle.kind = "none" /\ Idle.step = "idle"
BY DEF Idle, Job, JobKind, JobStep, Verdict3

\* Going on changes nothing but the step.
LEMMA GoMoves ==
  ASSUME TypeOK, NEW step \in JobStep, Go(step)
  PROVE  /\ job' \in Job /\ issue' = issue
         /\ job'.step = step /\ job'.kind = job.kind /\ job'.head = job.head
         /\ job'.comment = job.comment /\ job'.verdict = job.verdict
         /\ job'.commit = job.commit
<1>1. job \in Job /\ job' = [job EXCEPT !.step = step] /\ issue' = issue
  BY DEF TypeOK, Go
<1> QED
  BY <1>1 DEF Job

\* The Issue goes where TransitionFor says, and that is a state, delivery or a resume.
LEMMA OutcomeTargets ==
  ASSUME NEW outcome \in AgentOutcomes
  PROVE  TransitionFor(outcome) \in {"manual-action", "blocked", "resume", "delivery"}
<1>1. PICK r \in AgentRunResult : outcome = Classify(r)
  BY DEF AgentOutcomes
<1>2. CASE r.hint # NoHint
  BY <1>1, <1>2 DEF Classify, AgentRunResult, Hint, TransitionFor
<1>3. CASE r.hint = NoHint /\ r.patterns # {}
  <2> DEFINE k == CHOOSE k \in r.patterns : \A j \in r.patterns : k <= j
  <2>1. r.patterns \subseteq 1..5
    BY DEF AgentRunResult
  <2>2. \E m \in r.patterns : \A j \in r.patterns : m <= j
    <3>1. CASE 1 \in r.patterns
      BY <2>1, <3>1
    <3>2. CASE 1 \notin r.patterns /\ 2 \in r.patterns
      BY <2>1, <3>2
    <3>3. CASE 1 \notin r.patterns /\ 2 \notin r.patterns /\ 3 \in r.patterns
      BY <2>1, <3>3
    <3>4. CASE r.patterns \subseteq {4, 5} /\ 4 \in r.patterns
      BY <3>4
    <3>5. CASE r.patterns \subseteq {5}
      BY <1>3, <3>5
    <3> QED
      BY <2>1, <3>1, <3>2, <3>3, <3>4, <3>5
  <2>3. k \in 1..5
    BY <2>1, <2>2
  <2>4. outcome = TextPattern[k]
    BY <1>1, <1>3 DEF Classify
  <2> HIDE DEF k
  <2>5. k = 1 \/ k = 2 \/ k = 3 \/ k = 4 \/ k = 5
    BY <2>3
  <2> QED
    BY <2>4, <2>5 DEF TextPattern, TransitionFor
<1>4. CASE r.hint = NoHint /\ r.patterns = {}
  BY <1>1, <1>4 DEF Classify, TransitionFor
<1> QED
  BY <1>2, <1>3, <1>4

\* The commit a reused or new worktree has.
LEMMA LocalTipIsCommit ==
  ASSUME TypeOK
  PROVE  /\ LocalTip \in Commit \cup {NoCommit}
         /\ (origin # NoCommit \/ local # NoCommit) => LocalTip # NoCommit
BY DEF TypeOK, LocalTip
-------------------------------------------------------------------------------
(* TypeInv is inductive. *)

LEMMA InitTypeInv == Init => TypeInv
<1> SUFFICES ASSUME Init PROVE TypeInv
  OBVIOUS
<1> USE TaskBranchAssumption, ReviewCycleAssumption
<1>1. /\ pr \in [state : PRState, ready : BOOLEAN, planned : BOOLEAN, barred : BOOLEAN]
      /\ pr.state # "none" => pr.planned
  <2>1. PICK barred \in BOOLEAN :
          pr \in {[state |-> "none", ready |-> FALSE, planned |-> FALSE, barred |-> barred],
                 [state |-> "open", ready |-> FALSE, planned |-> TRUE, barred |-> barred]}
    BY DEF Init
  <2>2. barred = TRUE \/ barred = FALSE
    OBVIOUS
  <2>3. CASE pr = [state |-> "none", ready |-> FALSE, planned |-> FALSE, barred |-> barred]
    BY <2>2, <2>3 DEF PRState
  <2>4. CASE pr = [state |-> "open", ready |-> FALSE, planned |-> TRUE, barred |-> barred]
    BY <2>2, <2>4 DEF PRState
  <2> QED
    BY <2>1, <2>3, <2>4
<1>2. origin \in Commit \cup {NoCommit} /\ (pr.planned => origin # NoCommit)
  <2>1. [work |-> {}, base |-> 0] \in Commit
    BY DEF Commit
  <2> QED
    BY <2>1 DEF Init
<1>3. comments \in Seq(Comment)
  BY DEF Init
<1>4. TypeOK
  <2>1. /\ main = 0 /\ conflict = FALSE /\ local = NoCommit /\ worktree = "absent" /\ made = 0
        /\ issue = "ready" /\ resumes = 0 /\ job = Idle /\ landed = NoCommit
        /\ checked = NoCommit /\ agents = {} /\ edits = 0 /\ faults = 0
    BY DEF Init
  <2>2. conflict \in BOOLEAN
    BY <2>1, Zenon
  <2>3. /\ worktree \in Worktree /\ issue \in TaskState /\ job \in Job /\ agents \subseteq Change
        /\ landed \in Commit \cup {NoCommit} /\ checked \in Commit \cup {NoCommit}
        /\ local \in Commit \cup {NoCommit}
    BY <2>1, IdleIsJob DEF Worktree, TaskState
  <2>4. /\ main \in 0..MaxBase /\ made \in 0..MaxChanges /\ resumes \in 0..ResumeAttemptLimit
        /\ edits \in 0..MaxEdits /\ faults \in 0..MaxFaults
    BY <2>1
  <2> QED
    BY <1>1, <1>2, <1>3, <2>2, <2>3, <2>4 DEF TypeOK
<1>5. Places
  BY <1>1, <1>2, IdleIsJob DEF Init, Places
<1> QED
  BY <1>4, <1>5 DEF TypeInv

\* A step that ends the Job and leaves the rest well typed.
LEMMA JobEnds ==
  ASSUME TypeInv, NEW to \in TaskState, End(to),
         UNCHANGED <<main, conflict, made, agents, edits>>,
         faults' \in 0..MaxFaults,
         origin' \in Commit \cup {NoCommit}, local' \in Commit \cup {NoCommit},
         pr'.state # "none" => origin' # NoCommit,
         worktree' \in Worktree,
         pr' \in [state : PRState, ready : BOOLEAN, planned : BOOLEAN, barred : BOOLEAN],
         comments' \in Seq(Comment),
         resumes' \in 0..ResumeAttemptLimit,
         landed' \in Commit \cup {NoCommit}, checked' \in Commit \cup {NoCommit}
  PROVE  TypeInv'
<1>1. job' = Idle /\ issue' = to
  BY DEF End
<1>2. TypeOK'
  BY <1>1, IdleIsJob DEF TypeInv, TypeOK
<1>3. Places'
  BY <1>1, IdleIsJob DEF Places
<1> QED
  BY <1>2, <1>3 DEF TypeInv

LEMMA FaultCounts ==
  ASSUME TypeOK, Fault \/ NoFault
  PROVE  faults' \in 0..MaxFaults
BY ReviewCycleAssumption DEF TypeOK, Fault, NoFault

LEMMA CycleKeepsTypeInv ==
  TypeInv /\ (BeginCycle \/ EvaluateCI \/ Merge) => TypeInv'
<1> SUFFICES ASSUME TypeInv, BeginCycle \/ EvaluateCI \/ Merge PROVE TypeInv'
  OBVIOUS
<1> USE DEF TypeInv
<1>1. CASE BeginCycle
  <2> USE <1>1 DEF BeginCycle, branchVars, auxVars
  <2>1. CASE issue = "review" /\ pr.state = "merged"
    BY <2>1, JobEnds DEF TypeOK, Places, TaskState
  <2>2. CASE ~(issue = "review" /\ pr.state = "merged")
    <3>1. job' \in Job /\ job'.kind \in {"merge", "none"} /\ job'.step \in {"ci", "collect"}
      BY <2>2, IdleIsJob DEF TypeOK, Idle, Job, JobKind, JobStep
    <3>2. TypeOK'
      BY <2>2, <3>1 DEF TypeOK
    <3> QED
      BY <2>2, <3>1, <3>2 DEF Places
  <2> QED
    BY <2>1, <2>2
<1>2. CASE EvaluateCI
  <2> USE <1>2 DEF EvaluateCI, branchVars
  <2>1. job \in Job /\ job.head \in Commit \cup {NoCommit} /\ job.kind = "merge"
    BY DEF TypeOK, Job, At
  <2>2. job' \in Job /\ job'.kind \in {"merge", "none"} /\ job'.step \in {"merge", "collect"}
    <3>1. CASE job' = [job EXCEPT !.step = "merge"]
      BY <2>1, <3>1 DEF Job, JobStep
    <3>2. CASE job' = [Idle EXCEPT !.step = "collect"]
      BY <3>2 DEF Idle, Job, JobKind, JobStep, Verdict3
    <3> QED
      BY <3>1, <3>2
  <2>3. TypeOK'
    BY <2>1, <2>2 DEF TypeOK
  <2> QED
    BY <2>2, <2>3 DEF Places
<1>3. CASE Merge
  <2>1. /\ End("done") \/ End(issue)
        /\ Fault \/ NoFault
        /\ checked' = NoCommit /\ landed' \in {landed, origin}
        /\ pr' = pr \/ (pr.state = "open" /\ pr' = [pr EXCEPT !.state = "merged"])
        /\ UNCHANGED <<branchVars, comments, resumes, agents, edits>>
    BY <1>3 DEF Merge, Mergeable
  <2>2. /\ pr' \in [state : PRState, ready : BOOLEAN, planned : BOOLEAN, barred : BOOLEAN]
        /\ pr'.state # "none" => origin # NoCommit
    BY <2>1 DEF TypeOK, Places, PRState
  <2>3. issue \in TaskState /\ "done" \in TaskState
    BY DEF TypeOK, TaskState
  <2> QED
    BY <2>1, <2>2, <2>3, FaultCounts, JobEnds DEF TypeOK, branchVars
<1> QED
  BY <1>1, <1>2, <1>3

\* The Job a candidate starts.
LEMMA BeginMoves ==
  ASSUME TypeOK, NEW kind \in {"implement", "rework", "review"}, NEW request \in Nat,
         Begin(kind, request)
  PROVE  /\ job' \in Job /\ job'.kind = kind /\ job'.step = "prepare"
         /\ job'.comment = request
         /\ job'.head = IF pr.state = "open" THEN origin ELSE NoCommit
<1>1. job' = [kind |-> kind, step |-> "prepare",
              head |-> IF pr.state = "open" THEN origin ELSE NoCommit,
              comment |-> request, verdict |-> "none", commit |-> FALSE]
  BY DEF Begin, Idle
<1> QED
  BY <1>1 DEF TypeOK, Job, JobKind, JobStep, Verdict3

LEMMA CollectKeepsTypeInv == TypeInv /\ Collect => TypeInv'
<1> SUFFICES ASSUME TypeInv, Collect PROVE TypeInv'
  OBVIOUS
<1> USE DEF TypeInv
<1>1. /\ checked' = NoCommit
      /\ UNCHANGED <<branchVars, pr, comments, resumes, landed, agents, edits, faults>>
  BY DEF Collect
<1>2. ASSUME NEW kind \in {"implement", "rework", "review"}, NEW request \in Nat,
             Begin(kind, request), issue' \in {issue, "working"},
             kind = "rework" => request \in DOMAIN comments,
             kind # "review" => made < MaxChanges
      PROVE  TypeInv'
  <2>1. TypeOK'
    BY <1>1, <1>2, BeginMoves DEF TypeOK, TaskState, branchVars
  <2>2. Places'
    BY <1>1, <1>2, BeginMoves DEF Places, branchVars
  <2> QED
    BY <2>1, <2>2
<1>3. ASSUME NEW to \in {issue, "manual-action"}, End(to)
      PROVE  TypeInv'
  BY <1>1, <1>3, JobEnds DEF TypeOK, Places, TaskState, branchVars
<1>4. Unprocessed \subseteq DOMAIN comments /\ DOMAIN comments \subseteq Nat
  BY LenProperties DEF Unprocessed, TypeOK
<1> QED
  BY <1>2, <1>3, <1>4 DEF Collect

\* A step that goes on and leaves the rest well typed.
LEMMA JobGoes ==
  ASSUME TypeInv, NEW step \in JobStep,
         job' \in Job, job'.step = step, job'.kind = job.kind, job'.comment = job.comment,
         issue' \in TaskState,
         UNCHANGED <<main, conflict, agents, edits, resumes, landed, checked>>,
         made' \in 0..MaxChanges,
         faults' \in 0..MaxFaults,
         origin' \in Commit \cup {NoCommit}, local' \in Commit \cup {NoCommit},
         pr'.state # "none" => origin' # NoCommit,
         worktree' \in Worktree,
         pr' \in [state : PRState, ready : BOOLEAN, planned : BOOLEAN, barred : BOOLEAN],
         comments' \in Seq(Comment), DOMAIN comments \subseteq DOMAIN comments',
         step \in {"lease", "claim", "agent", "deliver", "push"} => local' # NoCommit,
         step = "announce" => origin' # NoCommit,
         step # "prepare",
         step \in {"lease", "deliver"} => job.kind \in {"implement", "rework"},
         job.kind \in {"implement", "rework"} /\
           step \in {"prepare", "lease", "claim", "agent", "deliver"} => made' < MaxChanges
  PROVE  TypeInv'
<1>1. TypeOK'
  BY DEF TypeInv, TypeOK
<1>2. Places'
  BY DEF TypeInv, Places
<1> QED
  BY <1>1, <1>2 DEF TypeInv

LEMMA RefuseEnds ==
  ASSUME TypeOK, Refuse
  PROVE  \E to \in TaskState : End(to)
BY DEF TypeOK, Refuse, TaskState

LEMMA PrepareKeepsTypeInv ==
  TypeInv /\ (FetchFails \/ PrepareBootstrap \/ PreparePR) => TypeInv'
<1> SUFFICES ASSUME TypeInv, FetchFails \/ PrepareBootstrap \/ PreparePR PROVE TypeInv'
  OBVIOUS
<1> USE DEF TypeInv
<1>1. CASE FetchFails
  BY <1>1, FaultCounts, RefuseEnds, JobEnds DEF FetchFails, TypeOK, Places, branchVars
<1>2. CASE PrepareBootstrap
  <2>1. /\ job.step = "prepare" /\ job.kind = "implement"
        /\ UNCHANGED <<main, conflict, origin, made>>
        /\ UNCHANGED <<pr, comments, resumes, landed, checked, agents, edits, faults>>
    BY <1>2 DEF PrepareBootstrap, Bootstrapped, At, auxVars
  <2>2. /\ local' \in Commit /\ local' # NoCommit
        /\ worktree' \in Worktree
    <3>1. [work |-> {}, base |-> main] \in Commit /\ NoCommit \notin Commit
      BY TaskBranchAssumption DEF TypeOK, Commit
    <3> QED
      BY <1>2, <3>1 DEF PrepareBootstrap, Bootstrapped, TypeOK, Worktree
  <2>3. CASE End("manual-action")
    BY <2>1, <2>2, <2>3, JobEnds DEF TypeOK, Places, TaskState
  <2>4. CASE Go("agent")
    BY <2>1, <2>2, <2>4, GoMoves, JobGoes DEF TypeOK, Places, JobStep
  <2> QED
    BY <1>2, <2>3, <2>4 DEF PrepareBootstrap
<1>3. CASE PreparePR
  <2>1. /\ job.step = "prepare" /\ job.head # NoCommit
        /\ UNCHANGED <<main, conflict, origin, made>>
        /\ UNCHANGED <<pr, comments, resumes, landed, checked, agents, edits, faults>>
    BY <1>3 DEF PreparePR, auxVars
  <2>2. worktree' \in Worktree
    BY <1>3 DEF PreparePR, CheckedOut, TypeOK, Worktree
  <2>3. CASE CheckedOut(LocalTip) /\ Refuse
    BY <2>1, <2>2, <2>3, LocalTipIsCommit, RefuseEnds, JobEnds DEF CheckedOut, TypeOK, Places
  <2>4. CASE /\ origin = job.head
             /\ job.kind = "review" \/ LocalTip.base = main
             /\ CheckedOut(LocalTip) /\ Go(IF job.kind = "implement" THEN "agent" ELSE "claim")
    <3>1. PICK step \in {"agent", "claim"} : Go(step)
      BY <2>4
    <3>2. local' \in Commit \cup {NoCommit} /\ local' # NoCommit
      BY <2>1, <2>4, LocalTipIsCommit DEF CheckedOut
    <3> QED
      BY <2>1, <2>2, <3>1, <3>2, GoMoves, JobGoes DEF TypeOK, Places, JobStep
  <2>5. CASE /\ origin = job.head /\ job.kind # "review"
             /\ CheckedOut([LocalTip EXCEPT !.base = main]) /\ Go("lease")
    <3>1. LocalTip \in Commit /\ main \in 0..MaxBase
      BY <2>1, <2>5, LocalTipIsCommit DEF TypeOK
    <3>2. [LocalTip EXCEPT !.base = main] \in Commit
      BY <3>1 DEF Commit
    <3>3. local' \in Commit /\ local' # NoCommit
      BY <2>5, <3>2, TaskBranchAssumption DEF CheckedOut
    <3>4. job.kind \in {"implement", "rework"}
      BY <2>1, <2>5 DEF Places
    <3> QED
      BY <2>1, <2>2, <2>5, <3>3, <3>4, GoMoves, JobGoes DEF TypeOK, Places, JobStep
  <2> QED
    BY <1>3, <2>3, <2>4, <2>5 DEF PreparePR
<1> QED
  BY <1>1, <1>2, <1>3

LEMMA PushRebasedKeepsTypeInv == TypeInv /\ PushRebased => TypeInv'
<1> SUFFICES ASSUME TypeInv, PushRebased PROVE TypeInv'
  OBVIOUS
<1> USE DEF TypeInv
<1>1. /\ job.step = "lease" /\ local # NoCommit
      /\ UNCHANGED <<pr, comments, resumes, landed, checked, agents, edits>>
      /\ faults' \in 0..MaxFaults
  BY FaultCounts DEF PushRebased, Places
<1>2. CASE PushedWithLease(job.head) /\ Go(IF job.kind = "implement" THEN "agent" ELSE "claim")
  <2>1. PICK step \in {"agent", "claim"} : Go(step)
    BY <1>2
  <2> QED
    BY <1>1, <1>2, <2>1, GoMoves, JobGoes DEF PushedWithLease, TypeOK, Places, JobStep
<1>3. CASE Refuse /\ (UNCHANGED branchVars \/ PushedWithLease(job.head))
  BY <1>1, <1>3, RefuseEnds, JobEnds DEF branchVars, PushedWithLease, TypeOK, Places
<1> QED
  BY <1>2, <1>3 DEF PushRebased

\* The comments after the "processed" reaction.
LEMMA ProcessedIsComments ==
  ASSUME TypeOK, job.comment \in DOMAIN comments
  PROVE  Processed \in Seq(Comment) /\ DOMAIN Processed = DOMAIN comments
<1>1. comments \in Seq(Comment) /\ comments[job.comment] \in Comment
  BY ElementOfSeq, LenProperties DEF TypeOK
<1>2. [comments[job.comment] EXCEPT !.eyes = TRUE] \in Comment
  BY <1>1 DEF Comment
<1> QED
  BY <1>1, <1>2, ExceptSeq DEF Processed

LEMMA AgentStepsKeepTypeInv ==
  TypeInv /\ (ClaimRework \/ RunImplementer \/ VerificationFails) => TypeInv'
<1> SUFFICES ASSUME TypeInv, ClaimRework \/ RunImplementer \/ VerificationFails PROVE TypeInv'
  OBVIOUS
<1> USE DEF TypeInv
<1>1. CASE ClaimRework
  <2>1. /\ job \in Job /\ job.step = "claim" /\ job.kind = "rework"
        /\ UNCHANGED <<branchVars, pr, comments, resumes, auxVars>>
    BY <1>1 DEF ClaimRework, At, TypeOK
  <2>2. CASE issue' = "working" /\ job' = [job EXCEPT !.step = "agent"]
    <3>1. /\ job' \in Job /\ job'.step = "agent" /\ job'.kind = job.kind
          /\ job'.comment = job.comment
      BY <2>1, <2>2 DEF Job, JobStep
    <3> QED
      BY <2>1, <2>2, <3>1, JobGoes
         DEF TypeOK, Places, JobStep, TaskState, branchVars, auxVars
  <2>3. CASE End("manual-action")
    BY <2>1, <2>3, JobEnds DEF TypeOK, Places, TaskState, branchVars, auxVars
  <2> QED
    BY <1>1, <2>2, <2>3 DEF ClaimRework
<1>2. CASE RunImplementer
  <2>1. /\ job.step = "agent" /\ job.kind \in {"implement", "rework"}
        /\ worktree' \in Worktree
        /\ UNCHANGED <<main, conflict, origin, local, made, pr, comments,
                      landed, checked, agents, edits>>
    BY <1>2 DEF RunImplementer, TypeOK, Worktree
  <2>2. PICK outcome \in AgentOutcomes :
          CASE TransitionFor(outcome) = "delivery" -> Go("deliver") /\ NoFault /\ UNCHANGED resumes
            [] TransitionFor(outcome) = "resume" /\ job.kind = "implement" ->
                 /\ End("ready")
                 /\ \/ /\ resumes' = IF resumes < ResumeAttemptLimit THEN resumes + 1 ELSE resumes
                       /\ NoFault
                    \/ UNCHANGED resumes /\ Fault
            [] TransitionFor(outcome) = "resume" /\ job.kind = "rework" ->
                 End("blocked") /\ NoFault /\ UNCHANGED resumes
            [] OTHER -> End(TransitionFor(outcome)) /\ NoFault /\ UNCHANGED resumes
    BY <1>2 DEF RunImplementer
  <2>3. \/ Go("deliver") /\ NoFault /\ UNCHANGED resumes
        \/ /\ End("ready") /\ (NoFault \/ Fault)
           /\ resumes' = resumes \/ (resumes < ResumeAttemptLimit /\ resumes' = resumes + 1)
        \/ \E to \in {"blocked", "manual-action"} : End(to) /\ NoFault /\ UNCHANGED resumes
    BY <2>1, <2>2, OutcomeTargets
  <2>4. CASE Go("deliver") /\ NoFault /\ UNCHANGED resumes
    BY <2>1, <2>4, GoMoves, JobGoes DEF TypeOK, Places, JobStep, NoFault
  <2>5. ASSUME NEW to \in TaskState, End(to), NoFault \/ Fault,
               resumes' = resumes \/ (resumes < ResumeAttemptLimit /\ resumes' = resumes + 1)
        PROVE  TypeInv'
    <3>1. resumes' \in 0..ResumeAttemptLimit
      BY <2>5, ReviewCycleAssumption DEF TypeOK
    <3> QED
      BY <2>1, <2>5, <3>1, FaultCounts, JobEnds DEF TypeOK, Places
  <2> QED
    BY <2>3, <2>4, <2>5 DEF TaskState
<1>3. CASE VerificationFails
  <2>1. PICK to \in TaskState : End(to)
    BY <1>3 DEF VerificationFails, TaskState
  <2> QED
    BY <1>3, <2>1, JobEnds DEF VerificationFails, TypeOK, Places, branchVars, auxVars
<1> QED
  BY <1>1, <1>2, <1>3

LEMMA CommitChangesKeepsTypeInv == TypeInv /\ CommitChanges => TypeInv'
<1> SUFFICES ASSUME TypeInv, CommitChanges PROVE TypeInv'
  OBVIOUS
<1> USE DEF TypeInv
<1>1. /\ job.step = "deliver" /\ job.kind \in {"implement", "rework"} /\ made < MaxChanges
      /\ local \in Commit /\ made' = made + 1
      /\ local' = [local EXCEPT !.work = @ \cup {made + 1}]
      /\ worktree' = "clean" /\ agents' = agents \cup {made'}
      /\ UNCHANGED <<main, conflict, origin, pr, comments, resumes, landed, checked, edits, faults>>
  BY DEF CommitChanges, Committed, Places, TypeOK
<1>2. /\ job' \in Job /\ issue' = issue /\ job'.step = "push" /\ job'.kind = job.kind
      /\ job'.comment = job.comment
  BY GoMoves DEF CommitChanges, JobStep
<1>3. made' \in 0..MaxChanges /\ made' \in Change
  BY <1>1, TaskBranchAssumption DEF TypeOK, Change
<1>4. local' \in Commit /\ local' # NoCommit
  BY <1>1, <1>3, TaskBranchAssumption DEF Commit
<1>5. TypeOK'
  BY <1>1, <1>2, <1>3, <1>4 DEF TypeOK, Worktree
<1>6. Places'
  BY <1>1, <1>2, <1>4 DEF Places
<1> QED
  BY <1>5, <1>6

LEMMA DeliverKeepsTypeInv ==
  TypeInv /\ (NothingToCommit \/ Push \/ Announce \/ HandOver) => TypeInv'
<1> SUFFICES ASSUME TypeInv, NothingToCommit \/ Push \/ Announce \/ HandOver PROVE TypeInv'
  OBVIOUS
<1> USE DEF TypeInv
<1>1. CASE NothingToCommit
  <2>1. /\ UNCHANGED <<branchVars, pr, resumes, landed, checked, agents, edits>>
        /\ Fault \/ NoFault
        /\ \E to \in {"review", "blocked", "manual-action"} : End(to)
        /\ comments' = comments \/ (job.kind = "rework" /\ comments' = Processed)
    BY <1>1 DEF NothingToCommit
  <2>2. comments' \in Seq(Comment)
    BY <2>1, ProcessedIsComments DEF TypeOK, Places
  <2> QED
    BY <2>1, <2>2, FaultCounts, JobEnds DEF TypeOK, Places, TaskState, branchVars
<1>2. CASE Push
  <2>1. /\ job.step = "push" /\ local # NoCommit
        /\ UNCHANGED <<pr, comments, resumes, landed, checked, agents, edits>>
        /\ faults' \in 0..MaxFaults
    BY <1>2, FaultCounts DEF Push, Places
  <2>2. CASE Pushed /\ Go("announce")
    BY <2>1, <2>2, GoMoves, JobGoes DEF Pushed, TypeOK, Places, JobStep
  <2>3. CASE End("blocked") /\ (UNCHANGED branchVars \/ Pushed)
    BY <2>1, <2>3, JobEnds DEF Pushed, TypeOK, Places, TaskState, branchVars
  <2> QED
    BY <1>2, <2>2, <2>3 DEF Push
<1>3. CASE Announce
  <2>1. /\ job.step = "announce" /\ origin # NoCommit
        /\ UNCHANGED <<branchVars, resumes, landed, checked, agents, edits>>
        /\ faults' \in 0..MaxFaults
        /\ Go("hand-over") \/ End("blocked")
    BY <1>3, FaultCounts DEF Announce, Places
  <2>2. /\ comments' \in Seq(Comment) /\ DOMAIN comments' = DOMAIN comments
        /\ pr' \in {pr, [pr EXCEPT !.state = IF @ = "none" THEN "open" ELSE @]}
    BY <1>3, ProcessedIsComments DEF Announce, TypeOK, Places
  <2>3. pr' \in [state : PRState, ready : BOOLEAN, planned : BOOLEAN, barred : BOOLEAN]
    BY <2>2 DEF TypeOK, PRState
  <2>4. CASE Go("hand-over")
    BY <2>1, <2>2, <2>3, <2>4, GoMoves, JobGoes DEF TypeOK, JobStep, branchVars
  <2>5. CASE End("blocked")
    BY <2>1, <2>2, <2>3, <2>5, JobEnds DEF TypeOK, TaskState, branchVars
  <2> QED
    BY <2>1, <2>4, <2>5
<1>4. CASE HandOver
  <2>1. PICK to \in TaskState : End(to)
    BY <1>4 DEF HandOver, TaskState
  <2> QED
    BY <1>4, <2>1, FaultCounts, JobEnds DEF HandOver, TypeOK, Places, branchVars
<1> QED
  BY <1>1, <1>2, <1>3, <1>4

\* What the posting of a review adds: one or more copies of its comment.
LEMMA PostedReview ==
  ASSUME TypeInv, PostReview
  PROVE  /\ comments' \in Seq(Comment)
         /\ DOMAIN comments \subseteq DOMAIN comments'
         /\ \A n \in DOMAIN comments : comments'[n] = comments[n]
         /\ \A n \in DOMAIN comments' \ DOMAIN comments : comments'[n] = ReviewComment
<1>1. PICK k \in 0..RequestAttempts : comments' = comments \o Copies(k)
  BY DEF PostReview
<1>2. k \in Nat
  BY <1>1, ReviewCycleAssumption
<1>3. comments \in Seq(Comment) /\ ReviewComment \in Comment
  BY DEF TypeInv, TypeOK, ReviewComment, Comment, Job
<1>4. /\ Copies(k) \in Seq(Comment) /\ Len(Copies(k)) = k
      /\ \A n \in 1..k : Copies(k)[n] = ReviewComment
  BY <1>2, <1>3 DEF Copies
<1>5. /\ comments' \in Seq(Comment) /\ Len(comments') = Len(comments) + k
      /\ \A n \in 1..(Len(comments) + k) :
           comments'[n] = IF n <= Len(comments) THEN comments[n] ELSE Copies(k)[n - Len(comments)]
  BY <1>1, <1>3, <1>4, ConcatProperties
<1>6. /\ DOMAIN comments = 1..Len(comments) /\ Len(comments) \in Nat
      /\ DOMAIN comments' = 1..(Len(comments) + k)
  BY <1>3, <1>5, LenProperties
<1>7. \A n \in DOMAIN comments : comments'[n] = comments[n]
  BY <1>2, <1>5, <1>6
<1>8. \A n \in DOMAIN comments' \ DOMAIN comments : comments'[n] = ReviewComment
  <2> SUFFICES ASSUME NEW n \in DOMAIN comments' \ DOMAIN comments
               PROVE  comments'[n] = ReviewComment
    OBVIOUS
  <2>1. n \in 1..(Len(comments) + k) /\ ~(n <= Len(comments)) /\ n - Len(comments) \in 1..k
    BY <1>2, <1>6
  <2> QED
    BY <1>4, <1>5, <2>1
<1>9. DOMAIN comments \subseteq DOMAIN comments'
  BY <1>2, <1>6
<1> QED
  BY <1>5, <1>7, <1>8, <1>9

LEMMA ReviewKeepsTypeInv ==
  TypeInv /\ (ClaimReview \/ RunReviewer \/ PostReview \/ Gate \/ LabelReady) => TypeInv'
<1> SUFFICES ASSUME TypeInv, ClaimReview \/ RunReviewer \/ PostReview \/ Gate \/ LabelReady
             PROVE  TypeInv'
  OBVIOUS
<1> USE DEF TypeInv
<1>1. CASE ClaimReview
  <2>1. /\ job \in Job /\ job.step = "claim" /\ job.kind = "review"
        /\ UNCHANGED <<branchVars, pr, comments, resumes, auxVars>>
    BY <1>1 DEF ClaimReview, At, TypeOK
  <2>2. CASE issue' = "working" /\ job' = [job EXCEPT !.step = "agent"]
    <3>1. /\ job' \in Job /\ job'.step = "agent" /\ job'.kind = job.kind
          /\ job'.comment = job.comment
      BY <2>1, <2>2 DEF Job, JobStep
    <3> QED
      BY <2>1, <2>2, <3>1, JobGoes
         DEF TypeOK, Places, JobStep, TaskState, branchVars, auxVars
  <2>3. CASE End("manual-action")
    BY <2>1, <2>3, JobEnds DEF TypeOK, Places, TaskState, branchVars, auxVars
  <2> QED
    BY <1>1, <2>2, <2>3 DEF ClaimReview
<1>2. CASE RunReviewer
  <2>1. /\ job \in Job /\ job.step = "agent" /\ job.kind = "review"
        /\ UNCHANGED <<branchVars, pr, comments, resumes, auxVars>>
    BY <1>2 DEF RunReviewer, At, TypeOK
  <2>2. ASSUME NEW v \in Verdict3, NEW byCommit \in BOOLEAN, UNCHANGED issue,
               job' = [job EXCEPT !.step = "post", !.verdict = v, !.commit = byCommit]
        PROVE  TypeInv'
    <3>1. job' = [kind |-> job.kind, step |-> "post", head |-> job.head,
                  comment |-> job.comment, verdict |-> v, commit |-> byCommit]
      BY <2>1, <2>2 DEF Job
    <3>2. /\ job' \in Job /\ job'.step = "post" /\ job'.kind = job.kind
          /\ job'.comment = job.comment
      BY <2>1, <3>1 DEF Job, JobStep
    <3> QED
      BY <2>1, <2>2, <3>2, JobGoes DEF TypeOK, Places, JobStep, branchVars, auxVars
  <2>3. ASSUME NEW to \in {"blocked", "manual-action"}, End(to)
        PROVE  TypeInv'
    BY <2>1, <2>3, JobEnds DEF TypeOK, Places, TaskState, branchVars, auxVars
  <2> QED
    BY <1>2, <2>2, <2>3 DEF RunReviewer
<1>3. CASE PostReview
  <2>1. /\ job \in Job /\ job.step = "post" /\ job.kind = "review"
        /\ UNCHANGED <<branchVars, pr, resumes, landed, checked, agents, edits>>
        /\ faults' \in 0..MaxFaults
        /\ Go("gate") \/ End("blocked")
    BY <1>3, FaultCounts DEF PostReview, At, TypeOK
  <2>3. comments' \in Seq(Comment) /\ DOMAIN comments \subseteq DOMAIN comments'
    BY <1>3, PostedReview
  <2>4. CASE Go("gate")
    BY <2>1, <2>3, <2>4, GoMoves, JobGoes DEF TypeOK, Places, JobStep, branchVars
  <2>5. CASE End("blocked")
    BY <2>1, <2>3, <2>5, JobEnds DEF TypeOK, Places, TaskState, branchVars
  <2> QED
    BY <2>1, <2>4, <2>5
<1>4. CASE Gate
  <2>1. /\ UNCHANGED <<branchVars, pr, comments, resumes, landed, checked, agents, edits>>
        /\ faults' \in 0..MaxFaults
        /\ job.kind = "review"
        /\ Go("label") \/ \E to \in {"rework", "manual-action", "blocked"} : End(to)
    BY <1>4, FaultCounts DEF Gate, At
  <2>2. CASE Go("label")
    BY <2>1, <2>2, GoMoves, JobGoes DEF TypeOK, Places, JobStep, branchVars
  <2>3. ASSUME NEW to \in {"rework", "manual-action", "blocked"}, End(to)
        PROVE  TypeInv'
    BY <2>1, <2>3, JobEnds DEF TypeOK, Places, TaskState, branchVars
  <2> QED
    BY <2>1, <2>2, <2>3
<1>5. CASE LabelReady
  <2>1. /\ UNCHANGED <<branchVars, comments, resumes, landed, checked, agents, edits>>
        /\ faults' \in 0..MaxFaults
        /\ job.kind = "review"
        /\ pr' \in {pr, [pr EXCEPT !.ready = TRUE]}
        /\ Go("hand-over") \/ End("blocked")
    BY <1>5, FaultCounts DEF LabelReady, At
  <2>2. pr' \in [state : PRState, ready : BOOLEAN, planned : BOOLEAN, barred : BOOLEAN] /\ pr'.state = pr.state
    BY <2>1 DEF TypeOK
  <2>3. CASE Go("hand-over")
    BY <2>1, <2>2, <2>3, GoMoves, JobGoes DEF TypeOK, Places, JobStep, branchVars
  <2>4. CASE End("blocked")
    BY <2>1, <2>2, <2>4, JobEnds DEF TypeOK, Places, TaskState, branchVars
  <2> QED
    BY <2>1, <2>3, <2>4
<1> QED
  BY <1>1, <1>2, <1>3, <1>4, <1>5

LEMMA PeopleKeepTypeInv == TypeInv /\ (Restart \/ People) => TypeInv'
<1> SUFFICES ASSUME TypeInv, Restart \/ People PROVE TypeInv'
  OBVIOUS
<1> USE ReviewCycleAssumption, TaskBranchAssumption DEF TypeInv
<1>1. CASE Restart
  <2>1. PICK to \in TaskState : End(to)
    BY <1>1 DEF Restart, TypeOK, TaskState
  <2> QED
    BY <1>1, <2>1, FaultCounts, JobEnds DEF Restart, TypeOK, Places, branchVars
<1>2. CASE PersonPushes
  <2>1. /\ origin \in Commit /\ made + 1 < MaxChanges /\ made' = made + 1
        /\ origin' = [origin EXCEPT !.work = @ \cup {made + 1}]
        /\ edits' \in 0..MaxEdits
        /\ UNCHANGED <<main, conflict, local, worktree, issue, pr, comments, resumes, job,
                      landed, checked, agents, faults>>
    BY <1>2 DEF PersonPushes, Act, TypeOK, Places
  <2>2. made' \in 0..MaxChanges /\ made' < MaxChanges /\ made + 1 \in Change
    BY <2>1 DEF TypeOK, Change
  <2>3. origin' \in Commit /\ origin' # NoCommit
    BY <2>1, <2>2 DEF Commit
  <2>4. TypeOK'
    BY <2>1, <2>2, <2>3 DEF TypeOK
  <2> QED
    BY <2>1, <2>2, <2>3, <2>4 DEF Places
<1>3. CASE PersonRequests
  <2>1. PICK byCommit \in BOOLEAN :
          comments' = Append(comments,
            [verdict |-> "none", head |-> NoCommit, tree |-> NoCommit,
             mention |-> TRUE, commit |-> byCommit, eyes |-> FALSE])
    BY <1>3 DEF PersonRequests
  <2>2. [verdict |-> "none", head |-> NoCommit, tree |-> NoCommit,
         mention |-> TRUE, commit |-> byCommit, eyes |-> FALSE] \in Comment
    BY DEF Comment, Verdict3
  <2>3. comments' \in Seq(Comment) /\ DOMAIN comments \subseteq DOMAIN comments'
    BY <2>1, <2>2, AppendProperties, LenProperties DEF TypeOK
  <2>4. /\ edits' \in 0..MaxEdits
        /\ UNCHANGED <<branchVars, issue, pr, resumes, job, landed, checked, agents, faults>>
    BY <1>3 DEF PersonRequests, Act, TypeOK
  <2> QED
    BY <2>3, <2>4 DEF TypeOK, Places, branchVars
<1>4. CASE PersonMoves \/ OperatorResumes
  BY <1>4 DEF PersonMoves, OperatorResumes, Act, TypeOK, Places, TaskState, branchVars
<1>5. CASE PersonMerges
  <2>1. /\ pr' = [pr EXCEPT !.state = "merged"] /\ pr.state = "open"
        /\ landed' = origin /\ edits' \in 0..MaxEdits
        /\ UNCHANGED <<branchVars, issue, comments, resumes, job, checked, agents, faults>>
    BY <1>5 DEF PersonMerges, Act, TypeOK
  <2>2. pr' \in [state : PRState, ready : BOOLEAN, planned : BOOLEAN, barred : BOOLEAN] /\ origin # NoCommit
    BY <2>1 DEF TypeOK, PRState, Places
  <2> QED
    BY <2>1, <2>2 DEF TypeOK, Places, branchVars
<1>6. CASE OperatorCleansUp
  BY <1>6 DEF OperatorCleansUp, Act, TypeOK, Places, Worktree
<1>7. CASE MainAdvances
  <2>1. main' \in 0..MaxBase
    BY <1>7 DEF MainAdvances, TypeOK
  <2>2. conflict' \in BOOLEAN
    <3>1. conflict \in BOOLEAN /\ conflict' \in {conflict, TRUE}
      BY <1>7 DEF MainAdvances, TypeOK
    <3> QED
      BY <3>1, Zenon
  <2>3. UNCHANGED <<origin, local, worktree, made, issue, pr, comments, resumes, job, landed,
                    checked, agents, edits, faults>>
    BY <1>7 DEF MainAdvances, auxVars
  <2> QED
    BY <2>1, <2>2, <2>3 DEF TypeOK, Places
<1> QED
  BY <1>1, <1>2, <1>3, <1>4, <1>5, <1>6, <1>7 DEF People

LEMMA NextKeepsTypeInv == TypeInv /\ [Next]_vars => TypeInv'
<1> SUFFICES ASSUME TypeInv, [Next]_vars PROVE TypeInv'
  OBVIOUS
<1>1. CASE Daemon
  BY <1>1, CycleKeepsTypeInv, CollectKeepsTypeInv, PrepareKeepsTypeInv, PushRebasedKeepsTypeInv,
     AgentStepsKeepTypeInv, CommitChangesKeepsTypeInv, DeliverKeepsTypeInv, ReviewKeepsTypeInv
     DEF Daemon
<1>2. CASE Restart \/ People
  BY <1>2, PeopleKeepTypeInv
<1>3. CASE UNCHANGED vars
  BY <1>3 DEF vars, branchVars, prVars, auxVars, TypeInv, TypeOK, Places
<1> QED
  BY <1>1, <1>2, <1>3 DEF Next

\* In every reachable state the Job of the cycle has the commits, the request and the room
\* its step needs.
THEOREM ReviewTypeInvariance == Spec => []TypeInv
<1> QED
  BY InitTypeInv, NextKeepsTypeInv, PTL DEF Spec

\* Every variable has its type.
THEOREM ReviewTypeCorrect == Spec => []TypeOK
<1>1. TypeInv => TypeOK
  BY DEF TypeInv
<1> QED
  BY <1>1, ReviewTypeInvariance, PTL

-------------------------------------------------------------------------------
(* The work of agents. *)

\* What a step does to the local branch: nothing, a checkout or rebase that keeps its
\* changes, or an agent's commit.
LEMMA LocalSteps ==
  ASSUME TypeInv, [Next]_vars
  PROVE  \/ /\ agents' = agents
            /\ local # NoCommit => local' # NoCommit /\ local'.work = local.work
         \/ CommitChanges
<1> USE DEF TypeInv
<1>1. CASE PrepareBootstrap
  BY <1>1 DEF PrepareBootstrap, Bootstrapped, auxVars
<1>2. CASE PreparePR
  <2>1. CASE CheckedOut(LocalTip)
    BY <1>2, <2>1 DEF PreparePR, CheckedOut, LocalTip, auxVars
  <2>2. CASE CheckedOut([LocalTip EXCEPT !.base = main])
    <3>1. agents' = agents /\ local' = [LocalTip EXCEPT !.base = main]
      BY <1>2, <2>2 DEF PreparePR, CheckedOut, auxVars
    <3>2. ASSUME local # NoCommit
          PROVE  local' # NoCommit /\ local'.work = local.work
      <4>1. local \in Commit /\ LocalTip = local /\ main \in 0..MaxBase
        BY <3>2 DEF LocalTip, TypeOK
      <4>2. local' \in Commit /\ local'.work = local.work
        BY <3>1, <4>1 DEF Commit
      <4> QED
        BY <4>2, TaskBranchAssumption
    <3> QED
      BY <3>1, <3>2
  <2> QED
    BY <1>2, <2>1, <2>2 DEF PreparePR
<1>3. CASE \/ BeginCycle \/ EvaluateCI \/ Merge \/ Collect \/ FetchFails \/ PushRebased
           \/ ClaimRework \/ RunImplementer \/ VerificationFails \/ NothingToCommit
           \/ Push \/ Announce \/ HandOver
           \/ ClaimReview \/ RunReviewer \/ PostReview \/ Gate \/ LabelReady
  BY <1>3 DEF BeginCycle, EvaluateCI, Merge, Collect, FetchFails, PushRebased, PushedWithLease,
     ClaimRework, RunImplementer, VerificationFails, NothingToCommit, Push, Pushed, Announce,
     HandOver, ClaimReview, RunReviewer, PostReview, Gate, LabelReady, branchVars, auxVars
<1>4. CASE Restart \/ People \/ UNCHANGED vars
  BY <1>4 DEF Restart, People, PersonPushes, PersonRequests, PersonMoves,
     OperatorResumes, PersonMerges,
     OperatorCleansUp, MainAdvances, vars, branchVars, auxVars
<1> QED
  BY <1>1, <1>2, <1>3, <1>4 DEF Next, Daemon

LEMMA AgentWorkIsKept ==
  TypeInv /\ AgentWorkSurvives /\ [Next]_vars => AgentWorkSurvives'
<1> SUFFICES ASSUME TypeInv, AgentWorkSurvives, [Next]_vars PROVE AgentWorkSurvives'
  OBVIOUS
<1>1. CASE CommitChanges
  <2>1. /\ local \in Commit /\ local' = [local EXCEPT !.work = @ \cup {made + 1}]
        /\ agents' = agents \cup {made + 1} /\ made \in 0..MaxChanges /\ made < MaxChanges
    BY <1>1 DEF CommitChanges, Committed, TypeInv, TypeOK, Places
  <2>2. made + 1 \in Change
    BY <2>1, TaskBranchAssumption DEF Change
  <2>3. local' \in Commit /\ local'.work = local.work \cup {made + 1}
    BY <2>1, <2>2 DEF Commit
  <2> QED
    BY <2>1, <2>3, TaskBranchAssumption DEF AgentWorkSurvives
<1> QED
  BY <1>1, LocalSteps DEF AgentWorkSurvives

\* The local branch keeps every commit of an agent: no rebase, failed push, merge or restart
\* loses it.
THEOREM ReviewAgentWorkSurvives == Spec => []AgentWorkSurvives
<1>1. Init => AgentWorkSurvives
  BY DEF Init, AgentWorkSurvives
<1> QED
  BY <1>1, ReviewTypeInvariance, AgentWorkIsKept, PTL DEF Spec

-------------------------------------------------------------------------------
(* The merge. *)

MergeIsChecked == job.kind = "merge" /\ job.step = "merge" => checked = job.head

\* A green verdict leaves no source that fails or is pending.
LEMMA GreenHasNoFailure ==
  ASSUME NEW reading \in Readings, Verdict(reading) = "green"
  PROVE  \A s \in CISource : reading[s] \notin {"failing", "pending"}
BY DEF Verdict, CISource

\* The only step into the merge is the one that read the head's CI.
LEMMA MergeIsCheckedKept == TypeInv /\ MergeIsChecked /\ [Next]_vars => MergeIsChecked'
<1> SUFFICES ASSUME TypeInv, MergeIsChecked, [Next]_vars,
                    job'.kind = "merge", job'.step = "merge"
             PROVE  checked' = job'.head
  BY DEF MergeIsChecked
<1>1. CASE EvaluateCI
  <2>1. PICK reading \in Readings :
          /\ job' = IF Verdict(reading) = "green" THEN [job EXCEPT !.step = "merge"]
                    ELSE [Idle EXCEPT !.step = "collect"]
          /\ checked' = IF \A s \in CISource : reading[s] \notin {"failing", "pending"}
                        THEN job.head ELSE NoCommit
    BY <1>1 DEF EvaluateCI
  <2>2. Verdict(reading) = "green"
    BY <2>1 DEF Idle
  <2>3. job \in Job /\ job'.head = job.head
    BY <2>1, <2>2 DEF TypeInv, TypeOK, Job
  <2> QED
    BY <2>1, <2>2, <2>3, GreenHasNoFailure
<1>2. CASE UNCHANGED <<job, checked>>
  BY <1>2 DEF MergeIsChecked
<1>3. CASE /\ ~EvaluateCI /\ Daemon
  <2>1. ~End(issue) /\ \A to : ~End(to)
    BY DEF End, Idle
  <2>2. ASSUME NEW step \in JobStep \ {"merge"}, Go(step)
        PROVE  FALSE
    BY <2>2, GoMoves DEF TypeInv
  <2>3. ~Refuse
    BY <2>1 DEF Refuse
  <2>4. ~BeginCycle /\ ~Collect
    BY <2>1 DEF BeginCycle, Collect, Begin, Idle
  <2>5. ~Merge /\ ~FetchFails /\ ~VerificationFails /\ ~HandOver /\ ~NothingToCommit
    BY <2>1, <2>3 DEF Merge, FetchFails, VerificationFails, HandOver, NothingToCommit
  <2>6. ~PrepareBootstrap /\ ~PushRebased /\ ~CommitChanges /\ ~Push /\ ~Announce
    BY <2>1, <2>2, <2>3 DEF PrepareBootstrap, PushRebased, CommitChanges, Push, Announce, JobStep
  <2>7. ~PreparePR
    BY <2>2, <2>3 DEF PreparePR, JobStep
  <2>8. ~RunImplementer
    BY <2>1, <2>2 DEF RunImplementer, JobStep
  <2>9. ~PostReview /\ ~Gate /\ ~LabelReady
    BY <2>1, <2>2 DEF PostReview, Gate, LabelReady, JobStep
  <2>10. ~ClaimRework /\ ~ClaimReview /\ ~RunReviewer
    BY <2>1 DEF ClaimRework, ClaimReview, RunReviewer, TypeInv, TypeOK, Job
  <2> QED
    BY <1>3, <2>4, <2>5, <2>6, <2>7, <2>8, <2>9, <2>10 DEF Daemon
<1>4. CASE Restart
  BY <1>4 DEF Restart, End, Idle
<1>5. CASE People \/ UNCHANGED vars
  BY <1>2, <1>5 DEF People, PersonPushes, PersonRequests, PersonMoves,
     OperatorResumes, PersonMerges,
     OperatorCleansUp, MainAdvances, vars, auxVars
<1> QED
  BY <1>1, <1>3, <1>4, <1>5 DEF Next

\* What the daemon merges is the head whose CI it read as neither failing nor pending, though
\* people push between the reading and the merge.
THEOREM ReviewMergedHeadWasChecked == Spec => MergedHeadWasChecked
<1>1. Init => MergeIsChecked
  BY DEF Init, MergeIsChecked, Idle
<1>2. ASSUME TypeInv, MergeIsChecked, [Next]_vars,
             landed' # landed, job # Idle, job' = Idle
      PROVE  landed' = checked
  <2>1. CASE Merge
    BY <1>2, <2>1 DEF Merge, Mergeable, At, MergeIsChecked
  <2>2. CASE ~Merge
    BY <1>2, <2>2 DEF Next, Daemon, BeginCycle, EvaluateCI, Collect, FetchFails, PrepareBootstrap,
       PreparePR, PushRebased, ClaimRework, RunImplementer, VerificationFails, CommitChanges,
       NothingToCommit, Push, Announce, HandOver, ClaimReview, RunReviewer, PostReview, Gate,
       LabelReady, Restart, People, PersonPushes, PersonRequests, PersonMoves,
     OperatorResumes, PersonMerges,
       OperatorCleansUp, MainAdvances, vars, auxVars
  <2> QED
    BY <2>1, <2>2
<1>3. TypeInv /\ MergeIsChecked /\ [Next]_vars =>
        [landed' # landed /\ job # Idle /\ job' = Idle => landed' = checked]_vars
  BY <1>2
<1> QED
  BY <1>1, <1>3, ReviewTypeInvariance, MergeIsCheckedKept, PTL DEF Spec, MergedHeadWasChecked

-------------------------------------------------------------------------------
(* Uncommitted work. *)

LEMMA DirtyWorkSteps ==
  ASSUME TypeInv, [Next]_vars, Dirty, worktree' # "dirty"
  PROVE  \/ made' = made + 1 /\ made' \in local'.work
         \/ job = Idle /\ worktree' = "absent"
<1>1. CASE CommitChanges
  <2>1. /\ local \in Commit /\ made' = made + 1
        /\ local' = [local EXCEPT !.work = @ \cup {made + 1}]
    BY <1>1 DEF CommitChanges, Committed, TypeInv, TypeOK, Places
  <2>2. local'.work = local.work \cup {made + 1}
    BY <2>1 DEF Commit
  <2> QED
    BY <2>1, <2>2
<1>2. CASE OperatorCleansUp
  BY <1>2 DEF OperatorCleansUp
<1>3. CASE PrepareBootstrap \/ PreparePR
  BY <1>3 DEF PrepareBootstrap, Bootstrapped, PreparePR, CheckedOut, Dirty
<1>4. CASE RunImplementer
  BY <1>4 DEF RunImplementer, Dirty
<1>5. CASE \/ BeginCycle \/ EvaluateCI \/ Merge \/ Collect \/ FetchFails \/ PushRebased
           \/ ClaimRework \/ VerificationFails \/ NothingToCommit \/ Push \/ Announce
           \/ HandOver \/ ClaimReview \/ RunReviewer \/ PostReview \/ Gate \/ LabelReady
  BY <1>5 DEF BeginCycle, EvaluateCI, Merge, Collect, FetchFails, PushRebased, PushedWithLease,
     ClaimRework, VerificationFails, NothingToCommit, Push, Pushed, Announce,
     HandOver, ClaimReview, RunReviewer, PostReview, Gate, LabelReady, branchVars, Dirty
<1>6. CASE \/ Restart \/ PersonPushes \/ PersonRequests \/ PersonMoves
            \/ OperatorResumes \/ PersonMerges
           \/ MainAdvances \/ UNCHANGED vars
  BY <1>6 DEF Restart, PersonPushes, PersonRequests, PersonMoves,
     OperatorResumes, PersonMerges,
     MainAdvances, vars, branchVars, Dirty
<1> QED
  BY <1>1, <1>2, <1>3, <1>4, <1>5, <1>6 DEF Next, Daemon, People

\* Uncommitted work becomes a commit or stays in the worktree, until the operator removes it.
THEOREM ReviewDirtyWorkIsKept == Spec => DirtyWorkIsKept
<1>1. TypeInv /\ [Next]_vars =>
        [Dirty /\ worktree' # "dirty" =>
           \/ made' = made + 1 /\ made' \in local'.work
           \/ job = Idle /\ worktree' = "absent"]_vars
  BY DirtyWorkSteps
<1> QED
  BY <1>1, ReviewTypeInvariance, PTL DEF Spec, DirtyWorkIsKept

-------------------------------------------------------------------------------
(* The review markers. *)

Reviewing == {"prepare", "claim", "agent", "post"}

\* A review Job is for a head that has no marker.
HeadIsUnreviewed ==
  job.kind = "review" /\ job.step \in Reviewing => job.head # NoCommit /\ ~Reviewed(job.head)

\* There is room for one more marker when a review runs.
RoomForReview ==
  ReviewLoopLimit > 0 /\ job.kind = "review" /\ job.step \in {"agent", "post"} =>
    Cardinality(ReviewMarkers) + 1 <= ReviewLoopLimit

\* No comment is removed, and no new one is a review.
MarkersKept ==
  /\ DOMAIN comments \subseteq DOMAIN comments'
  /\ \A k \in DOMAIN comments :
       /\ comments'[k].verdict = comments[k].verdict
       /\ comments'[k].head = comments[k].head
       /\ comments'[k].tree = comments[k].tree
  /\ \A k \in DOMAIN comments' \ DOMAIN comments : comments'[k].verdict = "none"

LEMMA MarkersSame ==
  ASSUME MarkersKept
  PROVE  /\ ReviewMarkers' = ReviewMarkers
         /\ \A head : Reviewed(head)' => Reviewed(head)
BY DEF MarkersKept, ReviewMarkers, Reviewed

LEMMA ProcessedKeepsMarkers ==
  ASSUME TypeInv, job.kind = "rework", comments' = Processed
  PROVE  MarkersKept
<1>1. /\ comments \in Seq(Comment) /\ job.comment \in DOMAIN comments
      /\ \A k \in DOMAIN comments : comments[k] \in Comment
  BY ElementOfSeq, LenProperties DEF TypeInv, TypeOK, Places
<1> QED
  BY <1>1 DEF Processed, Comment, MarkersKept

\* Every step but the posting of a review keeps the markers.
LEMMA MarkerSteps ==
  ASSUME TypeInv, [Next]_vars
  PROVE  MarkersKept \/ PostReview
<1>1. CASE UNCHANGED comments
  BY <1>1 DEF MarkersKept
<1>2. CASE NothingToCommit
  BY <1>1, <1>2, ProcessedKeepsMarkers DEF NothingToCommit
<1>3. CASE Announce
  BY <1>1, <1>3, ProcessedKeepsMarkers DEF Announce
<1>4. CASE PostReview
  BY <1>4
<1>5. CASE PersonRequests
  <2>1. PICK byCommit \in BOOLEAN :
          comments' = Append(comments,
            [verdict |-> "none", head |-> NoCommit, tree |-> NoCommit,
             mention |-> TRUE, commit |-> byCommit, eyes |-> FALSE])
    BY <1>5 DEF PersonRequests
  <2>2. comments \in Seq(Comment) /\ DOMAIN comments = 1..Len(comments) /\ Len(comments) \in Nat
    BY LenProperties DEF TypeInv, TypeOK
  <2>3. [verdict |-> "none", head |-> NoCommit, tree |-> NoCommit,
         mention |-> TRUE, commit |-> byCommit, eyes |-> FALSE] \in Comment
    BY DEF Comment, Verdict3
  <2>4. /\ DOMAIN comments' = 1..(Len(comments) + 1)
        /\ \A k \in 1..Len(comments) : comments'[k] = comments[k]
        /\ comments'[Len(comments) + 1].verdict = "none"
    BY <2>1, <2>2, <2>3, AppendProperties, LenProperties
  <2> QED
    BY <2>2, <2>4 DEF MarkersKept
<1>6. CASE \/ BeginCycle \/ EvaluateCI \/ Merge \/ Collect \/ FetchFails \/ PrepareBootstrap
           \/ PreparePR \/ PushRebased \/ ClaimRework \/ RunImplementer \/ VerificationFails
           \/ CommitChanges \/ Push \/ HandOver \/ ClaimReview \/ RunReviewer \/ Gate \/ LabelReady
  BY <1>1, <1>6 DEF BeginCycle, EvaluateCI, Merge, Collect, FetchFails, PrepareBootstrap,
     PreparePR, PushRebased, ClaimRework, RunImplementer, VerificationFails, CommitChanges,
     Push, HandOver, ClaimReview, RunReviewer, Gate, LabelReady
<1>7. CASE \/ Restart \/ PersonPushes \/ PersonMoves
            \/ OperatorResumes \/ PersonMerges \/ OperatorCleansUp
           \/ MainAdvances \/ UNCHANGED vars
  BY <1>1, <1>7 DEF Restart, PersonPushes, PersonMoves,
     OperatorResumes, PersonMerges, OperatorCleansUp,
     MainAdvances, vars, prVars
<1> QED
  BY <1>2, <1>3, <1>4, <1>5, <1>6, <1>7 DEF Next, Daemon, People

\* How a review Job comes to be where it is.
LEMMA ReviewSteps ==
  ASSUME TypeInv, [Next]_vars, job'.kind = "review", job'.step \in Reviewing
  PROVE  /\ ~PostReview
         /\ \/ job' = job
            \/ /\ job'.step = "prepare" /\ pr.state = "open" /\ ~Reviewed(origin)
               /\ job'.head = origin
            \/ /\ job.kind = "review" /\ job.step \in Reviewing /\ job'.head = job.head
               /\ \/ job'.step = "claim"
                  \/ job'.step = "agent" /\ ~AttemptsUsedUp
                  \/ job.step = "agent"
<1> USE DEF TypeInv
<1>1. \A to : ~End(to)
  BY DEF End, Idle
<1>2. ASSUME NEW step \in JobStep \ Reviewing, Go(step)
      PROVE  FALSE
  BY <1>2, GoMoves
<1>3. ~Refuse
  BY <1>1 DEF Refuse
<1>4. ~BeginCycle /\ ~EvaluateCI /\ ~Merge
  BY <1>1 DEF BeginCycle, EvaluateCI, Merge, At, Idle, TypeOK, Job
<1>5. CASE Collect
  <2>1. \A kind, request : Begin(kind, request) =>
          job'.kind = kind /\ job'.step = "prepare"
            /\ job'.head = IF pr.state = "open" THEN origin ELSE NoCommit
    BY DEF Begin, Idle
  <2> QED
    BY <1>1, <1>5, <2>1 DEF Collect, PostReview, At, Reviewing
<1>6. ~FetchFails /\ ~VerificationFails /\ ~HandOver /\ ~NothingToCommit
  BY <1>1, <1>3 DEF FetchFails, VerificationFails, HandOver, NothingToCommit
<1>7. ~PushRebased
  BY <1>3, GoMoves DEF PushRebased, Places, JobStep
<1>8. ~PrepareBootstrap /\ ~RunImplementer /\ ~CommitChanges /\ ~Push /\ ~Announce
  <2>1. ~PrepareBootstrap
    BY <1>1, GoMoves DEF PrepareBootstrap, At, JobStep
  <2>2. ~RunImplementer
    BY <1>1, <1>2 DEF RunImplementer, JobStep, Reviewing
  <2>3. ~CommitChanges /\ ~Push /\ ~Announce
    BY <1>1, <1>2 DEF CommitChanges, Push, Announce, JobStep, Reviewing
  <2> QED
    BY <2>1, <2>2, <2>3
<1>9. CASE PreparePR
  <2>1. Go(IF job.kind = "implement" THEN "agent" ELSE "claim") \/ Go("lease")
    BY <1>3, <1>9 DEF PreparePR
  <2>2. ~Go("lease")
    BY <1>2 DEF JobStep, Reviewing
  <2>3. /\ job.kind = "review" /\ Go("claim") /\ job.step = "prepare"
    BY <1>9, <2>1, <2>2, GoMoves DEF JobStep, PreparePR
  <2> QED
    BY <2>3, GoMoves DEF JobStep, PostReview, At, Reviewing
<1>10. ~ClaimRework
  BY <1>1 DEF ClaimRework, At, TypeOK, Job
<1>11. ~PostReview /\ ~Gate /\ ~LabelReady
  BY <1>1, <1>2 DEF PostReview, Gate, LabelReady, JobStep, Reviewing
<1>12. CASE ClaimReview
  BY <1>1, <1>11, <1>12 DEF ClaimReview, At, TypeOK, Job, Reviewing
<1>13. CASE RunReviewer
  BY <1>1, <1>11, <1>13 DEF RunReviewer, At, TypeOK, Job, Reviewing
<1>14. ~Restart
  BY <1>1 DEF Restart
<1>15. CASE People \/ UNCHANGED vars
  BY <1>11, <1>15 DEF People, PersonPushes, PersonRequests, PersonMoves,
     OperatorResumes, PersonMerges,
     OperatorCleansUp, MainAdvances, vars
<1> QED
  BY <1>4, <1>5, <1>6, <1>7, <1>8, <1>9, <1>10, <1>11, <1>12, <1>13, <1>14, <1>15
     DEF Next, Daemon

LEMMA MarkersAreFinite ==
  ASSUME TypeInv
  PROVE  IsFiniteSet(ReviewMarkers) /\ Cardinality(ReviewMarkers) \in Nat
<1>1. ReviewMarkers \subseteq 1..Len(comments) /\ Len(comments) \in Nat
  BY LenProperties DEF TypeInv, TypeOK, ReviewMarkers
<1>2. IsFiniteSet(1..Len(comments))
  BY <1>1, FS_Interval
<1> QED
  BY <1>1, <1>2, FS_Subset, FS_CardinalityType

LEMMA HeadIsUnreviewedKept ==
  TypeInv /\ HeadIsUnreviewed /\ [Next]_vars => HeadIsUnreviewed'
<1> SUFFICES ASSUME TypeInv, HeadIsUnreviewed, [Next]_vars,
                    job'.kind = "review", job'.step \in Reviewing
             PROVE  job'.head # NoCommit /\ ~Reviewed(job.head)'
  BY DEF HeadIsUnreviewed
<1>1. \A head : Reviewed(head)' => Reviewed(head)
  BY ReviewSteps, MarkerSteps, MarkersSame
<1>2. job'.head # NoCommit /\ ~Reviewed(job'.head)
  BY ReviewSteps DEF HeadIsUnreviewed, TypeInv, Places
<1> QED
  BY <1>1, <1>2 DEF Reviewed

HeadMarkers(head) == {k \in ReviewMarkers : comments[k].head = head}

\* A head that is reviewed gets no further marker.
LEMMA ReviewedHeadsAreClosed ==
  ASSUME TypeInv, HeadIsUnreviewed, [Next]_vars, NEW head, Reviewed(head)
  PROVE  HeadMarkers(head)' = HeadMarkers(head)
<1>1. CASE MarkersKept
  BY <1>1 DEF MarkersKept, ReviewMarkers, HeadMarkers
<1>2. CASE PostReview
  <2>1. job.head # head
    BY <1>2 DEF HeadIsUnreviewed, PostReview, At, Reviewing
  <2>2. ReviewComment.head # head
    BY <2>1 DEF ReviewComment
  <2> QED
    BY <1>2, <2>2, PostedReview DEF ReviewMarkers, HeadMarkers
<1> QED
  BY <1>1, <1>2, MarkerSteps

\* The reviewer does not run again for a head that has a review, whatever failed or was
\* restarted in between.
THEOREM ReviewOneVerdictPerHead == Spec => OneVerdictPerHead
<1>1. Init => HeadIsUnreviewed
  BY DEF Init, Idle, HeadIsUnreviewed
<1>2. TypeInv /\ HeadIsUnreviewed /\ [Next]_vars =>
        [\A head \in {comments[k].head : k \in ReviewMarkers} :
           {k \in ReviewMarkers' : comments'[k].head = head}
             = {k \in ReviewMarkers : comments[k].head = head}]_vars
  BY ReviewedHeadsAreClosed DEF HeadMarkers, ReviewMarkers, Reviewed
<1> QED
  BY <1>1, <1>2, ReviewTypeInvariance, HeadIsUnreviewedKept, PTL DEF Spec, OneVerdictPerHead

ReviewHeads == {comments[k].head : k \in ReviewMarkers}

\* Each head has a marker of its own.
LEMMA FewerHeadsThanMarkers ==
  ASSUME TypeInv
  PROVE  /\ IsFiniteSet(ReviewHeads) /\ Cardinality(ReviewHeads) \in Nat
         /\ Cardinality(ReviewHeads) <= Cardinality(ReviewMarkers)
<1> DEFINE headOf == [k \in ReviewMarkers |-> comments[k].head]
<1>1. headOf \in Surjection(ReviewMarkers, ReviewHeads)
  BY DEF Surjection, ReviewHeads
<1> HIDE DEF headOf
<1> QED
  BY <1>1, MarkersAreFinite, FS_Surjection, FS_CardinalityType

RoomInv == RoomForReview /\ ReviewLoopEnds

LEMMA RoomKept == TypeInv /\ RoomInv /\ [Next]_vars => RoomInv'
<1> SUFFICES ASSUME TypeInv, RoomInv, [Next]_vars, ReviewLoopLimit > 0 PROVE RoomInv'
  BY DEF RoomInv, RoomForReview, ReviewLoopEnds
<1> USE DEF RoomInv
<1>1. Cardinality(ReviewMarkers) \in Nat /\ ReviewLoopLimit \in Int
  BY MarkersAreFinite, ReviewCycleAssumption
<1>2. CASE MarkersKept
  <2>1. ReviewMarkers' = ReviewMarkers
    BY <1>2, MarkersSame
  <2>2. ReviewHeads' = ReviewHeads
    BY <1>2, <2>1 DEF MarkersKept, ReviewHeads, ReviewMarkers
  <2>3. ReviewLoopEnds'
    BY <2>2 DEF ReviewLoopEnds, ReviewHeads
  <2>4. ASSUME job'.kind = "review", job'.step \in {"agent", "post"}
        PROVE  Cardinality(ReviewMarkers) + 1 <= ReviewLoopLimit
    <3>1. ~AttemptsUsedUp => Cardinality(ReviewMarkers) + 1 <= ReviewLoopLimit
      BY <1>1 DEF AttemptsUsedUp
    <3> QED
      BY <2>4, <3>1, ReviewSteps DEF RoomForReview, Reviewing
  <2> QED
    BY <2>1, <2>3, <2>4 DEF RoomForReview
<1>3. CASE PostReview
  <2>1. Cardinality(ReviewMarkers) + 1 <= ReviewLoopLimit
    BY <1>3 DEF RoomForReview, PostReview, At
  <2>2. ReviewHeads' \subseteq ReviewHeads \cup {job.head}
    BY <1>3, PostedReview DEF ReviewHeads, ReviewMarkers, ReviewComment
  <2>3. /\ IsFiniteSet(ReviewHeads \cup {job.head})
        /\ Cardinality(ReviewHeads \cup {job.head}) \in Nat
        /\ Cardinality(ReviewHeads \cup {job.head}) <= Cardinality(ReviewHeads) + 1
    BY FewerHeadsThanMarkers, FS_AddElement, FS_CardinalityType
  <2>4. /\ Cardinality(ReviewHeads') \in Nat
        /\ Cardinality(ReviewHeads') <= Cardinality(ReviewHeads \cup {job.head})
    BY <2>2, <2>3, FS_Subset, FS_CardinalityType
  <2>5. Cardinality(ReviewHeads') <= ReviewLoopLimit
    BY <1>1, <2>1, <2>3, <2>4, FewerHeadsThanMarkers
  <2>6. RoomForReview'
    BY <1>3, ReviewSteps DEF RoomForReview, Reviewing
  <2> QED
    BY <2>5, <2>6 DEF ReviewLoopEnds, ReviewHeads
<1> QED
  BY <1>2, <1>3, MarkerSteps

\* Over the life of a pull request at most REVIEW_LOOP_LIMIT of its heads are reviewed, when
\* that limit is positive.
THEOREM ReviewLoopIsBounded == Spec => []ReviewLoopEnds
<1>1. Init => RoomInv
  <2> SUFFICES ASSUME Init PROVE RoomInv
    OBVIOUS
  <2>1. ReviewMarkers = {} /\ job.kind = "none"
    BY DEF Init, Idle, ReviewMarkers
  <2>2. ReviewHeads = {}
    BY <2>1 DEF ReviewHeads
  <2>3. Cardinality(ReviewHeads) = 0
    BY <2>2, FS_EmptySet
  <2> QED
    BY <2>1, <2>3, ReviewCycleAssumption
       DEF RoomInv, RoomForReview, ReviewLoopEnds, ReviewHeads
<1>2. RoomInv => ReviewLoopEnds
  BY DEF RoomInv
<1> QED
  BY <1>1, <1>2, ReviewTypeInvariance, RoomKept, PTL DEF Spec

-------------------------------------------------------------------------------
(* What the reviewer had before it. *)

\* Commits hold changes that were made.
Known(c) == c # NoCommit => c.work \subseteq 1..made

KnownBranch == Known(origin) /\ Known(local) /\ Known(job.head)

KnownHeads ==
  \A k \in ReviewMarkers : comments[k].head # NoCommit /\ Known(comments[k].head)

SeenInv ==
  /\ KnownBranch /\ KnownHeads
  /\ HeadIsUnreviewed /\ AgentWorkSurvives /\ ReviewerSeesAgentWork

\* A Job takes its head from origin.
LEMMA JobHeads ==
  ASSUME TypeInv, [Next]_vars
  PROVE  job'.head \in {job.head, origin, NoCommit}
<1> USE DEF TypeInv
<1>1. ASSUME NEW step \in JobStep, Go(step)
      PROVE  job'.head = job.head
  BY <1>1, GoMoves
<1>2. \A to : End(to) => job'.head = NoCommit
  BY DEF End, Idle
<1>3. Refuse => job'.head = NoCommit
  BY <1>2 DEF Refuse
<1>4. CASE BeginCycle \/ EvaluateCI \/ Merge
  BY <1>2, <1>4 DEF BeginCycle, EvaluateCI, Merge, Idle, TypeOK, Job
<1>5. CASE Collect
  <2>1. \A kind, request : Begin(kind, request) => job'.head \in {origin, NoCommit}
    BY DEF Begin, Idle
  <2> QED
    BY <1>2, <1>5, <2>1 DEF Collect
<1>6. CASE FetchFails \/ PrepareBootstrap \/ PreparePR \/ PushRebased
  BY <1>1, <1>2, <1>3, <1>6 DEF FetchFails, PrepareBootstrap, PreparePR, PushRebased, JobStep
<1>7. CASE ClaimRework \/ ClaimReview
  BY <1>2, <1>7 DEF ClaimRework, ClaimReview, TypeOK, Job
<1>8. CASE RunImplementer
  <2>1. Go("deliver") \/ (\E to : End(to))
    BY <1>8, OutcomeTargets DEF RunImplementer
  <2> QED
    BY <1>1, <1>2, <2>1 DEF JobStep
<1>9. CASE \/ VerificationFails \/ CommitChanges \/ NothingToCommit \/ Push \/ Announce \/ HandOver
           \/ PostReview \/ Gate \/ LabelReady
  BY <1>1, <1>2, <1>9 DEF VerificationFails, CommitChanges, NothingToCommit, Push, Announce,
     HandOver, PostReview, Gate, LabelReady, JobStep
<1>10. CASE RunReviewer
  BY <1>2, <1>10 DEF RunReviewer, TypeOK, Job
<1>11. CASE Restart \/ People \/ UNCHANGED vars
  BY <1>2, <1>11 DEF Restart, People, PersonPushes, PersonRequests, PersonMoves,
     OperatorResumes, PersonMerges,
     OperatorCleansUp, MainAdvances, vars
<1> QED
  BY <1>4, <1>5, <1>6, <1>7, <1>8, <1>9, <1>10, <1>11 DEF Next, Daemon

\* A commit that appears on the branch has the changes of one that was there, or the one
\* that is made.
LEMMA NewWork ==
  ASSUME TypeInv, [Next]_vars
  PROVE  /\ made' \in {made, made + 1}
         /\ \A c \in {origin', local'} :
              \/ c = NoCommit
              \/ c.work = {}
              \/ \E d \in {origin, local} :
                   d # NoCommit /\ (c.work = d.work \/ (made' = made + 1 /\ c.work = d.work \cup {made'}))
<1> USE DEF TypeInv
<1>1. CASE UNCHANGED <<origin, local, made>>
  BY <1>1
<1>2. CASE PrepareBootstrap
  BY <1>2 DEF PrepareBootstrap, Bootstrapped
<1>3. CASE PreparePR
  <2>1. UNCHANGED <<origin, made>>
    BY <1>3 DEF PreparePR
  <2>2. CASE CheckedOut(LocalTip)
    BY <2>1, <2>2 DEF CheckedOut, LocalTip
  <2>3. CASE CheckedOut([LocalTip EXCEPT !.base = main]) /\ ~(origin # job.head)
    <3>1. job.head # NoCommit /\ origin # NoCommit
      BY <1>3, <2>3 DEF PreparePR
    <3>2. LocalTip \in {origin, local} /\ LocalTip \in Commit
      BY <3>1, LocalTipIsCommit DEF LocalTip
    <3>3. local' = [LocalTip EXCEPT !.base = main]
      BY <2>3 DEF CheckedOut
    <3>4. local'.work = LocalTip.work /\ LocalTip # NoCommit
      BY <3>2, <3>3, TaskBranchAssumption DEF Commit
    <3> QED
      BY <2>1, <3>2, <3>4
  <2> QED
    BY <1>3, <2>2, <2>3 DEF PreparePR
<1>4. CASE PushRebased \/ Push
  BY <1>1, <1>4 DEF PushRebased, Push, PushedWithLease, Pushed, branchVars
<1>5. CASE CommitChanges
  <2>1. /\ local \in Commit /\ local' = [local EXCEPT !.work = @ \cup {made + 1}]
        /\ made' = made + 1 /\ origin' = origin
    BY <1>5 DEF CommitChanges, Committed, TypeOK, Places
  <2>2. local'.work = local.work \cup {made'} /\ local # NoCommit
    BY <2>1, TaskBranchAssumption DEF Commit
  <2> QED
    BY <2>1, <2>2
<1>6. CASE PersonPushes
  <2>1. /\ origin \in Commit /\ origin' = [origin EXCEPT !.work = @ \cup {made + 1}]
        /\ made' = made + 1 /\ local' = local
    BY <1>6 DEF PersonPushes, TypeOK, Places
  <2>2. origin'.work = origin.work \cup {made'} /\ origin # NoCommit
    BY <2>1, TaskBranchAssumption DEF Commit
  <2> QED
    BY <2>1, <2>2
<1>7. CASE \/ BeginCycle \/ EvaluateCI \/ Merge \/ Collect \/ FetchFails
           \/ ClaimRework \/ RunImplementer \/ VerificationFails \/ NothingToCommit
           \/ Announce \/ HandOver
           \/ ClaimReview \/ RunReviewer \/ PostReview \/ Gate \/ LabelReady
  BY <1>1, <1>7 DEF BeginCycle, EvaluateCI, Merge, Collect, FetchFails,
     ClaimRework, RunImplementer, VerificationFails, NothingToCommit, Announce,
     HandOver, ClaimReview, RunReviewer, PostReview, Gate, LabelReady, branchVars
<1>8. CASE \/ Restart \/ PersonRequests \/ PersonMoves
            \/ OperatorResumes \/ PersonMerges \/ OperatorCleansUp
           \/ MainAdvances \/ UNCHANGED vars
  BY <1>1, <1>8 DEF Restart, PersonRequests, PersonMoves,
     OperatorResumes, PersonMerges, OperatorCleansUp,
     MainAdvances, vars, branchVars
<1> QED
  BY <1>2, <1>3, <1>4, <1>5, <1>6, <1>7, <1>8 DEF Next, Daemon, People

LEMMA KnownBranchKept ==
  ASSUME TypeInv, KnownBranch, [Next]_vars
  PROVE  KnownBranch' /\ (\A c : Known(c) => Known(c)')
<1>1. made \in Nat /\ made' \in {made, made + 1}
  BY NewWork, TaskBranchAssumption DEF TypeInv, TypeOK
<1>2. 1..made \subseteq 1..made' /\ (made' = made + 1 => made' \in 1..made')
  BY <1>1
<1>3. \A c : (c # NoCommit => c.work \subseteq 1..made) => (c # NoCommit => c.work \subseteq 1..made')
  BY <1>2
<1>4. \A c \in {origin', local'} : c # NoCommit => c.work \subseteq 1..made'
  <2> SUFFICES ASSUME NEW c \in {origin', local'}, c # NoCommit
               PROVE  c.work \subseteq 1..made'
    OBVIOUS
  <2>1. CASE c.work = {}
    BY <2>1
  <2>2. ASSUME NEW d \in {origin, local}, d # NoCommit,
               c.work = d.work \/ (made' = made + 1 /\ c.work = d.work \cup {made'})
        PROVE  c.work \subseteq 1..made'
    <3>1. d.work \subseteq 1..made
      BY <2>2 DEF KnownBranch, Known
    <3> QED
      BY <1>2, <2>2, <3>1
  <2> QED
    BY <2>1, <2>2, NewWork
<1>5. job'.head # NoCommit => job'.head.work \subseteq 1..made'
  BY <1>3, JobHeads DEF KnownBranch, Known
<1> QED
  BY <1>3, <1>4, <1>5 DEF KnownBranch, Known

LEMMA KnownHeadsKept ==
  TypeInv /\ KnownBranch /\ KnownHeads /\ HeadIsUnreviewed /\ [Next]_vars => KnownHeads'
<1> SUFFICES ASSUME TypeInv, KnownBranch, KnownHeads, HeadIsUnreviewed, [Next]_vars
             PROVE  KnownHeads'
  OBVIOUS
<1>1. \A c : Known(c) => Known(c)'
  BY KnownBranchKept
<1>2. CASE MarkersKept
  <2> SUFFICES ASSUME NEW k \in ReviewMarkers'
               PROVE  comments'[k].head # NoCommit /\ Known(comments[k].head)'
    BY DEF KnownHeads
  <2>1. k \in ReviewMarkers /\ k \in DOMAIN comments /\ comments'[k].head = comments[k].head
    BY <1>2, MarkersSame DEF MarkersKept, ReviewMarkers
  <2>2. comments[k].head # NoCommit /\ Known(comments[k].head)
    BY <2>1 DEF KnownHeads
  <2> QED
    BY <1>1, <2>1, <2>2 DEF Known
<1>3. CASE PostReview
  <2> SUFFICES ASSUME NEW k \in ReviewMarkers'
               PROVE  comments'[k].head # NoCommit /\ Known(comments[k].head)'
    BY DEF KnownHeads
  <2>1. job.head # NoCommit /\ Known(job.head)
    BY <1>3 DEF PostReview, At, HeadIsUnreviewed, Reviewing, KnownBranch
  <2>2. CASE k \in DOMAIN comments
    <3>1. k \in ReviewMarkers /\ comments'[k].head = comments[k].head
      BY <1>3, <2>2, PostedReview DEF ReviewMarkers
    <3> QED
      BY <1>1, <3>1 DEF KnownHeads, Known
  <2>3. CASE k \notin DOMAIN comments
    <3>1. comments'[k].head = job.head
      BY <1>3, <2>3, PostedReview DEF ReviewMarkers, ReviewComment
    <3> QED
      BY <1>1, <2>1, <3>1 DEF Known
  <2> QED
    BY <2>2, <2>3
<1> QED
  BY <1>2, <1>3, MarkerSteps

\* Agents make a change only by a commit, and its number is new.
LEMMA SeenKept ==
  ASSUME TypeInv, KnownHeads, AgentWorkSurvives, ReviewerSeesAgentWork, [Next]_vars
  PROVE  ReviewerSeesAgentWork'
<1>1. CASE CommitChanges
  <2>1. /\ agents' = agents \cup {made + 1} /\ made \in Nat /\ UNCHANGED comments
    BY <1>1, TaskBranchAssumption DEF CommitChanges, Committed, TypeInv, TypeOK
  <2> SUFFICES ASSUME NEW k \in ReviewMarkers
               PROVE  comments[k].head.work \cap agents' \subseteq comments[k].tree.work
    BY <2>1 DEF ReviewerSeesAgentWork, ReviewMarkers
  <2>2. comments[k].head.work \subseteq 1..made
    BY DEF KnownHeads, Known
  <2>3. made + 1 \notin comments[k].head.work
    BY <2>1, <2>2
  <2> QED
    BY <2>1, <2>3 DEF ReviewerSeesAgentWork
<1>2. CASE ~CommitChanges
  <2>1. agents' = agents
    BY <1>2, LocalSteps
  <2>2. CASE MarkersKept
    BY <2>1, <2>2, MarkersSame DEF ReviewerSeesAgentWork, MarkersKept, ReviewMarkers
  <2>3. CASE PostReview
    <3> SUFFICES ASSUME NEW k \in ReviewMarkers'
                 PROVE  comments'[k].head.work \cap agents \subseteq comments'[k].tree.work
      BY <2>1 DEF ReviewerSeesAgentWork
    <3>1. CASE k \in DOMAIN comments
      <4>1. k \in ReviewMarkers /\ comments'[k] = comments[k]
        BY <2>3, <3>1, PostedReview DEF ReviewMarkers
      <4> QED
        BY <4>1 DEF ReviewerSeesAgentWork
    <3>2. CASE k \notin DOMAIN comments
      <4>1. comments'[k].tree = local
        BY <2>3, <3>2, PostedReview DEF ReviewMarkers, ReviewComment
      <4> QED
        BY <4>1 DEF AgentWorkSurvives
    <3> QED
      BY <3>1, <3>2
  <2> QED
    BY <2>2, <2>3, MarkerSteps
<1> QED
  BY <1>1, <1>2

\* What agents did and the pull request has is in the tree the reviewer reads.
THEOREM ReviewReviewerSeesAgentWork == Spec => []ReviewerSeesAgentWork
<1>1. Init => SeenInv
  BY DEF Init, Idle, SeenInv, KnownBranch, KnownHeads, Known, HeadIsUnreviewed,
     AgentWorkSurvives, ReviewerSeesAgentWork, ReviewMarkers
<1>2. TypeInv /\ SeenInv /\ [Next]_vars => SeenInv'
  BY KnownBranchKept, KnownHeadsKept, HeadIsUnreviewedKept, AgentWorkIsKept, SeenKept DEF SeenInv
<1>3. SeenInv => ReviewerSeesAgentWork
  BY DEF SeenInv
<1> QED
  BY <1>1, <1>2, <1>3, ReviewTypeInvariance, PTL DEF Spec

================================================================================
