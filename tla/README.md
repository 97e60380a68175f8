# DevBot in TLA+

DevBot is a daemon that works GitHub Issues off with coding agents: it polls repositories,
claims an Issue by moving its `devbot:*` label, runs an implementer or a reviewer in a
worktree, delivers a pull request, reviews it, reworks it and merges it. Beside the daemon
there are operator commands (goals, releases, timeline, reviews). This directory holds
models of its core in TLA+, the TLC configurations that check them, and TLAPS proofs.

Paths such as `polling.py` are relative to `src/src/devbot/`.

## 1. Inventory

| Component | State it keeps | Operations | Where it is hard | What makes it correct |
|---|---|---|---|---|
| Issue state writer (`issue_state.py`, `state_labels.py`) | labels on GitHub; `_claimed`, the reservations of this process | claim, restore, block, mark_for_review, mark_done, send_to_rework, require_manual_action | writes are computed from a snapshot; a write may be lost or applied without an answer; a manual edit leaves several state labels | only transitions of the table; no reservation outlives its job; no agent without a reservation |
| Polling cycle (`polling.py`) | the snapshot, candidates, jobs of one cycle | collect, merge stage, candidates, select, execute | exceptions between a claim and the end of a job; early returns; one repository's trouble in a cycle shared by all | an Issue does not stay working; one repository does not stop another |
| Selection (`scheduler.py`) | none | select_jobs_with_exclusions | ranking against the one-job-per-repository rule | one job per repository, at most max_concurrent_jobs |
| Start-up (`main.py`, `lock.py`) | the lock file | sweep of crash remnants | a crash at any step, a failed listing | after the sweep nothing is working |
| Runtime scheduler (`runtime_scheduler.py`) | worker table, repository locks, AI semaphore, slot stack of a call | execute | threads that hold a lock while they wait for the semaphore; reuse of worker ids | each job once, one per repository, within the AI limit; the call returns; the status is true |
| Goal run (`goal_execution_foundation.py`) | run state, node states, pending requests, consumed budget | start, request, record execution, record verification | retries, two budgets, three exhaustion behaviours | dependencies first, all gates passed, it ends |
| Goal commands (`goal_runtime_adapter.py`, `main.py`) | the state document with its in-flight marker | start-, advance-, resume-approved | a crash between a side effect and its record | no ambiguous replay, a finished goal stays finished |
| Automatic merge (`automerge.py`, `ci_status.py`) | reported blocks | gates, merge, mark_done | the head changes between review, reading of CI and merge; GitHub refuses | the merged head is the checked one |
| Review, rework, delivery (`review.py`, `rework.py`, `delivery.py`) | PR labels, review comments, reactions | process, deliver | partial failure between comment, label and Issue state | each head reviewed once, a bounded loop, an unreviewed head is taken up |
| Worktrees (`worktree.py`, `workspace.py`, `bootstrap.py`) | git worktrees, local branches | prepare, rebase, push with lease, remove | uncommitted work of an interrupted agent; a local branch behind origin | committed work is never lost, uncommitted work is never overwritten |
| Timeline (`timeline.py`) | one comment per Issue | start, end, ready | read-modify-write without a condition | phases are paired, attempts counted |
| Goal executor and planners (`goal_executor.py`, `goal_planner.py`, `planner.py`) | Issue, branch, contract on GitHub | materialise a planned Task | a step of several fails; an answer is lost; run again while people reorganise | Tasks in order, one Issue each, a validated base, no foreign branch taken over |
| Releases (`release*.py`, `.github/workflows/release.yml`) | tags, GitHub releases, version files | prepare, publish, dispatch, the workflow's run | two routes and two processes over one origin; failure between tag, push, release | a release stands on a pushed tag; versions are unique; reports are true |
| GitHub clients (`github_*.py`) | none | retry, review submission | calls applied without an answer; a head that moves | |
| Registry and reload (`repository_registry.py`, `registry_reload.py`, `config.py`) | files, last good configuration | check, load | a reload that fails | the last valid configuration is used |
| Agents (`agents/`, `agent_*.py`) | processes | run, classify | time-outs, session limits | unknown output is never success |
| Text and checks (`specification*.py`, `contract_metadata.py`, `validation.py`, `bootstrap.py`, `startup.py`, `doctor.py`, `reliability.py`, `blocked_recovery.py`, `observability.py`) | none | pure | | |

How they interact: `main` takes the process lock, sweeps, and runs `PollingService.run_once`
for ever. A cycle reads every Issue once; the merge stage, the candidate search and the
jobs all work from that snapshot. Selected jobs run in the threads of the runtime
scheduler, and every label change goes through the one state writer. People edit labels on
GitHub at any time. The goal commands are separate processes that share only a state file;
they use the runtime scheduler for their one job. `goal execute` and the release commands are
separate processes too, which share GitHub and the operator's checkout with people, and the
release commands with the release workflow.

`PROJECT.json` lists every component with its status, and under "hazards" what is hard to
test, at its line.

## 2. Modules

| Module | Models | State and actions |
|---|---|---|
| `IssueLabels` | `models.TaskState`, `state_labels.py`, the transition table | `CurrentState` (precedence of several labels), `AllowedTransitions`, `Relabelled` (what `_transition` writes) |
| `IssueLifecycle` | abstract: what the daemon promises about an Issue's state | `DaemonMove`, `HumanMove`, cycles as `Begin`/`End` |
| `Polling` | `polling.py`, the sweep of `main.py`, `issue_state.py`, `scheduler.py` | `labels`, `claimed`, `snapshot`, `todo`/`candidates` for the loops of the main thread, `job` for each job; one action per write or decision |
| `RuntimeScheduler` | `runtime_scheduler.execute` | one action per critical section or lock operation of a thread |
| `JobExecution` | abstract: what a call of execute promises | `Open`, `Run`, `Finish`, `Close` |
| `GoalRun` | `goal_execution_foundation.GoalRun` as operators on a record | `NextRequested`, `ExecutionRecorded`, `VerificationRecorded`, `BudgetExhausted` |
| `GoalRuntime` | `goal_runtime_adapter.py` and the `*-approved` commands | `file` (the document), `step`/`loaded` per command; a side effect begins and ends in two actions, with a crash between |
| `TaskBranch` | `worktree.py`, `bootstrap.py`: one Issue's branch on origin, locally and in its worktree | a commit is `[work, base]`: the changes it contains and the commit of main it is rebased on; operators for git's operations (`CheckedOut`, `Bootstrapped`, `Committed`, `Pushed`, `PushedWithLease`) |
| `AgentOutcome` | `agent_outcome.py`, `agents/base.py` | the order in which time-out, hint, patterns, exit code and blank output decide, and the state the Issue gets |
| `CIStatus` | `ci_status.py` | the readings of check runs, commit statuses and workflow runs, and their one verdict |
| `ReviewCycle` | one Issue's pull request through `polling.py`, `review.py`, `rework.py`, `delivery.py`, `automerge.py`; extends the three above | `job` is a Job with its snapshot; a step ends where the code calls git or GitHub; people push, comment, merge, move the Issue, remove the worktree, run `devbot resume` (`blocked_recovery.py`) |
| `ReleasePolicy` | `release.py`, `release_classification.py`, `release_recommendation_aggregation.py` | which level the merged changes ask for, and the next version |
| `ReleasePipeline` | `release_orchestration.py`, `release_publish.py`, `release_preparation.py`, `release_ops.py`, `release.yml` | `cmd` (the operator's command), `workflow` and `queued` (its concurrency group), tags, releases, checkout |
| `ReleaseRegistry` | abstract: what both publication routes promise about tags and releases | `TagVersion`, `Open`, `Upload`, `Publish` |
| `GoalExecutor` | `goal_executor.py`, `goal_planner.py`, `github_retry.py` | `cmd` with its step and attempt; one action per request, one per lost answer, one per act of a person |
| `MC*` | instances for TLC | |
| `*Proofs` | theorems and their proofs; `PollingLifecycleProofs` and `ReleaseRegistryProofs` hold the refinements and extend the proofs of their component | |

Definitions whose comment begins with "Faulty" are mutated forms of the definition that
follows them. No action uses them; substituted for the real one they break the property
they were written against, which shows that the property depends on that code.

Abstractions worth knowing:

- The daemon is modelled with `dry_run` off and with a state writer, a delivery and an
  automatic merge service, as `main` wires it.
- A snapshot is taken in one step. `_collect` reads the repositories one after the other.
- Pull requests, worktrees and agents are nondeterministic in `Polling`: every branch the
  code can take is a disjunct, and which one is taken is free. A read that fails after a
  claim and is handled like a failed write is the "lost" outcome of that write.
- A GitHub write ends "ok", "lost" (not applied), "late" (applied, then raised) or, where
  a comment follows the label, "comment" (the label moved, the comment failed). The retry
  inside the client is part of one write.
- In `GoalRun` a gate is its position in the plan; the evidence of a node is the set of gates
  it passed since its last execution.
- A job of `RuntimeScheduler` is its index in the call; the slot stack holds ids 1 to
  WorkerCount.
- `ReviewCycle` and `Polling` divide the daemon's work between them. `Polling` has many
  Issues and every way a label write can fail, and no pull request contents; `ReviewCycle`
  has one Issue with its commits, comments and CI, and its label writes succeed except
  the one that hands over for review. A failing call of a Job (`Restart`, `FetchFails`, the failing outcomes of the steps) leaves the Issue
  where the code's handler or the next start's sweep puts it.
- A change is a number. A rebase keeps the changes of a commit and moves its base; whether
  main conflicts with the branch is one flag, set when main advances.
- In `GoalExecutor` a title is a pair of planned Task and number; the branch and the
  contract's path are derived from it as in the code. The planner's search for the first Task
  that is not materialised is modelled, the matching of goal texts is not. One operator at a
  time runs the command; people delete branches only between commands; Issues that people
  write do not quote the goal.
- In `ReleasePipeline` a version is a pair, minor and patch. Artifacts, checksums and notes
  of a release are one fact, `complete`. The operator follows the recommended level.
- A GitHub request whose answer is lost was applied or was not; `github_retry.py` repeats it,
  which `GoalExecutor` models request by request. In `ReviewCycle` one review leaves up to
  `RequestAttempts` copies of its comment (`Copies`), and each copy counts as an attempt of the
  review loop, as `review_marker_count` counts comments.
- GitHub's releases, as the code uses them: `GET /releases/tags/{tag}`, which the direct route
  reads, answers for published releases only; a release may be created beside a draft of the
  same tag, a second published one is refused; `gh release view` shows a draft only for want
  of a published release. A workflow run may take a failed look-up for an absence
  (`MaxBlindReads`), since `release.yml` looks at nothing but the exit status.
- GitHub may refuse the merge of a pull request for good (`pr.barred`: branch protection, a
  draft), whatever the code reads before it.
- A goal starts with all its nodes ready, as the planners write them; `start` copies the
  states of the plan, so a plan written by hand with others is outside the model.

## 3. Runs

| Run | Expectation | What it shows |
|---|---|---|
| `polling_quiet` | pass | No failing call, people edit between cycles, one crash or stop at any step: `WorkingHasOwner`, `ClaimsAreActive`, `WorkingIsLeft`, `OneJobPerRepository`, `NobodyPassedOver`, and the daemon implements `IssueLifecycle` |
| `polling_faults` | pass | One failing call, edits in the middle of cycles, fewer places than repositories: `AgentHoldsClaim`, `JobEndsAreAllowed`, and `LoneReadyGetsAPlace`, a ready Issue alone in its repository is claimed unless better candidates of other repositories take all the places |
| `polling_stranded` | violation | One failing call leaves an Issue working for ever |
| `polling_refused_merge` | violation | A merge that GitHub refuses keeps another repository's work from being claimed (`LoneReadyIsClaimed`) |
| `runtime_scheduler` | pass | All interleavings of up to four jobs in three threads, locks and the semaphore contended, slots reused while another thread reports: `StatusIsTrue`, `EveryJobAnswered`, `NobodyIsStuck`, `ExecuteReturns`, and the threads implement `JobExecution` |
| `goal_runtime` | pass | Crashes, raising gates, exhausted budgets, a second start: `DependenciesFirst`, `OneNodeInHand`, `CompletedIsVerified`, `EveryStepAdvances` (a finished goal is not taken up again), `GoalEnds` |
| `goal_fallback` | violation | The fallback behaviour completes a node that a required gate never saw |
| `goal_replay` | violation | `advance-approved` repeats a side effect whose marker is on disk |
| `review_cycle` | pass | One Issue from its contract to its merge, with people who push and comment, an advancing main, requests that are repeated, failing calls and restarts: `OneVerdictPerHead` (a reviewed head is not reviewed again), `ReviewLoopEnds` (so many heads at most), `ReviewerSeesAgentWork`, `AgentWorkSurvives`, `MergedHeadWasChecked`, `DirtyWorkIsKept`, `ReviewIsTaken` |
| `review_stale_ready` | violation | A commit pushed after MERGE READY is merged without a review |
| `release_pipeline` | pass | Release commands of both routes race the workflow, merges and dispatches, with calls that fail halfway and a look-up that fails: `ReportIsTrue`, `DirectTagDeclaresVersion`, and both routes implement `ReleaseRegistry`, of which `ReleaseStandsOnPushedTag`, `VersionIsUnique`, `CommitReleasedOnce` and `StableIsFinal` are consequences (and theorems) |
| `goal_executor` | pass | Repeated `goal execute --confirm` with lost answers and people who reorganise Issues and branches: `TasksInOrder`, `OneRequestPerTask`, `ContractHasItsIssue`, `BaseIsValidated` |

One passing run of each module also checks its `TypeOK`.

Bounds, and why they are enough:

- Polling: three Issues, in `polling_quiet` two of them in one repository. Contention inside a
  repository needs two Issues, contention across repositories two repositories;
  `MaxConcurrentJobs` 2 and `AiConcurrency` 1 make a job wait after it was selected. In
  `polling_faults` each Issue has its own repository, and three contend for two places. The
  initial label sets of `polling_quiet` hold a crash remnant, a remnant with two state labels, fresh, paused and
  reviewed work and an unmanaged Issue. One fault and one restart reach every handler and
  every point of a crash; which faults combine is covered by the proofs, which have no bound.
- Runtime scheduler: lists of up to four jobs for three workers and three repositories with
  AI concurrency 2, up to renaming of the repositories, lists with repeated repositories
  included. Locks and permits are contended by more threads than can have them, and threads
  are fewer than jobs, so that a slot is reused (1.6 million states).
- Review cycle: three changes (an agent's, a person's and an agent's answer), one advance of
  main, a review loop of two, one resume attempt, two attempts per request, one act of a person
  and two failing calls or restarts (0.4 million states). Two reviews are needed for a head to
  be reviewed twice; the third change is a rework after a person's push. One act of a person,
  at any step of the daemon, is enough to make a head stale, an Issue due or a worktree vanish;
  that more of them change nothing is what the proofs show, of all these properties but
  `ReviewIsTaken`.
- Releases: three commits of main, two commands, one dispatch by hand, one failing call, one
  failed look-up, started with and without a release (10.2 million states). The initial commit,
  a bump and one merge in between are the cases a command can meet; two commands repeat or
  race each other's leftovers. Deadlock is not checked: the bounds are used up.
- Goal executor: two planned Tasks, two attempts per request, three commits, three acts of
  people, two faults (2.9 million states): enough for a lost answer whose retry is lost too,
  and for a person to open an Issue, close one and merge a contract in one behaviour.
- Goals: three nodes, one needing two others, one of them optional and without a gate and
  listed after the node that needs it; three gates on the same nodes, of which the middle one
  is counted against the budget; retries 2, review calls 2 per node and 3 per goal, so that
  the node and the goal budget run out in either order; two crashes, two starts. Deadlock is
  not checked because a finished goal has nothing left to do.

Fairness: the polling daemon is scheduled and each step of a job ends, since agent runs and
GitHub calls have time-outs (`WF_vars(DaemonStep)`). `DaemonStep` includes the start of the
process: DevBot does not restart itself, so "`WorkingIsLeft` after a crash" means: once the
operator or a service manager starts it again. Crashes, stops, edits and failures are never
fair. In `RuntimeScheduler` each thread and the caller's return are weakly fair; locks and
the semaphore need no more, because the number of jobs of a call is finite. In `ReviewCycle`
the daemon is weakly fair (`WF_vars(Daemon)`): `run_forever` keeps polling, and git, GitHub
and agents have time-outs; no person has to do anything, and restarts are a fault. Releases
and `goal execute` have safety properties only: an operator need not repeat a command. In `GoalRuntime`
the operator keeps running `advance-approved`; nobody has to run `resume-approved`.

## 4. Findings

Each is the violation run named, with the quoted text in `PROJECT.json`.

1. `polling_stranded`: the handlers of a failing restore, block or review write, and of a
   transient failure, end the job without moving the Issue; it stays `working`, and its
   repository is excluded, until the daemon is started anew. The runbook says that no
   in-process failure path does this.
2. `polling_refused_merge`: an exception of the merge stage ends the cycle for all
   repositories, in every cycle.
3. `goal_fallback`: the fallback verification replaces all pending gates.
4. `goal_replay`: only `resume-approved` looks at the in-flight marker.
5. `review_stale_ready`: `ready-to-merge` is never taken off a pull request, and the merge
   stage reads only the label and the CI of the current head. The head that is merged is the
   one whose CI was read (`MergedHeadWasChecked`), but not the one that was reviewed.

Observed, without a run: `build_repository_queues` speaks of "repository-local FIFO queues"
(`runtime_scheduler.py:86`), but a repository lock is taken by whichever thread comes first.
The polling cycle never passes two jobs of one repository, so nothing depends on the order.

Met while modelling, most of them visible in a module's actions, none a property of a run:

- `release run` before the prepared bump is committed bumps the files again before it
  reports an error (`release_orchestration.py`, whose comment says "never compounding").
- The direct route reads the version from the branch that is checked out and puts the tag on
  origin's main; `release_publish.py:3` says "on `main`". `DirectTagDeclaresVersion` is
  therefore stated for a checkout of main.
- A publication that stopped halfway cannot be completed once main has advanced;
  `release_publish.py:33-37` says that a later call safely completes it.
- The preview of a first release bumps the initial version, which the workflow publishes
  unchanged. An older commit that is dispatched after a newer release gets a newer version.
- The executor's Issue quotes the goal, so that `plan_goal` answers `duplicate_open_work`
  while that Issue is open and `already_materialized` once it is closed: a later command does
  not create the branch or contract that an earlier one failed to create, while
  `tasks/040` says that a retry only creates what is still missing. For the same reason the
  next planned Task can be executed only after the Issue of the first is closed.
- A Task number is taken from the checkout's `tasks/`: two planned Tasks get the same number
  when the second is executed before the first's contract is merged.
- `github_retry.py:121` repeats requests that are not idempotent. A lost answer gives a Task a
  second Issue, though `goal_executor.py:20-23` says "never duplicating" (`OneRequestPerTask` is
  that nothing else does); a lost answer of a branch or file creation makes the retry fail, and a review
  comment may be posted several times. Each copy is an attempt of the review loop, which
  `docs/03-state-machine.md:82-86` bounds by posted results: it may end after fewer reviews than
  the limit, not after more.
- The direct route does not see a draft that a workflow run left, and publishes its version
  beside it (`VersionIsUnique` is about published releases).
- `release.yml:222` and `:237` take any failure of `git ls-remote` or `gh release view` for an
  absence: a repeated run may then leave a second draft of its version, while
  `results/032-automated-release-pipeline.md:71` says that a draft is completed.
- A review or rework that is abandoned in every cycle (an unclean worktree,
  `polling.py:2741-2787`) ranks before every new Issue. With as many of them as places, one by
  default, the ready Issue of another repository waits for ever; `docs/08-beta-runbook.md:182-183`
  says that a stuck repository no longer blocks others. `LoneReadyGetsAPlace` excepts this case
  and nothing else.
- `ReviewIsTaken` excepts a pull request that GitHub refuses to merge for good and that an
  earlier review labelled ready: finding 2 ends each cycle before its new head is reviewed.
- A rebase pushes the local branch with a lease on what was just fetched
  (`worktree.py:525`); a commit that a person pushed and that the local branch does not
  contain is overwritten. Agents' commits are not (`AgentWorkSurvives`).
- The diagnostic of a blocked Issue tells the operator to run `devbot resume`
  (`blocked_recovery.py:102`), which refuses an Issue whose body names no contract; only a
  planner's Issue does (`MayResume`), not one that DevBot bootstrapped.
- A repository that a registry reload adds is not swept (`main.py:2106` runs once): an Issue
  that was left `working` in it keeps it excluded until the daemon is restarted.
- A request is marked processed when a rework ended without a commit (`rework.py:463-467`).

## 5. Proofs

Eight modules hold theorems; `tlapm` checks each in a few minutes at most.
Each proves inductive invariants for every value of the constants (`Init => Inv`,
`Inv /\ [Next]_vars => Inv'`), with one step or lemma per action, and reads the theorems off
them. The only assumptions are those the modules state about their constants:
`PollingAssumption`, `RuntimeSchedulerAssumption`, `GoalPlanAssumption` (what
`GoalExecutionPlan.validate` and `TaskGraph.validate` accept), `GoalRuntimeAssumption`, `TaskBranchAssumption`,
`ReviewCycleAssumption`, `ReleasePipelineAssumption` and `GoalExecutorAssumption`. The bounds
are constants too, so a theorem holds for any number of faults, edits, commits and commands.
Three theorems hold only under a condition on a constant, which their statements name:

- `PollingImplementsLifecycle` for `MaxFaults = 0 /\ ~EditsAnytime`. A failing call or an
  edit in the middle of a cycle can make the daemon overwrite what a person did, since it
  writes from its snapshot; the abstract life cycle does not allow that.
- `GoalFinalIsFinal` for commands that are run one at a time (`OneAtATime`). Two that overlap
  break it, because the state document has no lock: a `resume-approved` escalates the run
  while the other command's agent is at work, and the agent's result puts it back to work.
  The property is about an operator who waits for a command to end.
- `GoalEveryStepAdvances` likewise, and where no plan falls back, since the fallback behaviour
  requests another execution each time a budget is exhausted.

| Module | Theorem | States |
|---|---|---|
| `PollingProofs` | `PollingTypeCorrect` | `TypeOK` |
| | `PollingOneJobPerRepository` | two jobs never share a repository, whatever fails |
| | `PollingAgentHoldsClaim` | an agent runs only for a reserved Issue, whatever fails |
| | `PollingClaimsAreActive` | without failing calls, reservations are the jobs past their claim |
| | `PollingWorkingHasOwner` | without failing calls, a working Issue has a job after the sweep, through any number of crashes |
| | `PollingNobodyPassedOver` | at most `MaxConcurrentJobs` are selected, and a candidate is left out only for a better one of its repository, or for a full list of better ones |
| `PollingLifecycleProofs` | `PollingJobEndsAreAllowed` | the transition table never refuses the write that ends a Job, whatever fails |
| | `PollingImplementsLifecycle` | `Spec => Lifecycle!Spec`: the daemon implements `IssueLifecycle` |
| `RuntimeSchedulerProofs` | `SchedulerTypeCorrect` | `TypeOK`; the semaphore stays within its bounds |
| | `SchedulerStatusIsTrue` | the worker table tells the truth |
| | `SchedulerEveryJobAnswered` | no thread finds the slot stack empty |
| | `SchedulerNobodyIsStuck` | until the call's last job has ended, some thread may go on |
| | `SchedulerImplementsExecution` | `Spec => Execution!Spec`: the threads implement `JobExecution` |
| `GoalRuntimeProofs` | `GoalTypeCorrect` | `TypeOK`: retries and reviews stay within their budgets |
| | `GoalDependenciesFirst` | a node is not touched before its dependencies are completed |
| | `GoalOneNodeInHand` | the one node in hand is the one a request is pending for |
| | `GoalCompletedIsVerified` | if no plan has the fallback behaviour, a completed node passed its required gates |
| | `GoalFinalIsFinal` | one command at a time: a finished goal stays finished until it is started anew |
| | `GoalEveryStepAdvances` | one command at a time, no fallback: every write is progress, and nothing gained is lost |
| `ReviewCycleProofs` | `ReviewTypeCorrect` | `TypeOK` |
| | `ReviewAgentWorkSurvives` | the local branch keeps every commit of an agent |
| | `ReviewMergedHeadWasChecked` | the daemon merges exactly the head whose CI it read |
| | `ReviewDirtyWorkIsKept` | uncommitted work becomes a commit or stays |
| | `ReviewOneVerdictPerHead` | a head that has a review gets no further marker, whatever failed |
| | `ReviewLoopIsBounded` | at most `REVIEW_LOOP_LIMIT` heads of a pull request are reviewed, if it is positive |
| | `ReviewReviewerSeesAgentWork` | agents' work in the reviewed head is in the tree the reviewer reads |
| `ReleasePipelineProofs` | `ReleaseTagged` | a release stands on an annotated tag that was pushed |
| | `ReleaseVersionIsUnique` | a version is one tag and at most one published release |
| | `ReleaseCommitReleasedOnce` | on the workflow route a commit has one version and is published once |
| | `ReleaseReportIsTrue` | what is reported as published is published, and not a draft |
| | `ReleaseTagDeclaresVersion` | a tag made from a checkout of main declares its version |
| | `ReleaseStableIsFinal` | a stable release stays; only in a race of both routes may it get the assets it lacks |
| `ReleaseRegistryProofs` | `ReleaseTypeCorrect` | `TypeOK` |
| | `ReleaseImplementsRegistry` | `Spec => Registry!Spec`: both routes, with their failures, implement `ReleaseRegistry` |
| `GoalExecutorProofs` | `GoalExecutorTypeCorrect` | `TypeOK` |
| | `GoalExecutorTasksInOrder` | a Task's Issue is opened after those of the Tasks before it |
| | `GoalExecutorOneRequestPerTask` | the Issue of a Task is asked for once, but for the retry inside one command |
| | `GoalExecutorContractHasItsIssue` | a contract names its Issue, and no foreign branch is taken over |
| | `GoalExecutorBaseIsValidated` | a branch of DevBot's starts from a validated commit |

Why the invariants are stronger than the theorems:

- Polling: `WorkingHasOwner` is not inductive, because a write is computed from the snapshot
  and the sweep works through a list. `Inv` adds that a job exists only in the phases that
  have jobs (`JobsHavePhase`) and that every working Issue is still on the sweep's list while
  it runs (`SweepReachesRemnants`). `OneJobPerRepository` rests on a lemma about `Selected`.
  Two lemmas, `StateOfRelabelled` and `StateIsLabelled`, say what a written label set stands
  for. Every action that writes a label is first shown to be one of two effects.
- Life cycle: that a Job's last write is allowed is a fact about the Issue in its hand, not
  about GitHub. `HeldStates` says in which state each phase of the daemon and each Job sees
  the Issues it holds; past its claim a Job sees the one claim returned, in state working.
  Without faults and edits in a cycle it is strengthened by `HeldIsCurrent`: the state a Job,
  the sweep or a candidate list holds is the one on GitHub. Then every write maps to
  a `DaemonMove` along the table and every other step to the start or end of a cycle, an edit
  between cycles, or a stutter.
- Runtime scheduler: `Inv` relates each resource to the position of the threads.
  `LocksAreHeld`: a lock is owned by the one job between acquiring and releasing it.
  `PermitsAreCounted`: the semaphore and the jobs that hold a permit add up to
  `AiConcurrency`. `SlotsAreHeld`: an id is on the stack once or with one live job, and stack
  and live jobs add up to `WorkerCount`; since the pool has at most `WorkerCount` threads,
  the stack is never empty (`SlotIsFree`). The refinement maps the steps of a thread to
  `Run` (taking the permit), `Finish` (the job's end) or a stutter; that `Run` is allowed is
  exactly `LocksAreHeld` and `PermitsAreCounted`. `NobodyIsStuck` needs no more: if no thread
  could go on, all live ones would wait for a lock or a permit; permits that are out are with
  jobs in or just past `run_job`, which wait for nothing, so all of them are free; a lock is
  owned by a job that may then take a permit; and with no live job at all the pool has room
  for the oldest queued one.
- Goals: a run is `Sound` if it is ordered, has at most one node in hand, which is the node of
  every pending request, and has never an execution and a verification pending together.
  It is `Verified` if a node that is verified still has a request for each gate it did not
  pass. Every operator of `GoalRun` is shown to keep both (`MoveKeepsSound`,
  `MoveKeepsVerified`: a step moves one open node), except that the fallback behaviour does
  not keep `Verified`, which is finding 3. The commands add that a loaded run is `Sound` too,
  so that the theorems hold for commands that run side by side, of which the runs have one.
  `FinalIsFinal` adds `FinalInv`: a failed or reviewed run has neither work nor a marker, so
  that only an escalated one is taken up again, and while a command is in a side effect that
  was begun on an unfinished run, the run on disk is unfinished. `start-approved` may have
  replaced it meanwhile, which needs that a plan without cycles has a first node
  (`StartIsNotFinal`). `EveryStepAdvances` adds that the run on disk is the loaded one or one
  just started (`AdvanceInv`), and orders runs lexicographically: retries used, nodes
  completed, what is in hand, gates left. As each of these is bounded, it says what `GoalEnds`
  rests on beside fairness.
- Selection: what `NobodyPassedOver` says of the number selected needs a count. The candidates
  that are selected are numbered by how many of the best of their repositories come before them. Ranks are distinct because `Before` is a strict total
  order, and below `MaxConcurrentJobs`, so there are no more Jobs than ranks.
- Review cycle: `TypeInv` is `TypeOK` with `Places`, which says for each step of a Job what
  the step needs: a pull request, a local branch, a snapshot's head, a comment in range, room
  for one more change. `AgentWorkSurvives` and `DirtyWorkIsKept` follow from it step by step.
  The others add one conjunct each: a Job that is about to post a review holds a head without
  a marker (`HeadIsUnreviewed`), which also says that copies of a comment are of one head, and
  a loop that has room (`RoomForReview`), if it is limited; a Job that is
  about to merge holds the head whose CI it read (`MergeIsChecked`). `ReviewerSeesAgentWork`
  needs that commits on origin, in a snapshot and in markers hold only changes that were made
  (`KnownBranch`, `KnownHeads`), so that no later agent's change can be one of a reviewed head;
  and it needs `AgentWorkSurvives`, because the worktree the reviewer reads is made of the
  local branch.
- Releases: `Inv` adds to the properties what a command or a run in progress stands on:
  `Shape` and `Route` (which command can be at which step), `TagBeforeRelease` (at its later
  steps the tag was pushed), `CommitInHand` (where only the workflow publishes, the commit it
  works on is not published and its drafts have the version in hand), `DraftInHand` and
  `CheckoutIsMain`. Uniqueness across the two processes rests on the origin refusing a second
  tag of a name, and GitHub a second published release of a tag; nobody refuses a draft.
  `DraftInHand` therefore holds only where the workflow alone publishes and read nothing wrong
  (`Alone`): then a version it drafts has no release yet, and one it publishes has its assets,
  also when it resumed a draft of a run that failed.
  The types need `Typed`: there are finitely many releases, so that the newest one, which
  plans and previews take their version from, exists (`NewestIsMember`: a nonempty finite
  set of versions has a greatest one, by well-foundedness of proper inclusion), and every
  commit that is to be released is one of main's (`InMain`).
- Goal executor: `Inv` relates the command in progress to GitHub: every Task before the one
  in hand has an Issue (`CommandInOrder`); past the check the base is validated
  (`CommandBaseValidated`); the Issue in hand has the Task's title and is a person's unless
  this command opened it (`CommandHoldsIssue`); a command that writes a contract has a branch,
  and made it if it made the Issue (`CommandHoldsBranch`); and until the first
  request that opens an Issue is sent, every Issue of the Task is a person's (`NoneOpenedYet`).

Only model-checked is what needs fairness, which is out of the prover's reach:
`WorkingIsLeft`, `LoneReadyGetsAPlace`, `ExecuteReturns`, `GoalEnds` and `ReviewIsTaken`.
`NobodyIsStuck` and `EveryStepAdvances` are the safety halves of `ExecuteReturns` and
`GoalEnds`; the step from them to the leads-to properties is not proved. The violated
properties are shown by their runs alone.

## 6. Not modelled

What is left, roughly by what it would add:

1. `Timeline`: two writers of one comment, read-modify-write; `github_review_submission.py`:
   a head that moves between its verification and the submission; `registry_reload.py`: a
   changing set of repositories under a running cycle; overlapping goal commands, which only the
   proofs cover. The reload's hazard is listed with the
   reason why no property covers it.
2. A composition of `Polling` and `ReviewCycle` over several Issues with commits. Each has what
   the other abstracts; together they are out of TLC's reach at any bound that is of use.
3. In `ReviewCycle`: people who force-push, a linked pull request of another branch, several
   pull requests of one Issue, dry runs, the kill switch and the allow list of the automatic
   merge, agents that commit by themselves. That a rebase drops a person's
   commit is observed above; no property is about it. In `ReleasePipeline`: major increments,
   prereleases, two operators at once. In `GoalExecutor`: two operators at once, the
   planners' checks of an existing workspace.
4. A theorem from `NobodyIsStuck` and `EveryStepAdvances` to termination, which would take
   ENABLED and well-founded induction over behaviours.

Not planned: text generation and parsing (specifications, contract metadata, prompts,
comments, goal texts), logging, the doctor's checks, the HTTP clients' pages and headers.
