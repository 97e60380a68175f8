------------------------------ MODULE TaskBranch ------------------------------
(***************************************************************************)
(* The branch of one Issue: on origin, in DevBot's local repository, and   *)
(* the Issue's worktree (worktree.WorktreeManager, bootstrap, the git      *)
(* calls of delivery).  An action here is one git step; ReviewCycle        *)
(* composes them into Jobs.                                                *)
(*                                                                         *)
(* A commit is the set of changes it contains and the version of main it   *)
(* is based on.  Changes are numbered as they are made.                    *)
(*                                                                         *)
(* Bounds: MaxChanges changes, MaxBase advances of main.                   *)
(***************************************************************************)
EXTENDS IssueLabels, FiniteSets

CONSTANTS MaxChanges, MaxBase, NoCommit

Change == 1..MaxChanges
Commit == [work : SUBSET Change, base : 0..MaxBase]

ASSUME TaskBranchAssumption ==
  /\ MaxChanges \in Nat
  /\ MaxBase \in Nat
  /\ NoCommit \notin Commit

VARIABLES
  main,       \* the version of origin/main
  conflict,   \* main and the branch change the same lines
  origin,     \* the branch on origin
  local,      \* the branch in the local repository; survives the worktree
  worktree,   \* "absent", "clean", or "dirty": uncommitted or untracked files
  made        \* the changes made so far

branchVars == <<main, conflict, origin, local, worktree, made>>

Worktree == {"absent", "clean", "dirty"}

\* d is an ancestor of c: a push of c over d is a fast-forward.
Contains(c, d) == d # NoCommit => d.base = c.base /\ d.work \subseteq c.work

\* Faulty: the reused branch is reset to origin.
LocalTipFromOrigin == origin

\* Faulty: a checkout of main instead of the branch.
LocalTipFromMain == [work |-> {}, base |-> main]

\* What `worktree add` or a reused worktree has checked out: an existing local
\* branch as it is, never brought up to origin.
LocalTip == IF local = NoCommit THEN origin ELSE local

\* Faulty: a fresh checkout over whatever was there.
CheckedOutAfresh(tip) ==
  /\ local' = tip
  /\ worktree' = "clean"

\* _create_or_reuse: a registered worktree is reused with the files in it.
CheckedOut(tip) ==
  /\ local' = tip
  /\ worktree' = IF worktree = "absent" THEN "clean" ELSE worktree

\* A branch from origin/main when the Issue has none; the contract is an
\* untracked file until it is in a commit.
Bootstrapped ==
  /\ local' = IF local = NoCommit THEN [work |-> {}, base |-> main] ELSE local
  /\ worktree' = IF local'.work = {} THEN "dirty"
                 ELSE IF worktree = "absent" THEN "clean" ELSE worktree
  /\ UNCHANGED <<main, conflict, origin, made>>

Dirty == worktree = "dirty"

\* Integrating commit c with main succeeds.
Integrates(c) == c.base = main \/ ~conflict

\* commit_all_changes.
Committed ==
  /\ Dirty
  /\ made' = made + 1
  /\ local' = [local EXCEPT !.work = @ \cup {made + 1}]
  /\ worktree' = "clean"
  /\ UNCHANGED <<main, conflict, origin>>

\* push_task_branch: rejected unless it is a fast-forward.
Pushed ==
  /\ Contains(local, origin)
  /\ origin' = local
  /\ UNCHANGED <<main, conflict, local, worktree, made>>

\* push --force-with-lease: rejected when origin is not what was fetched.
PushedWithLease(fetched) ==
  /\ origin = fetched
  /\ origin' = local
  /\ UNCHANGED <<main, conflict, local, worktree, made>>

\* branch_has_implementation_evidence: more than one commit ahead of main, one of
\* which is the contract's when a planner opened the PR.
HasImplementationEvidence(contractCommits) ==
  Cardinality(local.work) + contractCommits > 1
===============================================================================
