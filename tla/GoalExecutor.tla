---------------------------- MODULE GoalExecutor ----------------------------
(***************************************************************************)
(* `devbot goal execute --confirm` (goal_executor over goal_planner and    *)
(* github_retry): one planned Task of a goal becomes an Issue, a branch    *)
(* and a draft contract, while people open and close Issues, push          *)
(* branches, and merge.  The reads of the plan are one step, and so is     *)
(* each later request; a write is repeated while its answer is lost.       *)
(*                                                                         *)
(* A title is [task, number]: `Task NNN: <title>`.  The branch and the     *)
(* contract's path are the title's too.                                    *)
(*                                                                         *)
(* Bounds: MaxMain commits, MaxEdits acts of people, MaxFaults requests    *)
(* that fail or whose answer is lost.                                      *)
(***************************************************************************)
EXTENDS Naturals, Sequences

CONSTANTS
  Tasks,        \* the planned Tasks are 1..Tasks, in their order
  MaxAttempts,  \* GitHubRetryConfig.max_attempts
  MaxMain,
  MaxEdits,
  MaxFaults

ASSUME GoalExecutorAssumption ==
  /\ Tasks \in Nat \ {0}
  /\ MaxAttempts \in Nat \ {0}
  /\ MaxMain \in Nat \ {0}
  /\ MaxEdits \in Nat
  /\ MaxFaults \in Nat

VARIABLES
  issues,       \* in the order they were opened
  branches,
  main,         \* origin's main: the Task number whose contract a commit adds, or 0
  validated,    \* the commits of main with a successful CI run
  checkout,     \* the operator's checkout: its commit of main, and whether it is dirty
  cmd,          \* the command in progress
  edits,
  faults

vars == <<issues, branches, main, validated, checkout, cmd, edits, faults>>

Task == 1..Tasks
Number == 1..(MaxMain + 1)

\* devbot: opened by a command; its body quotes the goal.
Issue == [task : Task, number : Number, open : BOOLEAN, devbot : BOOLEAN]

\* base: the commit of main it starts from.  contract: the Issue its draft
\* contract names, 0 without one.
Branch == [task : Task, number : Number, base : Nat, devbot : BOOLEAN, contract : Nat]

Step ==
  {"none", "base", "find-issue", "issue", "find-branch", "branch", "find-contract", "contract"}

Command ==
  [step : Step, task : Task, number : Number, base : Nat, issue : Nat,
   created : BOOLEAN, attempt : Nat]

NoCommand ==
  [step |-> "none", task |-> 1, number |-> 1, base |-> 0, issue |-> 0,
   created |-> FALSE, attempt |-> 0]

Init ==
  /\ issues = <<>>
  /\ branches = {}
  /\ main = <<0>>
  /\ validated = {}
  /\ checkout = [at |-> 1, dirty |-> FALSE]
  /\ cmd = NoCommand
  /\ edits = 0
  /\ faults = 0

-------------------------------------------------------------------------------
Fault == faults < MaxFaults /\ faults' = faults + 1
NoFault == UNCHANGED faults

Go(step) == cmd' = [cmd EXCEPT !.step = step, !.attempt = 1]
End == cmd' = NoCommand

\* Faulty: the last attempt is repeated too.
AgainInclusive ==
  cmd' = IF cmd.attempt <= MaxAttempts THEN [cmd EXCEPT !.attempt = @ + 1] ELSE NoCommand

\* execute_with_github_retry: once more, until the attempts are used up.
Again ==
  cmd' = IF cmd.attempt < MaxAttempts THEN [cmd EXCEPT !.attempt = @ + 1] ELSE NoCommand

\* A read that fails, or a command that is interrupted, ends it.
Abort ==
  /\ cmd.step # "none"
  /\ End /\ Fault
  /\ UNCHANGED <<issues, branches, main, validated, checkout, edits>>

-------------------------------------------------------------------------------
(* The plan. *)

\* plan_goal: an open Issue that quotes the goal already covers it.
DuplicateOpenWork == \E i \in DOMAIN issues : issues[i].devbot /\ issues[i].open

\* Faulty: only the open Issues are listed.
MaterializedOpen == {issues[i].task : i \in {j \in DOMAIN issues : issues[j].open}}

\* find_materialized_task: an Issue with the Task's title, under any number.
Materialized == {issues[i].task : i \in DOMAIN issues}

\* Faulty: any Task that is not materialized.
SelectableInAnyOrder(task) == task \notin Materialized

\* build_execution_plan: the first Task that is not materialized.
Selectable(task) ==
  /\ task \notin Materialized
  /\ \A t \in Task \ Materialized : task <= t

\* next_task_number: over the contracts of the checkout.
IsNextTaskNumber(n) ==
  /\ \A c \in 1..checkout.at : main[c] < n
  /\ n = 1 \/ \E c \in 1..checkout.at : main[c] = n - 1

\* local_main_matches_origin: a fetch that fails is not a blocker.
Synced == (checkout.at = Len(main) /\ NoFault) \/ Fault

\* The command ends here for every blocker and for a Task that is materialized.
Execute(task) ==
  /\ cmd = NoCommand
  /\ ~DuplicateOpenWork
  /\ Selectable(task)
  /\ ~checkout.dirty
  /\ Synced
  /\ \E n \in Number :
       /\ IsNextTaskNumber(n)
       /\ cmd' = [NoCommand EXCEPT !.step = "base", !.task = task, !.number = n]
  /\ UNCHANGED <<issues, branches, main, validated, checkout, edits>>

\* Faulty: the commit of the checkout is validated instead.
CheckoutIsValidated == checkout.at \in validated

\* target_commit_is_ci_validated.
BaseIsValid == Len(main) \in validated

ValidateBase ==
  /\ cmd.step = "base"
  /\ IF BaseIsValid
     THEN cmd' = [cmd EXCEPT !.step = "find-issue", !.base = Len(main)] ELSE End
  /\ UNCHANGED <<issues, branches, main, validated, checkout, edits, faults>>

-------------------------------------------------------------------------------
(* materialize_planned_task. *)

\* _find_issue_by_exact_title.
Titled == {i \in DOMAIN issues : issues[i].task = cmd.task /\ issues[i].number = cmd.number}

\* The Task's branch, if it exists.
Named == {b \in branches : b.task = cmd.task /\ b.number = cmd.number}

FindIssue ==
  /\ cmd.step = "find-issue"
  /\ IF Titled = {} THEN Go("issue")
     ELSE \E i \in Titled : cmd' = [cmd EXCEPT !.step = "find-branch", !.issue = i]
  /\ UNCHANGED <<issues, branches, main, validated, checkout, edits, faults>>

\* GitHub opens as many Issues of one title as it is asked for.
CreateIssue ==
  /\ cmd.step = "issue"
  /\ LET opened == Append(issues, [task |-> cmd.task, number |-> cmd.number,
                                   open |-> TRUE, devbot |-> TRUE])
     IN \/ /\ issues' = opened
           /\ cmd' = [cmd EXCEPT !.step = "find-branch", !.issue = Len(opened), !.created = TRUE]
           /\ NoFault
        \/ issues' \in {issues, opened} /\ Again /\ Fault
  /\ UNCHANGED <<branches, main, validated, checkout, edits>>

\* Faulty: a branch that exists is used, whoever made it.
BranchReused == TRUE

\* A branch next to an Issue that was just created is somebody else's.
BranchIsReusable == ~cmd.created

FindBranch ==
  /\ cmd.step = "find-branch"
  /\ IF Named = {} THEN Go("branch")
     ELSE IF BranchIsReusable THEN Go("find-contract") ELSE End
  /\ UNCHANGED <<issues, branches, main, validated, checkout, edits, faults>>

\* GitHub refuses a branch that exists, the one of a lost answer included.
CreateBranch ==
  /\ cmd.step = "branch"
  /\ LET made == branches \cup {[task |-> cmd.task, number |-> cmd.number, base |-> cmd.base,
                                 devbot |-> TRUE, contract |-> 0]}
     IN \/ Named = {} /\ branches' = made /\ Go("find-contract") /\ NoFault
        \/ Named = {} /\ branches' \in {branches, made} /\ Again /\ Fault
        \/ Named # {} /\ UNCHANGED branches /\ End /\ NoFault
  /\ UNCHANGED <<issues, main, validated, checkout, edits>>

FindContract ==
  /\ cmd.step = "find-contract"
  /\ IF \E b \in Named : b.contract # 0 THEN End ELSE Go("contract")
  /\ UNCHANGED <<issues, branches, main, validated, checkout, edits, faults>>

\* GitHub refuses a file that exists.
CreateContract ==
  /\ cmd.step = "contract"
  /\ LET refused == \A b \in Named : b.contract # 0
         written == {IF b \in Named THEN [b EXCEPT !.contract = cmd.issue] ELSE b : b \in branches}
     IN \/ ~refused /\ branches' = written /\ End /\ NoFault
        \/ ~refused /\ branches' \in {branches, written} /\ Again /\ Fault
        \/ refused /\ UNCHANGED branches /\ End /\ NoFault
  /\ UNCHANGED <<issues, main, validated, checkout, edits>>

-------------------------------------------------------------------------------
(* People. *)

Act == edits < MaxEdits /\ edits' = edits + 1

PersonOpensIssue ==
  /\ Act
  /\ \E task \in Task, n \in Number :
       /\ IsNextTaskNumber(n)
       /\ issues' = Append(issues, [task |-> task, number |-> n,
                                    open |-> TRUE, devbot |-> FALSE])
  /\ UNCHANGED <<branches, main, validated, checkout, cmd, faults>>

\* Closes it or opens it again.
PersonClosesIssue ==
  /\ Act
  /\ \E i \in DOMAIN issues : issues' = [issues EXCEPT ![i].open = ~@]
  /\ UNCHANGED <<branches, main, validated, checkout, cmd, faults>>

PersonPushesBranch ==
  /\ Act
  /\ \E task \in Task, n \in Number :
       /\ IsNextTaskNumber(n)
       /\ \A b \in branches : b.task # task \/ b.number # n
       /\ branches' = branches \cup {[task |-> task, number |-> n, base |-> checkout.at,
                                      devbot |-> FALSE, contract |-> 0]}
  /\ UNCHANGED <<issues, main, validated, checkout, cmd, faults>>

\* Between commands: nobody deletes the branch DevBot is about to write into.
PersonDeletesBranch ==
  /\ cmd = NoCommand
  /\ Act
  /\ \E b \in branches : branches' = branches \ {b}
  /\ UNCHANGED <<issues, main, validated, checkout, cmd, faults>>

\* The pull request of a branch with its contract, or an unrelated one.
PersonMerges ==
  /\ Len(main) < MaxMain
  /\ \E n \in {0} \cup {b.number : b \in {c \in branches : c.contract # 0}} :
       main' = Append(main, n)
  /\ UNCHANGED <<issues, branches, validated, checkout, cmd, edits, faults>>

CIPasses ==
  /\ \E c \in DOMAIN main \ validated : validated' = validated \cup {c}
  /\ UNCHANGED <<issues, branches, main, checkout, cmd, edits, faults>>

\* git pull, and edits in the checkout.
OperatorPrepares ==
  /\ cmd = NoCommand
  /\ checkout' \in [at : {checkout.at, Len(main)}, dirty : BOOLEAN]
  /\ UNCHANGED <<issues, branches, main, validated, cmd, edits, faults>>

-------------------------------------------------------------------------------
Commands ==
  \/ \E task \in Task : Execute(task)
  \/ ValidateBase \/ FindIssue \/ CreateIssue \/ FindBranch \/ CreateBranch
  \/ FindContract \/ CreateContract \/ Abort

People ==
  \/ PersonOpensIssue \/ PersonClosesIssue \/ PersonPushesBranch \/ PersonDeletesBranch
  \/ PersonMerges \/ CIPasses \/ OperatorPrepares

Next == Commands \/ People

Spec == Init /\ [][Next]_vars

-------------------------------------------------------------------------------
(* Properties. *)

\* Every variable has its type.
TypeOK ==
  /\ issues \in Seq(Issue)
  /\ branches \subseteq Branch
  /\ main \in Seq(0..(MaxMain + 1))
  /\ validated \subseteq DOMAIN main
  /\ checkout \in [at : 1..Len(main), dirty : BOOLEAN]
  /\ cmd \in Command
  /\ cmd.attempt <= MaxAttempts
  /\ edits \in 0..MaxEdits
  /\ faults \in 0..MaxFaults

DevBotIssues == {i \in DOMAIN issues : issues[i].devbot}

\* Task 040, requirement 6: DevBot opens the Issue of a planned Task only after
\* every earlier Task has one, though commands fail and people reorganise Issues.
TasksInOrder ==
  \A i \in DevBotIssues : \A task \in 1..(issues[i].task - 1) :
    \E j \in 1..(i - 1) : issues[j].task = task

\* Requirement 7, "never duplicating": however commands fail and are repeated, and
\* whatever people do to the Issues, the first request for a Task's Issue is sent when
\* DevBot has opened none for it: only a repeated write of one command opens another.
OneRequestPerTask ==
  [][\A i \in DevBotIssues' \ DevBotIssues :
       \/ \A j \in DevBotIssues : issues[j].task # issues'[i].task
       \/ cmd.step = "issue" /\ cmd.attempt > 1]_vars

\* Requirement 8: a contract names the Issue of its branch's title, and DevBot
\* writes into a branch it did not make only for an Issue it did not open.
ContractHasItsIssue ==
  \A b \in {c \in branches : c.contract # 0} :
    /\ b.contract \in DOMAIN issues
    /\ issues[b.contract].task = b.task /\ issues[b.contract].number = b.number
    /\ ~b.devbot => ~issues[b.contract].devbot

\* Requirement 5: DevBot's branches start from commits CI validated, though main
\* advances during the command and the checkout may be behind.
BaseIsValidated == \A b \in branches : b.devbot => b.base \in validated
=============================================================================
