-------------------------- MODULE GoalExecutorProofs --------------------------
(* Theorems about GoalExecutor, for any numbers of Tasks, commits, acts of *)
(* people and lost answers.                                                *)
EXTENDS GoalExecutor, SequenceTheorems, TLAPS

WithIssue == {"find-branch", "branch", "find-contract", "contract"}
WithBranch == {"find-contract", "contract"}

\* Every Task before the one in hand has an Issue.
CommandInOrder ==
  cmd.step # "none" =>
    \A task \in 1..(cmd.task - 1) : \E i \in DOMAIN issues : issues[i].task = task

\* A command past the check of the base holds a validated commit.
CommandBaseValidated == cmd.step \notin {"none", "base"} => cmd.base \in validated

\* The Issue in hand has the title of the Task, and was opened by a person unless
\* this command opened it.
CommandHoldsIssue ==
  cmd.step \in WithIssue =>
    /\ cmd.issue \in DOMAIN issues
    /\ issues[cmd.issue].task = cmd.task /\ issues[cmd.issue].number = cmd.number
    /\ ~cmd.created => ~issues[cmd.issue].devbot

\* Until the request that opens the Issue is sent for the first time, every Issue of the
\* Task is a person's.
Unsent == cmd.step \in {"base", "find-issue"} \/ (cmd.step = "issue" /\ cmd.attempt = 1)

NoneOpenedYet ==
  /\ cmd.step = "issue" => cmd.attempt >= 1
  /\ Unsent => \A i \in DOMAIN issues : issues[i].task = cmd.task => ~issues[i].devbot

\* A command that writes a contract has a branch, and made it if it made the Issue.
CommandHoldsBranch ==
  cmd.step \in WithBranch =>
    /\ Named # {}
    /\ cmd.created => \A b \in Named : b.devbot

Inv ==
  /\ TypeOK
  /\ CommandInOrder
  /\ TasksInOrder
  /\ CommandBaseValidated
  /\ BaseIsValidated
  /\ CommandHoldsIssue
  /\ NoneOpenedYet
  /\ CommandHoldsBranch
  /\ ContractHasItsIssue

-------------------------------------------------------------------------------
(* What the steps do to the Issues. *)

\* No step removes an Issue or changes its title or who opened it.
IssuesKept ==
  \A i \in DOMAIN issues :
    /\ i \in DOMAIN issues'
    /\ issues'[i].task = issues[i].task
    /\ issues'[i].number = issues[i].number
    /\ issues'[i].devbot = issues[i].devbot

\* What an Issue more is to the sequence of Issues.
LEMMA AppendedIssue ==
  ASSUME TypeOK, NEW issue \in Issue
  PROVE  LET opened == Append(issues, issue) IN
         /\ opened \in Seq(Issue)
         /\ Len(opened) = Len(issues) + 1
         /\ DOMAIN opened = DOMAIN issues \cup {Len(issues) + 1}
         /\ DOMAIN issues = 1..Len(issues)
         /\ \A i \in DOMAIN issues : opened[i] = issues[i]
         /\ opened[Len(issues) + 1] = issue
<1> DEFINE opened == Append(issues, issue)
<1>1. issues \in Seq(Issue)
  BY DEF TypeOK
<1>2. /\ opened \in Seq(Issue)
      /\ Len(opened) = Len(issues) + 1
      /\ \A i \in 1..Len(issues) : opened[i] = issues[i]
      /\ opened[Len(issues) + 1] = issue
  BY <1>1, AppendProperties
<1>3. DOMAIN issues = 1..Len(issues) /\ DOMAIN opened = 1..Len(opened)
  BY <1>1, <1>2, LenProperties
<1>4. Len(issues) \in Nat
  BY <1>1, LenProperties
<1> QED
  BY <1>2, <1>3, <1>4

-------------------------------------------------------------------------------
(* The initial states, and the steps of people. *)

LEMMA InitInv == Init => Inv
<1> SUFFICES ASSUME Init PROVE Inv
  OBVIOUS
<1> USE GoalExecutorAssumption DEF Init
<1>1. TypeOK
  BY DEF TypeOK, NoCommand, Command, Step, Task, Number
<1>2. /\ CommandInOrder /\ TasksInOrder /\ CommandBaseValidated /\ BaseIsValidated
      /\ CommandHoldsIssue /\ NoneOpenedYet /\ CommandHoldsBranch /\ ContractHasItsIssue
  BY DEF CommandInOrder, TasksInOrder, DevBotIssues, CommandBaseValidated, BaseIsValidated,
     CommandHoldsIssue, NoneOpenedYet, Unsent, CommandHoldsBranch, ContractHasItsIssue,
     NoCommand, WithIssue, WithBranch
<1> QED
  BY <1>1, <1>2 DEF Inv

\* Between steps of the command people only add Issues of their own and branches with
\* names that are not taken; validated commits stay so.
LEMMA PeopleKeepInv ==
  ASSUME Inv, TypeOK', UNCHANGED <<cmd, faults>>,
         IssuesKept,
         \A i \in DOMAIN issues' \ DOMAIN issues : ~issues'[i].devbot,
         validated \subseteq validated',
         \A b \in branches' \ branches :
           /\ ~b.devbot /\ b.contract = 0
           /\ \A c \in branches : c.task # b.task \/ c.number # b.number,
         cmd # NoCommand => branches \subseteq branches'
  PROVE  Inv'
<1> USE DEF Inv
<1>1. DevBotIssues' = DevBotIssues
  BY DEF DevBotIssues, IssuesKept
<1>2. CommandInOrder'
  BY DEF CommandInOrder, IssuesKept
<1>3. TasksInOrder'
  <2>1. DOMAIN issues = 1..Len(issues) /\ Len(issues) \in Nat
    BY LenProperties DEF TypeOK
  <2> SUFFICES ASSUME NEW i \in DevBotIssues, NEW task \in 1..(issues[i].task - 1)
               PROVE  \E j \in 1..(i - 1) : issues'[j].task = task
    BY <1>1 DEF TasksInOrder, IssuesKept, DevBotIssues
  <2>2. PICK j \in 1..(i - 1) : issues[j].task = task
    BY DEF TasksInOrder
  <2>3. j \in DOMAIN issues
    BY <2>1 DEF DevBotIssues
  <2> QED
    BY <2>2, <2>3 DEF IssuesKept
<1>4. CommandBaseValidated' /\ BaseIsValidated'
  BY DEF CommandBaseValidated, BaseIsValidated
<1>5. CommandHoldsIssue' /\ NoneOpenedYet'
  BY DEF CommandHoldsIssue, NoneOpenedYet, Unsent, IssuesKept
<1>6. CommandHoldsBranch'
  <2>1. CASE cmd.step \in WithBranch
    <3>1. cmd # NoCommand
      BY <2>1 DEF WithBranch, NoCommand
    <3>2. Named' = Named
      BY <2>1, <3>1 DEF Named, CommandHoldsBranch
    <3> QED
      BY <3>2 DEF CommandHoldsBranch
  <2> QED
    BY <2>1 DEF CommandHoldsBranch
<1>7. ContractHasItsIssue'
  BY DEF ContractHasItsIssue, IssuesKept
<1> QED
  BY <1>2, <1>3, <1>4, <1>5, <1>6, <1>7

LEMMA PersonOpensIssueKeepsInv == Inv /\ PersonOpensIssue => Inv'
<1> SUFFICES ASSUME Inv, PersonOpensIssue PROVE Inv'
  OBVIOUS
<1>1. PICK issue \in Issue : ~issue.devbot /\ issues' = Append(issues, issue)
  BY DEF PersonOpensIssue, Issue
<1>2. /\ issues' \in Seq(Issue)
      /\ DOMAIN issues' = DOMAIN issues \cup {Len(issues) + 1}
      /\ \A i \in DOMAIN issues : issues'[i] = issues[i]
      /\ ~issues'[Len(issues) + 1].devbot
  <2>1. TypeOK
    BY DEF Inv
  <2> QED
    BY <1>1, <2>1, AppendedIssue
<1>3. TypeOK'
  BY <1>2, GoalExecutorAssumption DEF Inv, TypeOK, PersonOpensIssue, Act
<1> QED
  BY <1>2, <1>3, PeopleKeepInv DEF PersonOpensIssue, IssuesKept

LEMMA PersonClosesIssueKeepsInv == Inv /\ PersonClosesIssue => Inv'
<1> SUFFICES ASSUME Inv, PersonClosesIssue PROVE Inv'
  OBVIOUS
<1>1. PICK i \in DOMAIN issues : issues' = [issues EXCEPT ![i].open = ~@]
  BY DEF PersonClosesIssue
<1>2. issues \in Seq(Issue) /\ issues[i] \in Issue
  BY ElementOfSeq, LenProperties DEF Inv, TypeOK
<1>3. [issues[i] EXCEPT !.open = ~@] \in Issue
  BY <1>2 DEF Issue
<1>4. issues' \in Seq(Issue) /\ DOMAIN issues' = DOMAIN issues
  BY <1>1, <1>2, <1>3, ExceptSeq
<1>5. \A k \in DOMAIN issues :
        /\ issues'[k].task = issues[k].task
        /\ issues'[k].number = issues[k].number
        /\ issues'[k].devbot = issues[k].devbot
  <2>1. \A k \in DOMAIN issues : issues[k] \in Issue
    BY <1>2, ElementOfSeq, LenProperties
  <2> QED
    BY <1>1, <2>1 DEF Issue
<1>6. TypeOK'
  BY <1>4, GoalExecutorAssumption DEF Inv, TypeOK, PersonClosesIssue, Act
<1> QED
  BY <1>4, <1>5, <1>6, PeopleKeepInv DEF PersonClosesIssue, IssuesKept

LEMMA BranchesOfPeopleKeepInv ==
  Inv /\ (PersonPushesBranch \/ PersonDeletesBranch) => Inv'
<1>1. ASSUME Inv, PersonPushesBranch PROVE Inv'
  <2>1. PICK b :
          /\ b \in Branch /\ ~b.devbot /\ b.contract = 0
          /\ \A c \in branches : c.task # b.task \/ c.number # b.number
          /\ branches' = branches \cup {b}
    <3>1. PICK task \in Task, n \in Number :
            /\ \A c \in branches : c.task # task \/ c.number # n
            /\ branches' = branches \cup {[task |-> task, number |-> n, base |-> checkout.at,
                                           devbot |-> FALSE, contract |-> 0]}
      BY <1>1 DEF PersonPushesBranch
    <3>2. checkout.at \in Nat
      BY <1>1, LenProperties DEF Inv, TypeOK
    <3> QED
      BY <3>1, <3>2 DEF Branch
  <2>2. TypeOK'
    BY <1>1, <2>1, GoalExecutorAssumption DEF Inv, TypeOK, PersonPushesBranch, Act
  <2> QED
    BY <1>1, <2>1, <2>2, PeopleKeepInv DEF PersonPushesBranch, IssuesKept
<1>2. ASSUME Inv, PersonDeletesBranch PROVE Inv'
  <2>1. branches' \subseteq branches
    BY <1>2 DEF PersonDeletesBranch
  <2>2. TypeOK'
    BY <1>2, <2>1, GoalExecutorAssumption DEF Inv, TypeOK, PersonDeletesBranch, Act
  <2> QED
    BY <1>2, <2>1, <2>2, PeopleKeepInv DEF PersonDeletesBranch, IssuesKept
<1> QED
  BY <1>1, <1>2

LEMMA MainAndCheckoutKeepInv ==
  Inv /\ (PersonMerges \/ CIPasses \/ OperatorPrepares) => Inv'
<1>1. ASSUME Inv, PersonMerges PROVE Inv'
  <2>1. PICK n \in 0..(MaxMain + 1) : main' = Append(main, n)
    BY <1>1, GoalExecutorAssumption DEF PersonMerges, Inv, TypeOK, Branch, Number
  <2>2. /\ main \in Seq(0..(MaxMain + 1)) /\ main' \in Seq(0..(MaxMain + 1))
        /\ Len(main') = Len(main) + 1
        /\ Len(main) \in Nat /\ DOMAIN main = 1..Len(main) /\ DOMAIN main' = 1..Len(main')
    BY <1>1, <2>1, AppendProperties, LenProperties DEF Inv, TypeOK
  <2>3. TypeOK'
    BY <1>1, <2>2 DEF Inv, TypeOK, PersonMerges
  <2> QED
    BY <1>1, <2>3, PeopleKeepInv DEF PersonMerges, IssuesKept
<1>2. ASSUME Inv, CIPasses PROVE Inv'
  <2>1. TypeOK'
    BY <1>2 DEF Inv, TypeOK, CIPasses
  <2> QED
    BY <1>2, <2>1, PeopleKeepInv DEF CIPasses, IssuesKept
<1>3. ASSUME Inv, OperatorPrepares PROVE Inv'
  <2>1. checkout' \in [at : 1..Len(main), dirty : BOOLEAN]
    <3>1. Len(main) \in Nat /\ checkout.at \in 1..Len(main)
      BY <1>3, LenProperties DEF Inv, TypeOK
    <3> QED
      BY <1>3, <3>1 DEF OperatorPrepares
  <2>2. TypeOK'
    BY <1>3, <2>1 DEF Inv, TypeOK, OperatorPrepares
  <2> QED
    BY <1>3, <2>2, PeopleKeepInv DEF OperatorPrepares, IssuesKept
<1> QED
  BY <1>1, <1>2, <1>3

LEMMA PeopleStepKeepsInv == Inv /\ People => Inv'
BY PersonOpensIssueKeepsInv, PersonClosesIssueKeepsInv, BranchesOfPeopleKeepInv,
   MainAndCheckoutKeepInv DEF People

-------------------------------------------------------------------------------
(* The steps of the command. *)

\* A step that only moves the command keeps what does not depend on it.
LEMMA CommandMoves ==
  ASSUME Inv, TypeOK', UNCHANGED <<issues, branches, validated>>,
         CommandInOrder', CommandBaseValidated', CommandHoldsIssue', NoneOpenedYet',
         CommandHoldsBranch'
  PROVE  Inv'
<1>1. TasksInOrder' /\ BaseIsValidated' /\ ContractHasItsIssue'
  BY DEF Inv, TasksInOrder, BaseIsValidated, ContractHasItsIssue, DevBotIssues
<1> QED
  BY <1>1 DEF Inv

LEMMA EndMoves ==
  NoCommand \in Command /\ NoCommand.attempt <= MaxAttempts /\ NoCommand.step = "none"
BY GoalExecutorAssumption DEF NoCommand, Command, Step, Task, Number

LEMMA CommandEnds ==
  ASSUME Inv, End, UNCHANGED <<issues, branches, main, validated, checkout, edits>>,
         NoFault \/ Fault
  PROVE  Inv'
<1>1. cmd' = NoCommand /\ cmd'.step = "none" /\ faults' \in {faults, faults + 1}
  BY EndMoves DEF End, NoFault, Fault
<1>2. TypeOK'
  BY <1>1, EndMoves, GoalExecutorAssumption DEF Inv, TypeOK, NoFault, Fault
<1> QED
  BY <1>1, <1>2, CommandMoves
     DEF CommandInOrder, CommandBaseValidated, CommandHoldsIssue, NoneOpenedYet,
         Unsent, CommandHoldsBranch, WithIssue, WithBranch

LEMMA AbortKeepsInv == Inv /\ Abort => Inv'
BY CommandEnds DEF Abort

LEMMA ExecuteKeepsInv ==
  ASSUME Inv, NEW task \in Task, Execute(task)
  PROVE  Inv'
<1>1. PICK n \in Number :
        cmd' = [NoCommand EXCEPT !.step = "base", !.task = task, !.number = n]
  BY DEF Execute
<1>2. /\ cmd' \in Command /\ cmd'.attempt <= MaxAttempts
      /\ cmd'.step = "base" /\ cmd'.task = task
  <2>1. cmd' = [step |-> "base", task |-> task, number |-> n, base |-> 0, issue |-> 0,
                created |-> FALSE, attempt |-> 0]
    BY <1>1 DEF NoCommand
  <2> QED
    BY <2>1, GoalExecutorAssumption DEF Command, Step
<1>3. /\ UNCHANGED <<issues, branches, main, validated, checkout, edits>>
      /\ faults' = faults \/ (faults < MaxFaults /\ faults' = faults + 1)
  BY DEF Execute, Synced, Fault, NoFault
<1>4. TypeOK'
  BY <1>2, <1>3, GoalExecutorAssumption DEF Inv, TypeOK
<1>5. \A i \in DOMAIN issues : issues[i].task # task
  BY DEF Execute, Selectable, Materialized
<1>6. \A t \in 1..(task - 1) : \E i \in DOMAIN issues : issues[i].task = t
  <2> SUFFICES ASSUME NEW t \in 1..(task - 1) PROVE t \in Materialized
    BY DEF Materialized
  <2>1. t \in Task /\ ~(task <= t)
    BY GoalExecutorAssumption DEF Task
  <2> QED
    BY <2>1 DEF Execute, Selectable
<1> QED
  BY <1>2, <1>3, <1>4, <1>5, <1>6, CommandMoves
     DEF CommandInOrder, CommandBaseValidated, CommandHoldsIssue, NoneOpenedYet,
         CommandHoldsBranch, WithIssue, WithBranch

\* What a step to the next request leaves of the command.
LEMMA GoMoves ==
  ASSUME TypeOK, NEW step \in Step, Go(step)
  PROVE  /\ cmd' \in Command /\ cmd'.attempt <= MaxAttempts /\ cmd'.attempt = 1
         /\ cmd'.step = step
         /\ cmd'.task = cmd.task /\ cmd'.number = cmd.number /\ cmd'.base = cmd.base
         /\ cmd'.issue = cmd.issue /\ cmd'.created = cmd.created
<1>1. cmd \in Command /\ cmd' = [cmd EXCEPT !.step = step, !.attempt = 1]
  BY DEF TypeOK, Go
<1>2. cmd' = [step |-> step, task |-> cmd.task, number |-> cmd.number, base |-> cmd.base,
              issue |-> cmd.issue, created |-> cmd.created, attempt |-> 1]
  BY <1>1 DEF Command
<1> QED
  BY <1>1, <1>2, GoalExecutorAssumption DEF Command

\* What a lost answer leaves of the command.
LEMMA AgainMoves ==
  ASSUME TypeOK, Again
  PROVE  /\ cmd' \in Command /\ cmd'.attempt <= MaxAttempts
         /\ \/ cmd'.step = "none"
            \/ /\ cmd'.attempt = cmd.attempt + 1
               /\ cmd'.step = cmd.step /\ cmd'.task = cmd.task /\ cmd'.number = cmd.number
               /\ cmd'.base = cmd.base /\ cmd'.issue = cmd.issue
               /\ cmd'.created = cmd.created
<1>1. cmd \in Command /\ cmd.attempt \in Nat
  BY DEF TypeOK, Command
<1>2. CASE cmd.attempt < MaxAttempts
  <2>1. cmd' = [cmd EXCEPT !.attempt = cmd.attempt + 1]
    BY <1>2 DEF Again
  <2> QED
    BY <1>1, <1>2, <2>1, GoalExecutorAssumption DEF Command
<1>3. CASE ~(cmd.attempt < MaxAttempts)
  <2>1. cmd' = NoCommand
    BY <1>3 DEF Again
  <2> QED
    BY <2>1, EndMoves DEF NoCommand
<1> QED
  BY <1>2, <1>3

LEMMA ValidateBaseKeepsInv == Inv /\ ValidateBase => Inv'
<1> SUFFICES ASSUME Inv, ValidateBase PROVE Inv'
  OBVIOUS
<1>1. CASE ~BaseIsValid
  BY <1>1, CommandEnds DEF ValidateBase, NoFault
<1>2. CASE BaseIsValid
  <2>1. /\ cmd \in Command /\ cmd.step = "base" /\ Len(main) \in Nat
        /\ cmd' = [cmd EXCEPT !.step = "find-issue", !.base = Len(main)]
    BY <1>2, LenProperties DEF ValidateBase, Inv, TypeOK
  <2>2. cmd' = [step |-> "find-issue", task |-> cmd.task, number |-> cmd.number,
                base |-> Len(main), issue |-> cmd.issue, created |-> cmd.created,
                attempt |-> cmd.attempt]
    BY <2>1 DEF Command
  <2>3. /\ cmd' \in Command /\ cmd'.attempt = cmd.attempt
        /\ cmd'.step = "find-issue" /\ cmd'.task = cmd.task /\ cmd'.base = Len(main)
    BY <2>1, <2>2 DEF Command, Step
  <2>4. UNCHANGED <<issues, branches, main, validated, checkout, edits, faults>>
    BY DEF ValidateBase
  <2>5. TypeOK'
    BY <2>3, <2>4 DEF Inv, TypeOK
  <2>6. CommandInOrder' /\ NoneOpenedYet'
    BY <2>1, <2>3, <2>4 DEF Inv, CommandInOrder, NoneOpenedYet, Unsent
  <2>7. CommandBaseValidated'
    BY <1>2, <2>3, <2>4 DEF BaseIsValid, CommandBaseValidated
  <2>8. CommandHoldsIssue' /\ CommandHoldsBranch'
    BY <2>3 DEF CommandHoldsIssue, CommandHoldsBranch, WithIssue, WithBranch
  <2> QED
    BY <2>4, <2>5, <2>6, <2>7, <2>8, CommandMoves
<1> QED
  BY <1>1, <1>2

LEMMA FindIssueKeepsInv == Inv /\ FindIssue => Inv'
<1> SUFFICES ASSUME Inv, FindIssue PROVE Inv'
  OBVIOUS
<1> USE DEF Inv
<1>1. /\ cmd \in Command /\ cmd.step = "find-issue"
      /\ UNCHANGED <<issues, branches, main, validated, checkout, edits, faults>>
  BY DEF FindIssue, TypeOK
<1>2. CASE Titled = {}
  <2>1. Go("issue")
    BY <1>2 DEF FindIssue
  <2>2. /\ cmd' \in Command /\ cmd'.attempt <= MaxAttempts /\ cmd'.step = "issue"
        /\ cmd'.attempt = 1
        /\ cmd'.task = cmd.task /\ cmd'.base = cmd.base
    BY <2>1, GoMoves DEF Step
  <2>3. TypeOK'
    BY <1>1, <2>2 DEF TypeOK
  <2>4. /\ CommandInOrder' /\ CommandBaseValidated' /\ CommandHoldsIssue'
        /\ NoneOpenedYet' /\ CommandHoldsBranch'
    BY <1>1, <2>2 DEF CommandInOrder, CommandBaseValidated, CommandHoldsIssue, NoneOpenedYet,
       Unsent, CommandHoldsBranch, WithIssue, WithBranch
  <2> QED
    BY <1>1, <2>3, <2>4, CommandMoves
<1>3. CASE Titled # {}
  <2>1. PICK i \in Titled : cmd' = [cmd EXCEPT !.step = "find-branch", !.issue = i]
    BY <1>3 DEF FindIssue
  <2>2. cmd' = [step |-> "find-branch", task |-> cmd.task, number |-> cmd.number,
                base |-> cmd.base, issue |-> i, created |-> cmd.created,
                attempt |-> cmd.attempt]
    BY <1>1, <2>1 DEF Command
  <2>3. i \in DOMAIN issues /\ i \in Nat
    BY LenProperties DEF Titled, TypeOK
  <2>4. /\ cmd' \in Command /\ cmd'.attempt = cmd.attempt /\ cmd'.step = "find-branch"
        /\ cmd'.task = cmd.task /\ cmd'.number = cmd.number /\ cmd'.base = cmd.base
        /\ cmd'.issue = i
    BY <1>1, <2>2, <2>3 DEF Command, Step
  <2>5. TypeOK'
    BY <1>1, <2>4 DEF TypeOK
  <2>6. CommandHoldsIssue'
    BY <1>1, <2>3, <2>4 DEF Titled, NoneOpenedYet, Unsent, CommandHoldsIssue
  <2>7. /\ CommandInOrder' /\ CommandBaseValidated' /\ NoneOpenedYet'
        /\ CommandHoldsBranch'
    BY <1>1, <2>4 DEF CommandInOrder, CommandBaseValidated, NoneOpenedYet, Unsent,
       CommandHoldsBranch, WithBranch
  <2> QED
    BY <1>1, <2>5, <2>6, <2>7, CommandMoves
<1> QED
  BY <1>2, <1>3

LEMMA FindBranchKeepsInv == Inv /\ FindBranch => Inv'
<1> SUFFICES ASSUME Inv, FindBranch PROVE Inv'
  OBVIOUS
<1> USE DEF Inv
<1>1. /\ cmd.step = "find-branch"
      /\ UNCHANGED <<issues, branches, main, validated, checkout, edits, faults>>
  BY DEF FindBranch
<1>2. ASSUME NEW step \in {"branch", "find-contract"}, Go(step),
             step = "find-contract" => Named # {} /\ ~cmd.created
      PROVE  Inv'
  <2>1. /\ cmd' \in Command /\ cmd'.attempt <= MaxAttempts /\ cmd'.step = step
        /\ cmd'.task = cmd.task /\ cmd'.number = cmd.number /\ cmd'.base = cmd.base
        /\ cmd'.issue = cmd.issue /\ cmd'.created = cmd.created
    BY <1>2, GoMoves DEF Step
  <2>2. TypeOK'
    BY <1>1, <2>1 DEF TypeOK
  <2>3. /\ CommandInOrder' /\ CommandBaseValidated' /\ CommandHoldsIssue'
        /\ NoneOpenedYet'
    BY <1>1, <2>1 DEF CommandInOrder, CommandBaseValidated, CommandHoldsIssue, NoneOpenedYet,
       Unsent, WithIssue
  <2>4. CommandHoldsBranch'
    BY <1>1, <1>2, <2>1 DEF CommandHoldsBranch, Named, WithBranch
  <2> QED
    BY <1>1, <2>2, <2>3, <2>4, CommandMoves
<1>3. CASE Named = {}
  BY <1>2, <1>3 DEF FindBranch
<1>4. CASE Named # {} /\ BranchIsReusable
  BY <1>2, <1>4 DEF FindBranch, BranchIsReusable
<1>5. CASE Named # {} /\ ~BranchIsReusable
  BY <1>1, <1>5, CommandEnds DEF FindBranch, NoFault
<1> QED
  BY <1>3, <1>4, <1>5

LEMMA FindContractKeepsInv == Inv /\ FindContract => Inv'
<1> SUFFICES ASSUME Inv, FindContract PROVE Inv'
  OBVIOUS
<1> USE DEF Inv
<1>1. /\ cmd.step = "find-contract"
      /\ UNCHANGED <<issues, branches, main, validated, checkout, edits, faults>>
  BY DEF FindContract
<1>2. CASE \E b \in Named : b.contract # 0
  BY <1>1, <1>2, CommandEnds DEF FindContract, NoFault
<1>3. CASE ~\E b \in Named : b.contract # 0
  <2>1. Go("contract")
    BY <1>3 DEF FindContract
  <2>2. /\ cmd' \in Command /\ cmd'.attempt <= MaxAttempts /\ cmd'.step = "contract"
        /\ cmd'.task = cmd.task /\ cmd'.number = cmd.number /\ cmd'.base = cmd.base
        /\ cmd'.issue = cmd.issue /\ cmd'.created = cmd.created
    BY <2>1, GoMoves DEF Step
  <2>3. TypeOK'
    BY <1>1, <2>2 DEF TypeOK
  <2>4. /\ CommandInOrder' /\ CommandBaseValidated' /\ CommandHoldsIssue'
        /\ NoneOpenedYet' /\ CommandHoldsBranch'
    BY <1>1, <2>2 DEF CommandInOrder, CommandBaseValidated, CommandHoldsIssue, NoneOpenedYet,
       Unsent, CommandHoldsBranch, Named, WithIssue, WithBranch
  <2> QED
    BY <1>1, <2>3, <2>4, CommandMoves
<1> QED
  BY <1>2, <1>3

\* The request that opens the Issue, whether its answer arrives or not.
LEMMA IssueOpenedKeepsInv ==
  ASSUME Inv, NEW issue \in Issue,
         issue.task = cmd.task, issue.number = cmd.number,
         cmd.step = "issue",
         issues' = Append(issues, issue),
         UNCHANGED <<branches, main, validated, checkout, edits>>,
         cmd' \in Command, cmd'.attempt <= MaxAttempts,
         faults' \in 0..MaxFaults,
         \/ /\ issue.devbot /\ cmd'.step = "find-branch" /\ cmd'.created
            /\ cmd'.issue = Len(issues) + 1
         \/ cmd'.step = "none"
         \/ cmd'.step = "issue" /\ cmd'.attempt >= 2,
         cmd'.step # "none" =>
           cmd'.task = cmd.task /\ cmd'.number = cmd.number /\ cmd'.base = cmd.base
  PROVE  Inv'
<1> USE DEF Inv
<1>1. /\ issues' \in Seq(Issue)
      /\ DOMAIN issues' = DOMAIN issues \cup {Len(issues) + 1}
      /\ DOMAIN issues = 1..Len(issues) /\ Len(issues) \in Nat
      /\ \A i \in DOMAIN issues : issues'[i] = issues[i]
      /\ issues'[Len(issues) + 1] = issue
  BY AppendedIssue, LenProperties DEF TypeOK
<1>2. TypeOK'
  BY <1>1 DEF TypeOK
<1>3. CommandInOrder'
  BY <1>1 DEF CommandInOrder
<1>4. TasksInOrder'
  <2> SUFFICES ASSUME NEW i \in DevBotIssues', NEW task \in 1..(issues'[i].task - 1)
               PROVE  \E j \in 1..(i - 1) : issues'[j].task = task
    BY DEF TasksInOrder
  <2>1. CASE i = Len(issues) + 1
    <3>1. PICK j \in DOMAIN issues : issues[j].task = task
      BY <1>1, <2>1 DEF CommandInOrder
    <3> QED
      BY <1>1, <2>1, <3>1
  <2>2. CASE i # Len(issues) + 1
    <3>1. i \in DevBotIssues /\ issues'[i] = issues[i] /\ i \in 1..Len(issues)
      BY <1>1, <2>2 DEF DevBotIssues
    <3>2. PICK j \in 1..(i - 1) : issues[j].task = task
      BY <3>1 DEF TasksInOrder
    <3> QED
      BY <1>1, <3>1, <3>2
  <2> QED
    BY <2>1, <2>2
<1>5. CommandBaseValidated' /\ BaseIsValidated'
  BY DEF CommandBaseValidated, BaseIsValidated
<1>6. CommandHoldsIssue'
  BY <1>1 DEF CommandHoldsIssue, WithIssue
<1>7. NoneOpenedYet' /\ CommandHoldsBranch'
  <2>1. cmd'.step = "issue" => cmd'.attempt \in Nat /\ cmd'.attempt >= 2
    BY DEF Command
  <2>2. cmd'.step \in {"issue", "none", "find-branch"}
    OBVIOUS
  <2>3. ~Unsent'
    BY <2>1, <2>2 DEF Unsent
  <2> QED
    BY <2>1, <2>2, <2>3 DEF NoneOpenedYet, CommandHoldsBranch, WithBranch
<1>8. ContractHasItsIssue'
  BY <1>1 DEF ContractHasItsIssue
<1> QED
  BY <1>2, <1>3, <1>4, <1>5, <1>6, <1>7, <1>8

LEMMA CreateIssueKeepsInv == Inv /\ CreateIssue => Inv'
<1> SUFFICES ASSUME Inv, CreateIssue PROVE Inv'
  OBVIOUS
<1> DEFINE issue == [task |-> cmd.task, number |-> cmd.number, open |-> TRUE, devbot |-> TRUE]
<1>1. /\ cmd \in Command /\ cmd.step = "issue" /\ TypeOK
      /\ UNCHANGED <<branches, main, validated, checkout, edits>>
      /\ faults \in 0..MaxFaults /\ MaxFaults \in Nat /\ issue \in Issue
  BY GoalExecutorAssumption DEF CreateIssue, Inv, TypeOK, Command, Issue
<1>2. ASSUME issues' = Append(issues, issue), NoFault,
             cmd' = [cmd EXCEPT !.step = "find-branch", !.issue = Len(Append(issues, issue)),
                                !.created = TRUE]
      PROVE  Inv'
  <2>1. Len(Append(issues, issue)) = Len(issues) + 1 /\ Len(issues) \in Nat
    BY <1>1, AppendProperties, LenProperties DEF TypeOK
  <2>2. cmd' = [step |-> "find-branch", task |-> cmd.task, number |-> cmd.number,
                base |-> cmd.base, issue |-> Len(issues) + 1, created |-> TRUE,
                attempt |-> cmd.attempt]
    BY <1>1, <1>2, <2>1 DEF Command
  <2>3. /\ cmd' \in Command /\ cmd'.attempt = cmd.attempt /\ cmd'.step = "find-branch"
        /\ cmd'.task = cmd.task /\ cmd'.number = cmd.number /\ cmd'.base = cmd.base
        /\ cmd'.issue = Len(issues) + 1 /\ cmd'.created
    BY <1>1, <2>1, <2>2 DEF Command, Step
  <2> QED
    BY <1>1, <1>2, <2>3, IssueOpenedKeepsInv DEF TypeOK, NoFault
<1>3. ASSUME issues' \in {issues, Append(issues, issue)}, Again, Fault
      PROVE  Inv'
  <2>1. /\ cmd' \in Command /\ cmd'.attempt <= MaxAttempts
        /\ cmd'.step \in {"issue", "none"}
        /\ cmd'.step # "none" =>
             /\ cmd'.attempt >= 2
             /\ cmd'.task = cmd.task /\ cmd'.number = cmd.number /\ cmd'.base = cmd.base
    BY <1>1, <1>3, AgainMoves DEF Inv, NoneOpenedYet, Command
  <2>2. faults' = faults + 1 /\ faults' \in 0..MaxFaults
    BY <1>1, <1>3 DEF Fault
  <2>3. CASE issues' = issues
    <3>1. TypeOK'
      BY <1>1, <2>1, <2>2, <2>3 DEF TypeOK
    <3>2. CommandInOrder' /\ CommandBaseValidated' /\ CommandHoldsIssue' /\ CommandHoldsBranch'
      BY <1>1, <2>1, <2>3 DEF Inv, CommandInOrder, CommandBaseValidated, CommandHoldsIssue,
         CommandHoldsBranch, WithIssue, WithBranch
    <3>3. cmd'.step = "issue" => cmd'.attempt \in Nat /\ cmd'.attempt >= 2
      BY <2>1 DEF Command
    <3>4. NoneOpenedYet'
      BY <2>1, <3>3 DEF NoneOpenedYet, Unsent
    <3> QED
      BY <1>1, <2>3, <3>1, <3>2, <3>4, CommandMoves
  <2>4. CASE issues' = Append(issues, issue)
    BY <1>1, <2>1, <2>2, <2>4, IssueOpenedKeepsInv
  <2> QED
    BY <1>3, <2>3, <2>4
<1> QED
  BY <1>2, <1>3 DEF CreateIssue

\* A step that writes branches: what has to be shown of it.
LEMMA BranchesWritten ==
  ASSUME Inv, UNCHANGED <<issues, main, validated, checkout, edits>>,
         branches' \subseteq Branch,
         cmd' \in Command, cmd'.attempt <= MaxAttempts,
         faults' = faults \/ (faults < MaxFaults /\ faults' = faults + 1),
         cmd'.step \in WithIssue \cup {"none"},
         cmd'.step # "none" =>
           /\ cmd.step \in WithIssue
           /\ cmd'.task = cmd.task /\ cmd'.number = cmd.number /\ cmd'.base = cmd.base
           /\ cmd'.issue = cmd.issue /\ cmd'.created = cmd.created,
         BaseIsValidated', CommandHoldsBranch', ContractHasItsIssue'
  PROVE  Inv'
<1> USE DEF Inv
<1>1. TypeOK'
  BY GoalExecutorAssumption DEF TypeOK
<1>2. CommandInOrder' /\ CommandBaseValidated' /\ CommandHoldsIssue' /\ NoneOpenedYet'
  BY DEF CommandInOrder, CommandBaseValidated, CommandHoldsIssue, NoneOpenedYet, Unsent,
     WithIssue
<1>3. TasksInOrder'
  BY DEF TasksInOrder, DevBotIssues
<1> QED
  BY <1>1, <1>2, <1>3

LEMMA CreateBranchKeepsInv == Inv /\ CreateBranch => Inv'
<1> SUFFICES ASSUME Inv, CreateBranch PROVE Inv'
  OBVIOUS
<1> DEFINE branch == [task |-> cmd.task, number |-> cmd.number, base |-> cmd.base,
                      devbot |-> TRUE, contract |-> 0]
<1>1. /\ TypeOK /\ cmd \in Command /\ cmd.step = "branch" /\ branch \in Branch
      /\ branches \subseteq Branch
      /\ UNCHANGED <<issues, main, validated, checkout, edits>>
  BY DEF CreateBranch, Inv, TypeOK, Command, Branch
<1>2. /\ branch.task = cmd.task /\ branch.number = cmd.number /\ branch.devbot
      /\ branch.base \in validated /\ branch.contract = 0
  BY <1>1 DEF Inv, CommandBaseValidated
<1> HIDE DEF branch
<1>3. ASSUME branches' \in {branches, branches \cup {branch}}
      PROVE  branches' \subseteq Branch /\ BaseIsValidated' /\ ContractHasItsIssue'
  BY <1>1, <1>2, <1>3 DEF Inv, BaseIsValidated, ContractHasItsIssue
<1>4. CASE Named = {} /\ branches' = branches \cup {branch} /\ Go("find-contract") /\ NoFault
  <2>1. /\ cmd' \in Command /\ cmd'.attempt <= MaxAttempts /\ cmd'.step = "find-contract"
        /\ cmd'.task = cmd.task /\ cmd'.number = cmd.number /\ cmd'.base = cmd.base
        /\ cmd'.issue = cmd.issue /\ cmd'.created = cmd.created
    BY <1>1, <1>4, GoMoves DEF Step
  <2>2. Named' = {branch}
    BY <1>2, <1>4, <2>1 DEF Named
  <2>3. CommandHoldsBranch'
    BY <1>2, <2>1, <2>2 DEF CommandHoldsBranch
  <2> QED
    BY <1>1, <1>3, <1>4, <2>1, <2>3, BranchesWritten DEF NoFault, WithIssue
<1>5. CASE branches' \in {branches, branches \cup {branch}} /\ Again /\ Fault
  <2>1. /\ cmd' \in Command /\ cmd'.attempt <= MaxAttempts /\ cmd'.step \in {"branch", "none"}
        /\ cmd'.step # "none" =>
             /\ cmd'.task = cmd.task /\ cmd'.number = cmd.number /\ cmd'.base = cmd.base
             /\ cmd'.issue = cmd.issue /\ cmd'.created = cmd.created
    BY <1>1, <1>5, AgainMoves
  <2>2. CommandHoldsBranch'
    BY <2>1 DEF CommandHoldsBranch, WithBranch
  <2> QED
    BY <1>1, <1>3, <1>5, <2>1, <2>2, BranchesWritten DEF Fault, WithIssue
<1>6. CASE UNCHANGED branches /\ End /\ NoFault
  BY <1>1, <1>6, CommandEnds
<1> QED
  BY <1>4, <1>5, <1>6 DEF CreateBranch, branch

LEMMA CreateContractKeepsInv == Inv /\ CreateContract => Inv'
<1> SUFFICES ASSUME Inv, CreateContract PROVE Inv'
  OBVIOUS
<1> DEFINE written == {IF b \in Named THEN [b EXCEPT !.contract = cmd.issue] ELSE b : b \in branches}
<1>1. /\ TypeOK /\ cmd \in Command /\ cmd.step = "contract" /\ branches \subseteq Branch
      /\ cmd.issue \in Nat
      /\ UNCHANGED <<issues, main, validated, checkout, edits>>
  BY DEF CreateContract, Inv, TypeOK, Command
<1>2. ASSUME NEW w \in written
      PROVE  \E b \in branches :
               /\ w \in Branch
               /\ w.task = b.task /\ w.number = b.number /\ w.base = b.base /\ w.devbot = b.devbot
               /\ w.contract = IF b \in Named THEN cmd.issue ELSE b.contract
  <2>1. PICK b \in branches : w = IF b \in Named THEN [b EXCEPT !.contract = cmd.issue] ELSE b
    OBVIOUS
  <2>2. b \in Branch
    BY <1>1
  <2>3. CASE b \in Named
    <3>1. w = [task |-> b.task, number |-> b.number, base |-> b.base, devbot |-> b.devbot,
               contract |-> cmd.issue]
      BY <2>1, <2>2, <2>3 DEF Branch
    <3> QED
      BY <1>1, <2>2, <2>3, <3>1 DEF Branch
  <2>4. CASE b \notin Named
    BY <2>1, <2>2, <2>4
  <2> QED
    BY <2>3, <2>4
<1>3. ASSUME NEW b \in Named
      PROVE  \E w \in written : w.task = b.task /\ w.number = b.number
  <2>1. b \in branches /\ b \in Branch
    BY <1>1 DEF Named
  <2>2. [b EXCEPT !.contract = cmd.issue] \in written
    BY <2>1
  <2> QED
    BY <2>1, <2>2 DEF Branch
<1> HIDE DEF written
<1>4. ASSUME branches' \in {branches, written}
      PROVE  branches' \subseteq Branch /\ BaseIsValidated' /\ ContractHasItsIssue'
  <2>1. CASE branches' = branches
    BY <1>1, <2>1 DEF Inv, BaseIsValidated, ContractHasItsIssue
  <2>2. CASE branches' = written
    <3>1. branches' \subseteq Branch /\ BaseIsValidated'
      BY <1>1, <1>2, <2>2 DEF Inv, BaseIsValidated
    <3>2. /\ cmd.issue \in DOMAIN issues
          /\ issues[cmd.issue].task = cmd.task /\ issues[cmd.issue].number = cmd.number
          /\ ~cmd.created => ~issues[cmd.issue].devbot
          /\ cmd.created => \A b \in Named : b.devbot
      BY <1>1 DEF Inv, CommandHoldsIssue, CommandHoldsBranch, WithIssue, WithBranch
    <3>3. \A b \in Named : b.task = cmd.task /\ b.number = cmd.number
      BY DEF Named
    <3>4. ContractHasItsIssue'
      BY <1>1, <1>2, <2>2, <3>2, <3>3 DEF Inv, ContractHasItsIssue
    <3> QED
      BY <3>1, <3>4
  <2> QED
    BY <1>4, <2>1, <2>2
<1>5. CASE branches' = written /\ End /\ NoFault
  <2>1. cmd' \in Command /\ cmd'.attempt <= MaxAttempts /\ cmd'.step = "none"
    BY <1>5, EndMoves DEF End
  <2>2. CommandHoldsBranch'
    BY <2>1 DEF CommandHoldsBranch, WithBranch
  <2> QED
    BY <1>1, <1>4, <1>5, <2>1, <2>2, BranchesWritten DEF NoFault
<1>6. CASE branches' \in {branches, written} /\ Again /\ Fault
  <2>1. /\ cmd' \in Command /\ cmd'.attempt <= MaxAttempts /\ cmd'.step \in {"contract", "none"}
        /\ cmd'.step # "none" =>
             /\ cmd'.task = cmd.task /\ cmd'.number = cmd.number /\ cmd'.base = cmd.base
             /\ cmd'.issue = cmd.issue /\ cmd'.created = cmd.created
    BY <1>1, <1>6, AgainMoves
  <2>2. CommandHoldsBranch'
    <3> SUFFICES ASSUME cmd'.step = "contract" PROVE CommandHoldsBranch'
      BY <2>1 DEF CommandHoldsBranch, WithBranch
    <3>1. Named # {} /\ (cmd.created => \A b \in Named : b.devbot)
      BY <1>1 DEF Inv, CommandHoldsBranch, WithBranch
    <3>2. CASE branches' = branches
      BY <2>1, <3>1, <3>2 DEF CommandHoldsBranch, Named
    <3>3. CASE branches' = written
      <4>1. Named' # {}
        BY <1>3, <2>1, <3>1, <3>3 DEF Named
      <4>2. cmd.created => \A w \in Named' : w.devbot
        BY <1>2, <2>1, <3>1, <3>3 DEF Named
      <4> QED
        BY <2>1, <4>1, <4>2 DEF CommandHoldsBranch
    <3> QED
      BY <1>6, <3>2, <3>3
  <2> QED
    BY <1>1, <1>4, <1>6, <2>1, <2>2, BranchesWritten DEF Fault, WithIssue
<1>7. CASE UNCHANGED branches /\ End /\ NoFault
  BY <1>1, <1>7, CommandEnds
<1> QED
  BY <1>5, <1>6, <1>7 DEF CreateContract, written

-------------------------------------------------------------------------------
LEMMA NextKeepsInv == Inv /\ [Next]_vars => Inv'
<1> SUFFICES ASSUME Inv, [Next]_vars PROVE Inv'
  OBVIOUS
<1>1. CASE Commands
  BY <1>1, ExecuteKeepsInv, ValidateBaseKeepsInv, FindIssueKeepsInv, CreateIssueKeepsInv,
     FindBranchKeepsInv, CreateBranchKeepsInv, FindContractKeepsInv, CreateContractKeepsInv,
     AbortKeepsInv DEF Commands
<1>2. CASE People
  BY <1>2, PeopleStepKeepsInv
<1>3. CASE UNCHANGED vars
  <2>1. TypeOK'
    BY <1>3 DEF vars, Inv, TypeOK
  <2> QED
    BY <1>3, <2>1, PeopleKeepInv DEF vars, IssuesKept
<1> QED
  BY <1>1, <1>2, <1>3 DEF Next

\* The first request for an Issue finds none of DevBot's for its Task.
LEMMA RequestIsFirst ==
  ASSUME Inv, CreateIssue, NEW i \in DevBotIssues' \ DevBotIssues
  PROVE  \/ \A j \in DevBotIssues : issues[j].task # issues'[i].task
         \/ cmd.step = "issue" /\ cmd.attempt > 1
<1> DEFINE issue == [task |-> cmd.task, number |-> cmd.number, open |-> TRUE, devbot |-> TRUE]
<1>1. /\ TypeOK /\ cmd \in Command /\ cmd.step = "issue" /\ issue \in Issue
      /\ issues' \in {issues, Append(issues, issue)}
  BY DEF CreateIssue, Inv, TypeOK, Command, Issue
<1>2. CASE issues' = issues
  BY <1>2 DEF DevBotIssues
<1>3. CASE issues' = Append(issues, issue)
  <2>1. /\ DOMAIN issues' = DOMAIN issues \cup {Len(issues) + 1}
        /\ \A k \in DOMAIN issues : issues'[k] = issues[k]
        /\ issues'[Len(issues) + 1] = issue
    BY <1>1, <1>3, AppendedIssue
  <2>2. issues'[i].task = cmd.task
    BY <2>1 DEF DevBotIssues
  <2>3. cmd.attempt \in Nat /\ cmd.attempt >= 1
    BY <1>1 DEF Inv, NoneOpenedYet, Command
  <2>4. CASE cmd.attempt = 1
    BY <1>1, <2>2, <2>4 DEF Inv, NoneOpenedYet, Unsent, DevBotIssues
  <2> QED
    BY <1>1, <2>3, <2>4
<1> QED
  BY <1>1, <1>2, <1>3

\* People open no Issue of DevBot's.
LEMMA NoDevBotIssue ==
  ASSUME Inv, PersonOpensIssue \/ PersonClosesIssue
  PROVE  DevBotIssues' \subseteq DevBotIssues
<1>1. TypeOK
  BY DEF Inv
<1>2. CASE PersonOpensIssue
  <2>1. PICK issue \in Issue : ~issue.devbot /\ issues' = Append(issues, issue)
    BY <1>2 DEF PersonOpensIssue, Issue
  <2>2. /\ DOMAIN issues' = DOMAIN issues \cup {Len(issues) + 1}
        /\ \A k \in DOMAIN issues : issues'[k] = issues[k]
        /\ ~issues'[Len(issues) + 1].devbot
    BY <1>1, <2>1, AppendedIssue
  <2> QED
    BY <2>2 DEF DevBotIssues
<1>3. CASE PersonClosesIssue
  <2>1. PICK i \in DOMAIN issues : issues' = [issues EXCEPT ![i].open = ~@]
    BY <1>3 DEF PersonClosesIssue
  <2>2. DOMAIN issues' = DOMAIN issues
    BY <2>1
  <2>3. \A k \in DOMAIN issues : issues[k] \in Issue
    BY <1>1, ElementOfSeq, LenProperties DEF TypeOK
  <2>4. \A k \in DOMAIN issues : issues'[k].devbot = issues[k].devbot
    BY <2>1, <2>3 DEF Issue
  <2> QED
    BY <2>2, <2>4 DEF DevBotIssues
<1> QED
  BY <1>2, <1>3

\* In every reachable state the command in hand agrees with the Issues, branches and
\* validated commits it has seen or made.
THEOREM GoalExecutorInvariance == Spec => []Inv
<1> QED
  BY InitInv, NextKeepsInv, PTL DEF Spec

\* In every reachable state every variable has its type: attempts and lost answers stay
\* within their bounds.
THEOREM GoalExecutorTypeCorrect == Spec => []TypeOK
<1>1. Inv => TypeOK
  BY DEF Inv
<1> QED
  BY <1>1, GoalExecutorInvariance, PTL

\* materialize_planned_task opens the Issue of a planned Task only when every Task before
\* it has one, whatever people do to Issues while the command runs.
THEOREM GoalExecutorTasksInOrder == Spec => []TasksInOrder
<1>1. Inv => TasksInOrder
  BY DEF Inv
<1> QED
  BY <1>1, GoalExecutorInvariance, PTL

\* However commands fail, are interrupted and are repeated, the first request that opens
\* a Task's Issue is sent only when DevBot has opened none for it (materialize_planned_task).
THEOREM GoalExecutorOneRequestPerTask == Spec => OneRequestPerTask
<1> DEFINE OneRequest ==
      \A i \in DevBotIssues' \ DevBotIssues :
        \/ \A j \in DevBotIssues : issues[j].task # issues'[i].task
        \/ cmd.step = "issue" /\ cmd.attempt > 1
<1>1. ASSUME Inv, [Next]_vars PROVE OneRequest
  <2>1. CASE CreateIssue
    BY <1>1, <2>1, RequestIsFirst
  <2>2. CASE PersonOpensIssue
    BY <1>1, <2>2, NoDevBotIssue
  <2>3. CASE PersonClosesIssue
    BY <1>1, <2>3, NoDevBotIssue
  <2>4. CASE UNCHANGED issues
    BY <2>4 DEF DevBotIssues
  <2>5. UNCHANGED issues \/ CreateIssue \/ PersonOpensIssue \/ PersonClosesIssue
    BY <1>1 DEF Next, Commands, People, Execute, ValidateBase, FindIssue, FindBranch,
       CreateBranch, FindContract, CreateContract, Abort, PersonPushesBranch,
       PersonDeletesBranch, PersonMerges, CIPasses, OperatorPrepares, vars
  <2> QED
    BY <2>1, <2>2, <2>3, <2>4, <2>5
<1> QED
  BY <1>1, GoalExecutorInvariance, PTL DEF Spec, OneRequestPerTask

\* A contract names the Issue of its branch's title, and is written into a branch of a
\* person only for an Issue of a person.
THEOREM GoalExecutorContractHasItsIssue == Spec => []ContractHasItsIssue
<1>1. Inv => ContractHasItsIssue
  BY DEF Inv
<1> QED
  BY <1>1, GoalExecutorInvariance, PTL

\* Every branch DevBot makes starts from a commit that CI validated.
THEOREM GoalExecutorBaseIsValidated == Spec => []BaseIsValidated
<1>1. Inv => BaseIsValidated
  BY DEF Inv
<1> QED
  BY <1>1, GoalExecutorInvariance, PTL
===============================================================================
