------------------------------- MODULE GoalRun -------------------------------
(***************************************************************************)
(* goal_execution_foundation.GoalRun: the pure state machine that carries  *)
(* an approved plan, a graph of tasks with the gates that verify them, to  *)
(* a final audit.  A run is a value; each operator maps a run to the next. *)
(* Illegal calls, which raise in the code, are the callers' guards.        *)
(*                                                                         *)
(* A node is its position in the plan, and so is a gate.  Of the evidence  *)
(* list a run keeps what the gates of a node found since its last          *)
(* execution ("passed"); the planner_calls counter is never used.          *)
(***************************************************************************)
EXTENDS Integers, FiniteSets, Functions

CONSTANTS
  NodeCount,
  Dependencies,       \* Dependencies[n]: the nodes that node n needs
  RequiredNodes,
  GateCount,
  GateKind,           \* GateKind[g]: "technical", "contract", "architecture", "goal"
  AppliesTo,          \* AppliesTo[g]: the nodes gate g verifies
  RequiredGates,
  AiReviewGates,      \* gates with ai_review_required
  MaxRetries,         \* max_implementation_retries, per node
  MaxReviewsPerNode,  \* max_architecture_review_calls_per_node
  MaxReviewsPerGoal,  \* max_architecture_review_calls_per_goal
  ExhaustionBehavior  \* the values of exhaustion_behavior that plans may have

Nodes == 1..NodeCount
Gates == 1..GateCount
NoNode == 0

AiReviewed(n) == \E g \in AiReviewGates : GateKind[g] = "architecture" /\ n \in AppliesTo[g]

\* TaskGraph.validate: no dependency is missing, and a graph without cycles has a rank.
GraphIsValid ==
  /\ Dependencies \in [Nodes -> SUBSET Nodes]
  /\ \E rank \in [Nodes -> Nodes] : \A n \in Nodes : \A d \in Dependencies[n] : rank[d] < rank[n]

\* What GoalExecutionPlan.validate accepts.
ASSUME GoalPlanAssumption ==
  /\ NodeCount \in Nat \ {0}
  /\ GraphIsValid
  /\ RequiredNodes \subseteq Nodes
  /\ GateCount \in Nat
  /\ GateKind \in [Gates -> {"technical", "contract", "architecture", "goal"}]
  /\ AppliesTo \in [Gates -> SUBSET Nodes]
  /\ RequiredGates \subseteq Gates
  /\ AiReviewGates \subseteq Gates
  /\ MaxRetries \in Nat
  /\ MaxReviewsPerNode \in Nat
  /\ MaxReviewsPerGoal \in Nat
  /\ ExhaustionBehavior \subseteq {"stop", "fallback", "escalate"}
  /\ (\E n \in Nodes : AiReviewed(n)) =>
       /\ MaxReviewsPerNode >= 1
       /\ MaxReviewsPerGoal >= Cardinality({n \in Nodes : AiReviewed(n)})

GoalState == {"EXECUTING", "VERIFYING", "REVISING", "REVIEW_REQUESTED", "ESCALATED", "FAILED"}

FinalState == {"REVIEW_REQUESTED", "ESCALATED", "FAILED"}

TaskNodeState ==
  {"ready", "running", "verifying", "completed", "failed", "retryable", "blocked", "escalated"}

VerificationRequest == [node : Nodes, gate : Gates, consumes : BOOLEAN]

Run ==
  [state : GoalState,
   graph : [Nodes -> TaskNodeState],
   execution : Nodes \cup {NoNode},           \* pending_execution_request
   verification : SUBSET VerificationRequest, \* pending_verification_requests
   retries : [Nodes -> 0..MaxRetries],
   reviews : [Nodes -> 0..MaxReviewsPerNode],
   passed : [Nodes -> SUBSET Gates],
   exhaustion : ExhaustionBehavior]

-------------------------------------------------------------------------------
Completed(run) == {n \in Nodes : run.graph[n] = "completed"}

\* Faulty: a node waits for one of its dependencies only.
ReadyNodesAfterAny(run) ==
  {n \in Nodes :
     /\ run.graph[n] \in {"ready", "retryable"}
     /\ Dependencies[n] # {} => Dependencies[n] \cap Completed(run) # {}}

ReadyNodes(run) ==
  {n \in Nodes :
     /\ run.graph[n] \in {"ready", "retryable"}
     /\ Dependencies[n] \subseteq Completed(run)}

First(S) == CHOOSE n \in S : \A m \in S : n <= m

GateRequests(n) ==
  {[node |-> n, gate |-> g,
    consumes |-> GateKind[g] = "architecture" /\ g \in AiReviewGates] :
     g \in {h \in RequiredGates : n \in AppliesTo[h]}}

\* start.  (It copies the node states of the plan; a planner leaves them all at ready.)
Started(behavior) ==
  [state |-> "EXECUTING",
   graph |-> [n \in Nodes |-> "ready"],
   execution |-> NoNode,
   verification |-> {},
   retries |-> [n \in Nodes |-> 0],
   reviews |-> [n \in Nodes |-> 0],
   passed |-> [n \in Nodes |-> {}],
   exhaustion |-> behavior]

\* request_next_execution
MayRequest(run) == run.state \in {"EXECUTING", "REVISING"}

NextRequested(run) ==
  IF ReadyNodes(run) # {}
  THEN LET n == First(ReadyNodes(run))
       IN [run EXCEPT !.state = "EXECUTING", !.graph[n] = "running",
                      !.execution = n, !.passed[n] = {}]
  ELSE [run EXCEPT !.state = IF RequiredNodes \subseteq Completed(run)
                             THEN "REVIEW_REQUESTED" ELSE "ESCALATED"]

\* record_execution_result
MayRecordExecution(run) == run.state = "EXECUTING" /\ run.execution # NoNode

ExecutionRecorded(run, success) ==
  LET n == run.execution
      requests == GateRequests(n)
  IN IF ~success
     THEN [run EXCEPT !.state = "FAILED", !.graph[n] = "failed", !.execution = NoNode]
     ELSE IF requests = {}
     THEN [run EXCEPT !.graph[n] = "completed", !.execution = NoNode, !.verification = {}]
     ELSE [run EXCEPT !.state = "VERIFYING", !.graph[n] = "verifying",
                      !.execution = NoNode, !.verification = requests]

-------------------------------------------------------------------------------
(* record_verification_outcome.  The gates of a node are verified in plan order. *)

MayRecordVerification(run) == run.state = "VERIFYING" /\ run.verification # {}

FirstRequest(run) ==
  CHOOSE r \in run.verification : \A q \in run.verification : r.gate <= q.gate

\* _apply_budget_exhaustion.  What this call consumed is not recorded.
BudgetExhausted(run, request, fallbackVerification) ==
  LET n == request.node
  IN CASE run.exhaustion = "escalate" ->
            [run EXCEPT !.state = "ESCALATED", !.graph[n] = "escalated", !.verification = {}]
       [] run.exhaustion = "stop" ->
            [run EXCEPT !.state = "FAILED", !.graph[n] = "blocked", !.verification = {}]
       [] run.exhaustion = "fallback" /\ fallbackVerification ->
            [run EXCEPT !.graph[n] = "verifying", !.execution = NoNode,
                        !.verification = {[request EXCEPT !.consumes = FALSE]}]
       [] OTHER ->
            [run EXCEPT !.state = "EXECUTING", !.graph[n] = "running", !.execution = n,
                        !.verification = {}, !.passed[n] = {}]

\* Faulty: a budget of k calls admits k + 1.
ReviewsLeftInclusive(run, n) ==
  /\ run.reviews[n] <= MaxReviewsPerNode
  /\ FoldFunction(+, 0, run.reviews) <= MaxReviewsPerGoal

ReviewsLeft(run, n) ==
  /\ run.reviews[n] < MaxReviewsPerNode
  /\ FoldFunction(+, 0, run.reviews) < MaxReviewsPerGoal

\* Faulty: the first gate that passes completes the node.
PassedAtOnce(run, request) ==
  [run EXCEPT !.state = "EXECUTING", !.graph[request.node] = "completed",
              !.verification = {},
              !.passed[request.node] = @ \cup {request.gate}]

Passed(run, request) ==
  LET rest == run.verification \ {request}
      pass == [run EXCEPT !.verification = rest,
                          !.passed[request.node] = @ \cup {request.gate}]
  IN IF rest # {} THEN pass
     ELSE [pass EXCEPT !.state = "EXECUTING", !.graph[request.node] = "completed"]

\* Faulty: retries are counted but not limited by the budget.
RetriedFreely(run, request, counted) ==
  [counted EXCEPT !.state = "REVISING", !.graph[request.node] = "retryable",
                  !.verification = {}]

\* Faulty: the gates the node still had to pass stay pending.
RetriedKeepingRequests(run, request, counted) ==
  LET n == request.node
  IN IF run.retries[n] = MaxRetries THEN BudgetExhausted(run, request, FALSE)
     ELSE [counted EXCEPT !.state = "REVISING", !.graph[n] = "retryable",
                          !.verification = @ \ {request}, !.retries[n] = @ + 1]

\* `counted` is the run with this call's review consumed.
Retried(run, request, counted) ==
  LET n == request.node
  IN IF run.retries[n] = MaxRetries THEN BudgetExhausted(run, request, FALSE)
     ELSE [counted EXCEPT !.state = "REVISING", !.graph[n] = "retryable",
                          !.verification = {}, !.retries[n] = @ + 1]

VerificationRecorded(run, outcome) ==
  LET request == FirstRequest(run)
      n == request.node
      counted == IF request.consumes THEN [run EXCEPT !.reviews[n] = @ + 1] ELSE run
  IN CASE request.consumes /\ ~ReviewsLeft(run, n) -> BudgetExhausted(run, request, TRUE)
       [] OTHER ->
            CASE outcome = "PASS" -> Passed(counted, request)
              [] outcome = "RETRY" -> Retried(run, request, counted)
              [] outcome = "FAIL" ->
                   [counted EXCEPT !.state = "FAILED", !.graph[n] = "failed",
                                   !.verification = {}]
              [] outcome = "ESCALATE" ->
                   [counted EXCEPT !.state = "ESCALATED", !.graph[n] = "escalated",
                                   !.verification = {}]
==============================================================================
