--------------------------- MODULE GoalRuntimeProofs ---------------------------
(***************************************************************************)
(* Theorems of GoalRuntime, for every plan, every budget and any number of *)
(* commands that run at the same time.                                     *)
(***************************************************************************)
EXTENDS GoalRuntime, FiniteSetTheorems, TLAPS

(* First and FirstRequest choose an element. *)

\* A set of numbers has a least one: the smallest initial segment of the set.
LEMMA HasLeast ==
  ASSUME NEW N \in Nat, NEW S \in SUBSET (1..N), S # {}
  PROVE  \E n \in S : \A m \in S : n <= m
<1> DEFINE upTo(n) == {m \in S : m <= n}
           T == {upTo(n) : n \in S}
<1>1. IsFiniteSet(S) /\ FiniteSubsetsOf(S) = SUBSET S
  <2>1. IsFiniteSet(1..N)
    BY FS_Interval
  <2>2. IsFiniteSet(S)
    BY <2>1, FS_Subset
  <2> QED
    BY <2>2, FS_FiniteSubsetsOfFinite
<1>2. IsWellFoundedOn(StrictSubsetOrdering(S), SUBSET S)
  BY <1>1, FS_StrictSubsetOrderingWellFounded
<1>3. T \subseteq SUBSET S /\ T # {}
  OBVIOUS
<1>4. PICK X \in T : \A Y \in T : <<Y, X>> \notin StrictSubsetOrdering(S)
  <2> HIDE DEF T
  <2> QED
    BY <1>2, <1>3, WFMin
<1>5. PICK n \in S : X = upTo(n)
  BY <1>4
<1>6. ASSUME NEW m \in S, m < n
      PROVE  FALSE
  <2>1. upTo(m) \in T /\ upTo(m) \subseteq X /\ n \in X /\ n \notin upTo(m)
    <3>1. m \in Nat /\ n \in Nat /\ S \subseteq Nat
      OBVIOUS
    <3>2. \A k \in upTo(m) : k \in S /\ k <= n
      BY <1>6, <3>1
    <3>3. n \in upTo(n) /\ n \notin upTo(m)
      BY <1>6, <3>1
    <3> QED
      BY <1>5, <3>2, <3>3
  <2>2. <<upTo(m), X>> \in StrictSubsetOrdering(S)
    BY <1>3, <1>4, <2>1 DEF StrictSubsetOrdering
  <2> QED
    BY <1>4, <2>1, <2>2
<1> QED
  BY <1>6

LEMMA FirstIsMember ==
  ASSUME NEW S \in SUBSET Nodes, S # {}
  PROVE  First(S) \in S
<1>1. \E n \in S : \A m \in S : n <= m
  BY HasLeast, GoalPlanAssumption DEF Nodes
<1> QED
  BY <1>1 DEF First

LEMMA FirstRequestIsMember ==
  ASSUME NEW run \in Run, run.verification # {}
  PROVE  FirstRequest(run) \in run.verification
<1> DEFINE gates == {r.gate : r \in run.verification}
<1>1. gates \in SUBSET (1..GateCount) /\ gates # {}
  BY DEF Run, VerificationRequest, Gates
<1>2. PICK g \in gates : \A h \in gates : g <= h
  <2> HIDE DEF gates
  <2> QED
    BY <1>1, HasLeast, GoalPlanAssumption
<1>3. \E r \in run.verification : \A q \in run.verification : r.gate <= q.gate
  BY <1>2
<1> QED
  BY <1>3 DEF FirstRequest

-------------------------------------------------------------------------------
(* What holds of every run, and how a step that moves one node keeps it. *)

InHand(run) == {n \in Nodes : run.graph[n] \in {"running", "verifying"}}

Requested(run) == {r.node : r \in run.verification} \cup ({run.execution} \ {NoNode})

Ordered(run) ==
  \A n \in Nodes : run.graph[n] # "ready" => Dependencies[n] \subseteq Completed(run)

Sound(run) ==
  /\ run \in Run
  /\ Ordered(run)
  /\ InHand(run) = Requested(run)
  /\ \A m, n \in InHand(run) : m = n
  /\ run.execution # NoNode => run.verification = {}
  /\ \A r \in run.verification : run.graph[r.node] = "verifying"

RequiredOf(n) == {g \in RequiredGates : n \in AppliesTo[g]}

\* A node that is verified still has a request for each gate it did not pass.
Verified(run) ==
  \A n \in Nodes :
    /\ run.graph[n] = "completed" => RequiredOf(n) \subseteq run.passed[n]
    /\ run.graph[n] = "verifying" =>
         RequiredOf(n) \subseteq run.passed[n] \cup {r.gate : r \in run.verification}

\* An open node: the one in hand, or one to be executed when none is in hand.
Open(run, n) ==
  /\ n \in Nodes
  /\ run.graph[n] # "completed"
  /\ Dependencies[n] \subseteq Completed(run)
  /\ InHand(run) \subseteq {n}

LEMMA MoveKeepsSound ==
  ASSUME NEW run, Sound(run), NEW n, Open(run, n),
         NEW s \in TaskNodeState, NEW new \in Run,
         new.graph = [run.graph EXCEPT ![n] = s],
         \/ s = "running" /\ new.execution = n /\ new.verification = {}
         \/ /\ s = "verifying" /\ new.execution = NoNode
            /\ {r.node : r \in new.verification} = {n}
         \/ s \notin {"running", "verifying"} /\ new.execution = NoNode /\ new.verification = {}
  PROVE  Sound(new)
<1> USE GoalPlanAssumption
<1>1. run \in Run /\ n \in Nodes /\ n # NoNode /\ new.graph[n] = s
  <2>1. run \in Run /\ n \in Nodes
    BY DEF Sound, Open
  <2>2. n # NoNode
    BY <2>1 DEF Nodes, NoNode
  <2>3. run.graph \in [Nodes -> TaskNodeState]
    BY <2>1 DEF Run
  <2> QED
    BY <2>1, <2>2, <2>3
<1>2. Completed(run) \subseteq Completed(new)
  BY <1>1 DEF Completed, Open, Run
<1>3. Ordered(new)
  BY <1>1, <1>2 DEF Ordered, Sound, Open, Run
<1>4. InHand(new) = IF s \in {"running", "verifying"} THEN {n} ELSE {}
  BY <1>1 DEF InHand, Open, Run
<1>5. InHand(new) = Requested(new)
  BY <1>1, <1>4 DEF Requested
<1>6. \A r \in new.verification : new.graph[r.node] = "verifying"
  <2>1. \A r \in new.verification : s = "verifying" /\ r.node = n
    OBVIOUS
  <2> QED
    BY <1>1, <2>1
<1> QED
  BY <1>1, <1>3, <1>4, <1>5, <1>6 DEF Sound

LEMMA MoveKeepsVerified ==
  ASSUME NEW run \in Run, Verified(run), NEW n \in Nodes, InHand(run) \subseteq {n},
         NEW s \in TaskNodeState, NEW new \in Run,
         new.graph = [run.graph EXCEPT ![n] = s],
         \A m \in Nodes \ {n} : new.passed[m] = run.passed[m],
         s = "completed" => RequiredOf(n) \subseteq new.passed[n],
         s = "verifying" =>
           RequiredOf(n) \subseteq new.passed[n] \cup {r.gate : r \in new.verification}
  PROVE  Verified(new)
BY DEF Verified, InHand, Run

-------------------------------------------------------------------------------
(* The operators of GoalRun. *)

LEMMA StateKeepsSound ==
  ASSUME NEW run, Sound(run), NEW state \in GoalState
  PROVE  LET new == [run EXCEPT !.state = state]
         IN Sound(new) /\ (Verified(run) => Verified(new))
<1> DEFINE new == [run EXCEPT !.state = state]
<1>1. /\ new \in Run
      /\ new.graph = run.graph
      /\ new.execution = run.execution
      /\ new.verification = run.verification
      /\ new.passed = run.passed
  BY DEF Sound, Run
<1> HIDE DEF new
<1>2. Sound(new)
  BY <1>1 DEF Sound, Ordered, Completed, InHand, Requested
<1>3. Verified(run) => Verified(new)
  BY <1>1 DEF Verified
<1> QED
  BY <1>2, <1>3 DEF new

LEMMA StartedIsSound ==
  ASSUME NEW behavior \in ExhaustionBehavior
  PROVE  /\ Sound(Started(behavior))
         /\ Verified(Started(behavior))
         /\ Started(behavior).execution = NoNode
         /\ Started(behavior).verification = {}
<1> USE GoalPlanAssumption
<1>1. Started(behavior) \in Run
  BY DEF Started, Run, GoalState, TaskNodeState
<1>2. /\ \A n \in Nodes : Started(behavior).graph[n] = "ready"
      /\ Started(behavior).execution = NoNode
      /\ Started(behavior).verification = {}
  BY DEF Started
<1> QED
  BY <1>1, <1>2 DEF Sound, Ordered, InHand, Requested, Verified

LEMMA NextRequestedIsSound ==
  ASSUME NEW run, Sound(run), run.execution = NoNode, run.verification = {}
  PROVE  Sound(NextRequested(run)) /\ (Verified(run) => Verified(NextRequested(run)))
<1>1. CASE ReadyNodes(run) = {}
  <2>1. PICK state \in GoalState : NextRequested(run) = [run EXCEPT !.state = state]
    BY <1>1 DEF NextRequested, GoalState
  <2> QED
    BY <2>1, StateKeepsSound
<1>2. CASE ReadyNodes(run) # {}
  <2> DEFINE n == First(ReadyNodes(run))
             new == [run EXCEPT !.state = "EXECUTING", !.graph[n] = "running",
                                !.execution = n, !.passed[n] = {}]
  <2>1. NextRequested(run) = new
    BY <1>2 DEF NextRequested
  <2>2. n \in ReadyNodes(run)
    BY <1>2, FirstIsMember DEF ReadyNodes
  <2>3. Open(run, n)
    BY <2>2 DEF Open, ReadyNodes, Sound, Requested
  <2>4. /\ new \in Run
        /\ new.graph = [run.graph EXCEPT ![n] = "running"]
        /\ new.execution = n
        /\ new.verification = {}
        /\ \A m \in Nodes \ {n} : new.passed[m] = run.passed[m]
    <3>1. n \in Nodes
      BY <2>3 DEF Open
    <3> HIDE DEF n
    <3> QED
      BY <3>1 DEF Sound, Run, GoalState, TaskNodeState
  <2>5. "running" \in TaskNodeState /\ run \in Run /\ n \in Nodes /\ InHand(run) \subseteq {n}
    BY <2>3 DEF TaskNodeState, Sound, Open
  <2> HIDE DEF n, new
  <2>6. Sound(new)
    BY <2>3, <2>4, <2>5, MoveKeepsSound
  <2>7. Verified(run) => Verified(new)
    BY <2>4, <2>5, MoveKeepsVerified
  <2> QED
    BY <2>1, <2>6, <2>7
<1> QED
  BY <1>1, <1>2

\* The node a request is pending for is open.
LEMMA RequestedIsOpen ==
  ASSUME NEW run, Sound(run), NEW n \in Requested(run)
  PROVE  Open(run, n)
<1>1. n \in InHand(run)
  BY DEF Sound
<1> QED
  BY <1>1 DEF Sound, Open, InHand, Ordered

LEMMA GateRequestsOf ==
  ASSUME NEW n \in Nodes
  PROVE  /\ GateRequests(n) \subseteq VerificationRequest
         /\ {r.gate : r \in GateRequests(n)} = RequiredOf(n)
         /\ \A r \in GateRequests(n) : r.node = n
<1> DEFINE consumes(g) == GateKind[g] = "architecture" /\ g \in AiReviewGates
           request(g) == [node |-> n, gate |-> g, consumes |-> consumes(g)]
<1>1. GateRequests(n) = {request(g) : g \in RequiredOf(n)}
  BY DEF GateRequests, RequiredOf
<1>2. \A g \in RequiredOf(n) : g \in Gates /\ consumes(g) \in BOOLEAN
  BY GoalPlanAssumption DEF RequiredOf
<1> HIDE DEF consumes
<1>3. \A g \in RequiredOf(n) :
        /\ request(g) \in VerificationRequest
        /\ request(g).gate = g
        /\ request(g).node = n
  BY <1>2 DEF VerificationRequest
<1> HIDE DEF request
<1> QED
  BY <1>1, <1>3

LEMMA ExecutionRecordedIsSound ==
  ASSUME NEW run, Sound(run), run.execution # NoNode, NEW success \in BOOLEAN
  PROVE  LET new == ExecutionRecorded(run, success)
         IN Sound(new) /\ (Verified(run) => Verified(new))
<1> DEFINE n == run.execution
           new == ExecutionRecorded(run, success)
<1>1. /\ run \in Run
      /\ n \in Nodes
      /\ Open(run, n)
      /\ InHand(run) \subseteq {n}
      /\ run.verification = {}
  <2>1. n \in Requested(run)
    BY DEF Requested
  <2> QED
    BY <2>1, RequestedIsOpen DEF Sound, Open
<1>2. CASE ~success
  <2>1. new = [run EXCEPT !.state = "FAILED", !.graph[n] = "failed", !.execution = NoNode]
    BY <1>2 DEF ExecutionRecorded
  <2> HIDE DEF new, n
  <2>2. /\ new \in Run
        /\ new.graph = [run.graph EXCEPT ![n] = "failed"]
        /\ new.execution = NoNode
        /\ new.verification = {}
        /\ new.passed = run.passed
    BY <1>1, <2>1 DEF Run, GoalState, TaskNodeState
  <2>3. "failed" \in TaskNodeState
    BY DEF TaskNodeState
  <2> QED
    BY <1>1, <2>2, <2>3, MoveKeepsSound, MoveKeepsVerified DEF new
<1>3. CASE success /\ GateRequests(n) = {}
  <2>1. new = [run EXCEPT !.graph[n] = "completed", !.execution = NoNode, !.verification = {}]
    BY <1>3 DEF ExecutionRecorded
  <2> HIDE DEF new, n
  <2>2. /\ new \in Run
        /\ new.graph = [run.graph EXCEPT ![n] = "completed"]
        /\ new.execution = NoNode
        /\ new.verification = {}
        /\ new.passed = run.passed
    BY <1>1, <2>1 DEF Run, TaskNodeState
  <2>3. "completed" \in TaskNodeState /\ RequiredOf(n) = {}
    BY <1>1, <1>3, GateRequestsOf DEF TaskNodeState
  <2> QED
    BY <1>1, <2>2, <2>3, MoveKeepsSound, MoveKeepsVerified DEF new
<1>4. CASE success /\ GateRequests(n) # {}
  <2>1. new = [run EXCEPT !.state = "VERIFYING", !.graph[n] = "verifying",
                          !.execution = NoNode, !.verification = GateRequests(n)]
    BY <1>4 DEF ExecutionRecorded
  <2> HIDE DEF new, n
  <2>2. /\ new \in Run
        /\ new.graph = [run.graph EXCEPT ![n] = "verifying"]
        /\ new.execution = NoNode
        /\ new.verification = GateRequests(n)
        /\ new.passed = run.passed
    BY <1>1, <2>1, GateRequestsOf DEF Run, GoalState, TaskNodeState
  <2>3. /\ "verifying" \in TaskNodeState
        /\ {r.node : r \in new.verification} = {n}
        /\ {r.gate : r \in new.verification} = RequiredOf(n)
    BY <1>1, <1>4, <2>2, GateRequestsOf DEF TaskNodeState
  <2> QED
    BY <1>1, <2>2, <2>3, MoveKeepsSound, MoveKeepsVerified DEF new
<1> QED
  BY <1>2, <1>3, <1>4

\* The node whose gates are pending.
LEMMA PendingNode ==
  ASSUME NEW run, Sound(run), NEW request \in run.verification
  PROVE  /\ run \in Run
         /\ request \in VerificationRequest
         /\ request.node \in Nodes
         /\ request.gate \in Gates
         /\ Open(run, request.node)
         /\ run.execution = NoNode
         /\ run.graph[request.node] = "verifying"
         /\ \A r \in run.verification : r.node = request.node
<1>1. request \in VerificationRequest /\ run \in Run
  BY DEF Sound, Run
<1>2. \A r \in run.verification : r.node \in InHand(run)
  BY DEF Sound, Requested
<1>3. Open(run, request.node)
  BY RequestedIsOpen DEF Requested
<1> QED
  BY <1>1, <1>2, <1>3 DEF Sound, VerificationRequest, InHand

\* The fallback behaviour drops the other gates of the node: without it, a run stays
\* verified.
LEMMA BudgetExhaustedIsSound ==
  ASSUME NEW run, Sound(run), NEW request \in run.verification, NEW fallback \in BOOLEAN
  PROVE  LET new == BudgetExhausted(run, request, fallback)
         IN /\ Sound(new)
            /\ Verified(run) /\ run.exhaustion # "fallback" => Verified(new)
<1> DEFINE n == request.node
           new == BudgetExhausted(run, request, fallback)
<1>1. /\ run \in Run /\ n \in Nodes /\ Open(run, n) /\ InHand(run) \subseteq {n}
      /\ run.execution = NoNode
      /\ request \in VerificationRequest
      /\ run.exhaustion \in {"stop", "fallback", "escalate"}
  BY PendingNode, GoalPlanAssumption DEF Open, Run
<1>2. CASE run.exhaustion = "escalate"
  <2>1. new = [run EXCEPT !.state = "ESCALATED", !.graph[n] = "escalated", !.verification = {}]
    BY <1>2 DEF BudgetExhausted
  <2> HIDE DEF new, n
  <2>2. /\ new \in Run
        /\ new.graph = [run.graph EXCEPT ![n] = "escalated"]
        /\ new.execution = NoNode
        /\ new.verification = {}
        /\ new.passed = run.passed
    BY <1>1, <2>1 DEF Run, GoalState, TaskNodeState
  <2>3. "escalated" \in TaskNodeState
    BY DEF TaskNodeState
  <2> QED
    BY <1>1, <2>2, <2>3, MoveKeepsSound, MoveKeepsVerified DEF new
<1>3. CASE run.exhaustion = "stop"
  <2>1. new = [run EXCEPT !.state = "FAILED", !.graph[n] = "blocked", !.verification = {}]
    BY <1>3 DEF BudgetExhausted
  <2> HIDE DEF new, n
  <2>2. /\ new \in Run
        /\ new.graph = [run.graph EXCEPT ![n] = "blocked"]
        /\ new.execution = NoNode
        /\ new.verification = {}
        /\ new.passed = run.passed
    BY <1>1, <2>1 DEF Run, GoalState, TaskNodeState
  <2>3. "blocked" \in TaskNodeState
    BY DEF TaskNodeState
  <2> QED
    BY <1>1, <2>2, <2>3, MoveKeepsSound, MoveKeepsVerified DEF new
<1>4. CASE run.exhaustion = "fallback" /\ fallback
  <2> DEFINE again == [request EXCEPT !.consumes = FALSE]
  <2>1. new = [run EXCEPT !.graph[n] = "verifying", !.execution = NoNode,
                          !.verification = {again}]
    BY <1>4 DEF BudgetExhausted
  <2>2. {again} \in SUBSET VerificationRequest /\ again.node = n
    BY <1>1 DEF VerificationRequest
  <2> HIDE DEF new, n, again
  <2>3. /\ new \in Run
        /\ new.graph = [run.graph EXCEPT ![n] = "verifying"]
        /\ new.execution = NoNode
        /\ new.verification = {again}
    BY <1>1, <2>1, <2>2 DEF Run, TaskNodeState
  <2>4. "verifying" \in TaskNodeState /\ {r.node : r \in new.verification} = {n}
    BY <2>2, <2>3 DEF TaskNodeState
  <2>5. Sound(new)
    BY <1>1, <2>3, <2>4, MoveKeepsSound
  <2> QED
    BY <1>4, <2>5 DEF new
<1>5. CASE run.exhaustion = "fallback" /\ ~fallback
  <2>1. new = [run EXCEPT !.state = "EXECUTING", !.graph[n] = "running", !.execution = n,
                          !.verification = {}, !.passed[n] = {}]
    BY <1>5 DEF BudgetExhausted
  <2> HIDE DEF new, n
  <2>2. /\ new \in Run
        /\ new.graph = [run.graph EXCEPT ![n] = "running"]
        /\ new.execution = n
        /\ new.verification = {}
    BY <1>1, <2>1 DEF Run, GoalState, TaskNodeState
  <2>3. "running" \in TaskNodeState
    BY DEF TaskNodeState
  <2>4. Sound(new)
    BY <1>1, <2>2, <2>3, MoveKeepsSound
  <2> QED
    BY <1>5, <2>4 DEF new
<1> QED
  BY <1>1, <1>2, <1>3, <1>4, <1>5

LEMMA PassedIsSound ==
  ASSUME NEW run, Sound(run), NEW request \in run.verification
  PROVE  LET new == Passed(run, request)
         IN Sound(new) /\ (Verified(run) => Verified(new))
<1> DEFINE n == request.node
           rest == run.verification \ {request}
           new == Passed(run, request)
           passed == run.passed[n] \cup {request.gate}
<1>1. /\ run \in Run /\ n \in Nodes /\ Open(run, n) /\ InHand(run) \subseteq {n}
      /\ run.execution = NoNode
      /\ run.graph[n] = "verifying"
      /\ request.gate \in Gates
      /\ \A r \in run.verification : r.node = n
  BY PendingNode DEF Open
<1>2. /\ rest \in SUBSET VerificationRequest
      /\ passed \in SUBSET Gates
      /\ {r.gate : r \in run.verification} = {r.gate : r \in rest} \cup {request.gate}
  BY <1>1 DEF Run
<1>3. CASE rest # {}
  <2>1. new = [run EXCEPT !.verification = rest, !.passed[n] = passed]
    BY <1>3 DEF Passed
  <2> HIDE DEF new, n, rest, passed
  <2>2. /\ new \in Run
        /\ new.graph = run.graph
        /\ new.execution = NoNode
        /\ new.verification = rest
        /\ new.passed = [run.passed EXCEPT ![n] = passed]
    BY <1>1, <1>2, <2>1 DEF Run
  <2>3. {r.node : r \in rest} = {n} /\ {r.node : r \in run.verification} = {n}
    BY <1>1, <1>3 DEF rest, n
  <2>4. Sound(new)
    BY <1>1, <2>2, <2>3 DEF Sound, Ordered, Completed, InHand, Requested
  <2>5. ASSUME Verified(run), NEW m \in Nodes
        PROVE  /\ new.graph[m] = "completed" => RequiredOf(m) \subseteq new.passed[m]
               /\ new.graph[m] = "verifying" =>
                    RequiredOf(m) \subseteq new.passed[m] \cup {r.gate : r \in new.verification}
    <3>1. CASE m = n
      BY <1>1, <1>2, <2>2, <2>5, <3>1 DEF Verified, passed, Run
    <3>2. CASE m # n
      <4>1. new.graph[m] # "verifying"
        BY <1>1, <2>2, <3>2 DEF InHand
      <4> QED
        BY <1>1, <2>2, <2>5, <3>2, <4>1 DEF Verified, Run
    <3> QED
      BY <3>1, <3>2
  <2>6. Verified(run) => Verified(new)
    BY <2>5 DEF Verified
  <2> QED
    BY <2>4, <2>6 DEF new
<1>4. CASE rest = {}
  <2>1. new = [run EXCEPT !.verification = {}, !.passed[n] = passed,
                          !.state = "EXECUTING", !.graph[n] = "completed"]
    BY <1>4 DEF Passed
  <2> HIDE DEF new, n, rest, passed
  <2>2. /\ new \in Run
        /\ new.graph = [run.graph EXCEPT ![n] = "completed"]
        /\ new.execution = NoNode
        /\ new.verification = {}
        /\ new.passed = [run.passed EXCEPT ![n] = passed]
    BY <1>1, <1>2, <2>1 DEF Run, GoalState, TaskNodeState
  <2>3. "completed" \in TaskNodeState
    BY DEF TaskNodeState
  <2>4. Sound(new)
    BY <1>1, <2>2, <2>3, MoveKeepsSound
  <2>5. new.passed[n] = passed /\ \A m \in Nodes \ {n} : new.passed[m] = run.passed[m]
    BY <1>1, <2>2 DEF Run
  <2>6. ASSUME Verified(run)
        PROVE  Verified(new)
    <3>1. RequiredOf(n) \subseteq new.passed[n]
      BY <1>1, <1>2, <1>4, <2>5, <2>6 DEF Verified, passed
    <3>2. /\ n \in Nodes /\ run \in Run /\ new \in Run /\ InHand(run) \subseteq {n}
          /\ new.graph = [run.graph EXCEPT ![n] = "completed"]
          /\ \A m \in Nodes \ {n} : new.passed[m] = run.passed[m]
      BY <1>1, <2>2, <2>5
    <3> QED
      BY <2>3, <2>6, <3>1, <3>2, MoveKeepsVerified
  <2> QED
    BY <2>4, <2>6 DEF new
<1> QED
  BY <1>3, <1>4

\* A review that is consumed changes nothing but its counter.
LEMMA CountedIsSound ==
  ASSUME NEW run, Sound(run), NEW request \in run.verification,
         ReviewsLeft(run, request.node)
  PROVE  LET new == [run EXCEPT !.reviews[request.node] = @ + 1]
         IN /\ Sound(new)
            /\ Verified(run) => Verified(new)
            /\ new.verification = run.verification
            /\ new.graph = run.graph
            /\ new.execution = run.execution
            /\ new.retries = run.retries
            /\ new.passed = run.passed
            /\ new.exhaustion = run.exhaustion
<1> DEFINE n == request.node
           new == [run EXCEPT !.reviews[n] = @ + 1]
<1>1. run \in Run /\ n \in Nodes
  BY PendingNode
<1> HIDE DEF n
<1>2. run.reviews[n] + 1 \in 0..MaxReviewsPerNode
  <2>1. run.reviews[n] \in 0..MaxReviewsPerNode
    BY <1>1 DEF Run
  <2>2. run.reviews[n] < MaxReviewsPerNode
    BY DEF ReviewsLeft, n
  <2> QED
    BY <2>1, <2>2, GoalPlanAssumption
<1>3. /\ new \in Run
      /\ new.verification = run.verification
      /\ new.graph = run.graph
      /\ new.execution = run.execution
      /\ new.retries = run.retries
      /\ new.passed = run.passed
      /\ new.exhaustion = run.exhaustion
  BY <1>1, <1>2 DEF Run
<1> HIDE DEF new
<1>4. Sound(new)
  BY <1>3 DEF Sound, Ordered, Completed, InHand, Requested
<1>5. Verified(run) => Verified(new)
  BY <1>3 DEF Verified
<1> QED
  BY <1>3, <1>4, <1>5 DEF new, n

LEMMA RetriedIsSound ==
  ASSUME NEW run, Sound(run), NEW request \in run.verification,
         NEW counted, Sound(counted), Verified(run) => Verified(counted),
         counted.verification = run.verification, counted.retries = run.retries
  PROVE  LET new == Retried(run, request, counted)
         IN /\ Sound(new)
            /\ Verified(run) /\ run.exhaustion # "fallback" => Verified(new)
<1> DEFINE n == request.node
           new == Retried(run, request, counted)
<1>1. /\ run \in Run /\ counted \in Run
      /\ n \in Nodes /\ Open(counted, n) /\ InHand(counted) \subseteq {n}
      /\ counted.execution = NoNode
  BY PendingNode DEF Open
<1>2. CASE run.retries[n] = MaxRetries
  BY <1>2, BudgetExhaustedIsSound DEF Retried
<1>3. CASE run.retries[n] # MaxRetries
  <2>1. new = [counted EXCEPT !.state = "REVISING", !.graph[n] = "retryable",
                              !.verification = {}, !.retries[n] = @ + 1]
    BY <1>3 DEF Retried
  <2> HIDE DEF new, n
  <2>2. counted.retries[n] + 1 \in 0..MaxRetries
    <3>1. counted.retries[n] \in 0..MaxRetries
      BY <1>1 DEF Run
    <3> QED
      BY <1>3, <3>1, GoalPlanAssumption
  <2>3. /\ new \in Run
        /\ new.graph = [counted.graph EXCEPT ![n] = "retryable"]
        /\ new.execution = NoNode
        /\ new.verification = {}
        /\ new.passed = counted.passed
    BY <1>1, <2>1, <2>2 DEF Run, GoalState, TaskNodeState
  <2>4. "retryable" \in TaskNodeState
    BY DEF TaskNodeState
  <2> QED
    BY <1>1, <2>3, <2>4, MoveKeepsSound, MoveKeepsVerified DEF new
<1> QED
  BY <1>2, <1>3

\* A gate that fails or escalates ends the goal.
LEMMA EndedIsSound ==
  ASSUME NEW run, Sound(run), NEW request \in run.verification,
         NEW state \in GoalState, NEW s \in {"failed", "escalated"}
  PROVE  LET new == [run EXCEPT !.state = state, !.graph[request.node] = s,
                                !.verification = {}]
         IN Sound(new) /\ (Verified(run) => Verified(new))
<1> DEFINE n == request.node
           new == [run EXCEPT !.state = state, !.graph[n] = s, !.verification = {}]
<1>1. /\ run \in Run /\ n \in Nodes /\ Open(run, n) /\ InHand(run) \subseteq {n}
      /\ run.execution = NoNode
  BY PendingNode DEF Open
<1> HIDE DEF n
<1>2. /\ new \in Run
      /\ new.graph = [run.graph EXCEPT ![n] = s]
      /\ new.execution = NoNode
      /\ new.verification = {}
      /\ new.passed = run.passed
  BY <1>1 DEF Run, TaskNodeState
<1>3. s \in TaskNodeState
  BY DEF TaskNodeState
<1> HIDE DEF new
<1>4. Sound(new)
  BY <1>1, <1>2, <1>3, MoveKeepsSound
<1>5. Verified(run) => Verified(new)
  BY <1>1, <1>2, <1>3, MoveKeepsVerified
<1> QED
  BY <1>4, <1>5 DEF new, n

LEMMA VerificationRecordedIsSound ==
  ASSUME NEW run, Sound(run), run.verification # {},
         NEW outcome \in {"PASS", "RETRY", "FAIL", "ESCALATE"}
  PROVE  LET new == VerificationRecorded(run, outcome)
         IN /\ Sound(new)
            /\ Verified(run) /\ run.exhaustion # "fallback" => Verified(new)
<1> DEFINE request == FirstRequest(run)
           n == request.node
           counted == IF request.consumes THEN [run EXCEPT !.reviews[n] = @ + 1] ELSE run
           new == VerificationRecorded(run, outcome)
<1>1. request \in run.verification
  BY FirstRequestIsMember DEF Sound
<1> HIDE DEF request
<1>2. CASE request.consumes /\ ~ReviewsLeft(run, n)
  <2>1. new = BudgetExhausted(run, request, TRUE)
    BY <1>2 DEF VerificationRecorded, request
  <2> QED
    BY <1>1, <2>1, BudgetExhaustedIsSound
<1>3. CASE ~(request.consumes /\ ~ReviewsLeft(run, n))
  <2>1. /\ Sound(counted)
        /\ Verified(run) => Verified(counted)
        /\ counted.verification = run.verification
        /\ counted.retries = run.retries
    BY <1>1, <1>3, CountedIsSound
  <2>2. new = CASE outcome = "PASS" -> Passed(counted, request)
                [] outcome = "RETRY" -> Retried(run, request, counted)
                [] outcome = "FAIL" ->
                     [counted EXCEPT !.state = "FAILED", !.graph[n] = "failed",
                                     !.verification = {}]
                [] outcome = "ESCALATE" ->
                     [counted EXCEPT !.state = "ESCALATED", !.graph[n] = "escalated",
                                     !.verification = {}]
    BY <1>3 DEF VerificationRecorded, request
  <2> HIDE DEF counted, new
  <2>3. "FAILED" \in GoalState /\ "ESCALATED" \in GoalState
    BY DEF GoalState
  <2>4. CASE outcome = "PASS"
    <3>1. new = Passed(counted, request)
      BY <2>2, <2>4
    <3> QED
      BY <1>1, <2>1, <3>1, PassedIsSound DEF new
  <2>5. CASE outcome = "RETRY"
    <3>1. new = Retried(run, request, counted)
      BY <2>2, <2>5
    <3> QED
      BY <1>1, <2>1, <3>1, RetriedIsSound DEF new
  <2>6. CASE outcome = "FAIL"
    <3>1. new = [counted EXCEPT !.state = "FAILED", !.graph[n] = "failed", !.verification = {}]
      BY <2>2, <2>6
    <3>2. Sound(new) /\ (Verified(counted) => Verified(new))
      BY <1>1, <2>1, <2>3, <3>1, EndedIsSound
    <3> QED
      BY <2>1, <3>2 DEF new
  <2>7. CASE outcome = "ESCALATE"
    <3>1. new = [counted EXCEPT !.state = "ESCALATED", !.graph[n] = "escalated",
                                !.verification = {}]
      BY <2>2, <2>7
    <3>2. Sound(new) /\ (Verified(counted) => Verified(new))
      BY <1>1, <2>1, <2>3, <3>1, EndedIsSound
    <3> QED
      BY <2>1, <3>2 DEF new
  <2> QED
    BY <2>4, <2>5, <2>6, <2>7
<1> QED
  BY <1>2, <1>3

LEMMA AfterVerificationIsSound ==
  ASSUME NEW run, Sound(run), run.verification # {},
         NEW outcome \in {"PASS", "RETRY", "FAIL", "ESCALATE"}
  PROVE  LET new == AfterVerification(run, outcome)
         IN /\ Sound(new)
            /\ Verified(run) /\ run.exhaustion # "fallback" => Verified(new)
BY VerificationRecordedIsSound, NextRequestedIsSound DEF AfterVerification

-------------------------------------------------------------------------------
(* The inductive invariant: every run in play is one that the operators keep. *)

Kept(run) == Sound(run) /\ ("fallback" \notin ExhaustionBehavior => Verified(run))

Inv ==
  /\ TypeOK
  /\ file # NoFile => Kept(file.run)
  /\ \A c \in Commands :
       /\ step[c] = "none" <=> loaded[c] = NoFile
       /\ step[c] # "none" => Kept(loaded[c])
       /\ step[c] = "execution" => loaded[c].execution # NoNode
       /\ step[c] = "verification" => loaded[c].verification # {}

LEMMA OperatorsKeep ==
  /\ \A behavior \in ExhaustionBehavior : Kept(NextRequested(Started(behavior)))
  /\ \A run \in Run : Kept(run) =>
       /\ \A state \in GoalState : Kept([run EXCEPT !.state = state])
       /\ run.execution = NoNode /\ run.verification = {} => Kept(NextRequested(run))
       /\ run.execution # NoNode =>
            \A success \in BOOLEAN : Kept(ExecutionRecorded(run, success))
       /\ run.verification # {} =>
            \A outcome \in {"PASS", "RETRY", "FAIL", "ESCALATE"} :
              Kept(AfterVerification(run, outcome))
<1>1. ASSUME NEW behavior \in ExhaustionBehavior
      PROVE  Kept(NextRequested(Started(behavior)))
  BY StartedIsSound, NextRequestedIsSound DEF Kept
<1>2. ASSUME NEW run \in Run, Kept(run), NEW state \in GoalState
      PROVE  Kept([run EXCEPT !.state = state])
  BY <1>2, StateKeepsSound DEF Kept
<1>3. ASSUME NEW run \in Run, Kept(run), run.execution = NoNode, run.verification = {}
      PROVE  Kept(NextRequested(run))
  BY <1>3, NextRequestedIsSound DEF Kept
<1>4. ASSUME NEW run \in Run, Kept(run), run.execution # NoNode, NEW success \in BOOLEAN
      PROVE  Kept(ExecutionRecorded(run, success))
  BY <1>4, ExecutionRecordedIsSound DEF Kept
<1>5. ASSUME NEW run \in Run, Kept(run), run.verification # {},
             NEW outcome \in {"PASS", "RETRY", "FAIL", "ESCALATE"}
      PROVE  Kept(AfterVerification(run, outcome))
  <2>1. "fallback" \notin ExhaustionBehavior => run.exhaustion # "fallback"
    BY DEF Run
  <2> QED
    BY <1>5, <2>1, AfterVerificationIsSound DEF Kept
<1> QED
  BY <1>1, <1>2, <1>3, <1>4, <1>5

LEMMA KeptIsRun ==
  ASSUME NEW run, Kept(run)
  PROVE  run \in Run
BY DEF Kept, Sound

\* A document that is written holds a run that is kept.
LEMMA WriteKeeps ==
  ASSUME NEW run, Kept(run), NEW marker \in Marker, Write(run, marker)
  PROVE  /\ file' \in Document
         /\ file' # NoFile
         /\ file'.run = run
BY GoalRuntimeAssumption DEF Kept, Sound, Write, Document

LEMMA InitInv == Init => Inv
BY GoalRuntimeAssumption DEF Init, Inv, TypeOK, Marker

\* A command that loads the document works on a run that is kept.
LEMMA BeginKeepsInv ==
  ASSUME Inv, NEW c \in Commands, BeginExecution(c) \/ BeginVerification(c)
  PROVE  Inv'
<1>1. PICK effect \in {"execution", "verification"} :
        /\ file # NoFile
        /\ effect = "execution" => file.run.execution # NoNode
        /\ effect = "verification" => file.run.verification # {}
        /\ BeginSideEffect(c, effect)
  BY DEF BeginExecution, BeginVerification
<1>2. effect \in Marker /\ effect # "none" /\ Kept(file.run) /\ file.run \in Run
  BY <1>1 DEF Marker, Inv, Kept, Sound
<1>3. file.run # NoFile
  BY <1>2, GoalRuntimeAssumption
<1>4. file' \in Document /\ file' # NoFile /\ file'.run = file.run
  BY <1>1, <1>2, WriteKeeps DEF BeginSideEffect
<1>5. /\ step' = [step EXCEPT ![c] = effect]
      /\ loaded' = [loaded EXCEPT ![c] = file.run]
      /\ UNCHANGED <<faults, starts>>
  BY <1>1 DEF BeginSideEffect
<1>6. TypeOK'
  BY <1>2, <1>4, <1>5 DEF Inv, TypeOK
<1>7. ASSUME NEW d \in Commands
      PROVE  /\ step'[d] = "none" <=> loaded'[d] = NoFile
             /\ step'[d] # "none" => Kept(loaded'[d])
             /\ step'[d] = "execution" => loaded'[d].execution # NoNode
             /\ step'[d] = "verification" => loaded'[d].verification # {}
  <2>1. CASE d = c
    BY <1>1, <1>2, <1>3, <1>5, <2>1 DEF Inv, TypeOK
  <2>2. CASE d # c
    BY <1>5, <2>2 DEF Inv, TypeOK
  <2> QED
    BY <2>1, <2>2
<1> QED
  BY <1>2, <1>4, <1>6, <1>7 DEF Inv

\* A command that ends forgets the run it loaded; the document is as it was or has a
\* run that is kept.
LEMMA EndKeepsInv ==
  ASSUME Inv, NEW c \in Commands, EndSideEffect(c),
         \/ UNCHANGED file
         \/ file' \in Document /\ file' # NoFile /\ Kept(file'.run),
         faults' \in 0..MaxFaults, UNCHANGED starts
  PROVE  Inv'
<1>1. /\ step' = [step EXCEPT ![c] = "none"]
      /\ loaded' = [loaded EXCEPT ![c] = NoFile]
  BY DEF EndSideEffect
<1>2. TypeOK'
  BY <1>1 DEF Inv, TypeOK, Marker
<1>3. file' # NoFile => Kept(file'.run)
  BY DEF Inv
<1>4. ASSUME NEW d \in Commands
      PROVE  /\ step'[d] = "none" <=> loaded'[d] = NoFile
             /\ step'[d] # "none" => Kept(loaded'[d])
             /\ step'[d] = "execution" => loaded'[d].execution # NoNode
             /\ step'[d] = "verification" => loaded'[d].verification # {}
  BY <1>1 DEF Inv, TypeOK
<1> QED
  BY <1>2, <1>3, <1>4 DEF Inv

\* A step of no command writes a run that is kept.
LEMMA WriteKeepsInv ==
  ASSUME Inv, file' \in Document, file' # NoFile, Kept(file'.run),
         UNCHANGED <<step, loaded, faults>>, starts' \in 0..MaxStarts
  PROVE  Inv'
BY DEF Inv, TypeOK

LEMMA NextKeepsInv == Inv /\ [Next]_vars => Inv'
<1> SUFFICES ASSUME Inv, [Next]_vars PROVE Inv'
  OBVIOUS
<1> USE GoalRuntimeAssumption
<1>1. "none" \in Marker
  BY DEF Marker
<1>2. CASE Start
  <2>1. PICK behavior \in ExhaustionBehavior :
          Write(NextRequested(Started(behavior)), "none")
    BY <1>2 DEF Start
  <2>2. file' \in Document /\ file' # NoFile /\ Kept(file'.run)
    BY <1>1, <2>1, OperatorsKeep, KeptIsRun, WriteKeeps
  <2>3. UNCHANGED <<step, loaded, faults>> /\ starts' \in 0..MaxStarts
    BY <1>2 DEF Start, Inv, TypeOK
  <2> QED
    BY <2>2, <2>3, WriteKeepsInv
<1>3. ASSUME NEW c \in Commands, Begin(c)
      PROVE  Inv'
  BY <1>3, BeginKeepsInv DEF Begin
<1>4. ASSUME NEW c \in Commands, EndExecution(c)
      PROVE  Inv'
  <2>1. Kept(loaded[c]) /\ loaded[c].execution # NoNode
    BY <1>4 DEF EndExecution, Inv
  <2>2. ASSUME NEW success \in BOOLEAN, Write(ExecutionRecorded(loaded[c], success), "none")
        PROVE  file' \in Document /\ file' # NoFile /\ Kept(file'.run)
    <3>1. Kept(ExecutionRecorded(loaded[c], success))
      BY <2>1, OperatorsKeep, KeptIsRun
    <3> QED
      BY <1>1, <2>2, <3>1, WriteKeeps
  <2>3. \/ UNCHANGED file
        \/ file' \in Document /\ file' # NoFile /\ Kept(file'.run)
    BY <1>4, <2>2 DEF EndExecution
  <2> QED
    BY <1>4, <2>3, EndKeepsInv DEF EndExecution, Inv, TypeOK
<1>5. ASSUME NEW c \in Commands, EndVerification(c)
      PROVE  Inv'
  <2>1. Kept(loaded[c]) /\ loaded[c].verification # {}
    BY <1>5 DEF EndVerification, Inv
  <2>2. ASSUME NEW outcome \in {"PASS", "RETRY", "FAIL", "ESCALATE"},
               Write(AfterVerification(loaded[c], outcome), "none")
        PROVE  file' \in Document /\ file' # NoFile /\ Kept(file'.run)
    <3>1. Kept(AfterVerification(loaded[c], outcome))
      BY <2>1, OperatorsKeep, KeptIsRun
    <3> QED
      BY <1>1, <2>2, <3>1, WriteKeeps
  <2>3. \/ UNCHANGED file
        \/ file' \in Document /\ file' # NoFile /\ Kept(file'.run)
    BY <1>5, <2>2 DEF EndVerification
  <2> QED
    BY <1>5, <2>3, EndKeepsInv DEF EndVerification, Inv, TypeOK
<1>6. ASSUME NEW c \in Commands, VerificationRaises(c) \/ Crash(c)
      PROVE  Inv'
  <2>1. faults' \in 0..MaxFaults
    BY <1>6 DEF VerificationRaises, Crash, Fault, Inv, TypeOK
  <2> QED
    BY <1>6, <2>1, EndKeepsInv DEF VerificationRaises, Crash
<1>7. ASSUME NEW c \in Commands, ResumeAmbiguous(c)
      PROVE  Inv'
  <2>1. /\ Kept(file.run)
        /\ file.marker \in Marker
        /\ "ESCALATED" \in GoalState
    BY <1>7 DEF ResumeAmbiguous, Inv, TypeOK, Document, GoalState
  <2>2. Kept([file.run EXCEPT !.state = "ESCALATED"])
    BY <2>1, OperatorsKeep, KeptIsRun
  <2>3. file' \in Document /\ file' # NoFile /\ Kept(file'.run)
    BY <1>7, <2>1, <2>2, WriteKeeps DEF ResumeAmbiguous
  <2> QED
    BY <1>7, <2>3, WriteKeepsInv DEF ResumeAmbiguous, Inv, TypeOK
<1>8. ASSUME NEW c \in Commands, ResumeNothingPending(c)
      PROVE  Inv'
  <2>1. Kept(NextRequested(file.run))
    BY <1>8, OperatorsKeep, KeptIsRun DEF ResumeNothingPending, Inv
  <2>2. file' \in Document /\ file' # NoFile /\ Kept(file'.run)
    BY <1>1, <1>8, <2>1, WriteKeeps DEF ResumeNothingPending
  <2> QED
    BY <1>8, <2>2, WriteKeepsInv DEF ResumeNothingPending, Inv, TypeOK
<1>9. CASE UNCHANGED vars
  BY <1>9 DEF vars, Inv, TypeOK
<1> QED
  BY <1>2, <1>3, <1>4, <1>5, <1>6, <1>7, <1>8, <1>9 DEF Next, End

\* In every reachable state, on disk and in every command, the run in play is kept.
THEOREM GoalInvariance == Spec => []Inv
<1> QED
  BY InitInv, NextKeepsInv, PTL DEF Spec

-------------------------------------------------------------------------------
(* The theorems. *)

\* Every variable has its type: no retry and no review exceeds its budget, whichever
\* commands crash or run side by side.
THEOREM GoalTypeCorrect == Spec => []TypeOK
<1>1. Inv => TypeOK
  BY DEF Inv
<1> QED
  BY <1>1, GoalInvariance, PTL

LEMMA RunsAreKept ==
  ASSUME Inv, NEW run \in Runs
  PROVE  Kept(run)
BY DEF Inv, Runs

\* No node is touched before its dependencies are completed, in any run in play.
THEOREM GoalDependenciesFirst == Spec => []DependenciesFirst
<1>1. Inv => DependenciesFirst
  BY RunsAreKept DEF DependenciesFirst, Kept, Sound, Ordered
<1> QED
  BY <1>1, GoalInvariance, PTL

\* The node in hand is the one a request is pending for.
THEOREM GoalOneNodeInHand == Spec => []OneNodeInHand
<1>1. Inv => OneNodeInHand
  BY RunsAreKept DEF OneNodeInHand, Kept, Sound, InHand, Requested
<1> QED
  BY <1>1, GoalInvariance, PTL

\* Under plans that stop or escalate when a budget is exhausted, a completed node
\* passed every required gate since it was last executed.
THEOREM GoalCompletedIsVerified ==
  "fallback" \notin ExhaustionBehavior => (Spec => []CompletedIsVerified)
<1> SUFFICES ASSUME "fallback" \notin ExhaustionBehavior
             PROVE  Spec => []CompletedIsVerified
  OBVIOUS
<1>1. Inv => CompletedIsVerified
  BY RunsAreKept DEF CompletedIsVerified, Kept, Verified, Completed, RequiredOf
<1> QED
  BY <1>1, GoalInvariance, PTL

-------------------------------------------------------------------------------
(* FinalIsFinal, for commands that are run one at a time.  A command that is  *)
(* in a side effect may end on a run that was loaded long ago: what makes its *)
(* result harmless is that the run it loaded was not final, that nobody but   *)
(* start-approved wrote since, and that a goal does not start as a final one. *)

\* A goal that failed or is up for review has nothing pending.
Closed(run) ==
  run.state \in {"FAILED", "REVIEW_REQUESTED"} => run.execution = NoNode /\ run.verification = {}

\* Only an escalated run is final with a marker on it, or with work that is not done.
FinalInv ==
  /\ file # NoFile =>
       /\ Closed(file.run)
       /\ file.marker # "none" => file.run.state \notin {"FAILED", "REVIEW_REQUESTED"}
  /\ \A c \in Commands :
       step[c] # "none" =>
         /\ file # NoFile
         /\ loaded[c].state \notin FinalState => file.run.state \notin FinalState

\* A valid plan has a node without dependencies: the first goal request finds one.
LEMMA StartIsNotFinal ==
  ASSUME NEW behavior \in ExhaustionBehavior
  PROVE  NextRequested(Started(behavior)).state = "EXECUTING"
<1> USE GoalPlanAssumption
<1>1. PICK rank \in [Nodes -> Nodes] :
        \A n \in Nodes : \A d \in Dependencies[n] : rank[d] < rank[n]
  BY DEF GraphIsValid
<1> DEFINE ranks == {rank[n] : n \in Nodes}
<1>2. ranks \in SUBSET (1..NodeCount) /\ ranks # {}
  <2>1. 1 \in Nodes
    BY DEF Nodes
  <2> QED
    BY <2>1 DEF Nodes
<1>3. PICK least \in ranks : \A r \in ranks : least <= r
  <2> HIDE DEF ranks
  <2> QED
    BY <1>2, HasLeast
<1>4. PICK n \in Nodes : least = rank[n]
  OBVIOUS
<1>5. Dependencies[n] = {}
  <2>1. ASSUME NEW d \in Dependencies[n]
        PROVE  FALSE
    <3>1. d \in Nodes /\ rank[d] < rank[n] /\ rank[n] <= rank[d]
      BY <1>1, <1>3, <1>4 DEF GraphIsValid
    <3>2. rank[d] \in Int /\ rank[n] \in Int
      BY <3>1 DEF Nodes
    <3> QED
      BY <3>1, <3>2
  <2> QED
    BY <2>1
<1>6. n \in ReadyNodes(Started(behavior))
  BY <1>5 DEF ReadyNodes, Started
<1>7. Started(behavior) \in Run
  BY StartedIsSound DEF Sound
<1> QED
  BY <1>6, <1>7 DEF NextRequested, Run

LEMMA NextRequestedIsClosed ==
  ASSUME NEW run \in Run, run.execution = NoNode, run.verification = {}
  PROVE  Closed(NextRequested(run))
BY DEF NextRequested, Closed, Run

LEMMA ExecutionRecordedIsClosed ==
  ASSUME NEW run, Sound(run), MayRecordExecution(run), NEW success \in BOOLEAN
  PROVE  Closed(ExecutionRecorded(run, success))
<1>1. run \in Run /\ run.state = "EXECUTING" /\ run.verification = {}
  BY DEF Sound, MayRecordExecution
<1> QED
  BY <1>1 DEF ExecutionRecorded, Closed, Run

LEMMA BudgetExhaustedIsClosed ==
  ASSUME NEW run \in Run, run.state = "VERIFYING", run.execution = NoNode,
         NEW request, NEW fallback \in BOOLEAN
  PROVE  Closed(BudgetExhausted(run, request, fallback))
<1> DEFINE new == BudgetExhausted(run, request, fallback)
<1>1. CASE run.exhaustion = "escalate"
  BY <1>1 DEF BudgetExhausted, Closed, Run
<1>2. CASE run.exhaustion = "stop"
  BY <1>2 DEF BudgetExhausted, Closed, Run
<1>3. CASE run.exhaustion \notin {"escalate", "stop"}
  <2>1. new.state \in {"VERIFYING", "EXECUTING"}
    <3>1. CASE run.exhaustion = "fallback" /\ fallback
      BY <3>1 DEF BudgetExhausted, Run
    <3>2. CASE ~(run.exhaustion = "fallback" /\ fallback)
      BY <1>3, <3>2 DEF BudgetExhausted, Run
    <3> QED
      BY <3>1, <3>2
  <2> QED
    BY <2>1 DEF Closed
<1> QED
  BY <1>1, <1>2, <1>3

LEMMA VerificationRecordedIsClosed ==
  ASSUME NEW run, Sound(run), MayRecordVerification(run),
         NEW outcome \in {"PASS", "RETRY", "FAIL", "ESCALATE"}
  PROVE  Closed(VerificationRecorded(run, outcome))
<1> DEFINE request == FirstRequest(run)
           n == request.node
           counted == IF request.consumes THEN [run EXCEPT !.reviews[n] = @ + 1] ELSE run
           new == VerificationRecorded(run, outcome)
<1>1. run \in Run /\ run.state = "VERIFYING" /\ run.execution = NoNode
  <2>1. FirstRequest(run) \in run.verification
    BY FirstRequestIsMember DEF Sound, MayRecordVerification
  <2> QED
    BY <2>1, PendingNode DEF MayRecordVerification
<1>2. CASE request.consumes /\ ~ReviewsLeft(run, n)
  <2>1. new = BudgetExhausted(run, request, TRUE)
    BY <1>2 DEF VerificationRecorded
  <2> QED
    BY <1>1, <2>1, BudgetExhaustedIsClosed
<1>3. CASE ~(request.consumes /\ ~ReviewsLeft(run, n))
  <2>1. /\ counted.state = "VERIFYING"
        /\ counted.execution = NoNode
        /\ DOMAIN counted = DOMAIN run
    BY <1>1 DEF Run
  <2>2. new = CASE outcome = "PASS" -> Passed(counted, request)
                [] outcome = "RETRY" -> Retried(run, request, counted)
                [] outcome = "FAIL" ->
                     [counted EXCEPT !.state = "FAILED", !.graph[n] = "failed",
                                     !.verification = {}]
                [] outcome = "ESCALATE" ->
                     [counted EXCEPT !.state = "ESCALATED", !.graph[n] = "escalated",
                                     !.verification = {}]
    BY <1>3 DEF VerificationRecorded
  <2>3. DOMAIN run = {"state", "graph", "execution", "verification", "retries",
                      "reviews", "passed", "exhaustion"}
    BY <1>1 DEF Run
  <2> HIDE DEF request, counted, new
  <2>4. CASE outcome = "PASS"
    <3>1. new = Passed(counted, request)
      BY <2>2, <2>4
    <3>2. new.state \in {"VERIFYING", "EXECUTING"}
      BY <2>1, <2>3, <3>1 DEF Passed
    <3> QED
      BY <3>2 DEF Closed, new
  <2>5. CASE outcome = "RETRY"
    <3>1. new = Retried(run, request, counted)
      BY <2>2, <2>5
    <3>2. CASE run.retries[request.node] = MaxRetries
      BY <1>1, <3>1, <3>2, BudgetExhaustedIsClosed DEF Retried, new
    <3>3. CASE run.retries[request.node] # MaxRetries
      <4>1. new.state = "REVISING"
        BY <2>1, <2>3, <3>1, <3>3 DEF Retried
      <4> QED
        BY <4>1 DEF Closed, new
    <3> QED
      BY <3>2, <3>3
  <2>6. CASE outcome = "FAIL"
    <3>1. new.execution = NoNode /\ new.verification = {}
      BY <2>1, <2>2, <2>3, <2>6
    <3> QED
      BY <3>1 DEF Closed, new
  <2>7. CASE outcome = "ESCALATE"
    <3>1. new.execution = NoNode /\ new.verification = {}
      BY <2>1, <2>2, <2>3, <2>7
    <3> QED
      BY <3>1 DEF Closed, new
  <2> QED
    BY <2>4, <2>5, <2>6, <2>7
<1> QED
  BY <1>2, <1>3

LEMMA AfterVerificationIsClosed ==
  ASSUME NEW run, Sound(run), MayRecordVerification(run),
         NEW outcome \in {"PASS", "RETRY", "FAIL", "ESCALATE"}
  PROVE  Closed(AfterVerification(run, outcome))
<1> DEFINE recorded == VerificationRecorded(run, outcome)
<1>1. recorded \in Run
  BY VerificationRecordedIsSound DEF Sound, MayRecordVerification
<1>2. Closed(recorded)
  BY VerificationRecordedIsClosed
<1> HIDE DEF recorded
<1> QED
  BY <1>1, <1>2, NextRequestedIsClosed DEF AfterVerification, recorded

-------------------------------------------------------------------------------
OneAtATime == \A c, d \in Commands : c = d

\* A command that ends wrote the result of the run it loaded, or nothing.
LEMMA EndKeepsFinalInv ==
  ASSUME Inv, FinalInv, OneAtATime, NEW c \in Commands, EndSideEffect(c),
         \/ UNCHANGED file
         \/ file' # NoFile /\ Closed(file'.run) /\ file'.marker = "none"
  PROVE  FinalInv'
<1>1. step'[c] = "none"
  BY DEF EndSideEffect, Inv, TypeOK
<1>2. \A d \in Commands : step'[d] = "none"
  BY <1>1 DEF OneAtATime
<1> QED
  BY <1>2 DEF FinalInv

LEMMA WriteIsDocument ==
  ASSUME NEW run \in Run, NEW marker \in Marker, Write(run, marker)
  PROVE  file' # NoFile /\ file'.run = run /\ file'.marker = marker
BY GoalRuntimeAssumption DEF Write, Document

LEMMA FinalInvStep ==
  ASSUME Inv, FinalInv, OneAtATime, [Next]_vars
  PROVE  /\ FinalInv'
         /\ file # NoFile /\ file.run.state \in FinalState /\ starts' = starts
              => file'.run.state = file.run.state
<1> DEFINE Stays == file # NoFile /\ file.run.state \in FinalState /\ starts' = starts
                      => file'.run.state = file.run.state
<1>1. "none" \in Marker /\ "EXECUTING" \notin FinalState
  BY DEF Marker, FinalState
<1>2. CASE Start
  <2>1. PICK behavior \in ExhaustionBehavior :
          Write(NextRequested(Started(behavior)), "none")
    BY <1>2 DEF Start
  <2> DEFINE run == NextRequested(Started(behavior))
  <2>2. run \in Run /\ run.state = "EXECUTING"
    BY OperatorsKeep, KeptIsRun, StartIsNotFinal
  <2> HIDE DEF run
  <2>3. file' # NoFile /\ file'.run = run /\ file'.marker = "none"
    BY <1>1, <2>1, <2>2, WriteIsDocument DEF run
  <2>4. FinalInv'
    BY <1>1, <1>2, <2>2, <2>3 DEF FinalInv, Closed, Start
  <2>5. starts' # starts
    BY <1>2 DEF Start, Inv, TypeOK
  <2> QED
    BY <2>4, <2>5
<1>3. ASSUME NEW c \in Commands, Begin(c)
      PROVE  FinalInv' /\ Stays
  <2>1. PICK effect \in {"execution", "verification"} :
          /\ file # NoFile
          /\ file.run.execution # NoNode \/ file.run.verification # {}
          /\ BeginSideEffect(c, effect)
    BY <1>3 DEF Begin, BeginExecution, BeginVerification
  <2>2. file.run \in Run /\ effect \in Marker
    BY <2>1, KeptIsRun DEF Inv, Marker
  <2>3. file' # NoFile /\ file'.run = file.run
    BY <2>1, <2>2, WriteIsDocument DEF BeginSideEffect
  <2>4. file.run.state \notin {"FAILED", "REVIEW_REQUESTED"} /\ Closed(file.run)
    BY <2>1 DEF FinalInv, Closed
  <2>5. loaded'[c] = file.run
    BY <2>1 DEF BeginSideEffect, Inv, TypeOK
  <2>6. \A d \in Commands : loaded'[d] = file.run
    BY <2>5 DEF OneAtATime
  <2> QED
    BY <2>3, <2>4, <2>6 DEF FinalInv
<1>4. ASSUME NEW c \in Commands, EndExecution(c)
      PROVE  FinalInv' /\ Stays
  <2>1. Kept(loaded[c]) /\ step[c] # "none"
    BY <1>4 DEF EndExecution, Inv
  <2>2. CASE UNCHANGED file
    BY <1>4, <2>2, EndKeepsFinalInv DEF EndExecution
  <2>3. ASSUME MayRecordExecution(loaded[c]), NEW success \in BOOLEAN,
               Write(ExecutionRecorded(loaded[c], success), "none")
        PROVE  FinalInv' /\ Stays
    <3> DEFINE run == ExecutionRecorded(loaded[c], success)
    <3>1. run \in Run /\ Closed(run)
      BY <2>1, <2>3, OperatorsKeep, KeptIsRun, ExecutionRecordedIsClosed
         DEF Kept, MayRecordExecution
    <3> HIDE DEF run
    <3>2. file' # NoFile /\ file'.run = run /\ file'.marker = "none"
      BY <1>1, <2>3, <3>1, WriteIsDocument DEF run
    <3>3. file.run.state \notin FinalState
      BY <1>1, <2>1, <2>3 DEF FinalInv, MayRecordExecution
    <3> QED
      BY <1>4, <3>1, <3>2, <3>3, EndKeepsFinalInv DEF EndExecution
  <2> QED
    BY <1>4, <2>2, <2>3 DEF EndExecution
<1>5. ASSUME NEW c \in Commands, EndVerification(c)
      PROVE  FinalInv' /\ Stays
  <2>1. Kept(loaded[c]) /\ step[c] # "none"
    BY <1>5 DEF EndVerification, Inv
  <2>2. CASE UNCHANGED file
    BY <1>5, <2>2, EndKeepsFinalInv DEF EndVerification
  <2>3. ASSUME MayRecordVerification(loaded[c]),
               NEW outcome \in {"PASS", "RETRY", "FAIL", "ESCALATE"},
               Write(AfterVerification(loaded[c], outcome), "none")
        PROVE  FinalInv' /\ Stays
    <3> DEFINE run == AfterVerification(loaded[c], outcome)
    <3>1. run \in Run /\ Closed(run)
      BY <2>1, <2>3, OperatorsKeep, KeptIsRun, AfterVerificationIsClosed
         DEF Kept, MayRecordVerification
    <3> HIDE DEF run
    <3>2. file' # NoFile /\ file'.run = run /\ file'.marker = "none"
      BY <1>1, <2>3, <3>1, WriteIsDocument DEF run
    <3>3. file.run.state \notin FinalState
      BY <2>1, <2>3 DEF FinalInv, MayRecordVerification, FinalState
    <3> QED
      BY <1>5, <3>1, <3>2, <3>3, EndKeepsFinalInv DEF EndVerification
  <2> QED
    BY <1>5, <2>2, <2>3 DEF EndVerification
<1>6. ASSUME NEW c \in Commands, VerificationRaises(c) \/ Crash(c)
      PROVE  FinalInv' /\ Stays
  BY <1>6, EndKeepsFinalInv DEF VerificationRaises, Crash
<1>7. ASSUME NEW c \in Commands, ResumeAmbiguous(c)
      PROVE  FinalInv' /\ Stays
  <2> DEFINE run == [file.run EXCEPT !.state = "ESCALATED"]
  <2>1. file.run \in Run /\ file # NoFile /\ file.marker \in Marker
    BY <1>7, KeptIsRun DEF ResumeAmbiguous, Inv, TypeOK, Document
  <2>2. run \in Run /\ run.state = "ESCALATED"
    BY <2>1 DEF Run, GoalState
  <2>3. Write(run, file.marker)
    BY <1>7 DEF ResumeAmbiguous
  <2> HIDE DEF run
  <2>4. file' # NoFile /\ file'.run = run
    BY <2>1, <2>2, <2>3, WriteIsDocument
  <2>5. file.run.state \in FinalState => file.run.state = "ESCALATED"
    BY <1>7, <2>1 DEF ResumeAmbiguous, FinalInv, FinalState
  <2>6. \A d \in Commands : step'[d] = "none"
    BY <1>7 DEF ResumeAmbiguous, OneAtATime
  <2> QED
    BY <2>2, <2>4, <2>5, <2>6 DEF FinalInv, Closed
<1>8. ASSUME NEW c \in Commands, ResumeNothingPending(c)
      PROVE  FinalInv' /\ Stays
  <2> DEFINE run == NextRequested(file.run)
  <2>1. Kept(file.run) /\ file.run.execution = NoNode /\ file.run.verification = {}
    BY <1>8 DEF ResumeNothingPending, Inv
  <2>2. run \in Run /\ Closed(run)
    BY <2>1, OperatorsKeep, KeptIsRun, NextRequestedIsClosed
  <2>3. Write(run, "none")
    BY <1>8 DEF ResumeNothingPending
  <2> HIDE DEF run
  <2>4. file' # NoFile /\ file'.run = run /\ file'.marker = "none"
    BY <1>1, <2>2, <2>3, WriteIsDocument
  <2>5. \A d \in Commands : step'[d] = "none"
    BY <1>8 DEF ResumeNothingPending, OneAtATime
  <2>6. Stays
    BY <1>8 DEF ResumeNothingPending
  <2> QED
    BY <2>2, <2>4, <2>5, <2>6 DEF FinalInv
<1>9. CASE UNCHANGED vars
  BY <1>9 DEF vars, FinalInv
<1> QED
  BY <1>2, <1>3, <1>4, <1>5, <1>6, <1>7, <1>8, <1>9 DEF Next, End

\* Where commands are run one at a time, as an operator runs them, a finished goal stays
\* finished until it is started anew, whatever crashes, raises and is run again.
THEOREM GoalFinalIsFinal == OneAtATime => (Spec => FinalIsFinal)
<1> SUFFICES ASSUME OneAtATime PROVE Spec => FinalIsFinal
  OBVIOUS
<1>1. Init => FinalInv
  BY GoalRuntimeAssumption DEF Init, FinalInv
<1>2. Inv /\ FinalInv /\ [Next]_vars => FinalInv'
  BY FinalInvStep
<1>3. Spec => []FinalInv
  BY <1>1, <1>2, GoalInvariance, PTL DEF Spec
<1>4. Inv /\ FinalInv /\ [Next]_vars =>
        [file # NoFile /\ file.run.state \in FinalState /\ starts' = starts
           => file'.run.state = file.run.state]_vars
  BY FinalInvStep
<1> QED
  BY <1>3, <1>4, GoalInvariance, PTL DEF Spec, FinalIsFinal

-------------------------------------------------------------------------------
(* EveryStepAdvances, under the same conditions, and where no plan falls back: *)
(* a result advances the run that was loaded, and the run on disk, if that is  *)
(* another one, is one that was just started.                                  *)

Fresh(run) ==
  /\ run \in Run
  /\ Completed(run) = {}
  /\ \A n \in Nodes : run.retries[n] = 0
  /\ Pending(run) = 2

AdvanceInv ==
  \A c \in Commands : step[c] # "none" => file # NoFile /\ (loaded[c] = file.run \/ Fresh(file.run))

\* What a result does to the run it is recorded in, and more than Advances says of it.
Concludes(old, new) ==
  /\ Pending(old) # 0
  /\ Completed(old) \subseteq Completed(new)
  /\ \A n \in Nodes : old.retries[n] <= new.retries[n]
  /\ \/ \E n \in Nodes : old.retries[n] < new.retries[n]
     \/ \E n \in Nodes : n \in Completed(new) \ Completed(old)
     \/ Pending(new) < Pending(old) /\ Pending(new) <= 1
     \/ /\ Pending(old) = 1 /\ Pending(new) = 1
        /\ new.verification \subseteq old.verification
        /\ new.verification # old.verification

LEMMA ConcludesAdvances ==
  ASSUME NEW old \in Run, NEW new \in Run, Concludes(old, new)
  PROVE  /\ Advances(old, new)
         /\ \A run : Fresh(run) => Advances(run, new)
<1>1. \A n \in Nodes : old.retries[n] \in Nat /\ new.retries[n] \in Nat
  BY GoalPlanAssumption DEF Run
<1>2. Advances(old, new)
  BY <1>1 DEF Concludes, Advances
<1>3. ASSUME NEW run, Fresh(run)
      PROVE  Advances(run, new)
  <2>1. /\ Pending(run) # 0
        /\ Completed(run) \subseteq Completed(new)
        /\ \A n \in Nodes : run.retries[n] <= new.retries[n]
    BY <1>1, <1>3 DEF Fresh
  <2>2. CASE \E n \in Nodes : old.retries[n] < new.retries[n]
    <3>1. PICK n \in Nodes : old.retries[n] < new.retries[n]
      BY <2>2
    <3>2. new.retries[n] # 0 /\ run.retries[n] = 0
      BY <1>1, <1>3, <3>1 DEF Fresh
    <3> QED
      BY <2>1, <3>2 DEF Advances
  <2>3. CASE \E n \in Nodes : n \in Completed(new) \ Completed(old)
    BY <1>3, <2>1, <2>3 DEF Advances, Fresh
  <2>4. CASE Pending(new) <= 1
    BY <1>3, <2>1, <2>4 DEF Advances, Fresh, Pending
  <2> QED
    BY <2>2, <2>3, <2>4 DEF Concludes, Pending
<1> QED
  BY <1>2, <1>3

LEMMA StartIsFresh ==
  ASSUME NEW behavior \in ExhaustionBehavior
  PROVE  Fresh(NextRequested(Started(behavior)))
<1> DEFINE start == Started(behavior)
           new == NextRequested(start)
<1>1. /\ start \in Run /\ new \in Run
      /\ new.state = "EXECUTING"
  BY StartedIsSound, OperatorsKeep, KeptIsRun, StartIsNotFinal DEF Sound
<1>2. /\ \A n \in Nodes : start.graph[n] = "ready" /\ start.retries[n] = 0
      /\ start.execution = NoNode
  BY DEF Started
<1>3. ReadyNodes(start) # {}
  BY <1>1 DEF NextRequested, Run
<1> DEFINE n == First(ReadyNodes(start))
<1>4. n \in Nodes /\ n # NoNode
  <2>1. n \in ReadyNodes(start)
    BY <1>3, FirstIsMember DEF ReadyNodes
  <2> QED
    BY <2>1, GoalPlanAssumption DEF ReadyNodes, Nodes, NoNode
<1> HIDE DEF start, n
<1>5. new = [start EXCEPT !.state = "EXECUTING", !.graph[n] = "running",
                          !.execution = n, !.passed[n] = {}]
  BY <1>3 DEF NextRequested, n
<1>6. /\ new.graph = [start.graph EXCEPT ![n] = "running"]
      /\ new.retries = start.retries
      /\ new.execution = n
  BY <1>1, <1>5 DEF Run
<1>7. Completed(new) = {}
  BY <1>1, <1>2, <1>6 DEF Completed, Run
<1> QED
  BY <1>1, <1>2, <1>4, <1>6, <1>7 DEF Fresh, Pending, FinalState, start

\* A node that is not completed moves: nothing that is completed is lost.
LEMMA MoveKeepsCompleted ==
  ASSUME NEW run \in Run, NEW n \in Nodes, run.graph[n] # "completed",
         NEW s, NEW new, new.graph = [run.graph EXCEPT ![n] = s]
  PROVE  /\ Completed(run) \subseteq Completed(new)
         /\ s = "completed" => n \in Completed(new) \ Completed(run)
BY DEF Completed, Run

\* The choice of the next node completes nothing and uses no retry.
LEMMA NextRequestedKeeps ==
  ASSUME NEW run \in Run, run.execution = NoNode, run.verification = {}, MayRequest(run)
  PROVE  LET new == NextRequested(run)
         IN /\ Completed(run) \subseteq Completed(new)
            /\ new.retries = run.retries
            /\ Pending(run) # 0
            /\ Pending(new) < Pending(run)
<1> DEFINE new == NextRequested(run)
<1>1. Pending(run) = 3
  BY DEF MayRequest, Pending, FinalState
<1>2. CASE ReadyNodes(run) = {}
  <2>1. PICK state \in {"REVIEW_REQUESTED", "ESCALATED"} : new = [run EXCEPT !.state = state]
    BY <1>2 DEF NextRequested
  <2>2. new.graph = run.graph /\ new.retries = run.retries /\ new.state = state
    BY <2>1 DEF Run
  <2>3. Pending(new) = 0
    BY <2>2 DEF Pending, FinalState
  <2> QED
    BY <1>1, <2>2, <2>3 DEF Completed
<1>3. CASE ReadyNodes(run) # {}
  <2> DEFINE n == First(ReadyNodes(run))
  <2>1. n \in ReadyNodes(run)
    BY <1>3, FirstIsMember DEF ReadyNodes
  <2>2. n \in Nodes /\ n # NoNode /\ run.graph[n] # "completed"
    BY <2>1, GoalPlanAssumption DEF ReadyNodes, Nodes, NoNode
  <2> HIDE DEF n
  <2>3. new = [run EXCEPT !.state = "EXECUTING", !.graph[n] = "running",
                          !.execution = n, !.passed[n] = {}]
    BY <1>3 DEF NextRequested, n
  <2>4. /\ new.graph = [run.graph EXCEPT ![n] = "running"]
        /\ new.retries = run.retries
        /\ new.execution = n
        /\ new.state = "EXECUTING"
    BY <2>3 DEF Run
  <2>5. Pending(new) = 2
    BY <2>2, <2>4 DEF Pending, FinalState
  <2> QED
    BY <1>1, <2>2, <2>4, <2>5, MoveKeepsCompleted
<1> QED
  BY <1>2, <1>3

LEMMA ExecutionRecordedConcludes ==
  ASSUME NEW run, Sound(run), MayRecordExecution(run), NEW success \in BOOLEAN
  PROVE  Concludes(run, ExecutionRecorded(run, success))
<1> DEFINE n == run.execution
           new == ExecutionRecorded(run, success)
<1>1. /\ run \in Run /\ n \in Nodes /\ run.graph[n] # "completed"
      /\ Pending(run) = 2
      /\ \A m \in Nodes : run.retries[m] \in Nat
  <2>1. run \in Run /\ n \in Requested(run)
    BY DEF Sound, Requested, MayRecordExecution
  <2> QED
    BY <2>1, RequestedIsOpen, GoalPlanAssumption
       DEF Open, Run, MayRecordExecution, Pending, FinalState
<1>2. CASE ~success
  <2>1. new = [run EXCEPT !.state = "FAILED", !.graph[n] = "failed", !.execution = NoNode]
    BY <1>2 DEF ExecutionRecorded
  <2> HIDE DEF new, n
  <2>2. /\ new.graph = [run.graph EXCEPT ![n] = "failed"]
        /\ new.retries = run.retries
        /\ new.state = "FAILED"
    BY <1>1, <2>1 DEF Run
  <2>3. Pending(new) = 0
    BY <2>2 DEF Pending, FinalState
  <2> QED
    BY <1>1, <2>2, <2>3, MoveKeepsCompleted DEF Concludes, new
<1>3. CASE success /\ GateRequests(n) = {}
  <2>1. new = [run EXCEPT !.graph[n] = "completed", !.execution = NoNode, !.verification = {}]
    BY <1>3 DEF ExecutionRecorded
  <2> HIDE DEF new, n
  <2>2. /\ new.graph = [run.graph EXCEPT ![n] = "completed"]
        /\ new.retries = run.retries
    BY <1>1, <2>1 DEF Run
  <2> QED
    BY <1>1, <2>2, MoveKeepsCompleted DEF Concludes, new
<1>4. CASE success /\ GateRequests(n) # {}
  <2>1. new = [run EXCEPT !.state = "VERIFYING", !.graph[n] = "verifying",
                          !.execution = NoNode, !.verification = GateRequests(n)]
    BY <1>4 DEF ExecutionRecorded
  <2> HIDE DEF new, n
  <2>2. /\ new.graph = [run.graph EXCEPT ![n] = "verifying"]
        /\ new.retries = run.retries
        /\ new.state = "VERIFYING"
        /\ new.execution = NoNode
        /\ new.verification # {}
    BY <1>1, <1>4, <2>1 DEF Run
  <2>3. Pending(new) = 1
    BY <2>2 DEF Pending, FinalState
  <2> QED
    BY <1>1, <2>2, <2>3, MoveKeepsCompleted DEF Concludes, new
<1> QED
  BY <1>2, <1>3, <1>4

-------------------------------------------------------------------------------
\* The budget ends the goal unless the plan says that it falls back.
LEMMA BudgetExhaustedConcludes ==
  ASSUME NEW run, Sound(run), MayRecordVerification(run), run.exhaustion # "fallback",
         NEW request \in run.verification, NEW fallback \in BOOLEAN
  PROVE  Concludes(run, BudgetExhausted(run, request, fallback))
<1> DEFINE n == request.node
           new == BudgetExhausted(run, request, fallback)
<1>1. /\ run \in Run /\ n \in Nodes /\ run.graph[n] # "completed"
      /\ Pending(run) = 1
      /\ \A m \in Nodes : run.retries[m] \in Nat
      /\ run.exhaustion \in {"stop", "escalate"}
  <2>1. run \in Run /\ n \in Nodes /\ run.graph[n] = "verifying" /\ run.execution = NoNode
    BY PendingNode
  <2>2. \A m \in Nodes : run.retries[m] \in Nat
    BY <2>1, GoalPlanAssumption DEF Run
  <2>3. run.exhaustion \in {"stop", "escalate"}
    BY <2>1, GoalPlanAssumption DEF Run
  <2>4. Pending(run) = 1
    BY <2>1 DEF MayRecordVerification, Pending, FinalState
  <2> QED
    BY <2>1, <2>2, <2>3, <2>4
<1>2. PICK state \in {"ESCALATED", "FAILED"}, s \in {"escalated", "blocked"} :
        new = [run EXCEPT !.state = state, !.graph[n] = s, !.verification = {}]
  BY <1>1 DEF BudgetExhausted
<1> HIDE DEF new, n
<1>3. /\ new.graph = [run.graph EXCEPT ![n] = s]
      /\ new.retries = run.retries
      /\ new.state = state
  BY <1>1, <1>2 DEF Run
<1>4. Pending(new) = 0
  BY <1>3 DEF Pending, FinalState
<1> QED
  BY <1>1, <1>3, <1>4, MoveKeepsCompleted DEF Concludes, new

LEMMA VerificationRecordedConcludes ==
  ASSUME NEW run, Sound(run), MayRecordVerification(run), run.exhaustion # "fallback",
         NEW outcome \in {"PASS", "RETRY", "FAIL", "ESCALATE"}
  PROVE  LET new == VerificationRecorded(run, outcome)
         IN /\ Concludes(run, new)
            /\ new.state = "EXECUTING" =>
                 \E n \in Nodes : n \in Completed(new) \ Completed(run)
<1> DEFINE request == FirstRequest(run)
           n == request.node
           counted == IF request.consumes THEN [run EXCEPT !.reviews[n] = @ + 1] ELSE run
           new == VerificationRecorded(run, outcome)
           Goal == /\ Concludes(run, new)
                   /\ new.state = "EXECUTING" =>
                        \E m \in Nodes : m \in Completed(new) \ Completed(run)
<1> SUFFICES Goal
  OBVIOUS
<1>1. request \in run.verification
  BY FirstRequestIsMember DEF Sound, MayRecordVerification
<1>2. /\ run \in Run /\ n \in Nodes /\ run.graph[n] = "verifying" /\ run.execution = NoNode
      /\ run.state = "VERIFYING"
  BY <1>1, PendingNode DEF MayRecordVerification
<1>3. /\ Pending(run) = 1
      /\ \A m \in Nodes : run.retries[m] \in Nat
  BY <1>2, GoalPlanAssumption DEF Run, MayRecordVerification, Pending, FinalState
<1>4. ASSUME NEW fallback \in BOOLEAN, new = BudgetExhausted(run, request, fallback)
      PROVE  Goal
  <2>1. Concludes(run, new)
    BY <1>1, <1>4, BudgetExhaustedConcludes
  <2>2. new.state # "EXECUTING"
    BY <1>2, <1>4, GoalPlanAssumption DEF BudgetExhausted, Run
  <2> QED
    BY <2>1, <2>2
<1>5. CASE request.consumes /\ ~ReviewsLeft(run, n)
  <2>1. new = BudgetExhausted(run, request, TRUE)
    BY <1>5 DEF VerificationRecorded
  <2> QED
    BY <1>4, <2>1
<1>6. CASE ~(request.consumes /\ ~ReviewsLeft(run, n))
  <2>1. /\ counted \in Run
        /\ counted.state = "VERIFYING"
        /\ counted.graph = run.graph
        /\ counted.execution = NoNode
        /\ counted.verification = run.verification
        /\ counted.retries = run.retries
    <3>1. CASE request.consumes
      BY <1>1, <1>2, <1>6, <3>1, CountedIsSound DEF Sound, Run
    <3>2. CASE ~request.consumes
      BY <1>2, <3>2
    <3> QED
      BY <3>1, <3>2
  <2>2. new = CASE outcome = "PASS" -> Passed(counted, request)
                [] outcome = "RETRY" -> Retried(run, request, counted)
                [] outcome = "FAIL" ->
                     [counted EXCEPT !.state = "FAILED", !.graph[n] = "failed",
                                     !.verification = {}]
                [] outcome = "ESCALATE" ->
                     [counted EXCEPT !.state = "ESCALATED", !.graph[n] = "escalated",
                                     !.verification = {}]
    BY <1>6 DEF VerificationRecorded
  <2>3. ASSUME NEW state \in {"FAILED", "ESCALATED"}, NEW s \in {"failed", "escalated"},
               new = [counted EXCEPT !.state = state, !.graph[n] = s, !.verification = {}]
        PROVE  Goal
    <3> HIDE DEF counted, new, n
    <3>1. new.graph = [run.graph EXCEPT ![n] = s] /\ new.retries = run.retries /\ new.state = state
      BY <2>1, <2>3 DEF Run
    <3>2. Pending(new) = 0
      BY <3>1 DEF Pending, FinalState
    <3> QED
      BY <1>2, <1>3, <3>1, <3>2, MoveKeepsCompleted DEF Concludes
  <2> HIDE DEF request, counted, new
  <2>4. CASE outcome = "PASS"
    <3> DEFINE rest == counted.verification \ {request}
    <3>1. new = IF rest # {}
                THEN [counted EXCEPT !.verification = rest,
                                     !.passed[n] = @ \cup {request.gate}]
                ELSE [counted EXCEPT !.verification = rest,
                                     !.passed[n] = @ \cup {request.gate},
                                     !.state = "EXECUTING", !.graph[n] = "completed"]
      BY <2>2, <2>4 DEF Passed
    <3>2. CASE rest # {}
      <4> HIDE DEF n
      <4>1. /\ new.graph = run.graph /\ new.retries = run.retries
            /\ new.state = "VERIFYING" /\ new.execution = NoNode
            /\ new.verification = rest
        BY <2>1, <3>1, <3>2 DEF Run
      <4>2. Pending(new) = 1 /\ Completed(new) = Completed(run)
        BY <3>2, <4>1 DEF Pending, FinalState, Completed
      <4> QED
        BY <1>1, <1>3, <2>1, <4>1, <4>2 DEF Concludes
    <3>3. CASE rest = {}
      <4> HIDE DEF n
      <4>1. new.graph = [run.graph EXCEPT ![n] = "completed"] /\ new.retries = run.retries
        BY <2>1, <3>1, <3>3 DEF Run
      <4>2. Completed(run) \subseteq Completed(new) /\ n \in Completed(new) \ Completed(run)
        BY <1>2, <4>1, MoveKeepsCompleted
      <4> QED
        BY <1>2, <1>3, <4>1, <4>2 DEF Concludes
    <3> QED
      BY <3>2, <3>3
  <2>5. CASE outcome = "RETRY"
    <3>1. new = Retried(run, request, counted)
      BY <2>2, <2>5
    <3>2. CASE run.retries[n] = MaxRetries
      BY <1>4, <3>1, <3>2 DEF Retried
    <3>3. CASE run.retries[n] # MaxRetries
      <4>1. new = [counted EXCEPT !.state = "REVISING", !.graph[n] = "retryable",
                                  !.verification = {}, !.retries[n] = @ + 1]
        BY <3>1, <3>3 DEF Retried
      <4> HIDE DEF n
      <4>2. /\ new.graph = [run.graph EXCEPT ![n] = "retryable"]
            /\ new.retries = [run.retries EXCEPT ![n] = @ + 1]
            /\ new.state = "REVISING"
        BY <2>1, <4>1 DEF Run
      <4>3. \A m \in Nodes : new.retries[m] = IF m = n THEN run.retries[m] + 1 ELSE run.retries[m]
        BY <1>2, <4>2 DEF Run
      <4>4. Completed(run) \subseteq Completed(new)
        BY <1>2, <4>2, MoveKeepsCompleted
      <4> QED
        BY <1>2, <1>3, <4>2, <4>3, <4>4 DEF Concludes
    <3> QED
      BY <3>2, <3>3
  <2>6. CASE outcome = "FAIL"
    BY <2>2, <2>3, <2>6
  <2>7. CASE outcome = "ESCALATE"
    BY <2>2, <2>3, <2>7
  <2> QED
    BY <2>4, <2>5, <2>6, <2>7
<1> QED
  BY <1>5, <1>6

LEMMA AfterVerificationConcludes ==
  ASSUME NEW run, Sound(run), MayRecordVerification(run), run.exhaustion # "fallback",
         NEW outcome \in {"PASS", "RETRY", "FAIL", "ESCALATE"}
  PROVE  Concludes(run, AfterVerification(run, outcome))
<1> DEFINE recorded == VerificationRecorded(run, outcome)
           new == AfterVerification(run, outcome)
<1>1. recorded \in Run
  BY VerificationRecordedIsSound DEF Sound, MayRecordVerification
<1>2. /\ Concludes(run, recorded)
      /\ recorded.state = "EXECUTING" =>
           \E n \in Nodes : n \in Completed(recorded) \ Completed(run)
  BY VerificationRecordedConcludes
<1> HIDE DEF recorded
<1>3. CASE /\ recorded.state = "EXECUTING"
           /\ recorded.execution = NoNode
           /\ recorded.verification = {}
  <2>1. new = NextRequested(recorded)
    BY <1>3 DEF AfterVerification, recorded
  <2>2. Completed(recorded) \subseteq Completed(new) /\ new.retries = recorded.retries
    BY <1>1, <1>3, <2>1, NextRequestedKeeps DEF MayRequest
  <2>3. PICK n \in Nodes : n \in Completed(recorded) \ Completed(run)
    BY <1>2, <1>3
  <2> HIDE DEF new
  <2> QED
    BY <1>2, <2>2, <2>3 DEF Concludes, new
<1>4. CASE ~(/\ recorded.state = "EXECUTING"
             /\ recorded.execution = NoNode
             /\ recorded.verification = {})
  <2>1. new = recorded
    BY <1>4 DEF AfterVerification, recorded
  <2> QED
    BY <1>2, <2>1
<1> QED
  BY <1>3, <1>4

-------------------------------------------------------------------------------
\* A command that ends leaves nobody in a side effect.
LEMMA EndLeavesNobody ==
  ASSUME Inv, OneAtATime, NEW c \in Commands, EndSideEffect(c)
  PROVE  \A d \in Commands : step'[d] = "none"
BY DEF EndSideEffect, Inv, TypeOK, OneAtATime

LEMMA AdvanceStep ==
  ASSUME Inv, FinalInv, AdvanceInv, OneAtATime, "fallback" \notin ExhaustionBehavior,
         [Next]_vars
  PROVE  /\ AdvanceInv'
         /\ file # NoFile /\ starts' = starts /\ file'.run # file.run
              => Advances(file.run, file'.run)
<1> DEFINE Moves == file # NoFile /\ starts' = starts /\ file'.run # file.run
                      => Advances(file.run, file'.run)
<1>1. "none" \in Marker
  BY DEF Marker
\* The result of the run that was loaded, on the run that is on disk.
<1>2. ASSUME NEW c \in Commands, step[c] # "none", NEW run \in Run, Concludes(loaded[c], run),
             file'.run = run
      PROVE  Moves
  <2>1. loaded[c] \in Run
    BY <1>2, KeptIsRun DEF Inv
  <2>2. loaded[c] = file.run \/ Fresh(file.run)
    BY <1>2 DEF AdvanceInv
  <2> QED
    BY <1>2, <2>1, <2>2, ConcludesAdvances
<1>3. CASE Start
  <2>1. PICK behavior \in ExhaustionBehavior :
          Write(NextRequested(Started(behavior)), "none")
    BY <1>3 DEF Start
  <2> DEFINE run == NextRequested(Started(behavior))
  <2>2. run \in Run /\ Fresh(run)
    BY StartIsFresh DEF Fresh
  <2> HIDE DEF run
  <2>3. file' # NoFile /\ file'.run = run
    BY <1>1, <2>1, <2>2, WriteIsDocument DEF run
  <2>4. AdvanceInv'
    BY <2>2, <2>3 DEF AdvanceInv
  <2>5. starts' # starts
    BY <1>3 DEF Start, Inv, TypeOK
  <2> QED
    BY <2>4, <2>5
<1>4. ASSUME NEW c \in Commands, Begin(c)
      PROVE  AdvanceInv' /\ Moves
  <2>1. PICK effect \in {"execution", "verification"} : file # NoFile /\ BeginSideEffect(c, effect)
    BY <1>4 DEF Begin, BeginExecution, BeginVerification
  <2>2. file.run \in Run /\ effect \in Marker
    BY <2>1, KeptIsRun DEF Inv, Marker
  <2>3. file' # NoFile /\ file'.run = file.run
    BY <2>1, <2>2, WriteIsDocument DEF BeginSideEffect
  <2>4. loaded'[c] = file.run
    BY <2>1 DEF BeginSideEffect, Inv, TypeOK
  <2>5. \A d \in Commands : loaded'[d] = file'.run
    BY <2>3, <2>4 DEF OneAtATime
  <2> QED
    BY <2>3, <2>5 DEF AdvanceInv
<1>5. ASSUME NEW c \in Commands, EndExecution(c)
      PROVE  AdvanceInv' /\ Moves
  <2>1. Kept(loaded[c]) /\ step[c] # "none"
    BY <1>5 DEF EndExecution, Inv
  <2>2. AdvanceInv'
    BY <1>5, EndLeavesNobody DEF EndExecution, AdvanceInv
  <2>3. ASSUME MayRecordExecution(loaded[c]), NEW success \in BOOLEAN,
               Write(ExecutionRecorded(loaded[c], success), "none")
        PROVE  Moves
    <3> DEFINE run == ExecutionRecorded(loaded[c], success)
    <3>1. run \in Run /\ Concludes(loaded[c], run)
      BY <2>1, <2>3, OperatorsKeep, KeptIsRun, ExecutionRecordedConcludes
         DEF Kept, MayRecordExecution
    <3> HIDE DEF run
    <3>2. file'.run = run
      BY <1>1, <2>3, <3>1, WriteIsDocument DEF run
    <3> QED
      BY <1>2, <2>1, <3>1, <3>2
  <2> QED
    BY <1>5, <2>2, <2>3 DEF EndExecution
<1>6. ASSUME NEW c \in Commands, EndVerification(c)
      PROVE  AdvanceInv' /\ Moves
  <2>1. Kept(loaded[c]) /\ step[c] # "none" /\ loaded[c].exhaustion # "fallback"
    BY <1>6, KeptIsRun DEF EndVerification, Inv, Run
  <2>2. AdvanceInv'
    BY <1>6, EndLeavesNobody DEF EndVerification, AdvanceInv
  <2>3. ASSUME MayRecordVerification(loaded[c]),
               NEW outcome \in {"PASS", "RETRY", "FAIL", "ESCALATE"},
               Write(AfterVerification(loaded[c], outcome), "none")
        PROVE  Moves
    <3> DEFINE run == AfterVerification(loaded[c], outcome)
    <3>1. run \in Run /\ Concludes(loaded[c], run)
      BY <2>1, <2>3, OperatorsKeep, KeptIsRun, AfterVerificationConcludes
         DEF Kept, MayRecordVerification
    <3> HIDE DEF run
    <3>2. file'.run = run
      BY <1>1, <2>3, <3>1, WriteIsDocument DEF run
    <3> QED
      BY <1>2, <2>1, <3>1, <3>2
  <2> QED
    BY <1>6, <2>2, <2>3 DEF EndVerification
<1>7. ASSUME NEW c \in Commands, VerificationRaises(c) \/ Crash(c)
      PROVE  AdvanceInv' /\ Moves
  BY <1>7, EndLeavesNobody DEF VerificationRaises, Crash, AdvanceInv
<1>8. ASSUME NEW c \in Commands, ResumeAmbiguous(c)
      PROVE  AdvanceInv' /\ Moves
  <2> DEFINE run == [file.run EXCEPT !.state = "ESCALATED"]
  <2>1. file.run \in Run /\ file # NoFile /\ file.marker \in Marker
    BY <1>8, KeptIsRun DEF ResumeAmbiguous, Inv, TypeOK, Document
  <2>2. /\ run \in Run /\ run.state = "ESCALATED"
        /\ run.graph = file.run.graph /\ run.retries = file.run.retries
        /\ file.run.state = "ESCALATED" => run = file.run
    BY <2>1 DEF Run, GoalState
  <2>3. Write(run, file.marker)
    BY <1>8 DEF ResumeAmbiguous
  <2> HIDE DEF run
  <2>4. file'.run = run
    BY <2>1, <2>2, <2>3, WriteIsDocument
  <2>5. ASSUME file'.run # file.run
        PROVE  Advances(file.run, run)
    <3>1. file.run.state \notin FinalState
      BY <1>8, <2>2, <2>4, <2>5 DEF ResumeAmbiguous, FinalInv, FinalState
    <3>2. Pending(file.run) # 0 /\ Pending(run) < Pending(file.run)
      BY <2>2, <3>1 DEF Pending, FinalState
    <3>3. \A n \in Nodes : file.run.retries[n] \in Nat
      BY <2>1, GoalPlanAssumption DEF Run
    <3> QED
      BY <2>2, <3>2, <3>3 DEF Advances, Completed
  <2>6. \A d \in Commands : step'[d] = "none"
    BY <1>8 DEF ResumeAmbiguous, OneAtATime
  <2> QED
    BY <2>4, <2>5, <2>6 DEF AdvanceInv
<1>9. ASSUME NEW c \in Commands, ResumeNothingPending(c)
      PROVE  AdvanceInv' /\ Moves
  <2> DEFINE run == NextRequested(file.run)
  <2>1. /\ Kept(file.run) /\ file.run \in Run
        /\ file.run.execution = NoNode /\ file.run.verification = {}
        /\ MayRequest(file.run)
    BY <1>9, KeptIsRun DEF ResumeNothingPending, Inv
  <2>2. run \in Run
    BY <2>1, OperatorsKeep, KeptIsRun
  <2>3. /\ Completed(file.run) \subseteq Completed(run)
        /\ run.retries = file.run.retries
        /\ Pending(file.run) # 0
        /\ Pending(run) < Pending(file.run)
    BY <2>1, NextRequestedKeeps
  <2>4. Write(run, "none")
    BY <1>9 DEF ResumeNothingPending
  <2> HIDE DEF run
  <2>5. file'.run = run
    BY <1>1, <2>2, <2>4, WriteIsDocument
  <2>6. \A n \in Nodes : file.run.retries[n] \in Nat
    BY <2>1, GoalPlanAssumption DEF Run
  <2>7. Advances(file.run, run)
    BY <2>3, <2>6 DEF Advances
  <2>8. \A d \in Commands : step'[d] = "none"
    BY <1>9 DEF ResumeNothingPending, OneAtATime
  <2> QED
    BY <2>5, <2>7, <2>8 DEF AdvanceInv
<1>10. CASE UNCHANGED vars
  BY <1>10 DEF vars, AdvanceInv
<1> QED
  BY <1>3, <1>4, <1>5, <1>6, <1>7, <1>8, <1>9, <1>10 DEF Next, End

\* Where commands are run one at a time and plans stop or escalate, every write of a goal
\* is progress: its retries and its completed nodes are never lost, and it writes at most
\* as often as its budgets, nodes and gates allow, for every plan.
THEOREM GoalEveryStepAdvances ==
  OneAtATime /\ "fallback" \notin ExhaustionBehavior => (Spec => EveryStepAdvances)
<1> SUFFICES ASSUME OneAtATime, "fallback" \notin ExhaustionBehavior
             PROVE  Spec => EveryStepAdvances
  OBVIOUS
<1>1. Init => FinalInv /\ AdvanceInv
  BY GoalRuntimeAssumption DEF Init, FinalInv, AdvanceInv
<1>2. Inv /\ FinalInv /\ AdvanceInv /\ [Next]_vars => FinalInv' /\ AdvanceInv'
  BY FinalInvStep, AdvanceStep
<1>3. Spec => []FinalInv /\ []AdvanceInv
  BY <1>1, <1>2, GoalInvariance, PTL DEF Spec
<1>4. Inv /\ FinalInv /\ AdvanceInv /\ [Next]_vars =>
        [file # NoFile /\ starts' = starts /\ file'.run # file.run
           => Advances(file.run, file'.run)]_vars
  BY AdvanceStep
<1> QED
  BY <1>3, <1>4, GoalInvariance, PTL DEF Spec, EveryStepAdvances

===============================================================================
