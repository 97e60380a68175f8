----------------------------- MODULE GoalRuntime -----------------------------
(***************************************************************************)
(* goal_runtime_adapter and the "goal ...-approved" commands of main: each *)
(* command is a process that loads the state document, may run an agent or *)
(* a gate behind an in-flight marker, and replaces the document            *)
(* atomically.  Nothing but the document survives a command.               *)
(*                                                                         *)
(* Bounds: MaxFaults crashes and raising gates, MaxStarts runs of          *)
(* start-approved.                                                         *)
(***************************************************************************)
EXTENDS GoalRun

CONSTANTS
  Commands,     \* processes that may run a command at the same time
  NoFile,       \* no state document; also: no run is loaded
  MaxFaults,
  MaxStarts

\* in_flight_side_effect; the identity of a marker decides nothing.
Marker == {"none", "execution", "verification"}

Document == [run : Run, marker : Marker]

ASSUME GoalRuntimeAssumption ==
  /\ NoFile \notin Document
  /\ NoFile \notin Run
  /\ MaxFaults \in Nat
  /\ MaxStarts \in Nat

VARIABLES
  file,      \* the state document, or NoFile
  step,      \* step[c]: the side effect command c is in
  loaded,    \* loaded[c]: the run command c loaded, NoFile outside a side effect
  faults,
  starts

vars == <<file, step, loaded, faults, starts>>

Init ==
  /\ file = NoFile
  /\ step = [c \in Commands |-> "none"]
  /\ loaded = [c \in Commands |-> NoFile]
  /\ faults = 0
  /\ starts = 0

Fault == faults < MaxFaults /\ faults' = faults + 1

Write(run, marker) == file' = [run |-> run, marker |-> marker]

\* start-approved: a run that is already there is overwritten.
Start ==
  /\ starts < MaxStarts
  /\ starts' = starts + 1
  /\ \E behavior \in ExhaustionBehavior : Write(NextRequested(Started(behavior)), "none")
  /\ UNCHANGED <<step, loaded, faults>>

-------------------------------------------------------------------------------
(* advance-approved: a pending execution first, then a pending verification, *)
(* else what resume-approved does.                                           *)

BeginSideEffect(c, effect) ==
  /\ step[c] = "none"
  /\ step' = [step EXCEPT ![c] = effect]
  /\ loaded' = [loaded EXCEPT ![c] = file.run]
  /\ Write(file.run, effect)
  /\ UNCHANGED <<faults, starts>>

EndSideEffect(c) ==
  /\ step' = [step EXCEPT ![c] = "none"]
  /\ loaded' = [loaded EXCEPT ![c] = NoFile]

\* submit_pending_execution, up to the agent.
BeginExecution(c) ==
  /\ file # NoFile
  /\ file.run.execution # NoNode
  /\ BeginSideEffect(c, "execution")

\* Faulty: the result is recorded whatever state the run is in.
EndExecutionUnchecked(c) ==
  /\ step[c] = "execution"
  /\ \E success \in BOOLEAN : Write(ExecutionRecorded(loaded[c], success), "none")
  /\ EndSideEffect(c)
  /\ UNCHANGED <<faults, starts>>

\* An agent that raises is a failed execution.  A result that cannot be recorded
\* raises, and the marker stays.
EndExecution(c) ==
  /\ step[c] = "execution"
  /\ IF MayRecordExecution(loaded[c])
     THEN \E success \in BOOLEAN : Write(ExecutionRecorded(loaded[c], success), "none")
     ELSE UNCHANGED file
  /\ EndSideEffect(c)
  /\ UNCHANGED <<faults, starts>>

\* process_pending_verification, up to the gate.
BeginVerification(c) ==
  /\ file # NoFile
  /\ file.run.execution = NoNode
  /\ file.run.verification # {}
  /\ BeginSideEffect(c, "verification")

\* A node that passed its last gate makes room for the next one at once.
AfterVerification(run, outcome) ==
  LET recorded == VerificationRecorded(run, outcome)
  IN IF /\ recorded.state = "EXECUTING"
        /\ recorded.execution = NoNode
        /\ recorded.verification = {}
     THEN NextRequested(recorded) ELSE recorded

EndVerification(c) ==
  /\ step[c] = "verification"
  /\ IF MayRecordVerification(loaded[c])
     THEN \E outcome \in {"PASS", "RETRY", "FAIL", "ESCALATE"} :
            Write(AfterVerification(loaded[c], outcome), "none")
     ELSE UNCHANGED file
  /\ EndSideEffect(c)
  /\ UNCHANGED <<faults, starts>>

\* The gate raised, no open pull request for instance.
VerificationRaises(c) ==
  /\ step[c] = "verification"
  /\ Fault
  /\ EndSideEffect(c)
  /\ UNCHANGED <<file, starts>>

Crash(c) ==
  /\ step[c] # "none"
  /\ Fault
  /\ EndSideEffect(c)
  /\ UNCHANGED <<file, starts>>

\* resume_goal_runtime.  A marker that is still there is ambiguous: the side
\* effect may have happened.
ResumeAmbiguous(c) ==
  /\ step[c] = "none"
  /\ file # NoFile
  /\ file.marker # "none"
  /\ Write([file.run EXCEPT !.state = "ESCALATED"], file.marker)
  /\ UNCHANGED <<step, loaded, faults, starts>>

ResumeNothingPending(c) ==
  /\ step[c] = "none"
  /\ file # NoFile
  /\ file.marker = "none"
  /\ file.run.state \notin FinalState
  /\ file.run.execution = NoNode
  /\ file.run.verification = {}
  /\ MayRequest(file.run)
  /\ Write(NextRequested(file.run), "none")
  /\ UNCHANGED <<step, loaded, faults, starts>>

-------------------------------------------------------------------------------
Begin(c) == BeginExecution(c) \/ BeginVerification(c)

End(c) == EndExecution(c) \/ EndVerification(c)

Next ==
  \/ Start
  \/ \E c \in Commands :
       \/ Begin(c) \/ End(c) \/ VerificationRaises(c) \/ Crash(c)
       \/ ResumeAmbiguous(c) \/ ResumeNothingPending(c)

Spec == Init /\ [][Next]_vars

\* advance-approved is run again and again, and its side effects are bounded by
\* time-outs.  Nothing obliges anybody to run resume-approved.
FairSpec ==
  /\ Spec
  /\ \A c \in Commands :
       WF_vars(Begin(c)) /\ WF_vars(End(c)) /\ WF_vars(ResumeNothingPending(c))

-------------------------------------------------------------------------------
(* Properties. *)

\* Every variable has its type.
TypeOK ==
  /\ file \in Document \cup {NoFile}
  /\ step \in [Commands -> Marker]
  /\ loaded \in [Commands -> Run \cup {NoFile}]
  /\ faults \in 0..MaxFaults
  /\ starts \in 0..MaxStarts

\* The runs in play: the one on disk and the ones commands work on.
Runs ==
  {loaded[c] : c \in {d \in Commands : loaded[d] # NoFile}}
    \cup IF file = NoFile THEN {} ELSE {file.run}

\* Task 118: a node is not taken up before everything it depends on is completed, on disk
\* and in every run a command still works on.
DependenciesFirst ==
  \A run \in Runs : \A n \in Nodes :
    run.graph[n] # "ready" => Dependencies[n] \subseteq Completed(run)

\* At most one node is in hand at a time, and it is the one a request is pending for:
\* no node is left running or verifying with nobody to finish it.
OneNodeInHand ==
  \A run \in Runs :
    LET inHand == {n \in Nodes : run.graph[n] \in {"running", "verifying"}}
    IN /\ inHand = {r.node : r \in run.verification} \cup ({run.execution} \ {NoNode})
       /\ \A m, n \in inHand : m = n

\* "All required task nodes passed verification": a completed node passed, since it
\* was last executed, every required gate that applies to it.
CompletedIsVerified ==
  \A run \in Runs : \A n \in Completed(run) :
    \A g \in RequiredGates : n \in AppliesTo[g] => g \in run.passed[n]

\* A finished goal stays finished, whatever crashes and is run again, until it is
\* started anew.  It follows from EveryStepAdvances, and holds for every plan.
FinalIsFinal ==
  [][file # NoFile /\ file.run.state \in FinalState /\ starts' = starts
       => file'.run.state = file.run.state]_vars

\* What a goal still has in hand: 0 once it is final, 3 when the next node is to be chosen.
Pending(run) ==
  IF run.state \in FinalState THEN 0
  ELSE IF run.execution # NoNode THEN 2
  ELSE IF run.verification # {} THEN 1 ELSE 3

\* Lexicographically: retries used, nodes completed, what is in hand, gates to pass.
Advances(old, new) ==
  /\ Pending(old) # 0
  /\ Completed(old) \subseteq Completed(new)
  /\ \A n \in Nodes : old.retries[n] <= new.retries[n]
  /\ \/ new.retries # old.retries
     \/ Completed(new) # Completed(old)
     \/ Pending(new) < Pending(old)
     \/ /\ Pending(new) = Pending(old)
        /\ new.verification \subseteq old.verification
        /\ new.verification # old.verification

\* Whatever crashes, is resumed, or is started anew while a side effect is under way, a
\* goal only moves towards its end: a finished one is not taken up again, what was
\* completed is not lost, a retry that was used is not given back, and a step that buys
\* neither is one of finitely many.
EveryStepAdvances ==
  [][file # NoFile /\ starts' = starts /\ file'.run # file.run
       => Advances(file.run, file'.run)]_vars

\* The budgets bound a goal: it does not run for ever.
GoalEnds == file # NoFile ~> file # NoFile /\ file.run.state \in FinalState

\* Task 141: no side effect starts while the marker of another one, which may have
\* happened, is on disk.
NoAmbiguousReplay ==
  [][\A c \in Commands : step[c] = "none" /\ step'[c] # "none" => file.marker = "none"]_vars
==============================================================================
