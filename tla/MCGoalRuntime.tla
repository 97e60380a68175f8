----------------------------- MODULE MCGoalRuntime -----------------------------
(* Instances of GoalRuntime for TLC: a task, one that needs the other two, and  *)
(* an optional one that no gate verifies, listed after the task that needs it.   *)
EXTENDS GoalRuntime

CONSTANT c1

MCDependencies == [n \in Nodes |-> IF n = 2 THEN {1, 3} ELSE {}]

MCGateKind == [g \in Gates |-> IF g = 2 THEN "architecture" ELSE "technical"]

MCAppliesTo == [g \in Gates |-> {1, 2}]
==============================================================================
