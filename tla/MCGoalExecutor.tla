--------------------------- MODULE MCGoalExecutor ---------------------------
(* Instances of GoalExecutor for TLC. *)
EXTENDS GoalExecutor
==============================================================================
