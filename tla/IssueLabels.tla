----------------------------- MODULE IssueLabels -----------------------------
(***************************************************************************)
(* The labels DevBot keeps its state in.  An Issue carries a set of        *)
(* devbot:* labels; its state is derived from that set, so a set with      *)
(* several state labels (a manual edit) still has one state.               *)
(*                                                                         *)
(* Sources: models.TaskState, state_labels, and the transition table of    *)
(* issue_state.                                                            *)
(***************************************************************************)
EXTENDS Naturals

TaskState ==
  {"ready", "working", "review", "rework", "manual-action", "blocked", "done"}

\* task_state_from_labels returns None.
NoState == "none"

\* The one label outside TaskState that the writer treats specially.
ValidationPaused == "validation-paused"

Labels == TaskState \cup {ValidationPaused}

LabelPrecedence ==
  <<"done", "blocked", "working", "manual-action", "rework", "review", "ready">>

CurrentState(ls) ==
  IF ls \cap TaskState = {} THEN NoState
  ELSE LabelPrecedence[CHOOSE k \in 1..7 :
         /\ LabelPrecedence[k] \in ls
         /\ \A j \in 1..(k - 1) : LabelPrecedence[j] \notin ls]

\* _ALLOWED_TRANSITIONS as a set of <<from, to>> pairs.
AllowedTransitions ==
       {"ready", "review", "rework"} \X {"working"}
  \cup {"working"} \X {"review", "rework", "manual-action", "ready", "blocked"}
  \cup {"review"} \X {"rework", "done"}
  \cup {"manual-action"} \X {"review", "rework", "ready"}
  \cup {"blocked"} \X {"ready"}

\* Faulty: a merged Issue gets a label that names no state.
RelabelledMerged(ls, to, extra) ==
  (ls \ TaskState) \cup extra \cup IF to = "done" THEN {"merged"} ELSE {to}

\* The label set a transition writes: every state label is stripped, a claim
\* also drops the pause label, and the target is the one state label left.
Relabelled(ls, to, extra) ==
  (ls \ (TaskState \cup IF to = "working" THEN {ValidationPaused} ELSE {}))
    \cup extra \cup {to}
==============================================================================
