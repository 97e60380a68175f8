----------------------------- MODULE AgentOutcome -----------------------------
(***************************************************************************)
(* The outcome DevBot reads from one agent run (agent_outcome), and the    *)
(* Issue state it leads to.  An output is abstracted to the blocking text  *)
(* patterns it matches.                                                    *)
(***************************************************************************)
EXTENDS Naturals

\* The predicates of agents.base in the order they are tried; each is named by
\* the outcome it gives.
TextPattern ==
  <<"approval-required", "session-limit", "network-blocked", "repository-locked",
    "implementation-skipped">>

NoHint == "none"

\* The hints a runner sets, a time-out and a policy the CLI does not support.
Hint == {"resumable-interruption", "agent-configuration-invalid"}

\* failed: a nonzero exit.  A blank output matches no pattern.
AgentRunResult ==
  {r \in [hint : Hint \cup {NoHint}, patterns : SUBSET (1..5),
          failed : BOOLEAN, blank : BOOLEAN] : r.blank => r.patterns = {}}

\* A structured hint beats the text, and a matched pattern beats the exit code.
Classify(r) ==
  CASE r.hint # NoHint -> r.hint
    [] r.hint = NoHint /\ r.patterns # {} ->
         TextPattern[CHOOSE k \in r.patterns : \A j \in r.patterns : k <= j]
    [] r.hint = NoHint /\ r.patterns = {} /\ r.failed -> "agent-failed"
    [] r.hint = NoHint /\ r.patterns = {} /\ ~r.failed /\ r.blank -> "unknown"
    [] OTHER -> "implementation-completed"

AgentOutcomes == {Classify(r) : r \in AgentRunResult}

\* AGENT_OUTCOME_TRANSITIONS: where the Issue goes.  "delivery" and "resume"
\* stand for the two rows whose state is decided later.
TransitionFor(outcome) ==
  CASE outcome \in {"approval-required", "agent-configuration-invalid", "network-blocked",
                    "repository-locked", "implementation-skipped"} -> "manual-action"
    [] outcome \in {"session-limit", "agent-failed", "unknown"} -> "blocked"
    [] outcome = "resumable-interruption" -> "resume"
    [] outcome = "implementation-completed" -> "delivery"
===============================================================================
