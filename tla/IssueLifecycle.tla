---------------------------- MODULE IssueLifecycle ----------------------------
(***************************************************************************)
(* What the polling daemon promises about one Issue's state, without       *)
(* snapshots, cycles, jobs or threads.  The daemon is either in a cycle or *)
(* at rest.  In a cycle it alone moves Issues, only along the transition   *)
(* table, and never out of a state that waits for a person; at rest only   *)
(* people move them, and never to "working".                               *)
(***************************************************************************)
EXTENDS IssueLabels

CONSTANT Issues

VARIABLES
  state,      \* state[i]: the state the labels of Issue i stand for
  inCycle     \* the daemon is in its start-up sweep or in a polling cycle

vars == <<state, inCycle>>

WaitsForPerson == {"manual-action", "blocked", "done"}

Init ==
  /\ state \in [Issues -> TaskState \cup {NoState}]
  /\ inCycle = FALSE

Begin == ~inCycle /\ inCycle' = TRUE /\ UNCHANGED state

End == inCycle /\ inCycle' = FALSE /\ UNCHANGED state

\* A write that DevBot makes while it works.
DaemonMove(i) ==
  /\ inCycle
  /\ state[i] \notin WaitsForPerson
  /\ \E to \in TaskState :
       /\ <<state[i], to>> \in AllowedTransitions
       /\ state' = [state EXCEPT ![i] = to]
  /\ UNCHANGED inCycle

HumanMove(i) ==
  /\ ~inCycle
  /\ \E to \in (TaskState \cup {NoState}) \ {"working"} :
       state' = [state EXCEPT ![i] = to]
  /\ UNCHANGED inCycle

Next ==
  \/ Begin
  \/ End
  \/ \E i \in Issues : DaemonMove(i) \/ HumanMove(i)

Spec == Init /\ [][Next]_vars
==============================================================================
