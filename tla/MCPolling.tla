------------------------------ MODULE MCPolling ------------------------------
(* Instances of Polling for TLC: two Issues in one repository and one in another, or *)
(* each in its own. *)
EXTENDS Polling

CONSTANTS a, b, c, r1, r2, r3

MCRepoOf == [i \in Issues |-> IF i = c THEN r2 ELSE r1]

MCOwnRepo == [i \in Issues |-> CASE i = a -> r1 [] i = b -> r2 [] OTHER -> r3]

MCPriority == [i \in Issues |-> CASE i = a -> 1 [] i = c -> 2 [] OTHER -> 3]

\* A crash remnant, a remnant that somebody also marked blocked, fresh work,
\* paused work, work under review, and an Issue DevBot ignores.
MCInitialLabels ==
  {{"working"}, {"working", "blocked"}, {"ready"}, {"ready", ValidationPaused},
   {"review"}, {}}

\* Work that is due, for the runs in which people edit at any time.
MCDueLabels == {{"ready"}, {"review"}}

MCHumanLabels == {{"ready"}, {"rework"}, {"blocked", "ready"}}
==============================================================================
