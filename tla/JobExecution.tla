----------------------------- MODULE JobExecution -----------------------------
(***************************************************************************)
(* What the runtime scheduler promises the polling cycle about one call of *)
(* execute: every job of the call runs exactly once, never beside another  *)
(* job of its repository, at most AiConcurrency at a time, and the call    *)
(* returns when all of them have an outcome.  Threads, locks and worker    *)
(* slots do not appear.                                                    *)
(***************************************************************************)
EXTENDS Naturals, FiniteSets

CONSTANTS Jobs, Repos, NoRepo, AiConcurrency

VARIABLES
  repository,   \* repository[j]: of job j of the call, NoRepo if j is not in it
  phase         \* phase[j]: "none", "waiting", "running" or "finished"

vars == <<repository, phase>>

Running == {j \in Jobs : phase[j] = "running"}

Closed ==
  /\ repository = [j \in Jobs |-> NoRepo]
  /\ phase = [j \in Jobs |-> "none"]

Init == Closed

Open ==
  /\ Closed
  /\ \E called \in [Jobs -> Repos \cup {NoRepo}] :
       /\ repository' = called
       /\ phase' = [j \in Jobs |-> IF called[j] = NoRepo THEN "none" ELSE "waiting"]

Run(j) ==
  /\ phase[j] = "waiting"
  /\ \A k \in Running : repository[k] # repository[j]
  /\ Cardinality(Running) < AiConcurrency
  /\ phase' = [phase EXCEPT ![j] = "running"]
  /\ UNCHANGED repository

Finish(j) ==
  /\ phase[j] = "running"
  /\ phase' = [phase EXCEPT ![j] = "finished"]
  /\ UNCHANGED repository

Close ==
  /\ \A j \in Jobs : phase[j] \in {"none", "finished"}
  /\ Closed'

Next == Open \/ Close \/ \E j \in Jobs : Run(j) \/ Finish(j)

Spec == Init /\ [][Next]_vars
==============================================================================
