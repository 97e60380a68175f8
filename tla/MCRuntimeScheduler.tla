-------------------------- MODULE MCRuntimeScheduler --------------------------
(* Instances of RuntimeScheduler for TLC. *)
EXTENDS RuntimeScheduler

CONSTANTS r1, r2, r3

RepoOf == <<r1, r2, r3>>

\* Repositories are numbered in the order in which a list names them, so that one of
\* the lists that differ only in the names of repositories stands for all.
NumberedInOrder(list) ==
  \A k \in DOMAIN list : \A n \in 1..(list[k] - 1) : \E i \in 1..(k - 1) : list[i] = n

MCJobLists ==
  {[k \in DOMAIN list |-> RepoOf[list[k]]] :
     list \in {l \in UNION {[1..n -> 1..3] : n \in 1..MaxJobs} : NumberedInOrder(l)}}
==============================================================================
