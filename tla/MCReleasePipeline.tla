-------------------------- MODULE MCReleasePipeline --------------------------
(* Instances of ReleasePipeline for TLC. *)
EXTENDS ReleasePipeline

\* A release that label and Contract agree on, and one that only the Contract asks for.
MCChanges ==
  {[label |-> "patch", impact |-> "patch"], [label |-> "none", impact |-> "minor"]}
==============================================================================
