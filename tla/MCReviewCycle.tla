---------------------------- MODULE MCReviewCycle ----------------------------
(* Instances of ReviewCycle for TLC. *)
EXTENDS ReviewCycle
==============================================================================
