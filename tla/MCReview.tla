------------------------------ MODULE MCReview ------------------------------
(* Instances of ReviewWeek for TLC. *)
EXTENDS ReviewWeek, TLC

Symmetric == Permutations(Slot) \cup Permutations(Entry)
=============================================================================
