------------------------------- MODULE MCLane -------------------------------
(* Instances of LaneExecution for TLC. *)
EXTENDS LaneExecution, TLC

CONSTANTS a, b, c, w1, w2, r1

Symmetry == Permutations(Ops \ (Early \cup Invalid)) \cup Permutations(Workers)
==============================================================================
