----------------------------- MODULE MCTreasury -----------------------------
(* Instances of Treasury for TLC. *)
EXTENDS Treasury, TLC

CONSTANTS l1, l2, d1, d2

Symmetry == Permutations(Lanes) \cup Permutations(Deployers)
==============================================================================
