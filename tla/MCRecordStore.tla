---------------------------- MODULE MCRecordStore ----------------------------
(***************************************************************************)
(* An instance of RecordStore: two patches and a bundle submission race    *)
(* over one record, which two transactions may carry.                      *)
(***************************************************************************)
EXTENDS RecordStore, TLC

Symmetry == Permutations(Patchers) \cup Permutations(Ops) \cup Permutations(Tx)
==============================================================================
