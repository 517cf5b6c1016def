-------------------------- MODULE MCDescriptorSets --------------------------
(***************************************************************************)
(* The signatures of the runs of DescriptorSets.  Nested has one that is   *)
(* the beginning of another, so that a call may claim from the bank of     *)
(* another signature.                                                      *)
(***************************************************************************)
EXTENDS DescriptorSets, TLC

CONSTANTS l1, l2

Nested == {<<l1>>, <<l1, l2>>}

Symmetry == Permutations(Pools) \cup Permutations(Contents)
=============================================================================
