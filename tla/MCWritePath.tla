---------------------------- MODULE MCWritePath ----------------------------
(***************************************************************************)
(* WritePath for TLC.                                                      *)
(***************************************************************************)
EXTENDS WritePath, TLC

Symmetry == Permutations(Callers) \cup Permutations(CommandIDs)
=============================================================================
