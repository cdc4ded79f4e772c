----------------------------- MODULE MCDelivery -----------------------------
(***************************************************************************)
(* Delivery for TLC.                                                       *)
(***************************************************************************)
EXTENDS Delivery

Symmetry == Permutations(Aggs) \cup Permutations(Subs) \cup Permutations(Resumers)
=============================================================================
