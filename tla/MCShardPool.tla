---------------------------- MODULE MCShardPool ----------------------------
(***************************************************************************)
(* ShardPool for TLC: the commands in Hot go to one aggregate, the others  *)
(* to a second one.                                                        *)
(***************************************************************************)
EXTENDS ShardPool, TLC

CONSTANTS Hot, HotAgg, ColdAgg

MCAggregateID == [c \in Commands |-> IF c \in Hot THEN HotAgg ELSE ColdAgg]

Symmetry == Permutations(Hot) \cup Permutations(Workers)
=============================================================================
