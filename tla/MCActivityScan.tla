--------------------------- MODULE MCActivityScan ---------------------------
(* Visitors of one account, none told from another. *)
EXTENDS ActivityScan, TLC

AlikeVisitors == Permutations(Visitors)
=============================================================================
