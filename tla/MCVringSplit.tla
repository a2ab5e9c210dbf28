---------------------------- MODULE MCVringSplit -----------------------------
(* The split virtqueue on two descriptors and indexes that wrap after four:  *)
(* two buffers of one entry and one of two, or the two short ones only.      *)
EXTENDS VringSplitRefinement, TLC

CONSTANTS b1, b2, b3

MCShort == {b1, b2}
MCBufs == {b1, b2, b3}
MCTotalSg == b1 :> 1 @@ b2 :> 1 @@ b3 :> 2
MCSymmetry == Permutations(MCShort)
==============================================================================
