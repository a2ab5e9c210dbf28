---------------------------- MODULE MCVringPacked ----------------------------
(* The packed virtqueue: buffers of one and two entries on three descriptors, *)
(* two of one entry on two, and one that fills the ring.                      *)
EXTENDS VringPacked, TLC

CONSTANTS b1, b2

MCBufs == {b1, b2}
MCMixedSg == b1 :> 1 @@ b2 :> 2

MCShortSg == b1 :> 1 @@ b2 :> 1
MCSymmetry == Permutations(MCBufs)

MCFullSg == b1 :> 1 @@ b2 :> 3
==============================================================================
