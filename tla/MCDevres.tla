------------------------------ MODULE MCDevres ------------------------------
(* Devres with three resources, of which one match function selects two,   *)
(* two groups and two threads.                                             *)
EXTENDS Devres, TLC

CONSTANTS r1, r2, r3, g1, g2

MCMatches == {{r1, r2}, {r3}}

DevresSymmetry ==
  Permutations({r1, r2}) \cup Permutations(Groups) \cup Permutations(Threads)

=============================================================================
