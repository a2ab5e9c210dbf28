------------------------------- MODULE MCKlist -------------------------------
(* Instances of Klist for TLC.                                             *)
EXTENDS Klist, TLC

CONSTANTS n1, n2, n3, i1, i2

(* Nodes and iterators are only compared.                                  *)
KlistSymmetry == Permutations(Nodes) \cup Permutations(Iters)
=============================================================================
