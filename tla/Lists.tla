------------------------------- MODULE Lists --------------------------------
(* Doubly linked lists (linux/list.h) as sequences.                        *)
EXTENDS Naturals, Sequences, FiniteSets

(* The subsequence of s at the indices J.                                  *)
Pick(s, J) ==
  [k \in 1 .. Cardinality(J) |->
     s[CHOOSE j \in J : Cardinality({i \in J : i <= j}) = k]]

(* The list without the nodes at the indices J: list_del() or list_move()  *)
(* of each of them.                                                        *)
Without(s, J) == Pick(s, (1 .. Len(s)) \ J)

=============================================================================
