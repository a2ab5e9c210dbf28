------------------------------ MODULE MCMailbox ------------------------------
(* Instances of Mailbox for TLC.                                           *)
EXTENDS Mailbox, TLC

CONSTANTS c1, c2, t1, t2, m1, m2, m3, m4

OneClient == [t \in {t1, t2} |-> c1]
TwoClients == [t \in {t1, t2} |-> IF t = t1 THEN c1 ELSE c2]

(* The framework only passes messages on, it never looks into them.        *)
MessageSymmetry == Permutations(Msgs)
=============================================================================
