---------------------------- MODULE MCComponent -----------------------------
(* Component with four components and two aggregates that compete for one *)
(* of them.  Two components share a device, and one is on the parent       *)
(* device of an aggregate.                                                 *)
EXTENDS Component, TLC

CONSTANTS ca, cb, cc, ce, m1, m2, dab, de, p1, p2

MCDev == ca :> dab @@ cb :> dab @@ cc :> p2 @@ ce :> de
MCParent == m1 :> p1 @@ m2 :> p2
MCSharedParent == m1 :> p1 @@ m2 :> p1
MCMatch == m1 :> <<{ca}, {cb}>> @@ m2 :> <<{cb, cc}, {cc, ce}, {cc}>>

=============================================================================
