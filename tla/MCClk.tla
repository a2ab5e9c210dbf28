------------------------------- MODULE MCClk --------------------------------
(* Instances of Clk: two sources, a mux between them and a critical clock    *)
(* below it.                                                                *)
EXTENDS Clk

CONSTANTS ca, cb, cm, cx, kb, km

MCParents == [c \in {ca, cb, cm, cx} |-> CASE c = cm -> {ca, cb} [] c = cx -> {cm} [] OTHER -> {}]

MCCoreOf == [k \in {kb, km} |-> IF k = kb THEN cb ELSE cm]

With(fm, fb) == [c \in {ca, cb, cm, cx} |-> CASE c = cx -> {"critical"} [] c = cm -> fm
                                         [] c = cb -> fb [] OTHER -> {}]

MCFlags == {With({}, {"rate_gate"}), With({"ops_parent"}, {}),
            With({"parent_gate", "ignore_unused"}, {})}

MCMaxExclusive == [k \in {kb, km} |-> IF k = km THEN 2 ELSE 1]

=============================================================================
