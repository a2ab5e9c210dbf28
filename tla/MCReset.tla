------------------------------ MODULE MCReset -------------------------------
(* Instances of Reset for model checking.                                  *)
EXTENDS Reset, TLC

CONSTANTS a, b, c1, c2

(* A bulk consumer and an array consumer of the same lines in opposite      *)
(* orders; the bulk one also has an optional line that is not described.    *)
TwoLines == (c1 :> <<b, a, NULL>>) @@ (c2 :> <<a, b>>)
BulkAndArray == (c1 :> "bulk") @@ (c2 :> "array")

(* The driver fails where the interface lets a consumer keep its balance:   *)
(* in the middle of a bulk deassertion, and at the start of a pulse.        *)
SomeFaults == {<<c1, "deassert", b>>, <<c1, "reset", b>>, <<c2, "reset", a>>}

Alone == (c1 :> <<a>>)
Single == (c1 :> "single")
DeassertFault == {<<c1, "deassert", a>>}
=============================================================================
