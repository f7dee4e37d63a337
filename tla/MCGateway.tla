----------------------------- MODULE MCGateway ------------------------------
(* A small instance of Gateway: one slot for every kind of route and one    *)
(* for the gated routes only, one licensable product.  A tick is the time   *)
(* of the shortest deadline; the long deadline is three.                    *)
EXTENDS Gateway

CONSTANTS r1, r2

MCKinds ==
  LET kinds == {k \in RouteKinds : k.product \in {None, "lms"}} IN
  [r \in Requests |-> IF r = r1 THEN kinds ELSE {k \in kinds : k.product = "lms"}]
=============================================================================
