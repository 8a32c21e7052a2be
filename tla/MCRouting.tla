------------------------------ MODULE MCRouting ------------------------------
(* Routing on three carriers, one of which takes pickups from lockers.     *)
EXTENDS Routing

CONSTANTS bolt, glovo, lockers

(* Bolt as it declares itself, and two that are made up: one writes the    *)
(* sides in another order, one takes pickups from lockers.                 *)
SomeCapabilities ==
  [ c \in Carriers |->
      IF c = bolt THEN buildCapabilities
      ELSE [ roles |-> IF c = glovo THEN {"last_mile", "mid_mile"} ELSE {"last_mile"},
             maxWeight |-> 30,
             maxDims |-> IF c = glovo THEN << 20, 40, 60 >> ELSE << 40, 40, 40 >>,
             pickupModes |-> {"address", "locker"},
             locker |-> c = lockers ] ]

(* What dispatch asks, whose sides are zero, and the same with sides.      *)
SomeShipments ==
  { [buildShipmentRequest(weightKg, locationType) EXCEPT !.dims = dims] :
      weightKg \in {15, 30, 50}, locationType \in {"address", "locker"},
      dims \in { << 0, 0, 0 >>, << 20, 60, 40 >>, << 40, 40, 60 >>, << 40, 40, 40 >> } }

SomeEstimates == [ cost : {1, 2}, eta : {1, 3}, confidence : {0, 1} ]

SomeWeights == [ cost |-> 2, eta |-> 1, confidence |-> 1 ]

=============================================================================
