--------------------------- MODULE DeliveryStates ---------------------------
(***************************************************************************)
(* The vocabulary shared by the other modules: the per-leg state machine   *)
(* of internal/core/delivery, the custody event types of                   *)
(* internal/core/custody with their evidence policy, and the mapping from  *)
(* events to transitions made by internal/app/custodyapp.                  *)
(*                                                                         *)
(* Everything here is a constant operator; nothing is recursive.           *)
(***************************************************************************)

State == { "pending", "assigned", "en_route_pickup", "picked_up",
           "in_transit", "en_route_drop", "delivered", "failed",
           "cancelled", "returned_to_origin" }

(* The state graph: s may be followed by t iff t \in allowedTransitions[s]. *)
allowedTransitions ==
  [ pending            |-> { "assigned", "cancelled" },
    assigned           |-> { "en_route_pickup", "cancelled", "failed" },
    en_route_pickup    |-> { "picked_up", "failed", "cancelled" },
    picked_up          |-> { "in_transit", "en_route_drop", "failed",
                             "returned_to_origin" },
    in_transit         |-> { "en_route_drop", "failed",
                             "returned_to_origin", "delivered" },
    en_route_drop      |-> { "delivered", "failed", "returned_to_origin" },
    failed             |-> { "returned_to_origin", "assigned" },
    delivered          |-> {},
    cancelled          |-> {},
    returned_to_origin |-> {} ]

CanTransition(s, t) == t \in allowedTransitions[s]

(* States in which the rider holds, or has handed over, the package. *)
HoldsPackage == { "picked_up", "in_transit", "en_route_drop", "delivered" }

(* Delivery.Cancel refuses these states before it consults the graph. *)
CanCancel(s) == s \notin HoldsPackage /\ CanTransition(s, "cancelled")

-----------------------------------------------------------------------------
(* Custody events.  Event.Validate only asks that the type is not empty,   *)
(* so "unlisted" stands for every other string a caller may send.          *)

EventType == { "package.dropped_at_locker", "pickup.requested_by_customer",
               "rider.assigned", "rider.arrived_at_locker",
               "package.picked_up", "rider.in_transit",
               "rider.arrived_at_destination", "package.delivered",
               "delivery.failed", "package.returned_to_locker", "unlisted" }

RequiresPhoto == { "rider.arrived_at_locker", "package.picked_up",
                   "package.delivered", "delivery.failed",
                   "package.returned_to_locker" }

RequiresGPS == RequiresPhoto \cup { "rider.in_transit",
                                    "rider.arrived_at_destination" }

(* Where the report comes from: the rider's phone, or a carrier webhook    *)
(* (a webhook fills in the event's actor.carrier_id).                      *)
Actor == { "rider", "carrier" }

(* What a caller of Ledger.Record supplies: photo and gps say whether the  *)
(* event comes with at least one photo and with a location.                *)
Request == [ type : EventType, actor : Actor, photo : BOOLEAN, gps : BOOLEAN ]

Validate(q) == /\ q.type \in RequiresPhoto => q.photo
               /\ q.type \in RequiresGPS => q.gps

(* applyDeliveryTransition: the state an event moves its delivery to. The  *)
(* types outside its domain leave the state alone.                         *)
EventTarget ==
  [ t \in { "rider.assigned", "rider.arrived_at_locker", "package.picked_up",
            "rider.in_transit", "rider.arrived_at_destination",
            "package.delivered", "delivery.failed" } |->
      CASE t = "rider.assigned"               -> "assigned"
        [] t = "rider.arrived_at_locker"      -> "en_route_pickup"
        [] t = "package.picked_up"            -> "picked_up"
        [] t = "rider.in_transit"             -> "in_transit"
        [] t = "rider.arrived_at_destination" -> "en_route_drop"
        [] t = "package.delivered"            -> "delivered"
        [] t = "delivery.failed"              -> "failed" ]

(* What a state claims.  These are the events on record for a delivery     *)
(* that is honestly in the state: the one whose report leads to it and     *)
(* those of the states it must have come through.  Dispatch and carriers   *)
(* enter "assigned" and "cancelled" without an event, and no event leads   *)
(* to "returned_to_origin".                                                *)
AtLocker == { "rider.arrived_at_locker", "package.picked_up" }

NeededFor ==
  [ s \in State |->
      CASE s \in { "pending", "assigned", "cancelled" } -> {}
        [] s = "en_route_pickup"    -> { "rider.arrived_at_locker" }
        [] s = "picked_up"          -> AtLocker
        [] s = "in_transit"         -> AtLocker \cup { "rider.in_transit" }
        [] s = "en_route_drop"      -> AtLocker \cup { "rider.arrived_at_destination" }
        [] s = "delivered"          -> AtLocker \cup { "package.delivered" }
        [] s = "failed"             -> { "delivery.failed" }
        [] s = "returned_to_origin" -> EventType ]

=============================================================================
