-------------------------- MODULE MCDeliveryFlow --------------------------
(* DeliveryFlow on small instances.                                        *)
EXTENDS DeliveryFlow, TLC

CONSTANTS h1, h2, d1, d2, bolt, glovo

(* A checkpoint from the rider's phone with photo and location. *)
Checkpoint(t) == [type |-> t, actor |-> "rider", photo |-> TRUE, gps |-> TRUE]

(* Requests also type the events of webhooks, which come from no phone.    *)
FromCarriers == { WebhookRequest[k] : k \in DOMAIN WebhookRequest }

(* The shortest way to each outcome takes an arrival at the locker, a      *)
(* pickup, an arrival at the door and a delivery.                          *)
JourneyRequests ==
  FromCarriers \cup { Checkpoint(t) : t \in { "rider.arrived_at_locker",
    "package.picked_up", "rider.arrived_at_destination" } }

(* Besides: a pickup and an arrival that came without their evidence.      *)
RacingRequests ==
  JourneyRequests
    \cup { [Checkpoint("package.picked_up") EXCEPT !.photo = FALSE],
           [Checkpoint("rider.arrived_at_destination") EXCEPT !.gps = FALSE] }

Symmetry == Permutations({h1, h2})

=============================================================================
