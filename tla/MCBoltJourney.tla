--------------------------- MODULE MCBoltJourney ---------------------------
(* BoltJourney on small instances.                                         *)
EXTENDS BoltJourney

CONSTANTS h1, d1

(* What the webhooks lead to, and what the rider's phone reports on the    *)
(* way to the door, with photo and location.                               *)
JourneyRequests ==
  { WebhookRequest[k] : k \in DOMAIN WebhookRequest } \cup
  { [type |-> t, actor |-> "rider", photo |-> TRUE, gps |-> TRUE] :
      t \in { "rider.arrived_at_locker", "package.picked_up",
              "rider.arrived_at_destination" } }

=============================================================================
