----------------------------- MODULE BoltJourney -----------------------------
(***************************************************************************)
(* Deliveries on their way with Bolt: DeliveryFlow composed with the other *)
(* end of the webhooks.  Bolt's orders move on, each move is posted as a   *)
(* webhook until it is answered with success or its attempts are used up,  *)
(* and the listener answers with success whatever has become of the event. *)
(*                                                                         *)
(* What Bolt does is external and modelled from how the adapter and its    *)
(* capabilities describe it; the requests it is sent are ones the mapper   *)
(* accepts (see the README for those that dispatch builds).                *)
(***************************************************************************)
EXTENDS DeliveryFlow

CONSTANTS Bolt,       \* the one carrier that is registered
          MaxTries,   \* attempts Bolt makes to post one webhook
          MaxReports, \* bound: the phone reports while fewer event ids are issued
          MaxFaults   \* bound: calls that fail, answers lost, processes dying

(* What Bolt tells of an order; "assigned" stands for order.assigned etc.  *)
BoltEvent == { "assigned", "arrived_at_pickup", "picked_up", "in_transit",
               "arrived_at_drop", "delivered", "failed", "cancelled" }

ASSUME BoltAssumption == Carriers = {Bolt}
ASSUME MaxTriesAssumption == MaxTries \in Nat \ {0}
ASSUME NoHookAssumption == NoJob \notin BoltEvent

VARIABLES happened,  \* happened[d]: what Bolt's order for d has come to
          tries,     \* tries[d][e]: attempts left to post e about d
          hook,      \* hook[h]: the webhook h handles, NoJob for other requests
          handled,   \* handled[d]: events that were handled without a failed call
          answer,    \* answer[d][e]: what was behind the answer Bolt got about e
          faults     \* faults so far

postVars == << happened, tries, hook, handled, answer, faults >>
journeyVars == << vars, postVars >>

JourneyTypeOK ==
  /\ FlowTypeOK
  /\ happened \in [Deliveries -> SUBSET BoltEvent]
  /\ tries \in [Deliveries -> [BoltEvent -> 0..MaxTries]]
  /\ hook \in [Handlers -> BoltEvent \cup {NoJob}]
  /\ handled \in [Deliveries -> SUBSET BoltEvent]
  /\ answer \in [Deliveries -> [BoltEvent -> { "none", "ignored", "handled", "error" }]]
  /\ faults \in Nat

JourneyInit ==
  /\ FlowInit
  /\ happened = [d \in Deliveries |-> {}]
  /\ tries = [d \in Deliveries |-> [e \in BoltEvent |-> 0]]
  /\ hook = [h \in Handlers |-> NoJob]
  /\ handled = [d \in Deliveries |-> {}]
  /\ answer = [d \in Deliveries |-> [e \in BoltEvent |-> "none"]]
  /\ faults = 0

Fault == faults < MaxFaults /\ faults' = faults + 1

-----------------------------------------------------------------------------
(* The mapper between Bolt's words and the domain's.                       *)

\* Mutant: arriving at the door is taken for the delivery.
ToDomainEvents_ArrivedIsDelivered(e) ==
  CASE e = "assigned"          -> { "RiderAssigned", "RiderAssignedNoID" }
    [] e = "arrived_at_pickup" -> { "RiderArrivedAtPickup" }
    [] e = "picked_up"         -> { "PackagePickedUp" }
    [] e = "in_transit"        -> { "RiderInTransit" }
    [] e = "failed"            -> { "DeliveryFailed" }
    [] e = "cancelled"         -> { "ShipmentCancelled" }
    [] OTHER                   -> { "PackageDelivered" }

(* The domain event of a webhook; a payload may come without its rider.    *)
ToDomainEvents(e) ==
  CASE e = "assigned"          -> { "RiderAssigned", "RiderAssignedNoID" }
    [] e = "arrived_at_pickup" -> { "RiderArrivedAtPickup" }
    [] e = "picked_up"         -> { "PackagePickedUp" }
    [] e = "in_transit"        -> { "RiderInTransit" }
    [] e = "arrived_at_drop"   -> { "RiderArrivedAtDestination" }
    [] e = "delivered"         -> { "PackageDelivered" }
    [] e = "failed"            -> { "DeliveryFailed" }
    [] e = "cancelled"         -> { "ShipmentCancelled" }

(* What GetShipmentStatus would answer after e: fromBoltStatus of the      *)
(* status e leaves the order in.                                           *)
Polled(e) ==
  CASE e = "assigned"          -> "assigned"
    [] e = "arrived_at_pickup" -> "en_route_pickup"
    [] e = "picked_up"         -> "picked_up"
    [] e = "in_transit"        -> "in_transit"
    [] e = "arrived_at_drop"   -> "en_route_drop"
    [] e = "delivered"         -> "delivered"
    [] e = "failed"            -> "failed"
    [] e = "cancelled"         -> "cancelled"

IsPlaced(d) == << Bolt, d >> \in shipments

(* The states an order has been in: those Bolt would have answered when    *)
(* polled, after it was placed and after each of the events es.            *)
StatesSeen(placed, es) ==
  { "pending" } \cup { s \in { "assigned" } : placed } \cup { Polled(e) : e \in es }

Known(d) == StatesSeen(IsPlaced(d), happened[d])

-----------------------------------------------------------------------------
(* Bolt.                                                                   *)

Before ==
  [ assigned |-> {}, arrived_at_pickup |-> {"assigned"},
    picked_up |-> {"arrived_at_pickup"}, in_transit |-> {"picked_up"},
    arrived_at_drop |-> {"in_transit"}, delivered |-> {"arrived_at_drop"},
    failed |-> {"assigned"}, cancelled |-> {} ]

IsOver(d) == happened[d] \cap { "delivered", "failed", "cancelled" } # {}

(* The events Bolt posts webhooks about. *)
Posts == { e \in BoltEvent : ToDomainEvents(e) \cap WebhookKinds # {} }

(* Something happens to the order for d, and Bolt begins to post it.       *)
Happen(d, e) ==
  /\ IsPlaced(d) /\ ~IsOver(d)
  /\ e \notin happened[d] /\ Before[e] \subseteq happened[d]
  /\ e = "cancelled" => "picked_up" \notin happened[d]
  /\ happened' = [happened EXCEPT ![d] = @ \cup {e}]
  /\ tries' = IF e \in Posts THEN [tries EXCEPT ![d][e] = MaxTries] ELSE tries
  /\ UNCHANGED << vars, hook, handled, answer, faults >>

IsPosted(d, e) == e \in happened[d] /\ tries[d][e] > 0

(* Bolt got a 2xx and posts e no more; what is the cause of the answer.    *)
Acknowledge(d, e, what) ==
  /\ tries' = [tries EXCEPT ![d][e] = 0]
  /\ answer' = [answer EXCEPT ![d][e] = what]

-----------------------------------------------------------------------------
(* The listener: POST /webhooks/bolt, Process, and the answer.             *)

\* Mutant: the webhook is answered before it is handled.
Deliver_AnsweredFirst(h, d, e) ==
  /\ IsPosted(d, e)
  /\ \E k \in ToDomainEvents(e) \cap WebhookKinds : ReceiveWebhook(h, Bolt, d, k)
  /\ hook' = [hook EXCEPT ![h] = e]
  /\ Acknowledge(d, e, "handled")
  /\ UNCHANGED << happened, handled, faults >>

(* An attempt reaches the listener, which finds the delivery of the order. *)
Deliver(h, d, e) ==
  /\ IsPosted(d, e)
  /\ \E k \in ToDomainEvents(e) \cap WebhookKinds : ReceiveWebhook(h, Bolt, d, k)
  /\ hook' = [hook EXCEPT ![h] = e]
  /\ tries' = [tries EXCEPT ![d][e] = @ - 1]
  /\ UNCHANGED << happened, handled, answer, faults >>

(* An attempt that is answered with success and does nothing: no row names *)
(* the order (dispatch may be about to save it), or the switch of          *)
(* handleDomainEvent does not list the kind.                               *)
Ignore(d, e) ==
  /\ IsPosted(d, e)
  /\ \/ rows[d].shipment # Bolt
     \/ ToDomainEvents(e) \cap (DOMAIN WebhookRequest \cup {"ShipmentCancelled"}) = {}
  /\ Acknowledge(d, e, "ignored")
  /\ UNCHANGED << vars, happened, hook, handled, faults >>

(* A call succeeds.  It may be the last one of a webhook, also because the *)
(* event is not valid or the graph refuses it (Process swallows that).     *)
(* The listener then answers 204, and the answer arrives or gets lost.     *)
Work(h) ==
  /\ HandlerStep(h)
  /\ IF pc'[h] = "idle" /\ hook[h] # NoJob
     THEN /\ \/ Acknowledge(job[h], hook[h], "handled") /\ UNCHANGED faults
             \/ Fault /\ UNCHANGED << tries, answer >>
          /\ hook' = [hook EXCEPT ![h] = NoJob]
          /\ handled' = [handled EXCEPT ![job[h]] = @ \cup {hook[h]}]
     ELSE UNCHANGED << tries, hook, handled, answer, faults >>
  /\ UNCHANGED happened

(* A call fails: the database is down, or another handler has taken the    *)
(* sequence number, which needs no fault.  Process logs the error, and the *)
(* webhook is answered 204 all the same.  (Die covers an answer that gets  *)
(* lost after an error.)                                                   *)
GiveUp(h) ==
  /\ Abandon(h)
  /\ \/ Fault
     \/ pc[h] = "append" /\ Conflicts(job[h], pend[h]) /\ UNCHANGED faults
  /\ IF hook[h] # NoJob THEN Acknowledge(job[h], hook[h], "error")
                        ELSE UNCHANGED << tries, answer >>
  /\ hook' = [hook EXCEPT ![h] = NoJob]
  /\ UNCHANGED << happened, handled >>

(* The process dies: there is no answer, and Bolt will try again.          *)
Die(h) ==
  /\ Abandon(h)
  /\ Fault
  /\ hook' = [hook EXCEPT ![h] = NoJob]
  /\ UNCHANGED << happened, tries, handled, answer >>

-----------------------------------------------------------------------------
(* The phone, which reports what has happened, and dispatch.               *)

IsTrue(d, q) == q.type \in DOMAIN EventTarget => EventTarget[q.type] \in Known(d)

Checkpoint(h, d, q) ==
  /\ issued < MaxReports
  /\ IsTrue(d, q)
  /\ ReceiveCheckpoint(h, d, q)
  /\ UNCHANGED postVars

Dispatch(h, d) == StartDispatch(h, d) /\ UNCHANGED postVars

Begins(h, d) ==
  \/ \E e \in BoltEvent : Deliver(h, d, e)
  \/ \E q \in Requests : Checkpoint(h, d, q)
  \/ Dispatch(h, d)

Outside == \E d \in Deliveries, e \in BoltEvent : Happen(d, e) \/ Ignore(d, e)

JourneyNext ==
  \/ Outside
  \/ \E h \in Handlers : \/ \E d \in Deliveries : Begins(h, d)
                         \/ Work(h) \/ GiveUp(h) \/ Die(h)

JourneySpec == JourneyInit /\ [][JourneyNext]_journeyVars

(* The same when handlers of one delivery do not overlap.                  *)
RetryNext ==
  \/ Outside
  \/ \E h \in Handlers : \/ \E d \in Deliveries : IsFree(d) /\ Begins(h, d)
                         \/ Work(h) \/ GiveUp(h) \/ Die(h)

(* Every call returns, with an answer or with an error, and Bolt makes the *)
(* attempts it has left while no other handler is at work on the delivery. *)
RetryFairness ==
  /\ \A h \in Handlers : WF_journeyVars(Work(h) \/ GiveUp(h))
  /\ \A d \in Deliveries, e \in Posts :
       WF_journeyVars(\E h \in Handlers : IsFree(d) /\ Deliver(h, d, e))

RetrySpec == JourneyInit /\ [][RetryNext]_journeyVars /\ RetryFairness

-----------------------------------------------------------------------------
(* Properties.                                                             *)

(* Nothing is made up: whatever webhooks are repeated, late or overtaken,  *)
(* and whichever stale copy is saved, a row only shows a state Bolt's      *)
(* order has been in, and the ledger only has events that happened (the    *)
(* two directions of mapper.go agree; Record works on what it is told).    *)
NeverAhead ==
  \A d \in Deliveries :
    /\ rows[d].state \in Known(d)
    /\ \A i \in 1..Len(log[d]) : IsTrue(d, log[d][i].payload.req)

HasRecord(d, e) ==
  \E k \in ToDomainEvents(e) \cap DOMAIN WebhookRequest :
    \E i \in 1..Len(log[d]) : log[d][i].payload.req = WebhookRequest[k]

(* How a webhook can be lost, its order being known: a call failed while   *)
(* it was handled and Bolt was told that it was received all the same      *)
(* (webhook/service.go:47), or none of Bolt's attempts got an answer.      *)
IsLost(d, e) ==
  \/ answer[d][e] = "error"
  \/ /\ answer[d][e] = "none" /\ tries[d][e] = 0
     /\ \A h \in Handlers : job[h] = d => hook[h] # e

(* A webhook of an order the row names gets on record unless it is lost in *)
(* one of these two ways: deaths at any point of its handling and answers  *)
(* that do not arrive only delay it, and no other event, late, early or    *)
(* repeated, gets in its way (Process answers after Record).               *)
RecordedUnlessLost ==
  \A d \in Deliveries, e \in Posts \ { "in_transit", "arrived_at_drop", "cancelled" } :
    (IsPosted(d, e) /\ rows[d].shipment = Bolt) ~> (HasRecord(d, e) \/ IsLost(d, e))

(* When Bolt gives up an order, the row shows it at some time unless the   *)
(* webhook is lost; also when the event was appended and the process died  *)
(* before the row was saved, since the repeated webhook is recorded again  *)
(* and applied (Record, service.go:60).  It need not stay so: see          *)
(* RepeatsMoveNothing.                                                     *)
ShownUnlessLost ==
  \A d \in Deliveries, e \in { "failed", "cancelled" } :
    (IsPosted(d, e) /\ rows[d].shipment = Bolt)
      ~> (rows[d].state = Polled(e) \/ IsLost(d, e))

(* A webhook that has been handled without an error before moves nothing   *)
(* when it is repeated (docs/ARCHITECTURE.md:36: duplicates are no-ops).   *)
RepeatsMoveNothing ==
  [][\A h \in Handlers :
       Work(h) /\ hook[h] # NoJob /\ hook[h] \in handled[job[h]]
         => rows'[job[h]].state = rows[job[h]].state]_journeyVars

=============================================================================
