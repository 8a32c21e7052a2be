---------------------------- MODULE DeliveryFlow ----------------------------
(***************************************************************************)
(* One delivery leg driven by everything that may drive it: the rider's    *)
(* phone (app/custodyapp), carrier webhooks (app/webhook) and dispatch     *)
(* (app/dispatch, from the HTTP endpoint and from the dispatcher's loop),  *)
(* over the deliveries table and the custody ledger of CustodyLedger.      *)
(*                                                                         *)
(* A handler is a goroutine of any of the processes.  It works on a copy   *)
(* of the delivery it loaded, and no transaction spans its repository      *)
(* calls, so each call is a step of its own and handlers interleave        *)
(* between them.  Save writes the whole row back (UPSERT, no version).     *)
(***************************************************************************)
EXTENDS CustodyLedger

CONSTANTS Carriers,      \* carriers routing may choose
          NoShipment,    \* carrier_external_id is NULL
          WebhookKinds,  \* kinds of domain event carriers report
          NoJob          \* a handler that is not running

Handlers == Recorders

(* A row of deliveries.  A carrier answers one idempotency key with one    *)
(* shipment, so the name of the carrier stands for carrier_id together     *)
(* with carrier_external_id.  (Booking stores a carrier_id with no external*)
(* id; no webhook finds a row by it, and dispatch overwrites it.)          *)
(* pickedUp and dropped say whether actual_pickup_at and actual_drop_at    *)
(* are set.                                                                *)
Row == [ state : State, shipment : Carriers \cup {NoShipment},
         pickedUp : BOOLEAN, dropped : BOOLEAN ]

NewRow == [ state |-> "pending", shipment |-> NoShipment,
            pickedUp |-> FALSE, dropped |-> FALSE ]

(* The domain events a carrier adapter turns webhooks into. *)
DomainEvent == { "RiderAssigned", "RiderAssignedNoID", "RiderArrivedAtPickup",
                 "PackagePickedUp", "RiderInTransit", "RiderArrivedAtDestination",
                 "PackageDelivered", "DeliveryFailed", "ShipmentCancelled",
                 "PackageReturnedToLocker" }

(* The custody event a webhook leads to.  recordCustody passes on what the *)
(* carrier sent and attaches a placeholder photo and location where it     *)
(* sent none, so Validate sees both in any case and cannot tell them apart *)
(* (nor does the model); onRiderAssigned attaches neither.  actor says who *)
(* brought the report: onRiderAssigned itself names the rider.             *)
WebhookRequest ==
  [ k \in { "RiderAssigned", "RiderAssignedNoID", "RiderArrivedAtPickup",
            "PackagePickedUp", "PackageDelivered", "DeliveryFailed" } |->
      LET t == CASE k = "RiderArrivedAtPickup" -> "rider.arrived_at_locker"
                 [] k = "PackagePickedUp"      -> "package.picked_up"
                 [] k = "PackageDelivered"     -> "package.delivered"
                 [] k = "DeliveryFailed"       -> "delivery.failed"
                 [] OTHER                      -> "rider.assigned"
      IN  [ type |-> t, actor |-> "carrier",
            photo |-> t # "rider.assigned", gps |-> t # "rider.assigned" ] ]

ASSUME WebhookKindsAssumption == WebhookKinds \subseteq DomainEvent
(* Requests has what the webhooks of those kinds ask for. *)
ASSUME WebhookRequestsAssumption ==
  \A k \in WebhookKinds \cap DOMAIN WebhookRequest : WebhookRequest[k] \in Requests

ASSUME NoJobAssumption == NoJob \notin Deliveries
ASSUME NoShipmentAssumption == NoShipment \notin Carriers

VARIABLES rows,       \* rows[d]: the persisted delivery
          shipments,  \* shipments the carriers have accepted, <<carrier, d>>
          pc,         \* pc[h]: the repository call h makes next
          job,        \* job[h]: the delivery h works on
          want,       \* want[h]: the custody event h is to record
          copy        \* copy[h]: the delivery as h loaded and changed it

flowVars == << rows, shipments, pc, job, want, copy >>
vars == << ledgerVars, flowVars >>

PC == { "idle", "save_rider", "save_cancel", "get", "tail", "append", "save",
        "create", "save_dispatch" }

FlowTypeOK ==
  /\ LedgerTypeOK
  /\ rows \in [Deliveries -> Row]
  /\ shipments \subseteq Carriers \X Deliveries
  /\ pc \in [Handlers -> PC]
  /\ job \in [Handlers -> Deliveries \cup {NoJob}]
  /\ want \in [Handlers -> Request \cup {NoJob}]
  /\ copy \in [Handlers -> Row \cup {NoJob}]

(* Deliveries are already booked and none is dispatched. *)
FlowInit ==
  /\ LedgerInit
  /\ rows = [d \in Deliveries |-> NewRow]
  /\ shipments = {}
  /\ pc = [h \in Handlers |-> "idle"]
  /\ job = [h \in Handlers |-> NoJob]
  /\ want = [h \in Handlers |-> NoJob]
  /\ copy = [h \in Handlers |-> NoJob]

-----------------------------------------------------------------------------
(* Delivery.Transition and the mutators built on it, on a handler's copy.  *)

\* Mutant: MarkPickedUp does not record the time of the pickup.
Moved_NoPickupTime(r, to) == [ state    |-> to,
                               shipment |-> r.shipment,
                               pickedUp |-> r.pickedUp,
                               dropped  |-> r.dropped \/ to = "delivered" ]

Moved(r, to) == [ state    |-> to,
                  shipment |-> r.shipment,
                  pickedUp |-> r.pickedUp \/ to = "picked_up",
                  dropped  |-> r.dropped \/ to = "delivered" ]

Transition(r, to) == IF CanTransition(r.state, to) THEN Moved(r, to) ELSE r

\* Mutant: the graph is not consulted.
Applies_Always(r, t) == TRUE

(* applyDeliveryTransition succeeds on r for an event of type t, ... *)
Applies(r, t) == t \in DOMAIN EventTarget => CanTransition(r.state, EventTarget[t])

\* Mutant: the event's type is stored as the state.
Applied_TypeAsState(r, t) == IF t \in DOMAIN EventTarget THEN Moved(r, t) ELSE r

(* ... and then leaves this behind. *)
Applied(r, t) == IF t \in DOMAIN EventTarget THEN Moved(r, EventTarget[t]) ELSE r

Start(h, at, d, q, r) ==
  /\ pc[h] = "idle"
  /\ pc' = [pc EXCEPT ![h] = at]
  /\ job' = [job EXCEPT ![h] = d]
  /\ want' = [want EXCEPT ![h] = q]
  /\ copy' = [copy EXCEPT ![h] = r]

Finish(h) ==
  /\ pc' = [pc EXCEPT ![h] = "idle"]
  /\ job' = [job EXCEPT ![h] = NoJob]
  /\ want' = [want EXCEPT ![h] = NoJob]
  /\ copy' = [copy EXCEPT ![h] = NoJob]

(* Deliveries.Save of h's copy. *)
SaveCopy(h) == rows' = [rows EXCEPT ![job[h]] = copy[h]]

-----------------------------------------------------------------------------
(* Requests arrive.                                                        *)

(* POST custody: the rider's phone reports a checkpoint. *)
ReceiveCheckpoint(h, d, q) ==
  /\ q.actor = "rider"
  /\ Start(h, "get", d, q, NoJob)
  /\ UNCHANGED << ledgerVars, rows, shipments >>

(* Process and handleDomainEvent up to the first write.  The webhook names *)
(* the shipment; a shipment no row refers to (yet) is dropped, which needs *)
(* no step, and so is a kind the switch does not list.  Carriers retry,    *)
(* delay and reorder webhooks, so any shipment may report any kind at any  *)
(* time.                                                                   *)
ReceiveWebhook(h, c, d, k) ==
  /\ << c, d >> \in shipments
  /\ rows[d].shipment = c                     \* GetByCarrierExternalID
  /\ \/ /\ k = "RiderAssigned"
        \* Save the rider first; a pending delivery becomes assigned.
        /\ Start(h, "save_rider", d, WebhookRequest[k],
                 IF rows[d].state = "pending"
                   THEN Transition(rows[d], "assigned") ELSE rows[d])
     \/ /\ k = "ShipmentCancelled"
        \* The error of Cancel is discarded; the row is saved anyway.
        /\ Start(h, "save_cancel", d, NoJob,
                 IF CanCancel(rows[d].state)
                   THEN Transition(rows[d], "cancelled") ELSE rows[d])
     \/ /\ k \in DOMAIN WebhookRequest \ {"RiderAssigned"}
        /\ Start(h, "get", d, WebhookRequest[k], NoJob)
  /\ UNCHANGED << ledgerVars, rows, shipments >>

(* DispatchDelivery up to the call to the carrier. *)
StartDispatch(h, d) ==
  /\ rows[d].state = "pending"
  /\ Start(h, "create", d, NoJob, rows[d])
  /\ UNCHANGED << ledgerVars, rows, shipments >>

-----------------------------------------------------------------------------
(* webhook.onRiderAssigned and the ShipmentCancelled case.                 *)

SaveRider(h) ==
  /\ pc[h] = "save_rider"
  /\ SaveCopy(h)
  /\ pc' = [pc EXCEPT ![h] = "get"]
  /\ UNCHANGED << ledgerVars, shipments, job, want, copy >>

SaveCancel(h) ==
  /\ pc[h] = "save_cancel"
  /\ SaveCopy(h)
  /\ Finish(h)
  /\ UNCHANGED << ledgerVars, shipments >>

-----------------------------------------------------------------------------
(* custodyapp.Service.Record, which webhooks go through as well.           *)

\* Mutant: the transition is saved before the event is appended.
LoadDelivery_SavesFirst(h) ==
  /\ pc[h] = "get"
  /\ LET r == rows[job[h]]
         t == want[h].type
     IN  IF Validate(want[h]) /\ Applies(r, t)
         THEN /\ rows' = [rows EXCEPT ![job[h]] = Applied(r, t)]
              /\ copy' = [copy EXCEPT ![h] = Applied(r, t)]
              /\ pc' = [pc EXCEPT ![h] = "tail"]
              /\ UNCHANGED << job, want >>
         ELSE Finish(h) /\ UNCHANGED rows
  /\ UNCHANGED << ledgerVars, shipments >>

\* Mutant: an event like one on record is taken for a repetition and dropped.
LoadDelivery_SkipsRecorded(h) ==
  /\ pc[h] = "get"
  /\ IF /\ Validate(want[h])
        /\ \A i \in 1..Len(log[job[h]]) : log[job[h]][i].payload.req # want[h]
     THEN /\ copy' = [copy EXCEPT ![h] = rows[job[h]]]
          /\ pc' = [pc EXCEPT ![h] = "tail"]
          /\ UNCHANGED << job, want >>
     ELSE Finish(h)
  /\ UNCHANGED << ledgerVars, rows, shipments >>

(* GetByID loads the copy; Ledger.Record then validates the event. *)
LoadDelivery(h) ==
  /\ pc[h] = "get"
  /\ IF Validate(want[h])
     THEN /\ copy' = [copy EXCEPT ![h] = rows[job[h]]]
          /\ pc' = [pc EXCEPT ![h] = "tail"]
          /\ UNCHANGED << job, want >>
     ELSE Finish(h)
  /\ UNCHANGED << ledgerVars, rows, shipments >>

ReadLedgerTail(h) ==
  /\ pc[h] = "tail"
  /\ ReadTail(h, job[h], want[h])
  /\ pc' = [pc EXCEPT ![h] = "append"]
  /\ UNCHANGED << rows, shipments, job, want, copy >>

(* The event is in the ledger before the transition is tried: a transition *)
(* the graph refuses ends Record with an error and leaves the event there. *)
AppendToLedger(h) ==
  /\ pc[h] = "append"
  /\ AppendOK(h)
  /\ IF Applies(copy[h], want[h].type)
     THEN /\ copy' = [copy EXCEPT ![h] = Applied(@, want[h].type)]
          /\ pc' = [pc EXCEPT ![h] = "save"]
          /\ UNCHANGED << job, want >>
     ELSE Finish(h)
  /\ UNCHANGED << rows, shipments >>

SaveDelivery(h) ==
  /\ pc[h] = "save"
  /\ SaveCopy(h)
  /\ Finish(h)
  /\ UNCHANGED << ledgerVars, shipments >>

-----------------------------------------------------------------------------
(* dispatch.Service.DispatchDelivery.                                      *)

\* Mutant: an error of CreateShipment is not returned.
CreateShipment_ErrorIgnored(h, c) ==
  /\ pc[h] = "create"
  /\ copy' = [copy EXCEPT ![h] = Transition([@ EXCEPT !.shipment = c], "assigned")]
  /\ pc' = [pc EXCEPT ![h] = "save_dispatch"]
  /\ UNCHANGED << ledgerVars, rows, shipments, job, want >>

(* Routing picks a carrier and CreateShipment succeeds there.  The carrier *)
(* is idempotent on the key, so a repeated request adds no shipment.       *)
CreateShipment(h, c) ==
  /\ pc[h] = "create"
  /\ shipments' = shipments \cup { << c, job[h] >> }
  /\ copy' = [copy EXCEPT ![h] = Transition([@ EXCEPT !.shipment = c], "assigned")]
  /\ pc' = [pc EXCEPT ![h] = "save_dispatch"]
  /\ UNCHANGED << ledgerVars, rows, job, want >>

SaveDispatch(h) ==
  /\ pc[h] = "save_dispatch"
  /\ SaveCopy(h)
  /\ Finish(h)
  /\ UNCHANGED << ledgerVars, shipments >>

-----------------------------------------------------------------------------
(* A handler ends between two calls: a call returned an error (the event's *)
(* sequence number was taken, no carrier was eligible, a timeout), or the  *)
(* process died.  Nothing it has written is undone.                        *)
Abandon(h) ==
  /\ pc[h] # "idle"
  /\ IF pc[h] = "append" THEN AppendFails(h) ELSE UNCHANGED ledgerVars
  /\ Finish(h)
  /\ UNCHANGED << rows, shipments >>

HandlerStep(h) ==
  \/ SaveRider(h) \/ SaveCancel(h)
  \/ LoadDelivery(h) \/ ReadLedgerTail(h) \/ AppendToLedger(h) \/ SaveDelivery(h)
  \/ \E c \in Carriers : CreateShipment(h, c)
  \/ SaveDispatch(h)

(* h begins to handle a request about d. *)
Arrives(h, d) ==
  \/ \E q \in Requests : ReceiveCheckpoint(h, d, q)
  \/ \E c \in Carriers, k \in WebhookKinds : ReceiveWebhook(h, c, d, k)
  \/ StartDispatch(h, d)

FlowNext ==
  \E h \in Handlers :
    \/ \E d \in Deliveries : Arrives(h, d)
    \/ HandlerStep(h)
    \/ Abandon(h)

FlowSpec == FlowInit /\ [][FlowNext]_vars

(* The same system when handlers of one delivery never overlap: each       *)
(* starts after the one before it has ended.                               *)
IsFree(d) == \A h \in Handlers : job[h] # d

SerialNext ==
  \E h \in Handlers :
    \/ \E d \in Deliveries : IsFree(d) /\ Arrives(h, d)
    \/ HandlerStep(h)
    \/ Abandon(h)

SerialSpec == FlowInit /\ [][SerialNext]_vars

-----------------------------------------------------------------------------
(* Properties.                                                             *)

(* Types of the events on record for d in records that pass Validate.      *)
TypesOf(s) == { s[i].payload.req.type :
                  i \in { j \in 1..Len(s) : Validate(s[j].payload.req) } }

RecordedTypes(d) == TypesOf(log[d])

(* What everyone sees of the deliveries, without the handlers. *)
States == [d \in Deliveries |-> rows[d].state]
Evidence == [d \in Deliveries |-> RecordedTypes(d)]

Lifecycle == INSTANCE DeliveryLifecycle WITH state <- States, evidence <- Evidence

(* A row's state is backed by the ledger: whatever handlers overwrite each *)
(* other's rows, crash between append and save, or act on stale copies, no *)
(* row says picked up, delivered or failed without the custody events that *)
(* say so, in records that pass Validate (delivery.go:131; custodyapp's    *)
(* Record appends before it saves).  It does not say that a photo was      *)
(* taken: Validate counts photos, and a placeholder of recordCustody       *)
(* (webhook/service.go:157-166) is one, though docs/PRODUCT.md:306 would   *)
(* not call such a leg delivered.                                          *)
StateHasEvidence ==
  \A d \in Deliveries : NeededFor[rows[d].state] \subseteq RecordedTypes(d)

(* Whole-row saves never tear a row: the fields agree with each other even *)
(* when the row is a stale one (Delivery.MarkPickedUp and MarkDelivered    *)
(* set their times with the state; dispatch sets shipment and state).      *)
RowCoherent(r) ==
  /\ r.state \in HoldsPackage => r.pickedUp
  /\ r.state = "delivered" <=> r.dropped
  /\ r.state = "pending" => r.shipment = NoShipment

RowsCoherent == \A d \in Deliveries : RowCoherent(rows[d])

(* A row that names a shipment names one its carrier has accepted, so a    *)
(* webhook never resolves to a shipment that does not exist                *)
(* (DispatchDelivery saves only after CreateShipment has answered).        *)
ShipmentBacked ==
  \A d \in Deliveries : rows[d].shipment # NoShipment =>
    << rows[d].shipment, d >> \in shipments

(* Handlers that do not overlap on a delivery implement the lifecycle: the *)
(* graph of state.go is obeyed by the persisted states.                    *)
ImplementsLifecycle == Lifecycle!Spec

(* The persisted state of a delivery moves along the graph (state.go:20:   *)
(* any transition not listed is rejected at runtime).                      *)
LegalTransitions ==
  [][\A d \in Deliveries : \/ rows'[d].state = rows[d].state
                           \/ CanTransition(rows[d].state, rows'[d].state)]_rows

(* Once no handler is at work on it, a delivery whose last custody event   *)
(* implies a state is in that state (custodyapp.Record, service.go:42).    *)
EventsAreApplied ==
  \A d \in Deliveries :
    IsFree(d) /\ log[d] # << >> =>
      LET t == log[d][Len(log[d])].payload.req.type
      IN  t \in DOMAIN EventTarget => rows[d].state = EventTarget[t]

=============================================================================
