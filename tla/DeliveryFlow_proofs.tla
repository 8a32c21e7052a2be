------------------------ MODULE DeliveryFlow_proofs ------------------------
(***************************************************************************)
(* Proofs about DeliveryFlow, for any number of handlers, deliveries and   *)
(* carriers and for both stores.                                           *)
(*                                                                         *)
(* That a row's state has its evidence is not inductive: a row is          *)
(* overwritten with a handler's copy.  FlowInv therefore says the same of  *)
(* every copy.  It survives stale copies because the ledger and the set of *)
(* accepted shipments only grow, so what backed a copy when it was loaded  *)
(* still backs it when it is saved.                                        *)
(***************************************************************************)
EXTENDS DeliveryFlow, CustodyLedger_proofs

(* Where a handler holds a copy, and where it has an event to record. *)
HasCopy == { "save_rider", "save_cancel", "tail", "append", "save", "create",
             "save_dispatch" }
HasWant == { "save_rider", "get", "tail", "append", "save" }

HandlerOK(h) ==
  /\ pc[h] = "idle" => job[h] = NoJob
  /\ pc[h] # "idle" => job[h] \in Deliveries
  /\ pc[h] \in HasWant => want[h] \in Requests
  /\ pc[h] \in HasCopy => copy[h] \in Row
  /\ pc[h] = "tail" => Validate(want[h])
  /\ pc[h] = "create" => copy[h].state = "pending"
  /\ pc[h] = "append" => /\ pend[h] # NoEvent
                         /\ pend[h].payload.delivery = job[h]
                         /\ pend[h].payload.req = want[h]

(* What r may be written to row d on: evidence of the types ts, and the    *)
(* accepted shipments ss.                                                  *)
Backed(r, d, ts, ss) ==
  /\ NeededFor[r.state] \subseteq ts
  /\ RowCoherent(r)
  /\ r.shipment # NoShipment => << r.shipment, d >> \in ss

RowsBacked ==
  \A d \in Deliveries : Backed(rows[d], d, RecordedTypes(d), shipments)

CopyBacked(h) ==
  pc[h] \in HasCopy => Backed(copy[h], job[h], RecordedTypes(job[h]), shipments)

FlowInv ==
  /\ FlowTypeOK
  /\ Inv
  /\ RowsBacked
  /\ \A h \in Handlers : HandlerOK(h) /\ CopyBacked(h)

-----------------------------------------------------------------------------
(* The state machine, without the system around it. *)

LEMMA MovedCoherent ==
  ASSUME NEW r \in Row, NEW to \in State, CanTransition(r.state, to), RowCoherent(r)
  PROVE  /\ Moved(r, to) \in Row
         /\ RowCoherent(Moved(r, to))
         /\ Moved(r, to).state = to
         /\ Moved(r, to).shipment = r.shipment
<1> DEFINE m == Moved(r, to)
<1>1. m.state = to /\ m.shipment = r.shipment /\ m \in Row
  BY DEF Moved, Row
<1>2. m.pickedUp = (r.pickedUp \/ to = "picked_up")
  BY DEF Moved
<1>3. m.dropped = (r.dropped \/ to = "delivered")
  BY DEF Moved
<1>4. to # "pending" /\ r.state # "delivered"
  BY DEF CanTransition, allowedTransitions, State, Row
<1>5. to \in HoldsPackage => to = "picked_up" \/ r.state \in HoldsPackage
  BY DEF CanTransition, allowedTransitions, State, Row, HoldsPackage
<1> HIDE DEF m
<1>6. RowCoherent(m)
  BY <1>1, <1>2, <1>3, <1>4, <1>5 DEF RowCoherent, Row
<1>. QED BY <1>1, <1>6 DEF m

(* An event that moves s on adds all the evidence the next state needs. *)
LEMMA NeededForStep ==
  ASSUME NEW s \in State, NEW t \in DOMAIN EventTarget,
         CanTransition(s, EventTarget[t])
  PROVE  /\ EventTarget[t] \in State
         /\ NeededFor[EventTarget[t]] \subseteq NeededFor[s] \cup {t}
<1>1. CASE t = "rider.assigned"
  <2>1. EventTarget[t] = "assigned"
    BY <1>1 DEF EventTarget
  <2>. QED BY <2>1 DEF State, NeededFor
<1>2. CASE t = "rider.arrived_at_locker"
  <2>1. EventTarget[t] = "en_route_pickup"
    BY <1>2 DEF EventTarget
  <2>. QED BY <1>2, <2>1 DEF State, NeededFor
<1>3. CASE t = "package.picked_up"
  <2>1. EventTarget[t] = "picked_up"
    BY <1>3 DEF EventTarget
  <2>2. s = "en_route_pickup"
    BY <2>1 DEF CanTransition, allowedTransitions, State
  <2>. QED BY <1>3, <2>1, <2>2 DEF State, NeededFor, AtLocker
<1>4. CASE t = "rider.in_transit"
  <2>1. EventTarget[t] = "in_transit"
    BY <1>4 DEF EventTarget
  <2>2. s = "picked_up"
    BY <2>1 DEF CanTransition, allowedTransitions, State
  <2>. QED BY <1>4, <2>1, <2>2 DEF State, NeededFor, AtLocker
<1>5. CASE t = "rider.arrived_at_destination"
  <2>1. EventTarget[t] = "en_route_drop"
    BY <1>5 DEF EventTarget
  <2>2. s \in { "picked_up", "in_transit" }
    BY <2>1 DEF CanTransition, allowedTransitions, State
  <2>. QED BY <1>5, <2>1, <2>2 DEF State, NeededFor, AtLocker
<1>6. CASE t = "package.delivered"
  <2>1. EventTarget[t] = "delivered"
    BY <1>6 DEF EventTarget
  <2>2. s \in { "in_transit", "en_route_drop" }
    BY <2>1 DEF CanTransition, allowedTransitions, State
  <2>. QED BY <1>6, <2>1, <2>2 DEF State, NeededFor, AtLocker
<1>7. CASE t = "delivery.failed"
  <2>1. EventTarget[t] = "failed"
    BY <1>7 DEF EventTarget
  <2>. QED BY <1>7, <2>1 DEF State, NeededFor
<1>. QED BY <1>1, <1>2, <1>3, <1>4, <1>5, <1>6, <1>7 DEF EventTarget

LEMMA NeededForNothing ==
  /\ NeededFor["pending"] = {}
  /\ NeededFor["assigned"] = {}
  /\ NeededFor["cancelled"] = {}
BY DEF NeededFor, State

LEMMA WebhookRequestType ==
  ASSUME NEW k \in DOMAIN WebhookRequest
  PROVE  WebhookRequest[k] \in Request /\ Validate(WebhookRequest[k])
BY DEF WebhookRequest, Request, EventType, Actor, Validate, RequiresPhoto, RequiresGPS

-----------------------------------------------------------------------------
(* What backs a row keeps backing it while the ledger and the shipments    *)
(* grow.                                                                   *)
LEMMA BackedStable ==
  ASSUME NEW r, NEW d, NEW ts, NEW ss, Backed(r, d, ts, ss),
         NEW us, NEW vs, ts \subseteq us, ss \subseteq vs
  PROVE  Backed(r, d, us, vs)
BY DEF Backed

(* Moving a row to a state that needs no evidence keeps it backed, ...     *)
LEMMA TransitionBacked ==
  ASSUME NEW r \in Row, NEW d, NEW ts, NEW ss, Backed(r, d, ts, ss),
         NEW to \in { "assigned", "cancelled" }
  PROVE  Transition(r, to) \in Row /\ Backed(Transition(r, to), d, ts, ss)
<1>1. CASE CanTransition(r.state, to)
  <2>1. to \in State /\ NeededFor[to] = {}
    BY NeededForNothing DEF State
  <2>2. /\ Moved(r, to) \in Row
        /\ RowCoherent(Moved(r, to))
        /\ Moved(r, to).state = to
        /\ Moved(r, to).shipment = r.shipment
    BY <1>1, <2>1, MovedCoherent DEF Backed
  <2>. QED BY <1>1, <2>1, <2>2 DEF Transition, Backed
<1>2. CASE ~CanTransition(r.state, to)
  BY <1>2 DEF Transition
<1>. QED BY <1>1, <1>2

(* ... and so does applying an event that is on record.                    *)
LEMMA AppliedBacked ==
  ASSUME NEW r \in Row, NEW d, NEW ts, NEW ss, Backed(r, d, ts, ss),
         NEW t \in ts, Applies(r, t)
  PROVE  Applied(r, t) \in Row /\ Backed(Applied(r, t), d, ts, ss)
<1>1. CASE t \in DOMAIN EventTarget
  <2> DEFINE to == EventTarget[t]
  <2>1. r.state \in State /\ CanTransition(r.state, to)
    BY <1>1 DEF Row, Applies
  <2>2. to \in State /\ NeededFor[to] \subseteq NeededFor[r.state] \cup {t}
    BY <1>1, <2>1, NeededForStep
  <2> HIDE DEF to
  <2>3. /\ Moved(r, to) \in Row
        /\ RowCoherent(Moved(r, to))
        /\ Moved(r, to).state = to
        /\ Moved(r, to).shipment = r.shipment
    BY <2>1, <2>2, MovedCoherent DEF Backed
  <2>4. Backed(Moved(r, to), d, ts, ss)
    BY <2>2, <2>3 DEF Backed
  <2>. QED BY <1>1, <2>3, <2>4 DEF Applied, to
<1>2. CASE t \notin DOMAIN EventTarget
  BY <1>2 DEF Applied
<1>. QED BY <1>1, <1>2

LEMMA RecordedTypesUnchanged ==
  ASSUME log' = log, NEW d \in Deliveries
  PROVE  RecordedTypes(d)' = RecordedTypes(d)
BY DEF RecordedTypes

LEMMA TypesOfMember ==
  ASSUME NEW s, NEW i \in 1..Len(s), Validate(s[i].payload.req)
  PROVE  s[i].payload.req.type \in TypesOf(s)
BY DEF TypesOf

LEMMA TypesOfWitness ==
  ASSUME NEW s, NEW t \in TypesOf(s)
  PROVE  \E i \in 1..Len(s) : Validate(s[i].payload.req) /\ t = s[i].payload.req.type
BY DEF TypesOf

(* Appending adds the type of the event and removes none. *)
LEMMA RecordedTypesGrow ==
  ASSUME Inv, NEW r \in Recorders, AppendOK(r), NEW c \in Deliveries
  PROVE  /\ RecordedTypes(c) \subseteq RecordedTypes(c)'
         /\ pend[r].payload.delivery = c =>
              pend[r].payload.req.type \in RecordedTypes(c)'
<1> DEFINE e == pend[r]
           d == e.payload.delivery
           s == log[d]
           t == Append(s, e)
<1>1. /\ e \in Event /\ d \in Deliveries /\ s \in Seq(Event)
      /\ log' = [log EXCEPT ![d] = t]
  BY AppendOKAtEnd
<1>2. /\ Len(t) = Len(s) + 1 /\ t[Len(s) + 1] = e
      /\ \A i \in 1..Len(s) : t[i] = s[i]
      /\ Len(s) \in Nat
  <2> HIDE DEF e, s
  <2>. QED BY <1>1, AppendProperties, LenProperties
<1>3. /\ log'[d] = t
      /\ d # c => log'[c] = log[c]
  BY <1>1 DEF Inv, LedgerTypeOK
<1>4. Validate(e.payload.req)
  BY DEF AppendOK, Inv, IdsInv
<1> HIDE DEF t
<1>5. RecordedTypes(c) \subseteq RecordedTypes(c)'
  <2>1. \A i \in 1..Len(log[c]) : i \in 1..Len(log'[c]) /\ log'[c][i] = log[c][i]
    BY <1>2, <1>3
  <2>2. ASSUME NEW y \in TypesOf(log[c]) PROVE y \in TypesOf(log'[c])
    <3>1. PICK i \in 1..Len(log[c]) :
            Validate(log[c][i].payload.req) /\ y = log[c][i].payload.req.type
      BY <2>2, TypesOfWitness
    <3>. QED BY <2>1, <3>1, TypesOfMember
  <2>. QED BY <2>2 DEF RecordedTypes
<1>6. ASSUME d = c PROVE e.payload.req.type \in RecordedTypes(c)'
  <2>1. Len(s) + 1 \in 1..Len(log'[c]) /\ log'[c][Len(s) + 1] = e
    BY <1>2, <1>3, <1>6
  <2>2. e.payload.req.type \in TypesOf(log'[c])
    <3> HIDE DEF e, d
    <3>. QED BY <1>4, <2>1, TypesOfMember
  <2>. QED BY <2>2 DEF RecordedTypes
<1>. QED BY <1>5, <1>6

-----------------------------------------------------------------------------
(* Handlers do not touch each other's control.                             *)

(* A step that changes the control of h only, and takes nothing from the   *)
(* ledger or the shipments, disturbs no other handler.                     *)
LEMMA OthersUndisturbed ==
  ASSUME FlowInv, NEW h \in Handlers,
         \A g \in Handlers \ {h} :
           /\ pc'[g] = pc[g] /\ job'[g] = job[g] /\ want'[g] = want[g]
           /\ copy'[g] = copy[g] /\ pend'[g] = pend[g],
         shipments \subseteq shipments',
         \A c \in Deliveries : RecordedTypes(c) \subseteq RecordedTypes(c)'
  PROVE  \A g \in Handlers \ {h} : HandlerOK(g)' /\ CopyBacked(g)'
<1>1. SUFFICES ASSUME NEW g \in Handlers \ {h}
               PROVE  HandlerOK(g)' /\ CopyBacked(g)'
  OBVIOUS
<1>2. HandlerOK(g)'
  BY <1>1 DEF FlowInv, HandlerOK
<1>3. CopyBacked(g)'
  <2>1. SUFFICES ASSUME pc[g] \in HasCopy
                 PROVE  Backed(copy[g], job[g], RecordedTypes(job[g])', shipments')
    BY <1>1 DEF CopyBacked, RecordedTypes
  <2>2. Backed(copy[g], job[g], RecordedTypes(job[g]), shipments)
    BY <1>1, <2>1 DEF FlowInv, CopyBacked
  <2>3. job[g] \in Deliveries
    BY <1>1, <2>1 DEF FlowInv, HandlerOK, HasCopy
  <2>4. RecordedTypes(job[g]) \subseteq TypesOf(log'[job[g]])
    BY <2>3 DEF RecordedTypes
  <2>. QED BY <2>2, <2>4, BackedStable DEF RecordedTypes
<1>. QED BY <1>2, <1>3

(* Steps that leave the ledger alone keep its invariant and the evidence.  *)
LEMMA LedgerUnchanged ==
  ASSUME FlowInv, UNCHANGED ledgerVars
  PROVE  /\ Inv'
         /\ LedgerTypeOK'
         /\ log' = log /\ pend' = pend
         /\ \A c \in Deliveries : RecordedTypes(c)' = RecordedTypes(c)
<1>1. Inv'
  BY StepInv DEF FlowInv
<1>. QED BY <1>1, RecordedTypesUnchanged DEF ledgerVars, Inv

(* Start, with anything a handler may start with.                          *)
LEMMA StartInv ==
  ASSUME FlowInv, NEW h \in Handlers, NEW at \in PC \ {"idle", "tail", "append"},
         NEW d \in Deliveries, NEW q, NEW r,
         Start(h, at, d, q, r),
         UNCHANGED << ledgerVars, rows, shipments >>,
         q \in Requests \/ (q = NoJob /\ at \notin HasWant),
         \/ r = NoJob /\ at \notin HasCopy
         \/ r \in Row /\ Backed(r, d, RecordedTypes(d), shipments),
         at = "create" => r.state = "pending"
  PROVE  FlowInv'
<1>1. /\ Inv' /\ LedgerTypeOK' /\ log' = log /\ pend' = pend
      /\ \A c \in Deliveries : RecordedTypes(c)' = RecordedTypes(c)
  BY LedgerUnchanged
<1>2. /\ pc' = [pc EXCEPT ![h] = at] /\ job' = [job EXCEPT ![h] = d]
      /\ want' = [want EXCEPT ![h] = q] /\ copy' = [copy EXCEPT ![h] = r]
      /\ rows' = rows /\ shipments' = shipments
  BY DEF Start
<1>3. FlowTypeOK'
  BY <1>1, <1>2, RequestsAssumption DEF FlowInv, FlowTypeOK
<1>4. /\ pc'[h] = at /\ job'[h] = d /\ want'[h] = q /\ copy'[h] = r
      /\ \A g \in Handlers \ {h} :
           /\ pc'[g] = pc[g] /\ job'[g] = job[g] /\ want'[g] = want[g]
           /\ copy'[g] = copy[g] /\ pend'[g] = pend[g]
  BY <1>1, <1>2 DEF FlowInv, FlowTypeOK
<1>5. RowsBacked'
  BY <1>1, <1>2 DEF FlowInv, RowsBacked
<1>6. \A g \in Handlers \ {h} : HandlerOK(g)' /\ CopyBacked(g)'
  BY <1>1, <1>2, <1>4, OthersUndisturbed
<1>7. HandlerOK(h)'
  BY <1>4 DEF HandlerOK
<1>8. CopyBacked(h)'
  BY <1>1, <1>2, <1>4 DEF CopyBacked, RecordedTypes
<1>. QED BY <1>1, <1>3, <1>5, <1>6, <1>7, <1>8 DEF FlowInv

(* Finish, with or without saving the copy first, whatever has become of   *)
(* the event the handler was recording.                                    *)
LEMMA FinishInv ==
  ASSUME FlowInv, NEW h \in Handlers, Finish(h), Inv',
         \A g \in Handlers \ {h} : pend'[g] = pend[g],
         \A c \in Deliveries : RecordedTypes(c) \subseteq RecordedTypes(c)',
         UNCHANGED shipments,
         \/ UNCHANGED rows
         \/ SaveCopy(h) /\ pc[h] \in HasCopy
  PROVE  FlowInv'
<1>1. /\ pc' = [pc EXCEPT ![h] = "idle"] /\ job' = [job EXCEPT ![h] = NoJob]
      /\ want' = [want EXCEPT ![h] = NoJob] /\ copy' = [copy EXCEPT ![h] = NoJob]
  BY DEF Finish
<1>2. /\ pc'[h] = "idle" /\ job'[h] = NoJob
      /\ \A g \in Handlers \ {h} :
           /\ pc'[g] = pc[g] /\ job'[g] = job[g] /\ want'[g] = want[g]
           /\ copy'[g] = copy[g] /\ pend'[g] = pend[g]
  BY <1>1 DEF FlowInv, FlowTypeOK
<1>3. \A g \in Handlers \ {h} : HandlerOK(g)' /\ CopyBacked(g)'
  BY <1>2, OthersUndisturbed
<1>4. HandlerOK(h)' /\ CopyBacked(h)'
  BY <1>2 DEF HandlerOK, CopyBacked, HasWant, HasCopy
<1>5. rows' \in [Deliveries -> Row] /\ RowsBacked'
  <2>1. \A c \in Deliveries : Backed(rows[c], c, TypesOf(log'[c]), shipments)
    BY BackedStable DEF FlowInv, RowsBacked, RecordedTypes
  <2>2. CASE UNCHANGED rows
    BY <2>1, <2>2 DEF FlowInv, FlowTypeOK, RowsBacked, RecordedTypes
  <2>3. CASE SaveCopy(h) /\ pc[h] \in HasCopy
    <3>1. /\ copy[h] \in Row /\ job[h] \in Deliveries
          /\ Backed(copy[h], job[h], RecordedTypes(job[h]), shipments)
      BY <2>3 DEF FlowInv, HandlerOK, CopyBacked, HasCopy
    <3>2. Backed(copy[h], job[h], TypesOf(log'[job[h]]), shipments)
      BY <3>1, BackedStable DEF RecordedTypes
    <3>3. rows' = [rows EXCEPT ![job[h]] = copy[h]]
      BY <2>3 DEF SaveCopy
    <3>. QED BY <2>1, <3>1, <3>2, <3>3 DEF FlowInv, FlowTypeOK, RowsBacked, RecordedTypes
  <2>. QED BY <2>2, <2>3
<1>6. FlowTypeOK'
  BY <1>1, <1>5 DEF FlowInv, FlowTypeOK, Inv, PC
<1>. QED BY <1>3, <1>4, <1>5, <1>6 DEF FlowInv

-----------------------------------------------------------------------------
(* One lemma per action: each preserves FlowInv.                           *)

LEMMA FlowInitInv == FlowInit => FlowInv
<1> SUFFICES ASSUME FlowInit PROVE FlowInv
  OBVIOUS
<1>1. Inv
  BY InitInv DEF FlowInit
<1>2. NewRow \in Row /\ RowCoherent(NewRow) /\ NeededFor[NewRow.state] = {}
      /\ NewRow.shipment = NoShipment
  BY NeededForNothing DEF NewRow, Row, State, RowCoherent, HoldsPackage
<1>3. FlowTypeOK
  BY <1>1, <1>2 DEF FlowInit, FlowTypeOK, Inv, PC
<1>4. RowsBacked
  BY <1>2 DEF FlowInit, RowsBacked, Backed
<1>. QED BY <1>1, <1>3, <1>4
         DEF FlowInit, FlowInv, HandlerOK, CopyBacked, HasCopy, HasWant

LEMMA ReceiveCheckpointInv ==
  ASSUME FlowInv, NEW h \in Handlers, NEW d \in Deliveries, NEW q \in Requests,
         ReceiveCheckpoint(h, d, q)
  PROVE  FlowInv'
BY StartInv, "get" \in PC \ {"idle", "tail", "append"}
   DEF ReceiveCheckpoint, PC, HasWant, HasCopy

LEMMA ReceiveWebhookInv ==
  ASSUME FlowInv, NEW h \in Handlers, NEW c \in Carriers, NEW d \in Deliveries,
         NEW k \in WebhookKinds, ReceiveWebhook(h, c, d, k)
  PROVE  FlowInv'
<1>1. UNCHANGED << ledgerVars, rows, shipments >>
  BY DEF ReceiveWebhook
<1>2. rows[d] \in Row /\ Backed(rows[d], d, RecordedTypes(d), shipments)
  BY DEF FlowInv, FlowTypeOK, RowsBacked
<1> DEFINE Next(to) == Transition(rows[d], to)
<1>3. \A to \in { "assigned", "cancelled" } :
        Next(to) \in Row /\ Backed(Next(to), d, RecordedTypes(d), shipments)
  BY <1>2, TransitionBacked
<1> HIDE DEF Next
<1>4. CASE k = "RiderAssigned"
  <2>1. k \in DOMAIN WebhookRequest
    BY <1>4 DEF WebhookRequest
  <2>2. WebhookRequest[k] \in Requests
    BY <2>1, WebhookRequestsAssumption
  <2> DEFINE r == IF rows[d].state = "pending" THEN Next("assigned") ELSE rows[d]
  <2>3. Start(h, "save_rider", d, WebhookRequest[k], r)
    BY <1>4 DEF ReceiveWebhook, Next
  <2>4. r \in Row /\ Backed(r, d, RecordedTypes(d), shipments)
    BY <1>2, <1>3
  <2> HIDE DEF r
  <2>5. "save_rider" \in PC \ {"idle", "tail", "append"}
    BY DEF PC
  <2>. QED BY <1>1, <2>2, <2>3, <2>4, <2>5, StartInv
<1>5. CASE k = "ShipmentCancelled"
  <2> DEFINE r == IF CanCancel(rows[d].state) THEN Next("cancelled") ELSE rows[d]
  <2>. "ShipmentCancelled" \notin DOMAIN WebhookRequest
    BY DEF WebhookRequest
  <2>1. Start(h, "save_cancel", d, NoJob, r)
    BY <1>5 DEF ReceiveWebhook, Next
  <2>2. r \in Row /\ Backed(r, d, RecordedTypes(d), shipments)
    BY <1>2, <1>3
  <2> HIDE DEF r
  <2>3. "save_cancel" \in PC \ {"idle", "tail", "append"}
        /\ "save_cancel" \notin HasWant
    BY DEF PC, HasWant
  <2>. QED BY <1>1, <2>1, <2>2, <2>3, StartInv
<1>6. CASE k \in DOMAIN WebhookRequest \ {"RiderAssigned"} /\ k # "ShipmentCancelled"
  <2>1. WebhookRequest[k] \in Requests
    BY <1>6, WebhookRequestsAssumption
  <2>2. Start(h, "get", d, WebhookRequest[k], NoJob)
    BY <1>6 DEF ReceiveWebhook
  <2>3. "get" \in PC \ {"idle", "tail", "append"} /\ "get" \notin HasCopy
    BY DEF PC, HasCopy
  <2>. QED BY <1>1, <2>1, <2>2, <2>3, StartInv
<1>7. CASE k \notin DOMAIN WebhookRequest \cup {"RiderAssigned", "ShipmentCancelled"}
  BY <1>7 DEF ReceiveWebhook
<1>. QED BY <1>4, <1>5, <1>6, <1>7

LEMMA StartDispatchInv ==
  ASSUME FlowInv, NEW h \in Handlers, NEW d \in Deliveries, StartDispatch(h, d)
  PROVE  FlowInv'
<1>1. rows[d] \in Row /\ Backed(rows[d], d, RecordedTypes(d), shipments)
  BY DEF FlowInv, FlowTypeOK, RowsBacked
<1>2. "create" \in PC \ {"idle", "tail", "append"} /\ "create" \notin HasWant
  BY DEF PC, HasWant
<1>. QED BY <1>1, <1>2, StartInv DEF StartDispatch

(* SaveCancel, SaveDelivery and SaveDispatch.                              *)
LEMMA SaveInv ==
  ASSUME FlowInv, NEW h \in Handlers,
         SaveCancel(h) \/ SaveDelivery(h) \/ SaveDispatch(h)
  PROVE  FlowInv'
<1>1. /\ SaveCopy(h) /\ Finish(h) /\ pc[h] \in HasCopy
      /\ UNCHANGED << ledgerVars, shipments >>
  BY DEF SaveCancel, SaveDelivery, SaveDispatch, HasCopy
<1>. QED BY <1>1, LedgerUnchanged, FinishInv

LEMMA SaveRiderInv ==
  ASSUME FlowInv, NEW h \in Handlers, SaveRider(h)
  PROVE  FlowInv'
<1>1. /\ pc[h] = "save_rider" /\ pc' = [pc EXCEPT ![h] = "get"]
      /\ rows' = [rows EXCEPT ![job[h]] = copy[h]]
      /\ UNCHANGED << ledgerVars, shipments, job, want, copy >>
  BY DEF SaveRider, SaveCopy
<1>2. /\ Inv' /\ LedgerTypeOK' /\ log' = log /\ pend' = pend
      /\ \A c \in Deliveries : RecordedTypes(c)' = RecordedTypes(c)
  BY <1>1, LedgerUnchanged
<1>3. /\ copy[h] \in Row /\ job[h] \in Deliveries /\ want[h] \in Requests
      /\ Backed(copy[h], job[h], RecordedTypes(job[h]), shipments)
  BY <1>1 DEF FlowInv, HandlerOK, CopyBacked, HasCopy, HasWant
<1>4. FlowTypeOK'
  BY <1>1, <1>2, <1>3 DEF FlowInv, FlowTypeOK, PC
<1>5. RowsBacked'
  BY <1>1, <1>2, <1>3 DEF FlowInv, FlowTypeOK, RowsBacked, RecordedTypes
<1>6. /\ pc'[h] = "get"
      /\ \A g \in Handlers \ {h} : pc'[g] = pc[g]
  BY <1>1 DEF FlowInv, FlowTypeOK
<1>7. \A g \in Handlers \ {h} : HandlerOK(g)' /\ CopyBacked(g)'
  BY <1>1, <1>2, <1>6, OthersUndisturbed
<1>8. HandlerOK(h)' /\ CopyBacked(h)'
  BY <1>1, <1>3, <1>6 DEF HandlerOK, CopyBacked, HasCopy, HasWant
<1>. QED BY <1>2, <1>4, <1>5, <1>7, <1>8 DEF FlowInv

LEMMA LoadDeliveryInv ==
  ASSUME FlowInv, NEW h \in Handlers, LoadDelivery(h)
  PROVE  FlowInv'
<1>1. pc[h] = "get" /\ UNCHANGED << ledgerVars, rows, shipments >>
  BY DEF LoadDelivery
<1>2. /\ Inv' /\ LedgerTypeOK' /\ log' = log /\ pend' = pend
      /\ \A c \in Deliveries : RecordedTypes(c)' = RecordedTypes(c)
  BY <1>1, LedgerUnchanged
<1>3. CASE Validate(want[h])
  <2>1. /\ copy' = [copy EXCEPT ![h] = rows[job[h]]]
        /\ pc' = [pc EXCEPT ![h] = "tail"]
        /\ UNCHANGED << job, want >>
    BY <1>3 DEF LoadDelivery
  <2>2. job[h] \in Deliveries /\ want[h] \in Requests
    BY <1>1 DEF FlowInv, HandlerOK, HasWant
  <2>3. /\ rows[job[h]] \in Row
        /\ Backed(rows[job[h]], job[h], RecordedTypes(job[h]), shipments)
    BY <2>2 DEF FlowInv, FlowTypeOK, RowsBacked
  <2>4. FlowTypeOK'
    BY <1>1, <1>2, <2>1, <2>3 DEF FlowInv, FlowTypeOK, PC
  <2>5. RowsBacked'
    BY <1>1, <1>2 DEF FlowInv, RowsBacked
  <2>6. /\ pc'[h] = "tail" /\ copy'[h] = rows[job[h]]
        /\ \A g \in Handlers \ {h} : pc'[g] = pc[g] /\ copy'[g] = copy[g]
    BY <2>1 DEF FlowInv, FlowTypeOK
  <2>7. \A g \in Handlers \ {h} : HandlerOK(g)' /\ CopyBacked(g)'
    BY <1>1, <1>2, <2>1, <2>6, OthersUndisturbed
  <2>8. HandlerOK(h)' /\ CopyBacked(h)'
    BY <1>1, <1>2, <1>3, <2>1, <2>2, <2>3, <2>6
       DEF HandlerOK, CopyBacked, RecordedTypes, HasCopy, HasWant
  <2>. QED BY <1>2, <2>4, <2>5, <2>7, <2>8 DEF FlowInv
<1>4. CASE ~Validate(want[h])
  <2>1. Finish(h)
    BY <1>4 DEF LoadDelivery
  <2>. QED BY <1>1, <1>2, <2>1, FinishInv
<1>. QED BY <1>3, <1>4

LEMMA ReadLedgerTailInv ==
  ASSUME FlowInv, NEW h \in Handlers, ReadLedgerTail(h)
  PROVE  FlowInv'
<1>1. /\ pc[h] = "tail" /\ ReadTail(h, job[h], want[h])
      /\ pc' = [pc EXCEPT ![h] = "append"]
      /\ UNCHANGED << rows, shipments, job, want, copy >>
  BY DEF ReadLedgerTail
<1>2. /\ job[h] \in Deliveries /\ want[h] \in Requests /\ copy[h] \in Row
      /\ Backed(copy[h], job[h], RecordedTypes(job[h]), shipments)
  BY <1>1 DEF FlowInv, HandlerOK, CopyBacked, HasCopy, HasWant
<1>3. Inv'
  BY <1>1, <1>2, ReadTailInv DEF FlowInv, Handlers
<1> DEFINE p == [id |-> issued, delivery |-> job[h], req |-> want[h]]
           e == NextEvent(log[job[h]], p)
<1>4. log' = log /\ pend' = [pend EXCEPT ![h] = e]
  BY <1>1 DEF ReadTail
<1>5. e \in Event /\ e.payload = p
  BY <1>2, NextEventType DEF FlowInv, FlowTypeOK, LedgerTypeOK, Payload
<1>6. p.delivery = job[h] /\ p.req = want[h] /\ e # NoEvent
  BY <1>5, NoEventAssumption
<1> HIDE DEF p, e
<1>7. /\ pend'[h] = e /\ pc'[h] = "append"
      /\ \A g \in Handlers \ {h} : pend'[g] = pend[g] /\ pc'[g] = pc[g]
  BY <1>1, <1>4 DEF FlowInv, FlowTypeOK, LedgerTypeOK, Handlers
<1>8. \A c \in Deliveries : RecordedTypes(c)' = RecordedTypes(c)
  BY <1>4, RecordedTypesUnchanged
<1>9. FlowTypeOK'
  BY <1>1, <1>3 DEF FlowInv, FlowTypeOK, Inv, PC
<1>10. RowsBacked'
  BY <1>1, <1>8 DEF FlowInv, RowsBacked
<1>11. \A g \in Handlers \ {h} : HandlerOK(g)' /\ CopyBacked(g)'
  BY <1>1, <1>7, <1>8, OthersUndisturbed
<1>12. HandlerOK(h)' /\ CopyBacked(h)'
  BY <1>1, <1>2, <1>4, <1>5, <1>6, <1>7
     DEF HandlerOK, CopyBacked, RecordedTypes, HasCopy, HasWant
<1>. QED BY <1>3, <1>9, <1>10, <1>11, <1>12 DEF FlowInv

LEMMA AppendToLedgerInv ==
  ASSUME FlowInv, NEW h \in Handlers, AppendToLedger(h)
  PROVE  FlowInv'
<1>1. pc[h] = "append" /\ AppendOK(h) /\ UNCHANGED << rows, shipments >>
  BY DEF AppendToLedger
<1>2. Inv'
  BY <1>1, AppendOKInv DEF FlowInv, Handlers
<1>3. \A c \in Deliveries :
        /\ RecordedTypes(c) \subseteq RecordedTypes(c)'
        /\ pend[h].payload.delivery = c =>
             pend[h].payload.req.type \in RecordedTypes(c)'
  BY <1>1, RecordedTypesGrow DEF FlowInv, Handlers
<1>4. \A g \in Handlers \ {h} : pend'[g] = pend[g]
  BY <1>1 DEF FlowInv, FlowTypeOK, LedgerTypeOK, AppendOK, Handlers
<1>5. CASE Applies(copy[h], want[h].type)
  <2> DEFINE r == Applied(copy[h], want[h].type)
  <2>1. /\ copy' = [copy EXCEPT ![h] = r]
        /\ pc' = [pc EXCEPT ![h] = "save"]
        /\ UNCHANGED << job, want >>
    BY <1>5 DEF AppendToLedger
  <2>2. /\ job[h] \in Deliveries /\ want[h] \in Requests /\ copy[h] \in Row
        /\ Backed(copy[h], job[h], RecordedTypes(job[h]), shipments)
        /\ pend[h].payload.delivery = job[h] /\ pend[h].payload.req = want[h]
    BY <1>1 DEF FlowInv, HandlerOK, CopyBacked, HasCopy, HasWant
  <2>3. /\ want[h].type \in TypesOf(log'[job[h]])
        /\ RecordedTypes(job[h]) \subseteq TypesOf(log'[job[h]])
    BY <1>3, <2>2 DEF RecordedTypes
  <2>4. Backed(copy[h], job[h], TypesOf(log'[job[h]]), shipments)
    BY <2>2, <2>3, BackedStable
  <2>5. r \in Row /\ Backed(r, job[h], TypesOf(log'[job[h]]), shipments)
    BY <1>5, <2>2, <2>3, <2>4, AppliedBacked
  <2> HIDE DEF r
  <2>6. /\ pc'[h] = "save" /\ copy'[h] = r
        /\ \A g \in Handlers \ {h} : pc'[g] = pc[g] /\ copy'[g] = copy[g]
    BY <2>1 DEF FlowInv, FlowTypeOK
  <2>7. FlowTypeOK'
    BY <1>1, <1>2, <2>1, <2>5 DEF FlowInv, FlowTypeOK, Inv, PC
  <2>8. RowsBacked'
    <3>1. \A c \in Deliveries : Backed(rows[c], c, TypesOf(log'[c]), shipments)
      BY <1>3, BackedStable DEF FlowInv, RowsBacked, RecordedTypes
    <3>. QED BY <1>1, <3>1 DEF RowsBacked, RecordedTypes
  <2>9. \A g \in Handlers \ {h} : HandlerOK(g)' /\ CopyBacked(g)'
    BY <1>1, <1>3, <1>4, <2>1, <2>6, OthersUndisturbed
  <2>10. HandlerOK(h)' /\ CopyBacked(h)'
    BY <1>1, <2>1, <2>2, <2>5, <2>6
       DEF HandlerOK, CopyBacked, RecordedTypes, HasCopy, HasWant
  <2>. QED BY <1>2, <2>7, <2>8, <2>9, <2>10 DEF FlowInv
<1>6. CASE ~Applies(copy[h], want[h].type)
  <2>1. Finish(h)
    BY <1>6 DEF AppendToLedger
  <2>. QED BY <1>1, <1>2, <1>3, <1>4, <2>1, FinishInv
<1>. QED BY <1>5, <1>6

LEMMA CreateShipmentInv ==
  ASSUME FlowInv, NEW h \in Handlers, NEW c \in Carriers, CreateShipment(h, c)
  PROVE  FlowInv'
<1> DEFINE r == [copy[h] EXCEPT !.shipment = c]
           t == Transition(r, "assigned")
<1>1. /\ pc[h] = "create"
      /\ shipments' = shipments \cup { << c, job[h] >> }
      /\ copy' = [copy EXCEPT ![h] = t]
      /\ pc' = [pc EXCEPT ![h] = "save_dispatch"]
      /\ UNCHANGED << ledgerVars, rows, job, want >>
  BY DEF CreateShipment, FlowInv, FlowTypeOK
<1>2. /\ Inv' /\ LedgerTypeOK' /\ log' = log /\ pend' = pend
      /\ \A d \in Deliveries : RecordedTypes(d)' = RecordedTypes(d)
  BY <1>1, LedgerUnchanged
<1>3. /\ copy[h] \in Row /\ job[h] \in Deliveries /\ copy[h].state = "pending"
      /\ RowCoherent(copy[h])
  BY <1>1 DEF FlowInv, HandlerOK, CopyBacked, HasCopy, Backed
<1>4. /\ r.state = "pending" /\ r.shipment = c
      /\ r.pickedUp = copy[h].pickedUp /\ r.dropped = copy[h].dropped
  BY <1>3 DEF Row
<1>5. t = Moved(r, "assigned")
  BY <1>4 DEF Transition, CanTransition, allowedTransitions
<1>6. /\ t.state = "assigned" /\ t.shipment = c
      /\ t.pickedUp = copy[h].pickedUp /\ t.dropped = copy[h].dropped
      /\ t \in Row
  <2>1. copy[h].pickedUp \in BOOLEAN /\ copy[h].dropped \in BOOLEAN
    BY <1>3 DEF Row
  <2> HIDE DEF r, t
  <2>. QED BY <1>4, <1>5, <2>1 DEF Moved, Row, State
<1> HIDE DEF r, t
<1>7. Backed(t, job[h], RecordedTypes(job[h]), shipments')
  BY <1>1, <1>3, <1>6, NeededForNothing DEF Backed, RowCoherent, HoldsPackage
<1>8. /\ pc'[h] = "save_dispatch" /\ copy'[h] = t
      /\ \A g \in Handlers \ {h} : pc'[g] = pc[g] /\ copy'[g] = copy[g]
  BY <1>1 DEF FlowInv, FlowTypeOK
<1>9. FlowTypeOK'
  BY <1>1, <1>2, <1>3, <1>6 DEF FlowInv, FlowTypeOK, PC
<1>10. RowsBacked'
  <2>1. \A d \in Deliveries : Backed(rows[d], d, RecordedTypes(d), shipments')
    BY <1>1, BackedStable DEF FlowInv, RowsBacked
  <2>. QED BY <1>1, <1>2, <2>1 DEF RowsBacked
<1>11. \A g \in Handlers \ {h} : HandlerOK(g)' /\ CopyBacked(g)'
  BY <1>1, <1>2, <1>8, OthersUndisturbed
<1>12. HandlerOK(h)' /\ CopyBacked(h)'
  BY <1>1, <1>2, <1>3, <1>6, <1>7, <1>8
     DEF HandlerOK, CopyBacked, RecordedTypes, HasCopy, HasWant
<1>. QED BY <1>2, <1>9, <1>10, <1>11, <1>12 DEF FlowInv

LEMMA AbandonInv ==
  ASSUME FlowInv, NEW h \in Handlers, Abandon(h)
  PROVE  FlowInv'
<1>1. Finish(h) /\ UNCHANGED << rows, shipments >>
  BY DEF Abandon
<1>2. CASE pc[h] = "append"
  <2>1. AppendFails(h)
    BY <1>2 DEF Abandon
  <2>2. Inv'
    BY <2>1, AppendFailsInv DEF FlowInv, Handlers
  <2>3. log' = log /\ \A g \in Handlers \ {h} : pend'[g] = pend[g]
    BY <2>1 DEF AppendFails, FlowInv, FlowTypeOK, LedgerTypeOK, Handlers
  <2>4. \A c \in Deliveries : RecordedTypes(c)' = RecordedTypes(c)
    BY <2>3, RecordedTypesUnchanged
  <2>. QED BY <1>1, <2>2, <2>3, <2>4, FinishInv
<1>3. CASE pc[h] # "append"
  <2>1. UNCHANGED ledgerVars
    BY <1>3 DEF Abandon
  <2>. QED BY <1>1, <2>1, LedgerUnchanged, FinishInv
<1>. QED BY <1>2, <1>3

LEMMA FlowStepInv == FlowInv /\ [FlowNext]_vars => FlowInv'
<1> SUFFICES ASSUME FlowInv, [FlowNext]_vars PROVE FlowInv'
  OBVIOUS
<1>1. CASE FlowNext
  <2>1. PICK h \in Handlers :
          \/ \E d \in Deliveries :
               \/ \E q \in Requests : ReceiveCheckpoint(h, d, q)
               \/ \E c \in Carriers, k \in WebhookKinds : ReceiveWebhook(h, c, d, k)
               \/ StartDispatch(h, d)
          \/ HandlerStep(h)
          \/ Abandon(h)
    BY <1>1 DEF FlowNext, Arrives
  <2>2. CASE HandlerStep(h)
    BY <2>2, SaveRiderInv, SaveInv, LoadDeliveryInv, ReadLedgerTailInv,
       AppendToLedgerInv, CreateShipmentInv DEF HandlerStep
  <2>. QED BY <2>1, <2>2, ReceiveCheckpointInv, ReceiveWebhookInv,
              StartDispatchInv, AbandonInv
<1>2. CASE UNCHANGED vars
  <2>1. UNCHANGED ledgerVars /\ UNCHANGED << rows, shipments, pc, job, want, copy >>
    BY <1>2 DEF vars, flowVars
  <2>2. /\ Inv' /\ LedgerTypeOK' /\ pend' = pend
        /\ \A c \in Deliveries : RecordedTypes(c)' = RecordedTypes(c)
    BY <2>1, LedgerUnchanged
  <2>3. \A h \in Handlers : HandlerOK(h)' /\ CopyBacked(h)'
    BY <2>1, <2>2 DEF FlowInv, HandlerOK, CopyBacked, RecordedTypes, ledgerVars
  <2>. QED BY <2>1, <2>2, <2>3 DEF FlowInv, FlowTypeOK, RowsBacked
<1>. QED BY <1>1, <1>2

(* The inductive invariant holds throughout every run of the system.       *)
THEOREM FlowInvariant == FlowSpec => []FlowInv
BY FlowInitInv, FlowStepInv, PTL DEF FlowSpec

-----------------------------------------------------------------------------
(* Type correctness of rows, handlers and ledger.                          *)
THEOREM FlowTypeCorrect == FlowSpec => []FlowTypeOK
<1>1. FlowInv => FlowTypeOK
  BY DEF FlowInv
<1>. QED BY <1>1, FlowInvariant, PTL

(* Whatever handlers overwrite, abandon or act on stale copies of, a row   *)
(* never claims a pickup, delivery or failure the ledger has no evidence   *)
(* of (custodyapp.Record appends before it saves).                         *)
THEOREM EvidenceBehindEveryState == FlowSpec => []StateHasEvidence
<1>1. FlowInv => StateHasEvidence
  BY DEF FlowInv, RowsBacked, Backed, StateHasEvidence
<1>. QED BY <1>1, FlowInvariant, PTL

(* Last-writer-wins saves never tear the fields of a row apart             *)
(* (Repository.Save writes every column of one in-memory Delivery).        *)
THEOREM RowsStayCoherent == FlowSpec => []RowsCoherent
<1>1. FlowInv => RowsCoherent
  BY DEF FlowInv, RowsBacked, Backed, RowsCoherent
<1>. QED BY <1>1, FlowInvariant, PTL

(* A persisted carrier reference always names an accepted shipment         *)
(* (DispatchDelivery saves after CreateShipment has answered).             *)
THEOREM ShipmentsAreReal == FlowSpec => []ShipmentBacked
<1>1. FlowInv => ShipmentBacked
  BY DEF FlowInv, RowsBacked, Backed, ShipmentBacked
<1>. QED BY <1>1, FlowInvariant, PTL

-----------------------------------------------------------------------------
(* Every step of the system is a step of the ledger or leaves it alone.    *)
LEMMA FlowLedgerStep == FlowInv /\ [FlowNext]_vars => [LedgerNext]_ledgerVars
<1> SUFFICES ASSUME FlowInv, FlowNext PROVE [LedgerNext]_ledgerVars
  BY DEF vars
<1>1. PICK h \in Handlers :
        \/ \E d \in Deliveries :
             \/ \E q \in Requests : ReceiveCheckpoint(h, d, q)
             \/ \E c \in Carriers, k \in WebhookKinds : ReceiveWebhook(h, c, d, k)
             \/ StartDispatch(h, d)
        \/ HandlerStep(h)
        \/ Abandon(h)
  BY DEF FlowNext, Arrives
<1>2. CASE ReadLedgerTail(h)
  <2>1. /\ ReadTail(h, job[h], want[h])
        /\ job[h] \in Deliveries /\ want[h] \in Requests
    BY <1>2 DEF ReadLedgerTail, FlowInv, HandlerOK, HasWant
  <2>. QED BY <2>1 DEF LedgerNext, Handlers
<1>3. CASE AppendToLedger(h)
  BY <1>3 DEF AppendToLedger, LedgerNext, Handlers
<1>4. CASE Abandon(h)
  BY <1>4 DEF Abandon, LedgerNext, Handlers
<1>5. CASE \/ \E d \in Deliveries :
               \/ \E q \in Requests : ReceiveCheckpoint(h, d, q)
               \/ \E c \in Carriers, k \in WebhookKinds : ReceiveWebhook(h, c, d, k)
               \/ StartDispatch(h, d)
           \/ SaveRider(h) \/ SaveCancel(h) \/ LoadDelivery(h) \/ SaveDelivery(h)
           \/ SaveDispatch(h) \/ \E c \in Carriers : CreateShipment(h, c)
  BY <1>5 DEF ReceiveCheckpoint, ReceiveWebhook, StartDispatch, SaveRider, SaveCancel,
              LoadDelivery, SaveDelivery, SaveDispatch, CreateShipment
<1>. QED BY <1>1, <1>2, <1>3, <1>4, <1>5 DEF HandlerStep

(* The handlers use the ledger as CustodyLedger says it is used, so what   *)
(* is proved of the ledger holds of the whole system.                      *)
THEOREM FlowImplementsLedger == FlowSpec => LedgerSpec
<1>1. FlowInit => LedgerInit
  BY DEF FlowInit
<1>. QED BY <1>1, FlowLedgerStep, FlowInvariant, PTL DEF FlowSpec, LedgerSpec

(* In either store, whatever handlers race, give up or die: the ledger of  *)
(* the whole system records in single steps, at the end of one history,    *)
(* and loses, moves and repeats nothing (Ledger.Record, Append).           *)
THEOREM FlowImplementsAppendOnly == FlowSpec => ImplementsAppendOnly
BY FlowImplementsLedger, LedgerImplementsAppendOnly

(* With the UNIQUE constraint, Ledger.Verify never reports a broken chain  *)
(* while riders, carriers and dispatch race on one delivery.               *)
THEOREM FlowChainVerifies ==
  ASSUME Store = "postgres"
  PROVE  FlowSpec => []ChainVerifies
BY FlowImplementsLedger, PostgresChainVerifies, PTL

=============================================================================
