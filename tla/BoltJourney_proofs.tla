------------------------- MODULE BoltJourney_proofs -------------------------
(***************************************************************************)
(* Proofs about BoltJourney, for any number of handlers, deliveries,       *)
(* attempts and faults.                                                    *)
(*                                                                         *)
(* Every step of the composition is a step of DeliveryFlow, or one of Bolt *)
(* alone, so what is proved of DeliveryFlow holds here.  NeverAhead needs  *)
(* more: Truthful says of every copy and of every event in flight what it  *)
(* says of the rows and of the ledger.  It is inductive because what has   *)
(* happened to an order only grows.                                        *)
(***************************************************************************)
EXTENDS BoltJourney, DeliverySerial_proofs

WantTrue(h) == pc[h] \in HasWant => IsTrue(job[h], want[h])

CopyTrue(h) == pc[h] \in HasCopy => copy[h].state \in Known(job[h])

LogTrue(d) == \A i \in 1..Len(log[d]) : IsTrue(d, log[d][i].payload.req)

Truthful ==
  /\ happened \in [Deliveries -> SUBSET BoltEvent]
  /\ NeverAhead
  /\ \A h \in Handlers : WantTrue(h) /\ CopyTrue(h)

-----------------------------------------------------------------------------
(* The mapper.                                                             *)

(* What a webhook is turned into moves the row to the state Bolt answers   *)
(* when it is polled after the event.                                      *)
LEMMA MapperAgrees ==
  ASSUME NEW e \in BoltEvent, NEW k \in ToDomainEvents(e)
  PROVE  /\ k \in DOMAIN WebhookRequest =>
              /\ WebhookRequest[k].type \in DOMAIN EventTarget
              /\ EventTarget[WebhookRequest[k].type] = Polled(e)
         /\ k = "ShipmentCancelled" => Polled(e) = "cancelled"
         /\ k = "RiderAssigned" => Polled(e) = "assigned"
<1>1. CASE e = "assigned"
  <2>1. k \in { "RiderAssigned", "RiderAssignedNoID" } /\ Polled(e) = "assigned"
    BY <1>1 DEF ToDomainEvents, Polled
  <2>2. WebhookRequest[k].type = "rider.assigned"
    BY <2>1 DEF WebhookRequest
  <2>. QED BY <2>1, <2>2 DEF EventTarget
<1>2. CASE e = "arrived_at_pickup"
  <2>1. k = "RiderArrivedAtPickup" /\ Polled(e) = "en_route_pickup"
    BY <1>2 DEF ToDomainEvents, Polled
  <2>2. WebhookRequest[k].type = "rider.arrived_at_locker"
    BY <2>1 DEF WebhookRequest
  <2>. QED BY <2>1, <2>2 DEF EventTarget
<1>3. CASE e = "picked_up"
  <2>1. k = "PackagePickedUp" /\ Polled(e) = "picked_up"
    BY <1>3 DEF ToDomainEvents, Polled
  <2>2. WebhookRequest[k].type = "package.picked_up"
    BY <2>1 DEF WebhookRequest
  <2>. QED BY <2>1, <2>2 DEF EventTarget
<1>4. CASE e = "delivered"
  <2>1. k = "PackageDelivered" /\ Polled(e) = "delivered"
    BY <1>4 DEF ToDomainEvents, Polled
  <2>2. WebhookRequest[k].type = "package.delivered"
    BY <2>1 DEF WebhookRequest
  <2>. QED BY <2>1, <2>2 DEF EventTarget
<1>5. CASE e = "failed"
  <2>1. k = "DeliveryFailed" /\ Polled(e) = "failed"
    BY <1>5 DEF ToDomainEvents, Polled
  <2>2. WebhookRequest[k].type = "delivery.failed"
    BY <2>1 DEF WebhookRequest
  <2>. QED BY <2>1, <2>2 DEF EventTarget
<1>6. CASE e = "cancelled"
  <2>1. k = "ShipmentCancelled" /\ Polled(e) = "cancelled"
    BY <1>6 DEF ToDomainEvents, Polled
  <2>. QED BY <2>1 DEF WebhookRequest
<1>7. CASE e = "in_transit"
  <2>1. k = "RiderInTransit"
    BY <1>7 DEF ToDomainEvents
  <2>. QED BY <2>1 DEF WebhookRequest
<1>8. CASE e = "arrived_at_drop"
  <2>1. k = "RiderArrivedAtDestination"
    BY <1>8 DEF ToDomainEvents
  <2>. QED BY <2>1 DEF WebhookRequest
<1>. QED BY <1>1, <1>2, <1>3, <1>4, <1>5, <1>6, <1>7, <1>8 DEF BoltEvent

-----------------------------------------------------------------------------
(* The composition and the flow.                                           *)

(* Nothing that has happened to an order is taken back. *)
LEMMA JourneyStepIsFlowStep ==
  ASSUME JourneyNext
  PROVE  /\ FlowNext \/ UNCHANGED vars
         /\ UNCHANGED happened
              \/ \E d \in Deliveries, e \in BoltEvent :
                   happened' = [happened EXCEPT ![d] = @ \cup {e}]
<1>1. CASE Outside
  BY <1>1 DEF Outside, Happen, Ignore
<1>2. ASSUME NEW h \in Handlers, NEW d \in Deliveries, Begins(h, d)
      PROVE  Arrives(h, d) /\ UNCHANGED happened
  <2>1. ASSUME NEW e \in BoltEvent, Deliver(h, d, e)
        PROVE  Arrives(h, d) /\ UNCHANGED happened
    BY <2>1, BoltAssumption DEF Deliver, Arrives
  <2>2. ASSUME NEW q \in Requests, Checkpoint(h, d, q)
        PROVE  Arrives(h, d) /\ UNCHANGED happened
    BY <2>2 DEF Checkpoint, Arrives, postVars
  <2>3. CASE Dispatch(h, d)
    BY <2>3 DEF Dispatch, Arrives, postVars
  <2>. QED BY <1>2, <2>1, <2>2, <2>3 DEF Begins
<1>3. ASSUME NEW h \in Handlers, Work(h) \/ GiveUp(h) \/ Die(h)
      PROVE  (HandlerStep(h) \/ Abandon(h)) /\ UNCHANGED happened
  BY <1>3 DEF Work, GiveUp, Die
<1>. QED BY <1>1, <1>2, <1>3 DEF JourneyNext, FlowNext

LEMMA RetryStepIsJourneyStep ==
  ASSUME RetryNext
  PROVE  JourneyNext
BY DEF RetryNext, JourneyNext

LEMMA RetryStepIsSerialStep ==
  ASSUME RetryNext
  PROVE  SerialNext \/ UNCHANGED vars
<1>1. CASE Outside
  BY <1>1 DEF Outside, Happen, Ignore
<1>2. ASSUME NEW h \in Handlers, NEW d \in Deliveries, Begins(h, d)
      PROVE  Arrives(h, d)
  <2>1. ASSUME NEW e \in BoltEvent, Deliver(h, d, e) PROVE Arrives(h, d)
    BY <2>1, BoltAssumption DEF Deliver, Arrives
  <2>2. ASSUME NEW q \in Requests, Checkpoint(h, d, q) PROVE Arrives(h, d)
    BY <2>2 DEF Checkpoint, Arrives
  <2>3. CASE Dispatch(h, d)
    BY <2>3 DEF Dispatch, Arrives
  <2>. QED BY <1>2, <2>1, <2>2, <2>3 DEF Begins
<1>3. ASSUME NEW h \in Handlers, Work(h) \/ GiveUp(h) \/ Die(h)
      PROVE  HandlerStep(h) \/ Abandon(h)
  BY <1>3 DEF Work, GiveUp, Die
<1>. QED BY <1>1, <1>2, <1>3 DEF RetryNext, SerialNext

(* Deliveries on their way with Bolt are a case of DeliveryFlow, so the    *)
(* rows' evidence, the chain of the ledger and all else proved of FlowSpec *)
(* hold whatever Bolt repeats and whenever the listener dies.              *)
THEOREM JourneyImplementsFlow == JourneySpec => FlowSpec
<1>1. JourneyInit => FlowInit
  BY DEF JourneyInit
<1>2. [JourneyNext]_journeyVars => [FlowNext]_vars
  BY JourneyStepIsFlowStep DEF journeyVars
<1>. QED BY <1>1, <1>2, PTL DEF JourneySpec, FlowSpec

LEMMA RetryImplementsSerial == RetrySpec => SerialSpec
<1>1. JourneyInit => FlowInit
  BY DEF JourneyInit
<1>2. [RetryNext]_journeyVars => [SerialNext]_vars
  BY RetryStepIsSerialStep DEF journeyVars
<1>. QED BY <1>1, <1>2, PTL DEF RetrySpec, SerialSpec

(* When a delivery's handlers do not overlap, retried webhooks and dying   *)
(* processes leave its persisted state on the graph of state.go.           *)
THEOREM RetriesKeepLifecycle == RetrySpec => ImplementsLifecycle
BY RetryImplementsSerial, SerialImplementsLifecycle

(* They leave its chain of custody intact too, in either store: an event   *)
(* that is recorded again after a crash continues the chain the crash left *)
(* (Ledger.Record, service.go:60).                                         *)
THEOREM RetriesKeepTheChain == RetrySpec => []ChainVerifies
BY RetryImplementsSerial, SerialChainVerifies

-----------------------------------------------------------------------------
(* NeverAhead.                                                             *)

LEMMA KnownMembers ==
  ASSUME NEW d
  PROVE  /\ "pending" \in Known(d)
         /\ << Bolt, d >> \in shipments => "assigned" \in Known(d)
         /\ \A e \in happened[d] : Polled(e) \in Known(d)
BY DEF Known, StatesSeen, IsPlaced

(* Shipments are never withdrawn, and events never unhappen. *)
KnownGrow ==
  /\ happened' \in [Deliveries -> SUBSET BoltEvent]
  /\ \A d \in Deliveries : Known(d) \subseteq Known(d)'

LEMMA KnownGrows ==
  ASSUME Truthful, [JourneyNext]_journeyVars
  PROVE  KnownGrow
<1>1. shipments \subseteq shipments'
  <2>1. CASE FlowNext
    BY <2>1 DEF FlowNext, Arrives, ReceiveCheckpoint, ReceiveWebhook, StartDispatch,
                HandlerStep, SaveRider, SaveCancel, LoadDelivery, ReadLedgerTail,
                AppendToLedger, SaveDelivery, CreateShipment, SaveDispatch, Abandon
  <2>2. CASE UNCHANGED vars
    BY <2>2 DEF vars, flowVars
  <2>. QED BY <2>1, <2>2, JourneyStepIsFlowStep DEF journeyVars
<1>2. /\ happened' \in [Deliveries -> SUBSET BoltEvent]
      /\ \A d \in Deliveries : happened[d] \subseteq happened'[d]
  <2>1. CASE UNCHANGED happened
    BY <2>1 DEF Truthful
  <2>2. ASSUME NEW d \in Deliveries, NEW e \in BoltEvent,
               happened' = [happened EXCEPT ![d] = @ \cup {e}]
        PROVE  /\ happened' \in [Deliveries -> SUBSET BoltEvent]
               /\ \A c \in Deliveries : happened[c] \subseteq happened'[c]
    <3>1. happened \in [Deliveries -> SUBSET BoltEvent]
      BY DEF Truthful
    <3>. QED BY <2>2, <3>1
  <2>3. CASE JourneyNext
    BY <2>1, <2>2, <2>3, JourneyStepIsFlowStep
  <2>4. CASE UNCHANGED journeyVars
    BY <2>1, <2>4 DEF journeyVars, postVars
  <2>. QED BY <2>3, <2>4
<1>3. ASSUME NEW d \in Deliveries
      PROVE  Known(d) \subseteq Known(d)'
  BY <1>1, <1>2 DEF Known, StatesSeen, IsPlaced
<1>. QED BY <1>2, <1>3 DEF KnownGrow

(* What is true stays true. *)
LEMMA LogTrueUnchanged ==
  ASSUME Truthful, KnownGrow, UNCHANGED log
  PROVE  \A d \in Deliveries : LogTrue(d)'
BY DEF Truthful, NeverAhead, LogTrue, IsTrue, KnownGrow

LEMMA OthersTruthful ==
  ASSUME FlowInv, Truthful, KnownGrow, NEW h \in Handlers,
         \A g \in Handlers \ {h} :
           /\ pc'[g] = pc[g] /\ job'[g] = job[g]
           /\ want'[g] = want[g] /\ copy'[g] = copy[g]
  PROVE  \A g \in Handlers \ {h} : WantTrue(g)' /\ CopyTrue(g)'
<1>1. SUFFICES ASSUME NEW g \in Handlers \ {h}
               PROVE  WantTrue(g)' /\ CopyTrue(g)'
  OBVIOUS
<1>2. pc[g] \in HasWant \cup HasCopy => job[g] \in Deliveries
  BY DEF FlowInv, HandlerOK, HasWant, HasCopy
<1>4. WantTrue(g)'
  BY <1>1, <1>2 DEF Truthful, WantTrue, IsTrue, KnownGrow, Known, IsPlaced, StatesSeen
<1>5. CopyTrue(g)'
  BY <1>1, <1>2 DEF Truthful, CopyTrue, KnownGrow, Known, IsPlaced, StatesSeen
<1>. QED BY <1>4, <1>5

(* A handler starts on an event that is true, with a true copy. *)
LEMMA StartTruthful ==
  ASSUME FlowInv, Truthful, KnownGrow, NEW h \in Handlers, NEW at,
         NEW d \in Deliveries, NEW q, NEW r,
         Start(h, at, d, q, r), UNCHANGED << ledgerVars, rows, shipments >>,
         at \in HasWant => IsTrue(d, q),
         at \in HasCopy => r.state \in Known(d)
  PROVE  Truthful'
<1>1. /\ pc'[h] = at /\ job'[h] = d /\ want'[h] = q /\ copy'[h] = r
      /\ \A g \in Handlers \ {h} :
           /\ pc'[g] = pc[g] /\ job'[g] = job[g]
           /\ want'[g] = want[g] /\ copy'[g] = copy[g]
  BY DEF Start, FlowInv, FlowTypeOK
<1>2. \A c \in Deliveries : LogTrue(c)' /\ rows'[c].state \in Known(c)'
  BY LogTrueUnchanged DEF ledgerVars, Truthful, NeverAhead, KnownGrow
<1>3. WantTrue(h)'
  BY <1>1 DEF WantTrue, IsTrue, KnownGrow, Known, IsPlaced, StatesSeen
<1>4. CopyTrue(h)'
  BY <1>1 DEF CopyTrue, KnownGrow, Known, IsPlaced, StatesSeen
<1>. QED BY <1>1, <1>2, <1>3, <1>4, OthersTruthful
         DEF Truthful, NeverAhead, LogTrue, KnownGrow

(* A handler ends, with or without saving its copy first. *)
LEMMA FinishTruthful ==
  ASSUME FlowInv, Truthful, KnownGrow, NEW h \in Handlers, Finish(h),
         \A d \in Deliveries : LogTrue(d)',
         UNCHANGED rows \/ (SaveCopy(h) /\ pc[h] \in HasCopy)
  PROVE  Truthful'
<1>1. /\ pc'[h] = "idle"
      /\ \A g \in Handlers \ {h} :
           /\ pc'[g] = pc[g] /\ job'[g] = job[g]
           /\ want'[g] = want[g] /\ copy'[g] = copy[g]
  BY DEF Finish, FlowInv, FlowTypeOK
<1>2. \A d \in Deliveries : rows'[d].state \in Known(d)'
  BY DEF SaveCopy, FlowInv, FlowTypeOK, Truthful, NeverAhead, CopyTrue, KnownGrow
<1>3. WantTrue(h)' /\ CopyTrue(h)'
  BY <1>1 DEF WantTrue, CopyTrue, HasWant, HasCopy
<1>. QED BY <1>1, <1>2, <1>3, OthersTruthful
         DEF Truthful, NeverAhead, LogTrue, KnownGrow

(* A handler goes on. *)
LEMMA ContinueTruthful ==
  ASSUME FlowInv, Truthful, KnownGrow, NEW h \in Handlers,
         UNCHANGED job,
         \A g \in Handlers \ {h} :
           pc'[g] = pc[g] /\ want'[g] = want[g] /\ copy'[g] = copy[g],
         \A d \in Deliveries : LogTrue(d)' /\ rows'[d].state \in Known(d)',
         WantTrue(h)', CopyTrue(h)'
  PROVE  Truthful'
BY OthersTruthful DEF Truthful, NeverAhead, LogTrue, KnownGrow

(* A webhook about something that has happened starts a true handler.      *)
LEMMA DeliverTruthful ==
  ASSUME FlowInv, Truthful, KnownGrow, NEW h \in Handlers, NEW d \in Deliveries,
         NEW e \in BoltEvent, Deliver(h, d, e)
  PROVE  Truthful'
<1>1. PICK k \in ToDomainEvents(e) \cap WebhookKinds : ReceiveWebhook(h, Bolt, d, k)
  BY DEF Deliver
<1>2. UNCHANGED << ledgerVars, rows, shipments >>
  BY <1>1 DEF ReceiveWebhook
<1>3. /\ Polled(e) \in Known(d)
      /\ rows[d].state \in Known(d)
  BY KnownMembers DEF Deliver, IsPosted, Truthful, NeverAhead
<1>4. ASSUME k \in DOMAIN WebhookRequest PROVE IsTrue(d, WebhookRequest[k])
  BY <1>3, <1>4, MapperAgrees DEF IsTrue
<1>5. ASSUME NEW to, to = Polled(e) PROVE Transition(rows[d], to).state \in Known(d)
  BY <1>3, <1>5 DEF Transition, Moved
<1>6. CASE k = "RiderAssigned"
  <2> DEFINE r == IF rows[d].state = "pending"
                    THEN Transition(rows[d], "assigned") ELSE rows[d]
  <2>1. Start(h, "save_rider", d, WebhookRequest[k], r) /\ k \in DOMAIN WebhookRequest
    BY <1>1, <1>6 DEF ReceiveWebhook, WebhookRequest
  <2>2. r.state \in Known(d)
    BY <1>3, <1>5, <1>6, MapperAgrees
  <2> HIDE DEF r
  <2>. QED BY <1>2, <1>4, <2>1, <2>2, StartTruthful
<1>7. CASE k = "ShipmentCancelled"
  <2> DEFINE r == IF CanCancel(rows[d].state)
                    THEN Transition(rows[d], "cancelled") ELSE rows[d]
  <2>1. Start(h, "save_cancel", d, NoJob, r)
    BY <1>1, <1>7 DEF ReceiveWebhook, WebhookRequest
  <2>2. r.state \in Known(d)
    BY <1>3, <1>5, <1>7, MapperAgrees
  <2> HIDE DEF r
  <2>. QED BY <1>2, <2>1, <2>2, StartTruthful DEF HasWant
<1>8. CASE k \in DOMAIN WebhookRequest \ {"RiderAssigned"}
  <2>1. Start(h, "get", d, WebhookRequest[k], NoJob)
    BY <1>1, <1>8 DEF ReceiveWebhook, WebhookRequest
  <2>. QED BY <1>2, <1>4, <1>8, <2>1, StartTruthful DEF HasCopy
<1>. QED BY <1>1, <1>6, <1>7, <1>8 DEF ReceiveWebhook

LEMMA BeginsTruthful ==
  ASSUME FlowInv, Truthful, KnownGrow, NEW h \in Handlers, NEW d \in Deliveries,
         Begins(h, d)
  PROVE  Truthful'
<1>1. ASSUME NEW q \in Requests, Checkpoint(h, d, q) PROVE Truthful'
  <2>1. /\ IsTrue(d, q) /\ Start(h, "get", d, q, NoJob)
        /\ UNCHANGED << ledgerVars, rows, shipments >>
    BY <1>1 DEF Checkpoint, ReceiveCheckpoint
  <2>. QED BY <2>1, StartTruthful DEF HasCopy
<1>2. CASE Dispatch(h, d)
  <2>1. /\ Start(h, "create", d, NoJob, rows[d])
        /\ UNCHANGED << ledgerVars, rows, shipments >>
    BY <1>2 DEF Dispatch, StartDispatch
  <2>. QED BY <2>1, StartTruthful DEF HasWant, Truthful, NeverAhead
<1>. QED BY <1>1, <1>2, DeliverTruthful DEF Begins

(* Appending a true event leaves the ledger true. *)
LEMMA AppendLogTrue ==
  ASSUME FlowInv, Truthful, KnownGrow, NEW h \in Handlers, AppendToLedger(h),
         NEW c \in Deliveries
  PROVE  LogTrue(c)'
<1> DEFINE e == pend[h]
           d == e.payload.delivery
           s == log[d]
           t == Append(s, e)
<1>1. /\ e \in Event /\ d \in Deliveries /\ s \in Seq(Event)
      /\ log' = [log EXCEPT ![d] = t]
  <2>1. Inv /\ h \in Recorders /\ AppendOK(h)
    BY DEF AppendToLedger, FlowInv, Handlers
  <2>. QED BY <2>1, AppendOKAtEnd
<1>2. /\ Len(t) = Len(s) + 1 /\ t[Len(s) + 1] = e
      /\ \A i \in 1..Len(s) : t[i] = s[i]
      /\ Len(s) \in Nat
  <2> HIDE DEF e, s
  <2>. QED BY <1>1, AppendProperties, LenProperties
<1>3. /\ log'[d] = t
      /\ d # c => log'[c] = log[c]
  BY <1>1 DEF FlowInv, Inv, LedgerTypeOK
<1>4. /\ IsTrue(d, e.payload.req) /\ LogTrue(c)
  BY DEF AppendToLedger, FlowInv, HandlerOK, Truthful, WantTrue, HasWant, NeverAhead, LogTrue
<1> HIDE DEF e, d, s, t
<1>5. CASE d # c
  BY <1>3, <1>4, <1>5 DEF LogTrue, IsTrue, KnownGrow
<1>6. CASE d = c
  <2>1. ASSUME NEW i \in 1..Len(log'[c])
        PROVE  IsTrue(c, log'[c][i].payload.req)
    <3>1. CASE i = Len(s) + 1
      BY <1>2, <1>3, <1>4, <1>6, <3>1
    <3>2. CASE i \in 1..Len(s)
      BY <1>2, <1>3, <1>4, <1>6, <3>2 DEF LogTrue, s
    <3>. QED BY <1>2, <1>3, <1>6, <2>1, <3>1, <3>2
  <2>. QED BY <2>1 DEF LogTrue, IsTrue, KnownGrow
<1>. QED BY <1>5, <1>6

LEMMA HandlerStepTruthful ==
  ASSUME FlowInv, Truthful, KnownGrow, NEW h \in Handlers, HandlerStep(h)
  PROVE  Truthful'
<1> DEFINE d == job[h]
<1>1. \A c \in Deliveries : rows[c].state \in Known(c)'
  BY DEF Truthful, NeverAhead, KnownGrow
<1>2. CASE SaveRider(h)
  <2>1. d \in Deliveries /\ WantTrue(h) /\ CopyTrue(h)
    BY <1>2 DEF SaveRider, FlowInv, HandlerOK, Truthful
  <2>2. \A c \in Deliveries : LogTrue(c)' /\ rows'[c].state \in Known(c)'
    BY <1>1, <1>2, <2>1, LogTrueUnchanged
       DEF SaveRider, SaveCopy, ledgerVars, FlowInv, FlowTypeOK, CopyTrue, HasCopy, KnownGrow
  <2>3. /\ pc'[h] = "get"
        /\ \A g \in Handlers \ {h} : pc'[g] = pc[g]
        /\ UNCHANGED << job, want, copy >>
    BY <1>2 DEF SaveRider, FlowInv, FlowTypeOK
  <2>4. WantTrue(h)' /\ CopyTrue(h)'
    BY <1>2, <2>1, <2>3 DEF SaveRider, WantTrue, CopyTrue, HasWant, HasCopy, IsTrue,
                            KnownGrow, Known, IsPlaced, StatesSeen
  <2>. QED BY <2>2, <2>3, <2>4, ContinueTruthful
<1>3. CASE SaveCancel(h) \/ SaveDelivery(h) \/ SaveDispatch(h)
  BY <1>3, LogTrueUnchanged, FinishTruthful
     DEF SaveCancel, SaveDelivery, SaveDispatch, HasCopy, ledgerVars
<1>4. CASE LoadDelivery(h)
  <2>1. \A c \in Deliveries : LogTrue(c)' /\ rows'[c].state \in Known(c)'
    BY <1>1, <1>4, LogTrueUnchanged DEF LoadDelivery, ledgerVars
  <2>2. CASE Validate(want[h])
    <3>1. /\ pc'[h] = "tail" /\ copy'[h] = rows[d] /\ UNCHANGED << job, want >>
          /\ \A g \in Handlers \ {h} : pc'[g] = pc[g] /\ copy'[g] = copy[g]
      BY <1>4, <2>2 DEF LoadDelivery, FlowInv, FlowTypeOK
    <3>2. d \in Deliveries /\ WantTrue(h) /\ pc[h] = "get"
      BY <1>4 DEF LoadDelivery, FlowInv, HandlerOK, Truthful
    <3>3. WantTrue(h)' /\ CopyTrue(h)'
      BY <1>1, <3>1, <3>2 DEF WantTrue, CopyTrue, HasWant, HasCopy, IsTrue,
                              KnownGrow, Known, IsPlaced, StatesSeen
    <3>. QED BY <2>1, <3>1, <3>3, ContinueTruthful
  <2>3. CASE ~Validate(want[h])
    BY <1>4, <2>1, <2>3, FinishTruthful DEF LoadDelivery
  <2>. QED BY <2>2, <2>3
<1>5. CASE ReadLedgerTail(h)
  <2>1. \A c \in Deliveries : LogTrue(c)' /\ rows'[c].state \in Known(c)'
    BY <1>1, <1>5, LogTrueUnchanged DEF ReadLedgerTail, ReadTail
  <2>2. /\ pc[h] = "tail" /\ pc'[h] = "append" /\ UNCHANGED << job, want, copy >>
        /\ \A g \in Handlers \ {h} : pc'[g] = pc[g]
    BY <1>5 DEF ReadLedgerTail, FlowInv, FlowTypeOK
  <2>3. d \in Deliveries /\ WantTrue(h) /\ CopyTrue(h)
    BY <2>2 DEF FlowInv, HandlerOK, Truthful
  <2>4. WantTrue(h)' /\ CopyTrue(h)'
    BY <2>2, <2>3 DEF WantTrue, CopyTrue, HasWant, HasCopy, IsTrue,
                      KnownGrow, Known, IsPlaced, StatesSeen
  <2>. QED BY <2>1, <2>2, <2>4, ContinueTruthful
<1>6. CASE AppendToLedger(h)
  <2>1. \A c \in Deliveries : LogTrue(c)' /\ rows'[c].state \in Known(c)'
    BY <1>1, <1>6, AppendLogTrue DEF AppendToLedger
  <2>2. CASE Applies(copy[h], want[h].type)
    <3>1. /\ pc[h] = "append" /\ pc'[h] = "save" /\ UNCHANGED << job, want >>
          /\ copy'[h] = Applied(copy[h], want[h].type)
          /\ \A g \in Handlers \ {h} : pc'[g] = pc[g] /\ copy'[g] = copy[g]
      BY <1>6, <2>2 DEF AppendToLedger, FlowInv, FlowTypeOK
    <3>2. d \in Deliveries /\ IsTrue(d, want[h]) /\ copy[h].state \in Known(d)
      BY <3>1 DEF FlowInv, HandlerOK, Truthful, WantTrue, CopyTrue, HasWant, HasCopy
    <3>3. Applied(copy[h], want[h].type).state \in Known(d)
      BY <3>2 DEF Applied, Moved, IsTrue
    <3>4. WantTrue(h)' /\ CopyTrue(h)'
      BY <3>1, <3>2, <3>3 DEF WantTrue, CopyTrue, IsTrue,
                              KnownGrow, Known, IsPlaced, StatesSeen
    <3>. QED BY <2>1, <3>1, <3>4, ContinueTruthful
  <2>3. CASE ~Applies(copy[h], want[h].type)
    BY <1>6, <2>1, <2>3, FinishTruthful DEF AppendToLedger
  <2>. QED BY <2>2, <2>3
<1>7. ASSUME NEW c \in Carriers, CreateShipment(h, c) PROVE Truthful'
  <2>1. \A b \in Deliveries : LogTrue(b)' /\ rows'[b].state \in Known(b)'
    BY <1>1, <1>7, LogTrueUnchanged DEF CreateShipment, ledgerVars
  <2> DEFINE r == [copy[h] EXCEPT !.shipment = c]
  <2>2. /\ pc[h] = "create" /\ pc'[h] = "save_dispatch" /\ UNCHANGED << job, want >>
        /\ copy'[h] = Transition(r, "assigned")
        /\ \A g \in Handlers \ {h} : pc'[g] = pc[g] /\ copy'[g] = copy[g]
    BY <1>7 DEF CreateShipment, FlowInv, FlowTypeOK
  <2>3. d \in Deliveries /\ copy[h] \in Row /\ copy[h].state \in Known(d)
    BY <2>2 DEF FlowInv, HandlerOK, Truthful, CopyTrue, HasCopy
  <2>4. r.state = copy[h].state
    BY <2>3 DEF Row
  <2>5. << Bolt, d >> \in shipments'
    BY <1>7, BoltAssumption DEF CreateShipment
  <2> HIDE DEF r
  <2>6. copy'[h].state \in { copy[h].state, "assigned" }
    BY <2>2, <2>4 DEF Transition, Moved
  <2>7. WantTrue(h)' /\ CopyTrue(h)'
    BY <2>2, <2>3, <2>5, <2>6 DEF WantTrue, CopyTrue, HasWant,
                                  KnownGrow, Known, IsPlaced, StatesSeen
  <2>. QED BY <2>1, <2>2, <2>7, ContinueTruthful
<1>. QED BY <1>2, <1>3, <1>4, <1>5, <1>6, <1>7 DEF HandlerStep

LEMMA TruthInit == JourneyInit => Truthful
<1> SUFFICES ASSUME JourneyInit PROVE Truthful
  OBVIOUS
<1>1. happened \in [Deliveries -> SUBSET BoltEvent]
  BY DEF JourneyInit
<1>2. ASSUME NEW d \in Deliveries PROVE rows[d].state \in Known(d) /\ LogTrue(d)
  <2>1. rows[d].state = "pending" /\ log[d] = << >>
    BY DEF JourneyInit, FlowInit, LedgerInit, NewRow
  <2>2. rows[d].state \in Known(d)
    BY <2>1, KnownMembers
  <2>3. 1..Len(log[d]) = {}
    BY <2>1, EmptySeq
  <2>. QED BY <2>2, <2>3 DEF LogTrue
<1>3. ASSUME NEW h \in Handlers PROVE WantTrue(h) /\ CopyTrue(h)
  BY DEF JourneyInit, FlowInit, WantTrue, CopyTrue, HasWant, HasCopy
<1>. QED BY <1>1, <1>2, <1>3 DEF Truthful, NeverAhead, LogTrue

LEMMA TruthStep == FlowInv /\ Truthful /\ [JourneyNext]_journeyVars => Truthful'
<1> SUFFICES ASSUME FlowInv, Truthful, [JourneyNext]_journeyVars PROVE Truthful'
  OBVIOUS
<1>1. KnownGrow
  BY KnownGrows
<1>2. CASE UNCHANGED vars
  <2>1. \A d \in Deliveries : LogTrue(d)' /\ rows'[d].state \in Known(d)'
    BY <1>1, <1>2, LogTrueUnchanged
       DEF vars, flowVars, ledgerVars, Truthful, NeverAhead, KnownGrow
  <2>2. ASSUME NEW h \in Handlers PROVE WantTrue(h)' /\ CopyTrue(h)'
    <3>1. /\ pc[h] \in HasWant \cup HasCopy => job[h] \in Deliveries
          /\ WantTrue(h) /\ CopyTrue(h)
      BY DEF FlowInv, HandlerOK, HasWant, HasCopy, Truthful
    <3>. QED BY <1>1, <1>2, <3>1 DEF vars, flowVars, WantTrue, CopyTrue, IsTrue,
                                      KnownGrow, Known, IsPlaced, StatesSeen
  <2>. QED BY <1>1, <2>1, <2>2 DEF Truthful, NeverAhead, LogTrue, KnownGrow
<1>3. ASSUME NEW h \in Handlers, Abandon(h) PROVE Truthful'
  <2>1. Finish(h) /\ UNCHANGED << log, rows >>
    BY <1>3 DEF Abandon, AppendFails, ledgerVars
  <2>. QED BY <1>1, <2>1, LogTrueUnchanged, FinishTruthful
<1>4. CASE Outside
  BY <1>2, <1>4 DEF Outside, Happen, Ignore
<1>5. ASSUME NEW h \in Handlers, NEW d \in Deliveries, Begins(h, d) PROVE Truthful'
  BY <1>1, <1>5, BeginsTruthful
<1>6. ASSUME NEW h \in Handlers, Work(h) \/ GiveUp(h) \/ Die(h) PROVE Truthful'
  BY <1>1, <1>3, <1>6, HandlerStepTruthful DEF Work, GiveUp, Die
<1>7. CASE UNCHANGED journeyVars
  BY <1>2, <1>7 DEF journeyVars
<1>. QED BY <1>4, <1>5, <1>6, <1>7 DEF JourneyNext

(* Nothing is made up: no interleaving of handlers on stale copies, no     *)
(* repeated, late or overtaken webhook and no crash shows a state Bolt's   *)
(* order has not been in, or records an event that has not happened        *)
(* (mapper.go, custodyapp.Record, webhook.Process).                        *)
THEOREM NothingIsMadeUp == JourneySpec => []NeverAhead
<1>1. JourneySpec => []FlowInv
  BY JourneyImplementsFlow, FlowInvariant
<1>2. FlowInv /\ Truthful /\ [JourneyNext]_journeyVars => Truthful'
  BY TruthStep
<1>3. Truthful => NeverAhead
  BY DEF Truthful
<1>. QED BY <1>1, <1>2, <1>3, TruthInit, PTL DEF JourneySpec

-----------------------------------------------------------------------------
(* Types.                                                                  *)

Answers == { "none", "ignored", "handled", "error" }

PostTypeOK ==
  /\ happened \in [Deliveries -> SUBSET BoltEvent]
  /\ tries \in [Deliveries -> [BoltEvent -> 0..MaxTries]]
  /\ hook \in [Handlers -> BoltEvent \cup {NoJob}]
  /\ handled \in [Deliveries -> SUBSET BoltEvent]
  /\ answer \in [Deliveries -> [BoltEvent -> Answers]]
  /\ faults \in Nat

LEMMA AcknowledgeType ==
  ASSUME PostTypeOK, NEW d, NEW e, NEW what \in Answers, Acknowledge(d, e, what)
  PROVE  /\ tries' \in [Deliveries -> [BoltEvent -> 0..MaxTries]]
         /\ answer' \in [Deliveries -> [BoltEvent -> Answers]]
<1>1. tries' \in [Deliveries -> [BoltEvent -> 0..MaxTries]]
  <2>1. tries \in [Deliveries -> [BoltEvent -> 0..MaxTries]] /\ 0 \in 0..MaxTries
    BY MaxTriesAssumption DEF PostTypeOK
  <2>2. tries' = [tries EXCEPT ![d] = [tries[d] EXCEPT ![e] = 0]]
    BY DEF Acknowledge
  <2>3. d \in Deliveries => [tries[d] EXCEPT ![e] = 0] \in [BoltEvent -> 0..MaxTries]
    BY <2>1
  <2>. QED BY <2>1, <2>2, <2>3
<1>2. answer' \in [Deliveries -> [BoltEvent -> Answers]]
  <2>1. answer \in [Deliveries -> [BoltEvent -> Answers]]
    BY DEF PostTypeOK
  <2>2. answer' = [answer EXCEPT ![d] = [answer[d] EXCEPT ![e] = what]]
    BY DEF Acknowledge
  <2>3. d \in Deliveries => [answer[d] EXCEPT ![e] = what] \in [BoltEvent -> Answers]
    BY <2>1
  <2>. QED BY <2>1, <2>2, <2>3
<1>. QED BY <1>1, <1>2

LEMMA WorkType ==
  ASSUME PostTypeOK, NEW h \in Handlers, Work(h)
  PROVE  PostTypeOK'
<1>1. CASE pc'[h] = "idle" /\ hook[h] # NoJob
  <2>1. hook[h] \in BoltEvent
    BY <1>1 DEF PostTypeOK
  <2>2. /\ tries' \in [Deliveries -> [BoltEvent -> 0..MaxTries]]
        /\ answer' \in [Deliveries -> [BoltEvent -> Answers]]
        /\ faults' \in Nat
    <3>1. CASE Acknowledge(job[h], hook[h], "handled") /\ UNCHANGED faults
      BY <3>1, AcknowledgeType DEF Answers, PostTypeOK
    <3>2. CASE Fault /\ UNCHANGED << tries, answer >>
      BY <3>2 DEF Fault, PostTypeOK
    <3>. QED BY <1>1, <3>1, <3>2 DEF Work
  <2>3. hook' \in [Handlers -> BoltEvent \cup {NoJob}]
    BY <1>1 DEF Work, PostTypeOK
  <2>4. handled' \in [Deliveries -> SUBSET BoltEvent]
    <3>1. handled' = [handled EXCEPT ![job[h]] = handled[job[h]] \cup {hook[h]}]
      BY <1>1 DEF Work
    <3>2. job[h] \in Deliveries => handled[job[h]] \cup {hook[h]} \in SUBSET BoltEvent
      BY <2>1 DEF PostTypeOK
    <3>3. handled \in [Deliveries -> SUBSET BoltEvent]
      BY DEF PostTypeOK
    <3>. QED BY <3>1, <3>2, <3>3
  <2>5. happened' \in [Deliveries -> SUBSET BoltEvent]
    BY DEF Work, PostTypeOK
  <2>. QED BY <2>2, <2>3, <2>4, <2>5 DEF PostTypeOK
<1>2. CASE ~(pc'[h] = "idle" /\ hook[h] # NoJob)
  BY <1>2 DEF Work, PostTypeOK
<1>. QED BY <1>1, <1>2

LEMMA GiveUpType ==
  ASSUME PostTypeOK, NEW h \in Handlers, GiveUp(h)
  PROVE  PostTypeOK'
<1>1. faults' \in Nat
  BY DEF GiveUp, Fault, PostTypeOK
<1>2. /\ tries' \in [Deliveries -> [BoltEvent -> 0..MaxTries]]
      /\ answer' \in [Deliveries -> [BoltEvent -> Answers]]
  <2>1. CASE Acknowledge(job[h], hook[h], "error")
    BY <2>1, AcknowledgeType DEF Answers
  <2>2. CASE UNCHANGED << tries, answer >>
    BY <2>2 DEF PostTypeOK
  <2>. QED BY <2>1, <2>2 DEF GiveUp
<1>3. hook' \in [Handlers -> BoltEvent \cup {NoJob}]
  BY DEF GiveUp, PostTypeOK
<1>. QED BY <1>1, <1>2, <1>3 DEF GiveUp, PostTypeOK

LEMMA PostTypeStep == PostTypeOK /\ [JourneyNext]_journeyVars => PostTypeOK'
<1> SUFFICES ASSUME PostTypeOK, [JourneyNext]_journeyVars PROVE PostTypeOK'
  OBVIOUS
<1>1. CASE UNCHANGED postVars
  BY <1>1 DEF postVars, PostTypeOK
<1>2. ASSUME NEW d \in Deliveries, NEW e \in BoltEvent, Happen(d, e)
      PROVE  PostTypeOK'
  <2>1. happened' \in [Deliveries -> SUBSET BoltEvent]
    BY <1>2 DEF Happen, PostTypeOK
  <2>2. tries' \in [Deliveries -> [BoltEvent -> 0..MaxTries]]
    BY <1>2, MaxTriesAssumption DEF Happen, PostTypeOK
  <2>. QED BY <1>2, <2>1, <2>2 DEF Happen, PostTypeOK
<1>3. ASSUME NEW d \in Deliveries, NEW e \in BoltEvent, Ignore(d, e)
      PROVE  PostTypeOK'
  <2>1. /\ tries' \in [Deliveries -> [BoltEvent -> 0..MaxTries]]
        /\ answer' \in [Deliveries -> [BoltEvent -> Answers]]
    BY <1>3, AcknowledgeType DEF Ignore, Answers
  <2>. QED BY <1>3, <2>1 DEF Ignore, PostTypeOK
<1>4. ASSUME NEW h \in Handlers, NEW d \in Deliveries, NEW e \in BoltEvent,
             Deliver(h, d, e)
      PROVE  PostTypeOK'
  <2>1. tries[d][e] \in 1..MaxTries
    BY <1>4, MaxTriesAssumption DEF Deliver, IsPosted, PostTypeOK
  <2>2. tries' \in [Deliveries -> [BoltEvent -> 0..MaxTries]]
    BY <1>4, <2>1, MaxTriesAssumption DEF Deliver, PostTypeOK
  <2>. QED BY <1>4, <2>2 DEF Deliver, PostTypeOK
<1>5. ASSUME NEW h \in Handlers, Work(h) \/ GiveUp(h) PROVE PostTypeOK'
  BY <1>5, WorkType, GiveUpType
<1>6. ASSUME NEW h \in Handlers, Die(h) PROVE PostTypeOK'
  BY <1>6 DEF Die, Fault, PostTypeOK
<1>7. ASSUME NEW h \in Handlers, NEW d \in Deliveries, Begins(h, d)
      PROVE  PostTypeOK'
  BY <1>1, <1>4, <1>7 DEF Begins, Checkpoint, Dispatch
<1>8. CASE UNCHANGED journeyVars
  BY <1>1, <1>8 DEF journeyVars
<1>. QED BY <1>2, <1>3, <1>5, <1>6, <1>7, <1>8 DEF JourneyNext, Outside

(* No attempt is made beyond those Bolt has, and only what may happen to   *)
(* an order is ever handled (capabilities.go:60).                          *)
THEOREM JourneyTypeCorrect == JourneySpec => []JourneyTypeOK
<1>1. JourneyInit => PostTypeOK
  BY MaxTriesAssumption DEF JourneyInit, PostTypeOK, Answers
<1>2. JourneySpec => []FlowTypeOK
  BY JourneyImplementsFlow, FlowTypeCorrect
<1>3. FlowTypeOK /\ PostTypeOK => JourneyTypeOK
  BY DEF PostTypeOK, JourneyTypeOK, Answers
<1>. QED BY <1>1, <1>2, <1>3, PostTypeStep, PTL DEF JourneySpec

=============================================================================
