----------------------- MODULE DeliverySerial_proofs -----------------------
(***************************************************************************)
(* That handlers which do not overlap on a delivery implement the          *)
(* lifecycle of DeliveryLifecycle.                                         *)
(*                                                                         *)
(* The argument is freshness: while no other handler works on its          *)
(* delivery, a handler's copy is the persisted row until the handler       *)
(* changes it, and one transition of the graph away from it afterwards.    *)
(* FlowInv supplies the evidence.                                          *)
(***************************************************************************)
EXTENDS DeliveryFlow_proofs

(* r2 is r1 or one transition of the graph away from it.                   *)
Follows(r1, r2) == r2.state = r1.state \/ CanTransition(r1.state, r2.state)

Fresh(h) ==
  /\ pc[h] \in { "tail", "append", "create" } => copy[h].state = rows[job[h]].state
  /\ pc[h] \in HasCopy => Follows(rows[job[h]], copy[h])

(* No two handlers work on one delivery. *)
OneAtATime ==
  \A g, h \in Handlers : g # h /\ job[g] = job[h] => job[g] = NoJob

SerialInv == FlowInv /\ OneAtATime /\ \A h \in Handlers : Fresh(h)

-----------------------------------------------------------------------------
LEMMA TransitionFollows ==
  ASSUME NEW r \in Row, NEW to
  PROVE  Follows(r, Transition(r, to))
BY DEF Transition, Moved, Follows

LEMMA AppliedFollows ==
  ASSUME NEW r \in Row, NEW t, Applies(r, t)
  PROVE  Follows(r, Applied(r, t))
BY DEF Applies, Applied, Moved, Follows

(* A step of h leaves alone the copies of the others, and the rows of the  *)
(* deliveries they work on.                                                *)
LEMMA OthersFresh ==
  ASSUME SerialInv, NEW h \in Handlers,
         \A g \in Handlers \ {h} :
           pc'[g] = pc[g] /\ job'[g] = job[g] /\ copy'[g] = copy[g],
         \A d \in Deliveries : d # job[h] => rows'[d] = rows[d]
  PROVE  \A g \in Handlers \ {h} : Fresh(g)'
<1>1. SUFFICES ASSUME NEW g \in Handlers \ {h}, pc[g] \in HasCopy
               PROVE  rows'[job[g]] = rows[job[g]]
  BY DEF SerialInv, Fresh, HasCopy
<1>2. job[g] \in Deliveries
  BY <1>1 DEF SerialInv, FlowInv, HandlerOK, HasCopy
<1>3. job[g] # job[h]
  BY <1>2, NoJobAssumption DEF SerialInv, OneAtATime
<1>. QED BY <1>2, <1>3

LEMMA StartFresh ==
  ASSUME SerialInv, NEW h \in Handlers, NEW at, NEW d \in Deliveries, NEW q, NEW r,
         Start(h, at, d, q, r), UNCHANGED rows,
         at \in { "tail", "append", "create" } => r.state = rows[d].state,
         at \in HasCopy => Follows(rows[d], r)
  PROVE  \A g \in Handlers : Fresh(g)'
<1>1. /\ pc'[h] = at /\ job'[h] = d /\ copy'[h] = r
      /\ \A g \in Handlers \ {h} :
           pc'[g] = pc[g] /\ job'[g] = job[g] /\ copy'[g] = copy[g]
  BY DEF Start, SerialInv, FlowInv, FlowTypeOK
<1>2. Fresh(h)'
  BY <1>1 DEF Fresh
<1>. QED BY <1>1, <1>2, OthersFresh

LEMMA FinishFresh ==
  ASSUME SerialInv, NEW h \in Handlers, Finish(h),
         UNCHANGED rows \/ SaveCopy(h)
  PROVE  \A g \in Handlers : Fresh(g)'
<1>1. /\ pc'[h] = "idle"
      /\ \A g \in Handlers \ {h} :
           pc'[g] = pc[g] /\ job'[g] = job[g] /\ copy'[g] = copy[g]
  BY DEF Finish, SerialInv, FlowInv, FlowTypeOK
<1>2. Fresh(h)'
  BY <1>1 DEF Fresh, HasCopy
<1>3. \A d \in Deliveries : d # job[h] => rows'[d] = rows[d]
  BY DEF SaveCopy, SerialInv, FlowInv, FlowTypeOK
<1>. QED BY <1>1, <1>2, <1>3, OthersFresh

-----------------------------------------------------------------------------
(* One step per action: each keeps the copies fresh.                       *)
LEMMA FreshStep ==
  ASSUME SerialInv, NEW h \in Handlers,
         \/ \E d \in Deliveries :
              \/ \E q \in Requests : ReceiveCheckpoint(h, d, q)
              \/ \E c \in Carriers, k \in WebhookKinds : ReceiveWebhook(h, c, d, k)
              \/ StartDispatch(h, d)
         \/ HandlerStep(h)
         \/ Abandon(h)
  PROVE  \A g \in Handlers : Fresh(g)'
<1>. /\ rows \in [Deliveries -> Row] /\ pc \in [Handlers -> PC]
     /\ copy \in [Handlers -> Row \cup {NoJob}]
  BY DEF SerialInv, FlowInv, FlowTypeOK
<1>. \A g \in Handlers :
       /\ pc[g] # "idle" => job[g] \in Deliveries
       /\ pc[g] \in HasCopy => copy[g] \in Row
  BY DEF SerialInv, FlowInv, HandlerOK
<1>1. ASSUME NEW d \in Deliveries, NEW q \in Requests, ReceiveCheckpoint(h, d, q)
      PROVE  \A g \in Handlers : Fresh(g)'
  <2>1. Start(h, "get", d, q, NoJob) /\ UNCHANGED rows
    BY <1>1 DEF ReceiveCheckpoint
  <2>. QED BY <2>1, StartFresh DEF HasCopy
<1>2. ASSUME NEW d \in Deliveries, NEW c \in Carriers, NEW k \in WebhookKinds,
             ReceiveWebhook(h, c, d, k)
      PROVE  \A g \in Handlers : Fresh(g)'
  <2>1. UNCHANGED rows
    BY <1>2 DEF ReceiveWebhook
  <2>2. Follows(rows[d], rows[d])
    BY DEF Follows
  <2>3. \A to : Follows(rows[d], Transition(rows[d], to))
    BY TransitionFollows
  <2> DEFINE a == IF rows[d].state = "pending"
                    THEN Transition(rows[d], "assigned") ELSE rows[d]
             b == IF CanCancel(rows[d].state)
                    THEN Transition(rows[d], "cancelled") ELSE rows[d]
  <2>4. \/ Start(h, "save_rider", d, WebhookRequest[k], a)
        \/ Start(h, "save_cancel", d, NoJob, b)
        \/ Start(h, "get", d, WebhookRequest[k], NoJob)
    BY <1>2 DEF ReceiveWebhook
  <2>5. Follows(rows[d], a) /\ Follows(rows[d], b)
    BY <2>2, <2>3
  <2> HIDE DEF a, b
  <2>. QED BY <2>1, <2>4, <2>5, StartFresh DEF HasCopy
<1>3. ASSUME NEW d \in Deliveries, StartDispatch(h, d)
      PROVE  \A g \in Handlers : Fresh(g)'
  <2>1. Start(h, "create", d, NoJob, rows[d]) /\ UNCHANGED rows
    BY <1>3 DEF StartDispatch
  <2>. QED BY <2>1, StartFresh DEF Follows
<1>4. CASE SaveRider(h)
  <2>1. /\ pc[h] = "save_rider" /\ pc' = [pc EXCEPT ![h] = "get"]
        /\ rows' = [rows EXCEPT ![job[h]] = copy[h]] /\ UNCHANGED << job, copy >>
    BY <1>4 DEF SaveRider, SaveCopy
  <2>2. \A g \in Handlers \ {h} : Fresh(g)'
    BY <2>1, OthersFresh
  <2>3. Fresh(h)'
    BY <2>1 DEF Fresh, HasCopy
  <2>. QED BY <2>2, <2>3
<1>5. CASE SaveCancel(h) \/ SaveDelivery(h) \/ SaveDispatch(h)
  BY <1>5, FinishFresh DEF SaveCancel, SaveDelivery, SaveDispatch
<1>6. CASE LoadDelivery(h)
  <2>1. CASE Validate(want[h])
    <3>1. /\ pc[h] = "get" /\ pc' = [pc EXCEPT ![h] = "tail"]
          /\ copy' = [copy EXCEPT ![h] = rows[job[h]]] /\ UNCHANGED << job, rows >>
      BY <1>6, <2>1 DEF LoadDelivery
    <3>2. \A g \in Handlers \ {h} : Fresh(g)'
      BY <3>1, OthersFresh
    <3>3. Fresh(h)'
      BY <3>1 DEF Fresh, Follows
    <3>. QED BY <3>2, <3>3
  <2>2. CASE ~Validate(want[h])
    BY <1>6, <2>2, FinishFresh DEF LoadDelivery
  <2>. QED BY <2>1, <2>2
<1>7. CASE ReadLedgerTail(h)
  <2>1. /\ pc[h] = "tail" /\ pc' = [pc EXCEPT ![h] = "append"]
        /\ UNCHANGED << job, copy, rows >>
    BY <1>7 DEF ReadLedgerTail
  <2>2. \A g \in Handlers \ {h} : Fresh(g)'
    BY <2>1, OthersFresh
  <2>3. Fresh(h)'
    BY <2>1 DEF SerialInv, Fresh, HasCopy
  <2>. QED BY <2>2, <2>3
<1>8. CASE AppendToLedger(h)
  <2>1. CASE Applies(copy[h], want[h].type)
    <3> DEFINE r == Applied(copy[h], want[h].type)
    <3>1. /\ pc[h] = "append" /\ pc' = [pc EXCEPT ![h] = "save"]
          /\ copy' = [copy EXCEPT ![h] = r] /\ UNCHANGED << job, rows >>
      BY <1>8, <2>1 DEF AppendToLedger
    <3>2. Follows(copy[h], r) /\ copy[h].state = rows[job[h]].state
      BY <2>1, <3>1, AppliedFollows DEF SerialInv, Fresh, HasCopy
    <3> HIDE DEF r
    <3>3. \A g \in Handlers \ {h} : Fresh(g)'
      BY <3>1, OthersFresh
    <3>4. Fresh(h)'
      BY <3>1, <3>2 DEF Fresh, Follows
    <3>. QED BY <3>3, <3>4
  <2>2. CASE ~Applies(copy[h], want[h].type)
    BY <1>8, <2>2, FinishFresh DEF AppendToLedger
  <2>. QED BY <2>1, <2>2
<1>9. ASSUME NEW c \in Carriers, CreateShipment(h, c)
      PROVE  \A g \in Handlers : Fresh(g)'
  <2> DEFINE r == [copy[h] EXCEPT !.shipment = c]
             t == Transition(r, "assigned")
  <2>1. /\ pc[h] = "create" /\ pc' = [pc EXCEPT ![h] = "save_dispatch"]
        /\ copy' = [copy EXCEPT ![h] = t] /\ UNCHANGED << job, rows >>
    BY <1>9 DEF CreateShipment
  <2>2. copy[h].state = rows[job[h]].state /\ copy[h] \in Row
    BY <2>1 DEF SerialInv, Fresh, HasCopy
  <2>3. r \in Row /\ r.state = copy[h].state
    BY <2>2 DEF Row
  <2> HIDE DEF r
  <2>4. Follows(rows[job[h]], t)
    BY <2>2, <2>3, TransitionFollows DEF Follows
  <2> HIDE DEF t
  <2>5. \A g \in Handlers \ {h} : Fresh(g)'
    BY <2>1, OthersFresh
  <2>6. Fresh(h)'
    BY <2>1, <2>4 DEF Fresh
  <2>. QED BY <2>5, <2>6
<1>10. CASE Abandon(h)
  BY <1>10, FinishFresh DEF Abandon
<1>. QED BY <1>1, <1>2, <1>3, <1>4, <1>5, <1>6, <1>7, <1>8, <1>9, <1>10
         DEF HandlerStep

LEMMA SerialInitInv == FlowInit => SerialInv
<1>1. FlowInit => FlowInv
  BY FlowInitInv
<1>. QED BY <1>1 DEF FlowInit, SerialInv, OneAtATime, Fresh, HasCopy

(* A handler starts on a delivery no other works on, and stays with it.    *)
LEMMA SerialStepIsFlowStep ==
  ASSUME SerialInv, SerialNext
  PROVE  FlowNext /\ OneAtATime'
<1>1. PICK h \in Handlers :
        \/ \E d \in Deliveries : IsFree(d) /\ Arrives(h, d)
        \/ HandlerStep(h)
        \/ Abandon(h)
  BY DEF SerialNext
<1>2. FlowNext
  BY <1>1 DEF FlowNext
<1>3. job \in [Handlers -> Deliveries \cup {NoJob}] /\ OneAtATime
  BY DEF SerialInv, FlowInv, FlowTypeOK
<1>4. ASSUME NEW d \in Deliveries, IsFree(d), job' = [job EXCEPT ![h] = d]
      PROVE  OneAtATime'
  BY <1>3, <1>4 DEF IsFree, OneAtATime
<1>5. ASSUME job' = [job EXCEPT ![h] = NoJob] \/ job' = job
      PROVE  OneAtATime'
  BY <1>3, <1>5 DEF OneAtATime
<1>6. CASE \E d \in Deliveries : IsFree(d) /\ Arrives(h, d)
  <2>1. PICK d \in Deliveries : IsFree(d) /\ Arrives(h, d)
    BY <1>6
  <2>2. job' = [job EXCEPT ![h] = d]
    BY <2>1 DEF Arrives, ReceiveCheckpoint, ReceiveWebhook, StartDispatch, Start
  <2>. QED BY <1>2, <1>4, <2>1, <2>2
<1>7. CASE HandlerStep(h) \/ Abandon(h)
  <2>1. job' = [job EXCEPT ![h] = NoJob] \/ job' = job
    BY <1>7 DEF HandlerStep, SaveRider, SaveCancel, LoadDelivery, ReadLedgerTail,
                AppendToLedger, SaveDelivery, CreateShipment, SaveDispatch,
                Abandon, Finish
  <2>. QED BY <1>2, <1>5, <2>1
<1>. QED BY <1>1, <1>6, <1>7

LEMMA SerialStepInv == SerialInv /\ [SerialNext]_vars => SerialInv'
<1> SUFFICES ASSUME SerialInv, [SerialNext]_vars PROVE SerialInv'
  OBVIOUS
<1>1. FlowInv'
  BY FlowStepInv, SerialStepIsFlowStep DEF SerialInv
<1>2. CASE SerialNext
  BY <1>1, <1>2, SerialStepIsFlowStep, FreshStep DEF FlowNext, Arrives, SerialInv
<1>3. CASE UNCHANGED vars
  BY <1>1, <1>3 DEF vars, flowVars, SerialInv, OneAtATime, Fresh, Follows
<1>. QED BY <1>2, <1>3

THEOREM SerialInvariant == SerialSpec => []SerialInv
BY SerialInitInv, SerialStepInv, PTL DEF SerialSpec

-----------------------------------------------------------------------------
(* The abstract specification under the refinement mapping.                *)

LEMMA LifecycleOperators ==
  /\ \A s, t : Lifecycle!CanTransition(s, t) = CanTransition(s, t)
  /\ Lifecycle!NeededFor = NeededFor
  /\ Lifecycle!State = State /\ Lifecycle!EventType = EventType
BY DEF Lifecycle!CanTransition, CanTransition, Lifecycle!allowedTransitions,
       allowedTransitions, Lifecycle!NeededFor, NeededFor, Lifecycle!State, State,
       Lifecycle!EventType, EventType, Lifecycle!AtLocker, AtLocker

(* Saving a fresh copy moves its row along the graph, or nowhere.          *)
LEMMA SaveAdvances ==
  ASSUME SerialInv, NEW h \in Handlers, SaveCopy(h), pc[h] \in HasCopy, log' = log
  PROVE  [Lifecycle!Next]_<< States, Evidence >>
<1> DEFINE d == job[h]
           to == copy[h].state
<1>1. /\ d \in Deliveries /\ copy[h] \in Row
      /\ NeededFor[to] \subseteq RecordedTypes(d)
      /\ Follows(rows[d], copy[h])
  BY DEF SerialInv, FlowInv, HandlerOK, CopyBacked, Backed, Fresh, HasCopy
<1>2. to \in State
  BY <1>1 DEF Row
<1>3. rows \in [Deliveries -> Row] /\ rows' = [rows EXCEPT ![d] = copy[h]]
  BY DEF SaveCopy, SerialInv, FlowInv, FlowTypeOK
<1>4. rows'[d].state = to /\ \A c \in Deliveries \ {d} : rows'[c] = rows[c]
  BY <1>1, <1>3
<1> HIDE DEF d, to
<1>5. States' = [States EXCEPT ![d] = to]
  BY <1>4 DEF States
<1>6. Evidence' = Evidence
  BY DEF Evidence, RecordedTypes
<1>7. CASE to = rows[d].state
  BY <1>1, <1>5, <1>6, <1>7 DEF States
<1>8. CASE CanTransition(rows[d].state, to)
  <2>1. Lifecycle!Advance(d, to)
    BY <1>1, <1>5, <1>6, <1>8, LifecycleOperators
       DEF Lifecycle!Advance, States, Evidence
  <2>. QED BY <1>1, <1>2, <2>1, LifecycleOperators DEF Lifecycle!Next
<1>. QED BY <1>1, <1>7, <1>8 DEF Follows, d, to

(* Appending an event is a Witness step.                                   *)
LEMMA AppendWitnesses ==
  ASSUME SerialInv, NEW h \in Handlers, AppendOK(h), rows' = rows
  PROVE  [Lifecycle!Next]_<< States, Evidence >>
<1> DEFINE e == pend[h]
           d == e.payload.delivery
           s == log[d]
           t == Append(s, e)
           y == e.payload.req.type
<1>1. /\ e \in Event /\ d \in Deliveries /\ s \in Seq(Event)
      /\ log' = [log EXCEPT ![d] = t]
  BY AppendOKAtEnd DEF SerialInv, FlowInv, Handlers
<1>2. /\ Len(t) = Len(s) + 1 /\ t[Len(s) + 1] = e
      /\ \A i \in 1..Len(s) : t[i] = s[i]
      /\ Len(s) \in Nat
  <2> HIDE DEF e, s
  <2>. QED BY <1>1, AppendProperties, LenProperties
<1>3. Validate(e.payload.req)
  BY DEF AppendOK, SerialInv, FlowInv, Inv, IdsInv, Handlers
<1>4. y \in EventType
  BY <1>1, RequestsAssumption DEF Event, Payload, Request
<1>5. log'[d] = t /\ \A c \in Deliveries \ {d} : log'[c] = log[c]
  BY <1>1 DEF SerialInv, FlowInv, Inv, LedgerTypeOK
<1>6. TypesOf(t) = TypesOf(s) \cup {y}
  <2> HIDE DEF e, s, t
  <2>1. ASSUME NEW x \in TypesOf(t) PROVE x \in TypesOf(s) \cup {y}
    <3>1. PICK i \in 1..Len(t) :
            Validate(t[i].payload.req) /\ x = t[i].payload.req.type
      BY <2>1, TypesOfWitness
    <3>2. CASE i = Len(s) + 1
      BY <1>2, <3>1, <3>2
    <3>3. CASE i # Len(s) + 1
      <4>1. i \in 1..Len(s)
        BY <1>2, <3>3
      <4>. QED BY <1>2, <3>1, <4>1, TypesOfMember
    <3>. QED BY <3>2, <3>3
  <2>2. ASSUME NEW x \in TypesOf(s) PROVE x \in TypesOf(t)
    <3>1. PICK i \in 1..Len(s) :
            Validate(s[i].payload.req) /\ x = s[i].payload.req.type
      BY <2>2, TypesOfWitness
    <3>2. i \in 1..Len(t) /\ t[i] = s[i]
      BY <1>2
    <3>. QED BY <3>1, <3>2, TypesOfMember
  <2>3. y \in TypesOf(t)
    <3>1. Len(s) + 1 \in 1..Len(t)
      BY <1>2
    <3>. QED BY <1>2, <1>3, <3>1, TypesOfMember
  <2>. QED BY <2>1, <2>2, <2>3
<1> HIDE DEF d, t, y
<1>7. Evidence' = [Evidence EXCEPT ![d] = @ \cup {y}]
  <2>1. Evidence' = [c \in Deliveries |-> TypesOf(log'[c])]
    BY DEF Evidence, RecordedTypes
  <2>2. Evidence = [c \in Deliveries |-> TypesOf(log[c])]
    BY DEF Evidence, RecordedTypes
  <2>3. TypesOf(log'[d]) = TypesOf(log[d]) \cup {y}
    BY <1>5, <1>6
  <2>4. \A c \in Deliveries \ {d} : TypesOf(log'[c]) = TypesOf(log[c])
    BY <1>5
  <2>5. [Evidence EXCEPT ![d] = @ \cup {y}] =
          [c \in Deliveries |-> IF c = d THEN TypesOf(log[d]) \cup {y}
                                        ELSE TypesOf(log[c])]
    BY <1>1, <2>2
  <2>. QED BY <2>1, <2>3, <2>4, <2>5
<1>8. Lifecycle!Witness(d, y)
  BY <1>7 DEF Lifecycle!Witness, States, Evidence
<1>. QED BY <1>1, <1>4, <1>8, LifecycleOperators DEF Lifecycle!Next

LEMMA LifecycleStep ==
  SerialInv /\ [FlowNext]_vars => [Lifecycle!Next]_<< States, Evidence >>
<1> SUFFICES ASSUME SerialInv, [FlowNext]_vars
             PROVE  [Lifecycle!Next]_<< States, Evidence >>
  OBVIOUS
<1>1. ASSUME rows' = rows, log' = log PROVE UNCHANGED << States, Evidence >>
  BY <1>1 DEF States, Evidence, RecordedTypes
<1>2. CASE UNCHANGED vars
  BY <1>1, <1>2 DEF vars, flowVars, ledgerVars
<1>3. CASE FlowNext
  <2>1. PICK h \in Handlers :
          \/ \E d \in Deliveries :
               \/ \E q \in Requests : ReceiveCheckpoint(h, d, q)
               \/ \E c \in Carriers, k \in WebhookKinds : ReceiveWebhook(h, c, d, k)
               \/ StartDispatch(h, d)
          \/ HandlerStep(h)
          \/ Abandon(h)
    BY <1>3 DEF FlowNext, Arrives
  <2>2. CASE SaveRider(h) \/ SaveCancel(h) \/ SaveDelivery(h) \/ SaveDispatch(h)
    <3>1. SaveCopy(h) /\ pc[h] \in HasCopy /\ log' = log
      BY <2>2 DEF SaveRider, SaveCancel, SaveDelivery, SaveDispatch, HasCopy, ledgerVars
    <3>. QED BY <3>1, SaveAdvances
  <2>3. CASE AppendToLedger(h)
    BY <2>3, AppendWitnesses DEF AppendToLedger
  <2>4. CASE \/ \E d \in Deliveries :
                 \/ \E q \in Requests : ReceiveCheckpoint(h, d, q)
                 \/ \E c \in Carriers, k \in WebhookKinds : ReceiveWebhook(h, c, d, k)
                 \/ StartDispatch(h, d)
             \/ LoadDelivery(h) \/ ReadLedgerTail(h)
             \/ \E c \in Carriers : CreateShipment(h, c)
             \/ Abandon(h)
    <3>1. rows' = rows /\ log' = log
      BY <2>4 DEF ReceiveCheckpoint, ReceiveWebhook, StartDispatch, LoadDelivery,
                  ReadLedgerTail, ReadTail, CreateShipment, Abandon, AppendFails,
                  ledgerVars
    <3>. QED BY <1>1, <3>1
  <2>. QED BY <2>1, <2>2, <2>3, <2>4 DEF HandlerStep
<1>. QED BY <1>2, <1>3

(* Handlers that do not overlap on a delivery keep its persisted state on  *)
(* the graph of state.go, each state entered with its evidence on record.  *)
THEOREM SerialImplementsLifecycle == SerialSpec => ImplementsLifecycle
<1>1. FlowInit => Lifecycle!Init
  <2>1. TypesOf(<< >>) = {}
    BY EmptySeq DEF TypesOf
  <2>. QED BY <2>1 DEF FlowInit, LedgerInit, NewRow, Lifecycle!Init, States,
                       Evidence, RecordedTypes
<1>2. SerialInv /\ [SerialNext]_vars
        => [Lifecycle!Next]_<< States, Evidence >>
  BY LifecycleStep, SerialStepIsFlowStep
<1>3. SerialSpec => Lifecycle!Init /\ [][Lifecycle!Next]_<< States, Evidence >>
  BY <1>1, <1>2, SerialInvariant, PTL DEF SerialSpec
<1>. QED BY <1>3 DEF ImplementsLifecycle, Lifecycle!Spec

(* No row leaves the graph of state.go while handlers do not overlap, which *)
(* they may do: the code has nothing that keeps them apart.                 *)
THEOREM SerialKeepsTheGraph == SerialSpec => LegalTransitions
<1>1. SerialInv /\ [SerialNext]_vars
        => [\A d \in Deliveries :
              \/ rows'[d].state = rows[d].state
              \/ CanTransition(rows[d].state, rows'[d].state)]_rows
  <2> SUFFICES ASSUME SerialInv, [SerialNext]_vars, NEW d \in Deliveries
               PROVE  \/ rows'[d].state = rows[d].state
                      \/ CanTransition(rows[d].state, rows'[d].state)
    OBVIOUS
  <2>1. [Lifecycle!Next]_<< States, Evidence >>
    BY LifecycleStep, SerialStepIsFlowStep
  <2>2. States[d] = rows[d].state /\ States'[d] = rows'[d].state
    BY DEF States
  <2>3. ASSUME NEW c \in Deliveries, NEW to \in State, Lifecycle!Advance(c, to)
        PROVE  States'[d] = States[d] \/ CanTransition(States[d], States'[d])
    <3>1. CanTransition(States[c], to) /\ States' = [States EXCEPT ![c] = to]
      BY <2>3, LifecycleOperators DEF Lifecycle!Advance
    <3>. QED BY <3>1 DEF States
  <2>4. ASSUME NEW c \in Deliveries, NEW t, Lifecycle!Witness(c, t)
        PROVE  States' = States
    BY <2>4 DEF Lifecycle!Witness
  <2>. QED BY <2>1, <2>2, <2>3, <2>4, LifecycleOperators DEF Lifecycle!Next
<1>. QED BY <1>1, SerialInvariant, PTL DEF SerialSpec, LegalTransitions

-----------------------------------------------------------------------------
(* The chain without the UNIQUE constraint.  An event in flight continues  *)
(* the chain as it is when the event is appended, because nobody else has  *)
(* appended to that chain since its tail was read.                         *)

Continues(s, e) == /\ e.seq = Len(s)
                   /\ e.prev = Prefix(s, Len(s))
                   /\ e.hash = computeHash(e.prev, e.payload)

TailFresh(h) ==
  pend[h] # NoEvent => pc[h] = "append" /\ Continues(log[job[h]], pend[h])

TailInv == ChainInv /\ \A h \in Handlers : TailFresh(h)

(* A step of h that leaves the ledger alone: h holds no event, and the     *)
(* events of the others stay where they are.                               *)
LEMMA TailLedgerUnchanged ==
  ASSUME TailInv, NEW h \in Handlers, UNCHANGED << log, pend >>, pc[h] # "append",
         \A g \in Handlers \ {h} : pc'[g] = pc[g] /\ job'[g] = job[g]
  PROVE  TailInv'
<1>1. ChainInv'
  BY DEF TailInv, ChainInv
<1>2. ASSUME NEW g \in Handlers, pend'[g] # NoEvent
      PROVE  pc'[g] = "append" /\ Continues(log'[job'[g]], pend'[g])
  <2>1. pc[g] = "append" /\ Continues(log[job[g]], pend[g])
    BY <1>2 DEF TailInv, TailFresh
  <2>. QED BY <2>1
<1>. QED BY <1>1, <1>2 DEF TailInv, TailFresh

LEMMA TailReadFresh ==
  ASSUME SerialInv, TailInv, NEW h \in Handlers, ReadLedgerTail(h)
  PROVE  TailInv'
<1>1. /\ pc' = [pc EXCEPT ![h] = "append"] /\ job' = job
      /\ job[h] \in Deliveries /\ want[h] \in Requests /\ ReadTail(h, job[h], want[h])
  BY DEF ReadLedgerTail, SerialInv, FlowInv, HandlerOK, HasWant
<1> DEFINE s == log[job[h]]
           p == [id |-> issued, delivery |-> job[h], req |-> want[h]]
           e == NextEvent(s, p)
<1>2. log' = log /\ pend' = [pend EXCEPT ![h] = e]
  BY <1>1 DEF ReadTail
<1>3. s \in Seq(Event) /\ p \in Payload
  BY <1>1 DEF SerialInv, FlowInv, FlowTypeOK, LedgerTypeOK, Payload
<1>4. e.payload = p
  BY DEF NextEvent
<1>5. Continues(s, e)
  <2>1. \A i \in 1..Len(s) : s[i].seq = i - 1 /\ s[i].hash = Prefix(s, i)
    BY <1>1 DEF TailInv, ChainInv, Chained
  <2> HIDE DEF s, p
  <2>. QED BY <1>3, <1>4, <2>1, NextEventContinues DEF Continues
<1> HIDE DEF e, p
<1>6. /\ pend'[h] = e /\ pc'[h] = "append"
      /\ \A g \in Handlers \ {h} : pend'[g] = pend[g] /\ pc'[g] = pc[g]
  BY <1>1, <1>2 DEF SerialInv, FlowInv, FlowTypeOK, LedgerTypeOK, Handlers
<1>7. ChainInv'
  BY <1>2 DEF TailInv, ChainInv
<1>8. ASSUME NEW g \in Handlers, pend'[g] # NoEvent
      PROVE  pc'[g] = "append" /\ Continues(log'[job'[g]], pend'[g])
  <2>1. CASE g = h
    BY <1>1, <1>2, <1>5, <1>6, <2>1
  <2>2. CASE g # h
    <3>1. pc[g] = "append" /\ Continues(log[job[g]], pend[g])
      BY <1>6, <1>8, <2>2 DEF TailInv, TailFresh
    <3>. QED BY <1>1, <1>2, <1>6, <2>2, <3>1
  <2>. QED BY <2>1, <2>2
<1>. QED BY <1>7, <1>8 DEF TailInv, TailFresh

(* Nobody else works on the delivery whose chain grows. *)
LEMMA TailAppendFresh ==
  ASSUME SerialInv, TailInv, NEW h \in Handlers, AppendToLedger(h)
  PROVE  TailInv'
<1> DEFINE e == pend[h]
           d == job[h]
           s == log[d]
<1>1. pc[h] = "append" /\ AppendOK(h) /\ e.payload.delivery = d /\ e # NoEvent
  BY DEF AppendToLedger, SerialInv, FlowInv, HandlerOK
<1>2. /\ e \in Event /\ d \in Deliveries /\ s \in Seq(Event)
      /\ log' = [log EXCEPT ![d] = Append(s, e)]
  BY <1>1, AppendOKAtEnd DEF SerialInv, FlowInv, Handlers
<1>3. Continues(s, e) /\ Chained(s)
  BY <1>1, <1>2 DEF TailInv, TailFresh, ChainInv
<1>4. Chained(Append(s, e))
  <2> HIDE DEF s, e
  <2>. QED BY <1>2, <1>3, AppendChained DEF Continues
<1>5. log'[d] = Append(s, e) /\ \A c \in Deliveries \ {d} : log'[c] = log[c]
  BY <1>2 DEF SerialInv, FlowInv, FlowTypeOK, LedgerTypeOK
<1>6. ChainInv'
  BY <1>4, <1>5 DEF TailInv, ChainInv
<1>7. ASSUME NEW g \in Handlers, pend'[g] # NoEvent
      PROVE  pc'[g] = "append" /\ Continues(log'[job'[g]], pend'[g])
  <2>1. /\ g # h /\ pend'[g] = pend[g]
    BY <1>1, <1>7 DEF AppendOK, SerialInv, FlowInv, FlowTypeOK, LedgerTypeOK, Handlers
  <2>2. pc'[g] = pc[g] /\ job'[g] = job[g]
    BY <2>1 DEF AppendToLedger, Finish, SerialInv, FlowInv, FlowTypeOK
  <2>3. pc[g] = "append" /\ Continues(log[job[g]], pend[g])
    BY <1>7, <2>1 DEF TailInv, TailFresh
  <2>4. job[g] \in Deliveries \ {d}
    BY <1>2, <2>1, <2>3, NoJobAssumption
       DEF SerialInv, FlowInv, HandlerOK, OneAtATime
  <2>. QED BY <1>5, <2>1, <2>2, <2>3, <2>4
<1>. QED BY <1>6, <1>7 DEF TailInv, TailFresh

LEMMA TailAbandonFresh ==
  ASSUME SerialInv, TailInv, NEW h \in Handlers, Abandon(h)
  PROVE  TailInv'
<1>1. /\ log' = log /\ pc'[h] = "idle"
      /\ \A g \in Handlers \ {h} :
           pend'[g] = pend[g] /\ pc'[g] = pc[g] /\ job'[g] = job[g]
  BY DEF Abandon, Finish, AppendFails, ledgerVars, SerialInv, FlowInv, FlowTypeOK,
         LedgerTypeOK, Handlers
<1>2. pend'[h] = NoEvent
  BY DEF Abandon, AppendFails, ledgerVars, TailInv, TailFresh, SerialInv, FlowInv,
         FlowTypeOK, LedgerTypeOK, Handlers
<1>3. ChainInv'
  BY <1>1 DEF TailInv, ChainInv
<1>4. ASSUME NEW g \in Handlers, pend'[g] # NoEvent
      PROVE  pc'[g] = "append" /\ Continues(log'[job'[g]], pend'[g])
  <2>1. g # h /\ pc[g] = "append" /\ Continues(log[job[g]], pend[g])
    BY <1>1, <1>2, <1>4 DEF TailInv, TailFresh
  <2>. QED BY <1>1, <2>1
<1>. QED BY <1>3, <1>4 DEF TailInv, TailFresh

LEMMA TailStep ==
  ASSUME SerialInv, TailInv, [SerialNext]_vars
  PROVE  TailInv'
<1>1. CASE UNCHANGED vars
  BY <1>1 DEF vars, flowVars, ledgerVars, TailInv, ChainInv, TailFresh
<1>2. CASE SerialNext
  <2>1. PICK h \in Handlers :
          \/ \E d \in Deliveries : Arrives(h, d)
          \/ HandlerStep(h)
          \/ Abandon(h)
    BY <1>2 DEF SerialNext
  <2>2. CASE ReadLedgerTail(h)
    BY <2>2, TailReadFresh
  <2>3. CASE AppendToLedger(h)
    BY <2>3, TailAppendFresh
  <2>4. CASE Abandon(h)
    BY <2>4, TailAbandonFresh
  <2>5. CASE \E d \in Deliveries : Arrives(h, d)
    <3>1. UNCHANGED << log, pend >> /\ pc[h] = "idle"
      BY <2>5 DEF Arrives, ReceiveCheckpoint, ReceiveWebhook, StartDispatch, Start,
                  ledgerVars
    <3>2. \A g \in Handlers \ {h} : pc'[g] = pc[g] /\ job'[g] = job[g]
      BY <2>5 DEF Arrives, ReceiveCheckpoint, ReceiveWebhook, StartDispatch, Start,
                  SerialInv, FlowInv, FlowTypeOK
    <3>. QED BY <3>1, <3>2, TailLedgerUnchanged
  <2>6. CASE \/ SaveRider(h) \/ SaveCancel(h) \/ LoadDelivery(h) \/ SaveDelivery(h)
             \/ SaveDispatch(h) \/ \E c \in Carriers : CreateShipment(h, c)
    <3>1. UNCHANGED << log, pend >> /\ pc[h] # "append"
      BY <2>6 DEF SaveRider, SaveCancel, LoadDelivery, SaveDelivery, SaveDispatch,
                  CreateShipment, ledgerVars
    <3>2. \A g \in Handlers \ {h} : pc'[g] = pc[g] /\ job'[g] = job[g]
      BY <2>6 DEF SaveRider, SaveCancel, LoadDelivery, SaveDelivery, SaveDispatch,
                  CreateShipment, Finish, SerialInv, FlowInv, FlowTypeOK
    <3>. QED BY <3>1, <3>2, TailLedgerUnchanged
  <2>. QED BY <2>1, <2>2, <2>3, <2>4, <2>5, <2>6 DEF HandlerStep
<1>. QED BY <1>1, <1>2

(* Handlers that do not overlap on a delivery leave a chain that verifies  *)
(* in either store: the UNIQUE constraint that the memory store lacks is   *)
(* needed only because handlers do overlap (memory/custody_repo.go, Append).    *)
THEOREM SerialChainVerifies == SerialSpec => []ChainVerifies
<1>1. FlowInit => TailInv
  <2>1. Chained(<< >>)
    BY EmptySeq DEF Chained
  <2>. QED BY <2>1 DEF FlowInit, LedgerInit, TailInv, ChainInv, TailFresh, Handlers
<1>2. SerialInv /\ TailInv /\ [SerialNext]_vars => TailInv'
  BY TailStep
<1>3. SerialInv /\ TailInv => ChainVerifies
  BY ChainedVerifies DEF SerialInv, FlowInv, FlowTypeOK, TailInv
<1>. QED BY <1>1, <1>2, <1>3, SerialInvariant, PTL DEF SerialSpec

=============================================================================
