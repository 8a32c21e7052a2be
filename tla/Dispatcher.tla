----------------------------- MODULE Dispatcher -----------------------------
(***************************************************************************)
(* From pending to assigned: the loop of cmd/dispatcher, which calls       *)
(* dispatch.Service.DispatchPending on every tick, next to the dispatch    *)
(* endpoint of the API, which calls DispatchDelivery for one delivery.     *)
(*                                                                         *)
(* A worker is either a loop or a request of the endpoint; todo holds the  *)
(* deliveries it still has to try.  Each call DispatchDelivery makes (to   *)
(* the database or to a carrier) is a step that may fail.  The router is   *)
(* the one app.New builds: the cheapest carrier that answers (see Routing).*)
(***************************************************************************)
EXTENDS Naturals, FiniteSets

CONSTANTS Deliveries,
          Carriers,
          Loops, Endpoints,  \* dispatcher processes; requests of the endpoint
          Batch,             \* DISPATCH_BATCH_SIZE
          Serves,            \* Serves[c]: deliveries c is eligible for
          Price,             \* Price[c]: c's estimate
          Rejects,           \* <<c, d>>: CreateShipment at c refuses d
          MaxFaults,         \* bound: calls that fail, answers lost, workers dying
          NoCarrier, NoDelivery

Workers == Loops \cup Endpoints

ASSUME BatchAssumption == Batch \in Nat \ {0}
ASSUME ServesAssumption == Serves \in [Carriers -> SUBSET Deliveries]
ASSUME PriceAssumption == Price \in [Carriers -> Nat]
ASSUME MaxFaultsAssumption == MaxFaults \in Nat
ASSUME NoneAssumption == NoCarrier \notin Carriers /\ NoDelivery \notin Deliveries

VARIABLES clock,     \* time of the next booking
          created,   \* created[d]: created_at, 0 before d is booked
          assigned,  \* assigned[d]: the carrier in the row once d is assigned
          orders,    \* orders carriers have accepted
          pc,        \* pc[w]: the call w makes next
          todo,      \* todo[w]: deliveries w still has to try
          current,   \* current[w]: the delivery w is dispatching
          chosen,    \* chosen[w]: the carrier routing has chosen for it
          faults     \* faults so far

rowVars == << clock, created, assigned >>
vars == << rowVars, orders, pc, todo, current, chosen, faults >>

(* What a carrier keeps of a request.  It answers a key it knows with the  *)
(* order it has.                                                           *)
Order == [ carrier : Carriers, key : Deliveries, delivery : Deliveries ]

DispatchTypeOK ==
  /\ clock \in Nat \ {0}
  /\ created \in [Deliveries -> Nat]
  /\ assigned \in [Deliveries -> Carriers \cup {NoCarrier}]
  /\ orders \subseteq Order
  /\ pc \in [Workers -> { "idle", "load", "route", "create", "save" }]
  /\ todo \in [Workers -> SUBSET Deliveries]
  /\ current \in [Workers -> Deliveries \cup {NoDelivery}]
  /\ chosen \in [Workers -> Carriers \cup {NoCarrier}]
  /\ faults \in Nat

DispatchInit ==
  /\ clock = 1
  /\ created = [d \in Deliveries |-> 0]
  /\ assigned = [d \in Deliveries |-> NoCarrier]
  /\ orders = {}
  /\ pc = [w \in Workers |-> "idle"]
  /\ todo = [w \in Workers |-> {}]
  /\ current = [w \in Workers |-> NoDelivery]
  /\ chosen = [w \in Workers |-> NoCarrier]
  /\ faults = 0

Fault == faults < MaxFaults /\ faults' = faults + 1

-----------------------------------------------------------------------------
(* Bookings, and what the database answers.                                *)

IsBooked(d) == created[d] # 0

(* A booking is saved as pending.  Dispatch does not read the carrier it   *)
(* may name.                                                               *)
Book(d) ==
  /\ ~IsBooked(d)
  /\ created' = [created EXCEPT ![d] = clock]
  /\ clock' = clock + 1
  /\ UNCHANGED << assigned, orders, pc, todo, current, chosen, faults >>

Pending == { d \in Deliveries : IsBooked(d) /\ assigned[d] = NoCarrier }

(* ListByState(pending, limit): ORDER BY created_at LIMIT. *)
Listed ==
  { d \in Pending : Cardinality({ e \in Pending : created[e] < created[d] }) < Batch }

IsOldest(d, ds) == d \in ds /\ \A e \in ds : created[d] <= created[e]

-----------------------------------------------------------------------------
(* Work arrives.                                                           *)

(* w has left to try. *)
Continue(w, left) ==
  /\ todo' = [todo EXCEPT ![w] = left]
  /\ pc' = [pc EXCEPT ![w] = IF left = {} THEN "idle" ELSE "load"]
  /\ current' = [current EXCEPT ![w] = NoDelivery]
  /\ chosen' = [chosen EXCEPT ![w] = NoCarrier]

(* A tick of the loop: DispatchPending lists its batch. *)
Tick(l) ==
  /\ pc[l] = "idle"
  /\ Continue(l, Listed)
  /\ UNCHANGED << rowVars, orders, faults >>

(* POST dispatch. *)
Post(e, d) ==
  /\ pc[e] = "idle"
  /\ IsBooked(d)
  /\ Continue(e, {d})
  /\ UNCHANGED << rowVars, orders, faults >>

-----------------------------------------------------------------------------
(* DispatchDelivery.                                                       *)

\* Mutant: an error ends the whole batch.
NextDelivery_Stops(w) == Continue(w, {})

(* DispatchDelivery returns, with or without an error, and DispatchPending *)
(* goes on with the rest.                                                  *)
NextDelivery(w) == Continue(w, todo[w])

(* GetByID; a delivery that is not pending is refused. *)
Load(w, d) ==
  /\ pc[w] = "load"
  /\ IsOldest(d, todo[w])
  /\ IF assigned[d] = NoCarrier
     THEN /\ pc' = [pc EXCEPT ![w] = "route"]
          /\ todo' = [todo EXCEPT ![w] = @ \ {d}]
          /\ current' = [current EXCEPT ![w] = d]
          /\ UNCHANGED chosen
     ELSE Continue(w, todo[w] \ {d})
  /\ UNCHANGED << rowVars, orders, faults >>

Eligible(d) == { c \in Carriers : d \in Serves[c] }

Cheapest(cs) == { c \in cs : \A b \in cs : Price[c] <= Price[b] }

(* Routing.Decide: the carriers in cs answer, and the cheapest is chosen.  *)
Route(w, cs) ==
  /\ pc[w] = "route"
  /\ cs \subseteq Eligible(current[w])
  /\ IF cs = Eligible(current[w]) THEN UNCHANGED faults ELSE Fault
  /\ \E c \in Cheapest(cs) : chosen' = [chosen EXCEPT ![w] = c]
  /\ pc' = [pc EXCEPT ![w] = "create"]
  /\ UNCHANGED << rowVars, orders, todo, current >>

(* Set when the delivery is booked, to its id, and stored with it. *)
IdempotencyKey(d) == d

NewOrder(w) ==
  [ carrier |-> chosen[w], key |-> IdempotencyKey(current[w]),
    delivery |-> current[w] ]

(* CreateShipment is not refused, be it by the adapter's mapper or by the  *)
(* carrier: both look at the request only, so a refusal is repeated.       *)
Accepts(w) == << chosen[w], current[w] >> \notin Rejects

\* Mutant: the error of a refusal is not returned.
CreateShipment_IgnoresRefusal(w) ==
  /\ pc[w] = "create"
  /\ orders' = IF Accepts(w) THEN orders \cup {NewOrder(w)} ELSE orders
  /\ pc' = [pc EXCEPT ![w] = "save"]
  /\ UNCHANGED << rowVars, todo, current, chosen, faults >>

CreateShipment(w) ==
  /\ pc[w] = "create"
  /\ Accepts(w)
  /\ orders' = orders \cup {NewOrder(w)}
  /\ pc' = [pc EXCEPT ![w] = "save"]
  /\ UNCHANGED << rowVars, todo, current, chosen, faults >>

(* The carrier accepts, and its answer is lost. *)
CreateTimesOut(w) ==
  /\ pc[w] = "create"
  /\ Accepts(w)
  /\ Fault
  /\ orders' = orders \cup {NewOrder(w)}
  /\ NextDelivery(w)
  /\ UNCHANGED rowVars

\* Mutant: the carrier is not set on the row.
Save_NoCarrier(w) ==
  /\ pc[w] = "save"
  /\ NextDelivery(w)
  /\ UNCHANGED << rowVars, orders, faults >>

\* Mutant: the row is given the id of the delivery for that of the carrier.
Save_WrongField(w) ==
  /\ pc[w] = "save"
  /\ assigned' = [assigned EXCEPT ![current[w]] = current[w]]
  /\ NextDelivery(w)
  /\ UNCHANGED << clock, created, orders, faults >>

(* Deliveries.Save: the row is assigned to the carrier. *)
Save(w) ==
  /\ pc[w] = "save"
  /\ assigned' = [assigned EXCEPT ![current[w]] = chosen[w]]
  /\ NextDelivery(w)
  /\ UNCHANGED << clock, created, orders, faults >>

(* No retry can help: no carrier is eligible, or the chosen one refuses. *)
Hopeless(w) ==
  \/ pc[w] = "route" /\ Eligible(current[w]) = {}
  \/ pc[w] = "create" /\ ~Accepts(w)

(* A call fails, once or for good: the parcel cannot be read, no carrier   *)
(* is eligible or answers, the carrier refuses, the row cannot be saved.   *)
(* The error is logged and nothing else is tried for this delivery.        *)
CallFails(w) ==
  /\ pc[w] \in { "route", "create", "save" }
  /\ IF Hopeless(w) THEN UNCHANGED faults ELSE Fault
  /\ NextDelivery(w)
  /\ UNCHANGED << rowVars, orders >>

(* GetByID fails. *)
LoadFails(w, d) ==
  /\ pc[w] = "load"
  /\ IsOldest(d, todo[w])
  /\ Fault
  /\ Continue(w, todo[w] \ {d})
  /\ UNCHANGED << rowVars, orders >>

Crash(w) ==
  /\ pc[w] # "idle"
  /\ Fault
  /\ Continue(w, {})
  /\ UNCHANGED << rowVars, orders >>

Step(w) ==
  \/ \E d \in Deliveries : Load(w, d) \/ LoadFails(w, d)
  \/ \E cs \in SUBSET Carriers : Route(w, cs)
  \/ CreateShipment(w) \/ CreateTimesOut(w)
  \/ Save(w)
  \/ CallFails(w)

DispatchNext ==
  \/ \E d \in Deliveries : Book(d)
  \/ \E l \in Loops : Tick(l)
  \/ \E e \in Endpoints, d \in Deliveries : Post(e, d)
  \/ \E w \in Workers : Step(w) \/ Crash(w)

(* The ticker fires, and a worker goes on from call to call, since every   *)
(* call has a timeout.  A loop that has died is started again (by what the *)
(* process runs under).  Faults are finitely many (MaxFaults): in the end  *)
(* the database and the carriers work.                                     *)
Fairness ==
  /\ \A l \in Loops : WF_vars(Tick(l))
  /\ \A w \in Workers : WF_vars(Step(w))

DispatchSpec == DispatchInit /\ [][DispatchNext]_vars /\ Fairness

-----------------------------------------------------------------------------
(* Properties.                                                             *)

Servable(d) == \E c \in Carriers : d \in Serves[c] /\ << c, d >> \notin Rejects

(* A pending delivery that some eligible carrier would take is assigned in *)
(* the end, though an older delivery that nobody can take stays pending    *)
(* and calls fail (DispatchPending goes on after an error, service.go:108).*)
PendingIsDispatched ==
  \A d \in Deliveries :
    Servable(d) => (IsBooked(d) ~> assigned[d] # NoCarrier)

(* No two orders are placed for one delivery: a CreateShipment that is     *)
(* repeated with the delivery's key is a no-op (docs/ARCHITECTURE.md:36).  *)
(* The key is known to the carrier that got it, but a retry asks Routing   *)
(* again (service.go:52), which may choose another one.                    *)
OneOrderEach == \A o, p \in orders : o.delivery = p.delivery => o = p

(* Where the order for a delivery is. *)
OrderedAt(d) == { o.carrier : o \in { p \in orders : p.delivery = d } }

Booked == { d \in Deliveries : IsBooked(d) }
TheOne(cs) == IF cs = {} THEN NoCarrier ELSE CHOOSE c \in cs : TRUE
Placed == [d \in Deliveries |-> TheOne(OrderedAt(d))]

Abstract == INSTANCE DispatchOnce
  WITH booked <- Booked, ordered <- Placed, named <- assigned

(* Although the carrier and the row are told in two calls, by workers that *)
(* race and die in between, a row never names a carrier without an order,  *)
(* and neither it nor the order ever moves to another carrier              *)
(* (service.go:64, :69).  The second half only holds where one carrier at  *)
(* most is eligible for each delivery.                                     *)
ImplementsDispatchOnce == Abstract!Spec

(* Where one carrier at most is eligible for each delivery, an order a     *)
(* carrier has accepted does not stay unknown: the row comes to name it,   *)
(* and webhooks about it find the delivery (DispatchDelivery saves after   *)
(* CreateShipment, and the next tick retries with the key).                *)
OrdersAreAdopted ==
  \A d \in Deliveries, c \in Carriers :
    (\E o \in orders : o.delivery = d /\ o.carrier = c) ~> assigned[d] = c

=============================================================================
