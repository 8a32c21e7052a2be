-------------------------- MODULE Dispatcher_proofs --------------------------
(***************************************************************************)
(* Proofs about Dispatcher, for any number of workers and faults.          *)
(*                                                                         *)
(* DispatchInv says that every order bears the key of its delivery, and    *)
(* that a worker only goes to a carrier that is eligible for the delivery  *)
(* in its hands.  PlacedInv says that a worker that is about to save has   *)
(* its order, so rows name carriers that have one.  The refinement needs   *)
(* one thing more: that one carrier at most is eligible for a delivery.    *)
(***************************************************************************)
EXTENDS Dispatcher, TLAPS

WorkerOK(w) ==
  /\ pc[w] \in { "route", "create", "save" } => current[w] \in Deliveries
  /\ pc[w] \in { "create", "save" } => chosen[w] \in Eligible(current[w])

OrdersOK ==
  \A o \in orders : o.key = o.delivery /\ o.carrier \in Eligible(o.delivery)

DispatchInv ==
  /\ DispatchTypeOK
  /\ \A w \in Workers : WorkerOK(w)
  /\ OrdersOK

LEMMA DispatchInvInit == DispatchInit => DispatchInv
  BY NoneAssumption
  DEF DispatchInit, DispatchInv, DispatchTypeOK, WorkerOK, OrdersOK

(* What a worker that moves on leaves behind. *)
LEMMA ContinueOK ==
  ASSUME DispatchInv, NEW w \in Workers, NEW left \in SUBSET Deliveries,
         Continue(w, left)
  PROVE  /\ pc' \in [Workers -> { "idle", "load", "route", "create", "save" }]
         /\ todo' \in [Workers -> SUBSET Deliveries]
         /\ current' \in [Workers -> Deliveries \cup {NoDelivery}]
         /\ chosen' \in [Workers -> Carriers \cup {NoCarrier}]
         /\ \A v \in Workers : WorkerOK(v)'
  <1>1. /\ pc' \in [Workers -> { "idle", "load", "route", "create", "save" }]
        /\ todo' \in [Workers -> SUBSET Deliveries]
        /\ current' \in [Workers -> Deliveries \cup {NoDelivery}]
        /\ chosen' \in [Workers -> Carriers \cup {NoCarrier}]
    BY DEF Continue, DispatchInv, DispatchTypeOK
  <1>2. ASSUME NEW v \in Workers
        PROVE  WorkerOK(v)'
    <2>1. CASE v = w
      <3>1. pc'[v] \in { "idle", "load" }
        BY <2>1 DEF Continue, DispatchInv, DispatchTypeOK
      <3> QED
        BY <3>1 DEF WorkerOK
    <2>2. CASE v # w
      <3>1. pc'[v] = pc[v] /\ current'[v] = current[v] /\ chosen'[v] = chosen[v]
        BY <2>2 DEF Continue, DispatchInv, DispatchTypeOK
      <3> QED
        BY <3>1 DEF WorkerOK, DispatchInv, Eligible
    <2> QED
      BY <2>1, <2>2
  <1> QED
    BY <1>1, <1>2

(* The order a worker places. *)
LEMMA NewOrderOK ==
  ASSUME DispatchInv, NEW w \in Workers, pc[w] = "create"
  PROVE  /\ NewOrder(w) \in Order
         /\ NewOrder(w).key = NewOrder(w).delivery
         /\ NewOrder(w).carrier \in Eligible(NewOrder(w).delivery)
  <1>1. current[w] \in Deliveries /\ chosen[w] \in Eligible(current[w])
    BY DEF DispatchInv, WorkerOK
  <1>2. chosen[w] \in Carriers
    BY <1>1 DEF Eligible
  <1> QED
    BY <1>1, <1>2 DEF NewOrder, Order, IdempotencyKey

LEMMA BookKeeps ==
  ASSUME DispatchInv, NEW d \in Deliveries, Book(d)
  PROVE  DispatchInv'
  <1>1. DispatchTypeOK'
    BY DEF DispatchInv, DispatchTypeOK, Book
  <1>2. (\A w \in Workers : WorkerOK(w)') /\ OrdersOK'
    BY DEF Book, DispatchInv, WorkerOK, OrdersOK, Eligible
  <1> QED
    BY <1>1, <1>2 DEF DispatchInv

LEMMA TickKeeps ==
  ASSUME DispatchInv, NEW l \in Loops, Tick(l)
  PROVE  DispatchInv'
  <1>1. Listed \in SUBSET Deliveries /\ l \in Workers
    BY DEF Listed, Pending, Workers
  <1>2. UNCHANGED << rowVars, orders, faults >> /\ Continue(l, Listed)
    BY DEF Tick
  <1> HIDE DEF Listed
  <1> QED
    BY <1>1, <1>2, ContinueOK DEF DispatchInv, DispatchTypeOK, rowVars, OrdersOK, Eligible

LEMMA PostKeeps ==
  ASSUME DispatchInv, NEW e \in Endpoints, NEW d \in Deliveries, Post(e, d)
  PROVE  DispatchInv'
  <1>1. {d} \in SUBSET Deliveries /\ e \in Workers
    BY DEF Workers
  <1>2. UNCHANGED << rowVars, orders, faults >> /\ Continue(e, {d})
    BY DEF Post
  <1> QED
    BY <1>1, <1>2, ContinueOK DEF DispatchInv, DispatchTypeOK, rowVars, OrdersOK, Eligible

LEMMA LoadKeeps ==
  ASSUME DispatchInv, NEW w \in Workers, NEW d \in Deliveries, Load(w, d)
  PROVE  DispatchInv'
  <1>1. todo[w] \ {d} \in SUBSET Deliveries /\ UNCHANGED << rowVars, orders, faults >>
    BY DEF DispatchInv, DispatchTypeOK, Load
  <1>2. CASE assigned[d] = NoCarrier
    <2>1. DispatchTypeOK'
      BY <1>1, <1>2 DEF Load, DispatchInv, DispatchTypeOK, rowVars
    <2>2. ASSUME NEW v \in Workers
          PROVE  WorkerOK(v)'
      BY <1>2 DEF Load, DispatchInv, DispatchTypeOK, WorkerOK, Eligible
    <2> QED
      BY <1>1, <2>1, <2>2 DEF DispatchInv, OrdersOK, Eligible
  <1>3. CASE assigned[d] # NoCarrier
    <2>1. Continue(w, todo[w] \ {d})
      BY <1>3 DEF Load
    <2> QED
      BY <1>1, <2>1, ContinueOK
      DEF DispatchInv, DispatchTypeOK, rowVars, OrdersOK, Eligible
  <1> QED
    BY <1>2, <1>3

LEMMA RouteKeeps ==
  ASSUME DispatchInv, NEW w \in Workers, NEW cs \in SUBSET Carriers, Route(w, cs)
  PROVE  DispatchInv'
  <1>1. PICK c \in Cheapest(cs) : chosen' = [chosen EXCEPT ![w] = c]
    BY DEF Route
  <1>2. c \in Eligible(current[w]) /\ c \in Carriers
    BY <1>1 DEF Cheapest, Route
  <1>3. /\ pc[w] = "route" /\ pc' = [pc EXCEPT ![w] = "create"]
        /\ UNCHANGED << rowVars, orders, todo, current >>
        /\ faults' \in Nat
    BY DEF Route, Fault, DispatchInv, DispatchTypeOK
  <1>4. DispatchTypeOK'
    BY <1>1, <1>2, <1>3 DEF DispatchInv, DispatchTypeOK, rowVars
  <1>5. ASSUME NEW v \in Workers
        PROVE  WorkerOK(v)'
    <2>1. current'[v] = current[v]
      BY <1>3
    <2>2. CASE v = w
      <3>1. chosen'[v] = c /\ pc[v] = "route"
        BY <1>1, <1>3, <2>2 DEF DispatchInv, DispatchTypeOK
      <3> QED
        BY <1>2, <2>1, <2>2, <3>1 DEF WorkerOK, DispatchInv, Eligible
    <2>3. CASE v # w
      BY <1>1, <1>3, <2>1, <2>3 DEF WorkerOK, DispatchInv, DispatchTypeOK, Eligible
    <2> QED
      BY <2>2, <2>3
  <1> QED
    BY <1>3, <1>4, <1>5 DEF DispatchInv, OrdersOK, Eligible

LEMMA CreateShipmentKeeps ==
  ASSUME DispatchInv, NEW w \in Workers, CreateShipment(w)
  PROVE  DispatchInv'
  <1>1. /\ pc[w] = "create" /\ orders' = orders \cup {NewOrder(w)}
        /\ pc' = [pc EXCEPT ![w] = "save"]
        /\ UNCHANGED << rowVars, todo, current, chosen, faults >>
    BY DEF CreateShipment
  <1>2. OrdersOK' /\ orders' \subseteq Order
    BY <1>1, NewOrderOK DEF DispatchInv, DispatchTypeOK, OrdersOK, Eligible
  <1>3. DispatchTypeOK'
    BY <1>1, <1>2 DEF DispatchInv, DispatchTypeOK, rowVars
  <1>4. \A v \in Workers : WorkerOK(v)'
    BY <1>1 DEF DispatchInv, DispatchTypeOK, WorkerOK, Eligible
  <1> QED
    BY <1>2, <1>3, <1>4 DEF DispatchInv

(* A worker ends an attempt: the row, the orders and the faults are all    *)
(* that may have changed besides the worker.                               *)
LEMMA EndingKeeps ==
  ASSUME DispatchInv, NEW w \in Workers, NEW left \in SUBSET Deliveries,
         Continue(w, left),
         UNCHANGED << clock, created >>,
         assigned' \in [Deliveries -> Carriers \cup {NoCarrier}],
         faults' \in Nat,
         OrdersOK', orders' \subseteq Order
  PROVE  DispatchInv'
  BY ContinueOK DEF DispatchInv, DispatchTypeOK

LEMMA StepKeeps ==
  ASSUME DispatchInv, NEW w \in Workers, Step(w) \/ Crash(w)
  PROVE  DispatchInv'
  <1>1. todo[w] \in SUBSET Deliveries /\ {} \in SUBSET Deliveries
    BY DEF DispatchInv, DispatchTypeOK
  <1>2. UNCHANGED orders => OrdersOK' /\ orders' \subseteq Order
    BY DEF DispatchInv, DispatchTypeOK, OrdersOK, Eligible
  <1>3. Fault => faults' \in Nat
    BY DEF Fault, DispatchInv, DispatchTypeOK
  <1>4. /\ UNCHANGED faults => faults' \in Nat
        /\ UNCHANGED assigned => assigned' \in [Deliveries -> Carriers \cup {NoCarrier}]
    BY DEF DispatchInv, DispatchTypeOK
  <1>5. ASSUME NEW d \in Deliveries, Load(w, d)
        PROVE  DispatchInv'
    BY <1>5, LoadKeeps
  <1>6. ASSUME NEW d \in Deliveries, LoadFails(w, d)
        PROVE  DispatchInv'
    <2>1. todo[w] \ {d} \in SUBSET Deliveries
      BY <1>1
    <2>2. Continue(w, todo[w] \ {d}) /\ Fault /\ UNCHANGED << rowVars, orders >>
      BY <1>6 DEF LoadFails
    <2> QED
      BY <1>2, <1>3, <1>4, <2>1, <2>2, EndingKeeps DEF rowVars
  <1>7. ASSUME NEW cs \in SUBSET Carriers, Route(w, cs)
        PROVE  DispatchInv'
    BY <1>7, RouteKeeps
  <1>8. CASE CreateShipment(w)
    BY <1>8, CreateShipmentKeeps
  <1>9. CASE CreateTimesOut(w)
    <2>1. /\ pc[w] = "create" /\ orders' = orders \cup {NewOrder(w)}
          /\ Fault /\ UNCHANGED rowVars /\ Continue(w, todo[w])
      BY <1>9 DEF CreateTimesOut, NextDelivery
    <2>2. OrdersOK' /\ orders' \subseteq Order
      BY <2>1, NewOrderOK DEF DispatchInv, DispatchTypeOK, OrdersOK, Eligible
    <2> QED
      BY <1>1, <1>3, <1>4, <2>1, <2>2, EndingKeeps DEF rowVars
  <1>10. CASE Save(w)
    <2>1. /\ pc[w] = "save" /\ Continue(w, todo[w])
          /\ assigned' = [assigned EXCEPT ![current[w]] = chosen[w]]
          /\ UNCHANGED << clock, created, orders, faults >>
      BY <1>10 DEF Save, NextDelivery
    <2>2. assigned' \in [Deliveries -> Carriers \cup {NoCarrier}]
      BY <2>1 DEF DispatchInv, DispatchTypeOK
    <2> QED
      BY <1>1, <1>2, <1>4, <2>1, <2>2, EndingKeeps
  <1>11. CASE CallFails(w)
    <2>1. /\ Continue(w, todo[w]) /\ UNCHANGED << rowVars, orders >>
          /\ Fault \/ UNCHANGED faults
      BY <1>11 DEF CallFails, NextDelivery
    <2> QED
      BY <1>1, <1>2, <1>3, <1>4, <2>1, EndingKeeps DEF rowVars
  <1>12. CASE Crash(w)
    <2>1. Continue(w, {}) /\ Fault /\ UNCHANGED << rowVars, orders >>
      BY <1>12 DEF Crash
    <2> QED
      BY <1>1, <1>2, <1>3, <1>4, <2>1, EndingKeeps DEF rowVars
  <1> QED
    BY <1>5, <1>6, <1>7, <1>8, <1>9, <1>10, <1>11, <1>12 DEF Step

(* Workers only ever hold deliveries with a carrier eligible for them, and *)
(* carriers only ever hold orders under the delivery's own key.            *)
THEOREM DispatchInvariant == DispatchSpec => []DispatchInv
  <1>1. DispatchInv /\ [DispatchNext]_vars => DispatchInv'
    <2> SUFFICES ASSUME DispatchInv, [DispatchNext]_vars
                 PROVE  DispatchInv'
      OBVIOUS
    <2>1. CASE UNCHANGED vars
      BY <2>1 DEF vars, rowVars, DispatchInv, DispatchTypeOK, WorkerOK, OrdersOK, Eligible
    <2> QED
      BY <2>1, BookKeeps, TickKeeps, PostKeeps, StepKeeps DEF DispatchNext
  <1> QED
    BY <1>1, DispatchInvInit, PTL DEF DispatchSpec

(* Rows, orders and workers stay well typed. *)
THEOREM DispatchTypeCorrect == DispatchSpec => []DispatchTypeOK
  <1>1. DispatchInv => DispatchTypeOK
    BY DEF DispatchInv
  <1> QED
    BY <1>1, DispatchInvariant, PTL

(* One carrier at most is eligible for each delivery. *)
OneCarrierEach == \A d \in Deliveries : \A b, c \in Eligible(d) : b = c

-----------------------------------------------------------------------------
(* Rows and orders agree.  Orders are never withdrawn, so it is enough     *)
(* that a worker saves what it has ordered; this needs no assumption about *)
(* who is eligible.                                                        *)

WorkerOrders(w) ==
  /\ todo[w] \subseteq Booked
  /\ pc[w] \in { "route", "create", "save" } => current[w] \in Booked
  /\ pc[w] = "save" => chosen[w] \in OrderedAt(current[w])

(* The carrier a row names has an order for the delivery. *)
RowsNameOrders == \A d \in Deliveries : assigned[d] # NoCarrier => assigned[d] \in OrderedAt(d)

PlacedInv == RowsNameOrders /\ \A w \in Workers : WorkerOrders(w)

(* What is booked and ordered stays so. *)
LEMMA NothingIsTakenBack ==
  ASSUME DispatchInv, [DispatchNext]_vars
  PROVE  /\ Booked \subseteq Booked'
         /\ orders \subseteq orders'
         /\ \A d : OrderedAt(d) \subseteq OrderedAt(d)'
  <1>1. Booked \subseteq Booked'
    <2>1. ASSUME NEW d \in Deliveries, Book(d)
          PROVE  Booked \subseteq Booked'
      <3>1. created' = [created EXCEPT ![d] = clock] /\ clock # 0 /\ created \in [Deliveries -> Nat]
        BY <2>1 DEF Book, DispatchInv, DispatchTypeOK
      <3> QED
        BY <3>1 DEF Booked, IsBooked
    <2>2. CASE UNCHANGED created
      BY <2>2 DEF Booked, IsBooked
    <2> QED
      BY <2>1, <2>2 DEF DispatchNext, Step, vars, rowVars, Tick, Post, Load, LoadFails, Route,
         CreateShipment, CreateTimesOut, Save, CallFails, Crash
  <1>2. orders \subseteq orders'
    BY DEF DispatchNext, Step, vars, Book, Tick, Post, Load, LoadFails, Route,
       CreateShipment, CreateTimesOut, Save, CallFails, Crash
  <1>3. \A d : OrderedAt(d) \subseteq OrderedAt(d)'
    BY <1>2 DEF OrderedAt
  <1> QED
    BY <1>1, <1>2, <1>3

(* A worker that moves on keeps to what is booked, and the others go on as *)
(* before.                                                                 *)
LEMMA ContinuePlaced ==
  ASSUME DispatchInv, PlacedInv, [DispatchNext]_vars,
         NEW w \in Workers, NEW left, left \subseteq Booked, Continue(w, left)
  PROVE  \A v \in Workers : WorkerOrders(v)'
  <1> SUFFICES ASSUME NEW v \in Workers
               PROVE  WorkerOrders(v)'
    OBVIOUS
  <1>1. CASE v = w
    <2>1. todo'[v] = left /\ pc'[v] \in { "idle", "load" }
      BY <1>1 DEF Continue, DispatchInv, DispatchTypeOK
    <2> QED
      BY <2>1, NothingIsTakenBack DEF WorkerOrders
  <1>2. CASE v # w
    <2>1. /\ todo'[v] = todo[v] /\ pc'[v] = pc[v]
          /\ current'[v] = current[v] /\ chosen'[v] = chosen[v]
      BY <1>2 DEF Continue, DispatchInv, DispatchTypeOK
    <2> QED
      BY <2>1, NothingIsTakenBack DEF WorkerOrders, PlacedInv
  <1> QED
    BY <1>1, <1>2

(* An order that is placed is found at its carrier. *)
LEMMA NewOrderIsThere ==
  ASSUME DispatchInv, NEW w \in Workers, current' = current, NewOrder(w) \in orders'
  PROVE  chosen[w] \in OrderedAt(current[w])'
  <1>1. /\ NewOrder(w).delivery = current[w] /\ NewOrder(w).carrier = chosen[w]
    BY DEF NewOrder
  <1> QED
    BY <1>1 DEF OrderedAt

LEMMA PlacedStep ==
  ASSUME DispatchInv, PlacedInv, [DispatchNext]_vars
  PROVE  PlacedInv'
  <1> USE NothingIsTakenBack
  <1>1. ASSUME UNCHANGED assigned
        PROVE  RowsNameOrders'
    BY <1>1 DEF PlacedInv, RowsNameOrders
  <1>2. ASSUME UNCHANGED << todo, pc, current, chosen >>
        PROVE  \A v \in Workers : WorkerOrders(v)'
    BY <1>2 DEF PlacedInv, WorkerOrders
  <1>3. \A w \in Workers : todo[w] \subseteq Booked /\ {} \subseteq Booked
    BY DEF PlacedInv, WorkerOrders
  <1>4. ASSUME NEW d \in Deliveries, Book(d)
        PROVE  PlacedInv'
    BY <1>1, <1>2, <1>4 DEF Book, PlacedInv
  <1>5. ASSUME NEW l \in Loops, Tick(l)
        PROVE  PlacedInv'
    <2>1. Listed \subseteq Booked /\ l \in Workers
      BY DEF Listed, Pending, Booked, Workers
    <2>2. Continue(l, Listed) /\ UNCHANGED rowVars
      BY <1>5 DEF Tick
    <2> HIDE DEF Listed
    <2> QED
      BY <1>1, <2>1, <2>2, ContinuePlaced DEF PlacedInv, rowVars
  <1>6. ASSUME NEW e \in Endpoints, NEW d \in Deliveries, Post(e, d)
        PROVE  PlacedInv'
    <2>1. {d} \subseteq Booked /\ e \in Workers
      BY <1>6 DEF Post, Booked, Workers
    <2>2. Continue(e, {d}) /\ UNCHANGED rowVars
      BY <1>6 DEF Post
    <2> QED
      BY <1>1, <2>1, <2>2, ContinuePlaced DEF PlacedInv, rowVars
  <1>7. ASSUME NEW w \in Workers, NEW d \in Deliveries, Load(w, d)
        PROVE  PlacedInv'
    <2>1. d \in todo[w] /\ d \in Booked /\ todo[w] \ {d} \subseteq Booked /\ UNCHANGED rowVars
      BY <1>3, <1>7 DEF Load, IsOldest
    <2>2. CASE Continue(w, todo[w] \ {d})
      BY <1>1, <2>1, <2>2, ContinuePlaced DEF PlacedInv, rowVars
    <2>3. ASSUME pc' = [pc EXCEPT ![w] = "route"], todo' = [todo EXCEPT ![w] = @ \ {d}],
                 current' = [current EXCEPT ![w] = d], UNCHANGED chosen,
                 NEW v \in Workers
          PROVE  WorkerOrders(v)'
      <3>1. CASE v = w
        <4>1. pc'[v] = "route" /\ todo'[v] = todo[w] \ {d} /\ current'[v] = d
          BY <2>3, <3>1 DEF DispatchInv, DispatchTypeOK
        <4> QED
          BY <2>1, <4>1 DEF WorkerOrders
      <3>2. CASE v # w
        <4>1. /\ pc'[v] = pc[v] /\ todo'[v] = todo[v] /\ current'[v] = current[v]
              /\ chosen'[v] = chosen[v]
          BY <2>3, <3>2 DEF DispatchInv, DispatchTypeOK
        <4> QED
          BY <4>1 DEF WorkerOrders, PlacedInv
      <3> QED
        BY <3>1, <3>2
    <2> QED
      BY <1>1, <1>7, <2>1, <2>2, <2>3 DEF Load, PlacedInv, rowVars
  <1>8. ASSUME NEW w \in Workers, NEW cs \in SUBSET Carriers, Route(w, cs)
        PROVE  PlacedInv'
    <2>1. /\ pc[w] = "route" /\ pc' = [pc EXCEPT ![w] = "create"]
          /\ UNCHANGED << rowVars, orders, todo, current >>
          /\ \E c : chosen' = [chosen EXCEPT ![w] = c]
      BY <1>8 DEF Route
    <2>2. ASSUME NEW v \in Workers
          PROVE  WorkerOrders(v)'
      <3>1. CASE v = w
        <4>1. pc[v] = "route" /\ pc'[v] = "create" /\ todo'[v] = todo[v] /\ current'[v] = current[v]
          BY <2>1, <3>1 DEF DispatchInv, DispatchTypeOK
        <4> QED
          BY <4>1 DEF WorkerOrders, PlacedInv
      <3>2. CASE v # w
        <4>1. /\ pc'[v] = pc[v] /\ todo'[v] = todo[v] /\ current'[v] = current[v]
              /\ chosen'[v] = chosen[v]
          BY <2>1, <3>2 DEF DispatchInv, DispatchTypeOK
        <4> QED
          BY <4>1 DEF WorkerOrders, PlacedInv
      <3> QED
        BY <3>1, <3>2
    <2> QED
      BY <1>1, <2>1, <2>2 DEF PlacedInv, rowVars
  <1>9. ASSUME NEW w \in Workers, CreateShipment(w)
        PROVE  PlacedInv'
    <2>1. /\ pc[w] = "create" /\ orders' = orders \cup {NewOrder(w)}
          /\ pc' = [pc EXCEPT ![w] = "save"]
          /\ UNCHANGED << rowVars, todo, current, chosen >>
      BY <1>9 DEF CreateShipment
    <2>2. chosen[w] \in OrderedAt(current[w])'
      BY <2>1, NewOrderIsThere
    <2>3. ASSUME NEW v \in Workers
          PROVE  WorkerOrders(v)'
      <3>1. todo'[v] = todo[v] /\ current'[v] = current[v] /\ chosen'[v] = chosen[v]
        BY <2>1
      <3>2. CASE v = w
        BY <2>1, <2>2, <3>1, <3>2 DEF WorkerOrders, PlacedInv
      <3>3. CASE v # w
        <4>1. pc'[v] = pc[v]
          BY <2>1, <3>3 DEF DispatchInv, DispatchTypeOK
        <4> QED
          BY <3>1, <4>1 DEF WorkerOrders, PlacedInv
      <3> QED
        BY <3>2, <3>3
    <2> QED
      BY <1>1, <2>1, <2>3 DEF PlacedInv, rowVars
  <1>10. ASSUME NEW w \in Workers, Save(w)
         PROVE  PlacedInv'
    <2>1. /\ pc[w] = "save" /\ Continue(w, todo[w]) /\ UNCHANGED orders
          /\ assigned' = [assigned EXCEPT ![current[w]] = chosen[w]]
      BY <1>10 DEF Save, NextDelivery
    <2>2. chosen[w] \in OrderedAt(current[w])
      BY <2>1 DEF PlacedInv, WorkerOrders
    <2>3. RowsNameOrders'
      BY <2>1, <2>2 DEF PlacedInv, RowsNameOrders, DispatchInv, DispatchTypeOK
    <2> QED
      BY <1>3, <2>1, <2>3, ContinuePlaced DEF PlacedInv
  <1>11. ASSUME NEW w \in Workers, CreateTimesOut(w) \/ CallFails(w)
         PROVE  PlacedInv'
    <2>1. Continue(w, todo[w]) /\ UNCHANGED rowVars
      BY <1>11 DEF CreateTimesOut, CallFails, NextDelivery
    <2> QED
      BY <1>1, <1>3, <2>1, ContinuePlaced DEF PlacedInv, rowVars
  <1>12. ASSUME NEW w \in Workers, Crash(w)
         PROVE  PlacedInv'
    <2>1. Continue(w, {}) /\ UNCHANGED rowVars
      BY <1>12 DEF Crash
    <2> QED
      BY <1>1, <1>3, <2>1, ContinuePlaced DEF PlacedInv, rowVars
  <1>13. ASSUME NEW w \in Workers, NEW d \in Deliveries, LoadFails(w, d)
         PROVE  PlacedInv'
    <2>1. Continue(w, todo[w] \ {d}) /\ UNCHANGED rowVars /\ todo[w] \ {d} \subseteq Booked
      BY <1>3, <1>13 DEF LoadFails
    <2> QED
      BY <1>1, <2>1, ContinuePlaced DEF PlacedInv, rowVars
  <1>14. CASE UNCHANGED vars
    BY <1>1, <1>2, <1>14 DEF vars, rowVars, PlacedInv
  <1> QED
    BY <1>4, <1>5, <1>6, <1>7, <1>8, <1>9, <1>10, <1>11, <1>12, <1>13, <1>14
    DEF DispatchNext, Step

(* Workers save only what they have ordered. *)
THEOREM PlacedInvariant == DispatchSpec => []PlacedInv
  <1>1. DispatchInit => PlacedInv
    BY NoneAssumption DEF DispatchInit, PlacedInv, RowsNameOrders, WorkerOrders
  <1>2. DispatchInv /\ PlacedInv /\ [DispatchNext]_vars => PlacedInv'
    BY PlacedStep
  <1> QED
    BY <1>1, <1>2, DispatchInvariant, PTL DEF DispatchSpec

(* Whoever is eligible and whatever fails: a row that is assigned names a  *)
(* carrier that has accepted an order for the delivery.                    *)
THEOREM AssignedRowsHaveOrders == DispatchSpec => []RowsNameOrders
  <1>1. PlacedInv => RowsNameOrders
    BY DEF PlacedInv
  <1> QED
    BY <1>1, PlacedInvariant, PTL

-----------------------------------------------------------------------------
(* Dispatch keeps its promise: from the books and the orders, each step    *)
(* books, places the order, adopts it, or does nothing.                    *)

LEMMA TheOneInSingleton ==
  ASSUME NEW cs, NEW c \in cs, \A b \in cs : b = c
  PROVE  TheOne(cs) = c
  <1>1. (CHOOSE x \in cs : TRUE) \in cs
    OBVIOUS
  <1>2. TheOne(cs) = CHOOSE x \in cs : TRUE
    BY DEF TheOne
  <1> QED
    BY <1>1, <1>2

(* Orders go where the delivery is served.                                 *)
LEMMA OrdersAreAtEligible ==
  ASSUME OneCarrierEach, DispatchInv, NEW d \in Deliveries
  PROVE  /\ OrderedAt(d) \subseteq Eligible(d)
         /\ Eligible(d) \subseteq Carriers
         /\ \A b, c \in Eligible(d) : b = c
         /\ NoCarrier \notin Eligible(d)
         /\ \A c \in OrderedAt(d) : Placed[d] = c
         /\ OrderedAt(d) = {} => Placed[d] = NoCarrier
  <1>1. OrderedAt(d) \subseteq Eligible(d)
    BY DEF OrderedAt, DispatchInv, OrdersOK
  <1>2. \A b, c \in Eligible(d) : b = c
    BY DEF OneCarrierEach
  <1>3. Eligible(d) \subseteq Carriers /\ NoCarrier \notin Eligible(d)
    BY NoneAssumption DEF Eligible
  <1>4. Placed[d] = TheOne(OrderedAt(d))
    BY DEF Placed
  <1>5. \A c \in OrderedAt(d) : Placed[d] = c
    BY <1>1, <1>2, <1>4, TheOneInSingleton
  <1>6. OrderedAt(d) = {} => Placed[d] = NoCarrier
    BY <1>4 DEF TheOne
  <1> QED
    BY <1>1, <1>2, <1>3, <1>5, <1>6

(* An accepted order is placed, or it is the one that was there before.    *)
LEMMA OrderingSimulates ==
  ASSUME OneCarrierEach, DispatchInv, PlacedInv,
         NEW w \in Workers, pc[w] = "create",
         orders' = orders \cup {NewOrder(w)}, UNCHANGED rowVars
  PROVE  [Abstract!Next]_<< Booked, Placed, assigned >>
  <1>1. current[w] \in Booked /\ current[w] \in Deliveries /\ chosen[w] \in Eligible(current[w])
    BY DEF DispatchInv, WorkerOK, PlacedInv, WorkerOrders
  <1>2. PICK d \in Deliveries : d = current[w]
    BY <1>1
  <1>3. PICK c \in Eligible(d) : c = chosen[w]
    BY <1>1, <1>2
  <1>4. /\ OrderedAt(d) \subseteq {c} /\ c \in Carriers /\ c # NoCarrier
        /\ OrderedAt(d) = {} => Placed[d] = NoCarrier
        /\ c \in OrderedAt(d) => Placed[d] = c
    BY OrdersAreAtEligible
  <1>5. UNCHANGED << Booked, assigned >>
    BY DEF rowVars, Booked, IsBooked
  <1>6. \A e \in Deliveries : OrderedAt(e)' = IF e = d THEN OrderedAt(e) \cup {c} ELSE OrderedAt(e)
    <2>1. NewOrder(w).delivery = d /\ NewOrder(w).carrier = c
      BY <1>2, <1>3 DEF NewOrder
    <2> QED
      BY <2>1 DEF OrderedAt
  <1>7. Placed' = [Placed EXCEPT ![d] = c]
    <2>1. OrderedAt(d)' = {c}
      BY <1>4, <1>6
    <2>2. TheOne({c}) = c
      BY TheOneInSingleton
    <2>3. ASSUME NEW e \in Deliveries
          PROVE  TheOne(OrderedAt(e)') = IF e = d THEN c ELSE TheOne(OrderedAt(e))
      BY <1>6, <2>1, <2>2
    <2>4. Placed' = [e \in Deliveries |-> TheOne(OrderedAt(e)')]
      BY DEF Placed, TheOne
    <2>5. Placed = [e \in Deliveries |-> TheOne(OrderedAt(e))]
      BY DEF Placed
    <2> QED
      BY <2>3, <2>4, <2>5
  <1>8. CASE OrderedAt(d) = {}
    <2>1. Abstract!Place(d, c)
      BY <1>1, <1>2, <1>4, <1>5, <1>7, <1>8 DEF Abstract!Place
    <2> QED
      BY <1>4, <2>1 DEF Abstract!Next
  <1>9. CASE OrderedAt(d) # {}
    <2>1. Placed[d] = c
      BY <1>4, <1>9
    <2>2. Placed' = Placed
      BY <1>7, <2>1 DEF Placed
    <2> QED
      BY <1>5, <2>2
  <1> QED
    BY <1>8, <1>9

(* A saved row names the carrier that has the order.                       *)
LEMMA SaveSimulates ==
  ASSUME OneCarrierEach, DispatchInv, PlacedInv, NEW w \in Workers, Save(w)
  PROVE  [Abstract!Next]_<< Booked, Placed, assigned >>
  <1>1. /\ pc[w] = "save" /\ UNCHANGED << created, orders >>
        /\ assigned' = [assigned EXCEPT ![current[w]] = chosen[w]]
    BY DEF Save
  <1>2. PICK d \in Deliveries : d = current[w]
    BY <1>1 DEF DispatchInv, WorkerOK
  <1>3. chosen[w] \in OrderedAt(d)
    BY <1>1, <1>2 DEF PlacedInv, WorkerOrders
  <1>4. Placed[d] = chosen[w] /\ Placed[d] # NoCarrier
    BY <1>3, OrdersAreAtEligible
  <1>5. UNCHANGED << Booked, Placed >>
    BY <1>1 DEF Booked, IsBooked, Placed, OrderedAt
  <1>6. Abstract!Adopt(d)
    BY <1>1, <1>2, <1>4, <1>5 DEF Abstract!Adopt
  <1> QED
    BY <1>6 DEF Abstract!Next

LEMMA BookSimulates ==
  ASSUME DispatchInv, NEW d \in Deliveries, Book(d)
  PROVE  [Abstract!Next]_<< Booked, Placed, assigned >>
  <1>1. /\ created' = [created EXCEPT ![d] = clock]
        /\ UNCHANGED << assigned, orders >>
        /\ clock # 0 /\ created \in [Deliveries -> Nat]
    BY DEF Book, DispatchInv, DispatchTypeOK
  <1>2. Booked' = Booked \cup {d}
    BY <1>1 DEF Booked, IsBooked
  <1>3. UNCHANGED << Placed, assigned >>
    BY <1>1 DEF Placed, OrderedAt
  <1> QED
    BY <1>2, <1>3 DEF Abstract!Next, Abstract!Book

(* Every other step leaves the books and the orders alone. *)
LEMMA DispatchSimulates ==
  ASSUME OneCarrierEach, DispatchInv, PlacedInv, [DispatchNext]_vars
  PROVE  [Abstract!Next]_<< Booked, Placed, assigned >>
  <1>1. ASSUME UNCHANGED << created, assigned, orders >>
        PROVE  [Abstract!Next]_<< Booked, Placed, assigned >>
    BY <1>1 DEF Booked, IsBooked, Placed, OrderedAt
  <1>2. ASSUME NEW w \in Workers, CreateShipment(w) \/ CreateTimesOut(w)
        PROVE  [Abstract!Next]_<< Booked, Placed, assigned >>
    BY <1>2, OrderingSimulates DEF CreateShipment, CreateTimesOut
  <1>3. ASSUME NEW w \in Workers, Step(w) \/ Crash(w),
               ~CreateShipment(w), ~CreateTimesOut(w), ~Save(w)
        PROVE  UNCHANGED << created, assigned, orders >>
    BY <1>3 DEF Step, rowVars, Load, LoadFails, Route, CallFails, Crash
  <1>4. (\E l \in Loops : Tick(l)) \/ (\E e \in Endpoints, d \in Deliveries : Post(e, d))
          => UNCHANGED << created, assigned, orders >>
    BY DEF Tick, Post, rowVars
  <1> QED
    BY <1>1, <1>2, <1>3, <1>4, BookSimulates, SaveSimulates DEF DispatchNext, vars, rowVars

(* Where at most one carrier is eligible for a delivery, any number of     *)
(* workers that race, lose answers and die keep the promise of one order,  *)
(* at the carrier that the row names.                                      *)
THEOREM DispatchImplementsDispatchOnce ==
  ASSUME OneCarrierEach
  PROVE  DispatchSpec => ImplementsDispatchOnce
  <1>1. DispatchInit => Abstract!Init
    <2> SUFFICES ASSUME DispatchInit
                 PROVE  Abstract!Init
      OBVIOUS
    <2>1. Booked = {}
      BY DEF DispatchInit, Booked, IsBooked
    <2>2. \A d \in Deliveries : TheOne(OrderedAt(d)) = NoCarrier
      BY DEF DispatchInit, OrderedAt, TheOne
    <2>3. Placed = [d \in Deliveries |-> NoCarrier]
      BY <2>2 DEF Placed
    <2> QED
      BY <2>1, <2>3 DEF DispatchInit, Abstract!Init
  <1>2. DispatchInv /\ PlacedInv /\ [DispatchNext]_vars
          => [Abstract!Next]_<< Booked, Placed, assigned >>
    BY DispatchSimulates
  <1>3. DispatchSpec => Abstract!Init /\ [][Abstract!Next]_<< Booked, Placed, assigned >>
    BY <1>1, <1>2, DispatchInvariant, PlacedInvariant, PTL DEF DispatchSpec
  <1> QED
    BY <1>3 DEF ImplementsDispatchOnce, Abstract!Spec

=============================================================================
