------------------------------- MODULE Booking -------------------------------
(***************************************************************************)
(* From a customer's order to a pending delivery:                          *)
(* booking.Service.CreateBooking behind POST /v1/bookings.  A request      *)
(* validates its input and builds a parcel (awb.AWB) and its last-mile leg *)
(* (delivery.Delivery) under new ids, and saves them with two calls to the *)
(* database, each of which may fail; the answer may be lost as well, and   *)
(* the customer then tries again with another request.                     *)
(*                                                                         *)
(* r names both the parcel and the leg of request r.  Price stands for     *)
(* pricing.Engine.Quote (see Pricing).                                     *)
(***************************************************************************)
EXTENDS DeliveryStates, Naturals

CONSTANTS Requests,   \* POST requests, the ids each of them generates
          Customers,  \* those who want one delivery each
          Trips,      \* what requests may ask for
          Price,      \* Price[t]: the quote for trip t
          MaxTime,    \* bound on the clock
          MaxFaults,  \* bound: calls that fail, answers lost, crashes
          MaxMoves,   \* bound: steps of the carriers
          NoRow       \* no such row

(* from and to: the slot, in no order yet; weight 0: none was given, in    *)
(* kg; external: the customer pasted a mid-mile tracking number.           *)
ASSUME TripsAssumption ==
  Trips \subseteq [ from : Nat, to : Nat, weight : Nat, external : BOOLEAN ]
ASSUME PriceAssumption == Price \in [Trips -> Nat]
ASSUME BoundsAssumption == MaxTime \in Nat /\ MaxFaults \in Nat /\ MaxMoves \in Nat

-----------------------------------------------------------------------------
(* The parcel.                                                             *)

ParcelState == { "created", "at_locker", "scheduled", "dispatched", "in_transit",
                 "delivered", "failed", "cancelled", "returned" }

(* The graph of awb.Transition. *)
parcelTransitions ==
  [ created    |-> { "at_locker", "dispatched", "cancelled" },
    at_locker  |-> { "scheduled", "cancelled", "returned" },
    scheduled  |-> { "dispatched", "cancelled", "at_locker" },
    dispatched |-> { "in_transit", "failed", "cancelled" },
    in_transit |-> { "delivered", "failed" },
    failed     |-> { "returned", "dispatched", "cancelled" },
    delivered  |-> {},
    cancelled  |-> {},
    returned   |-> { "scheduled", "cancelled" } ]

MaxWeight == 50

validatePackage(w) == 0 < w /\ w <= MaxWeight

\* A weight that is missing is taken to be 1 kg.
Weight(t) == IF t.weight = 0 THEN 1 ELSE t.weight

(* The reason is NULL in the database when it is empty. *)
Parcel ==
  [ weight : Nat, external : BOOLEAN, state : ParcelState,
    reason : { "none", "customer_requested_concierge" } ]

\* Mutant: the parcel is saved as it is created.
NewParcel_NoTransition(t) ==
  [ weight |-> Weight(t), external |-> t.external, state |-> "created",
    reason |-> "none" ]

\* Mutant: the parcel is given the first state of a leg.
NewParcel_Pending(t) ==
  [ weight |-> Weight(t), external |-> t.external, state |-> "pending",
    reason |-> "customer_requested_concierge" ]

(* awb.New, AttachExternal and the transition CreateBooking makes. *)
NewParcel(t) ==
  [ weight |-> Weight(t), external |-> t.external, state |-> "at_locker",
    reason |-> "customer_requested_concierge" ]

(* scanAWB reads state_reason into a string, which NULL does not fit. *)
Scans(p) == p.reason # "none"

-----------------------------------------------------------------------------
(* The leg.                                                                *)

Leg == [ parcel : Requests, key : Requests, from : Nat, to : Nat,
         price : Nat, created : Nat, state : State ]

NewLeg(r, t, time) ==
  [ parcel |-> r, key |-> r, from |-> t.from, to |-> t.to,
    price |-> Price[t], created |-> time, state |-> "pending" ]

(* Delivery.Schedule: the slot is neither empty nor in the past. *)
Schedulable(t, time) == t.from < t.to /\ time <= t.from

ASSUME NoRowAssumption == NoRow \notin Leg \cup Parcel \cup Trips

(* CreateBooking gets as far as saving. *)
Bookable(t, time) ==
  /\ t.from <= t.to
  /\ validatePackage(Weight(t))
  /\ "at_locker" \in parcelTransitions["created"]
  /\ Schedulable(t, time)

-----------------------------------------------------------------------------

VARIABLES now,         \* the clock
          pc,          \* pc[r]: where request r is
          sender,      \* sender[r]: the customer who sent it
          trip,        \* trip[r]: what it asks for
          draft,       \* draft[r]: the leg built in memory for it
          awbs,        \* the table of parcels
          deliveries,  \* the table of legs
          faults, moves

requestVars == << sender, trip, draft >>
vars == << now, pc, requestVars, awbs, deliveries, faults, moves >>

BookingTypeOK ==
  /\ now \in Nat
  /\ pc \in [Requests -> { "unsent", "save_awb", "save_delivery", "answer",
                           "booked", "failed" }]
  /\ sender \in [Requests -> Customers \cup {NoRow}]
  /\ trip \in [Requests -> Trips \cup {NoRow}]
  /\ draft \in [Requests -> Leg \cup {NoRow}]
  /\ awbs \in [Requests -> Parcel \cup {NoRow}]
  /\ deliveries \in [Requests -> Leg \cup {NoRow}]
  /\ faults \in Nat
  /\ moves \in Nat

BookingInit ==
  /\ now = 0
  /\ pc = [r \in Requests |-> "unsent"]
  /\ sender = [r \in Requests |-> NoRow]
  /\ trip = [r \in Requests |-> NoRow]
  /\ draft = [r \in Requests |-> NoRow]
  /\ awbs = [r \in Requests |-> NoRow]
  /\ deliveries = [r \in Requests |-> NoRow]
  /\ faults = 0
  /\ moves = 0

Fault == faults < MaxFaults /\ faults' = faults + 1

Goes(r, next) == pc' = [pc EXCEPT ![r] = next]

Wait ==
  /\ now < MaxTime
  /\ now' = now + 1
  /\ UNCHANGED << pc, requestVars, awbs, deliveries, faults, moves >>

(* c has no request on its way, and has not been told that it is booked. *)
Wants(c) ==
  \A r \in Requests : sender[r] = c => pc[r] = "failed"

(* CreateBooking up to the first save; 422 when the input is refused. *)
Post(r, c, t) ==
  /\ pc[r] = "unsent"
  /\ Wants(c)
  /\ sender' = [sender EXCEPT ![r] = c]
  /\ IF Bookable(t, now)
     THEN /\ Goes(r, "save_awb")
          /\ trip' = [trip EXCEPT ![r] = t]
          /\ draft' = [draft EXCEPT ![r] = NewLeg(r, t, now)]
     ELSE /\ Goes(r, "failed")
          /\ UNCHANGED << trip, draft >>
  /\ UNCHANGED << now, awbs, deliveries, faults, moves >>

InsertParcel(r) ==
  /\ awbs' = [awbs EXCEPT ![r] = NewParcel(trip[r])]
  /\ UNCHANGED deliveries

InsertLeg(r) ==
  /\ deliveries' = [deliveries EXCEPT ![r] = draft[r]]
  /\ UNCHANGED awbs

\* Mutant: the leg is saved first, and the parcel after it.
Insert_LegFirst(r) ==
  \/ pc[r] = "save_awb" /\ InsertLeg(r)
  \/ pc[r] = "save_delivery" /\ InsertParcel(r)

(* The row the call of r inserts. *)
Insert(r) ==
  \/ pc[r] = "save_awb" /\ InsertParcel(r)
  \/ pc[r] = "save_delivery" /\ InsertLeg(r)

\* Mutant: an error from Deliveries.Save is swallowed.
SaveFails_Swallowed(r) ==
  /\ pc[r] \in { "save_awb", "save_delivery" }
  /\ Fault
  /\ Goes(r, IF pc[r] = "save_awb" THEN "failed" ELSE "answer")
  /\ UNCHANGED << awbs, deliveries, now, requestVars, moves >>

(* AWBs.Save, then Deliveries.Save. *)
Save(r) ==
  /\ Insert(r)
  /\ Goes(r, IF pc[r] = "save_awb" THEN "save_delivery" ELSE "answer")
  /\ UNCHANGED << now, requestVars, faults, moves >>

(* A save fails and CreateBooking returns its error, or the process dies:  *)
(* the row has not been written, or it has and nobody was told.            *)
SaveFails(r) ==
  /\ pc[r] \in { "save_awb", "save_delivery" }
  /\ Fault
  /\ Insert(r) \/ UNCHANGED << awbs, deliveries >>
  /\ Goes(r, "failed")
  /\ UNCHANGED << now, requestVars, moves >>

(* 201, with the ids and the price. *)
Answer(r) ==
  /\ pc[r] = "answer"
  /\ Goes(r, "booked")
  /\ UNCHANGED << now, requestVars, awbs, deliveries, faults, moves >>

AnswerLost(r) ==
  /\ pc[r] = "answer"
  /\ Fault
  /\ Goes(r, "failed")
  /\ UNCHANGED << now, requestVars, awbs, deliveries, moves >>

(* The leg's later life (dispatch, webhooks, checkpoints; see              *)
(* DeliveryFlow): every service there saves legs and none saves parcels.   *)
Carry(r, s) ==
  /\ moves < MaxMoves
  /\ deliveries[r] # NoRow
  /\ CanTransition(deliveries[r].state, s)
  /\ moves' = moves + 1
  /\ deliveries' = [deliveries EXCEPT ![r].state = s]
  /\ UNCHANGED << now, pc, requestVars, awbs, faults >>

BookingNext ==
  \/ Wait
  \/ \E r \in Requests :
       \/ \E c \in Customers, t \in Trips : Post(r, c, t)
       \/ Save(r) \/ SaveFails(r)
       \/ Answer(r) \/ AnswerLost(r)
       \/ \E s \in State : Carry(r, s)

BookingSpec == BookingInit /\ [][BookingNext]_vars

-----------------------------------------------------------------------------
(* Properties.                                                             *)

IsBooked(r) == deliveries[r] # NoRow

(* Dispatch and GET /v1/bookings find a leg first and read its parcel      *)
(* then: it is there and it can be read, whatever saves failed, and the    *)
(* slot lay ahead when it was booked (dispatch/service.go:46,              *)
(* booking/service.go:163, awb_repo.go:93).                                *)
LegsHaveParcels ==
  \A r \in Requests : IsBooked(r) =>
    /\ awbs[deliveries[r].parcel] # NoRow
    /\ Scans(awbs[deliveries[r].parcel])
    /\ deliveries[r].created <= deliveries[r].from
    /\ deliveries[r].from < deliveries[r].to

(* A customer who has been told of a booking has it: the leg is stored,    *)
(* with its parcel and the price quoted to the customer (CreateBooking     *)
(* returns after both saves).                                              *)
AnsweredIsBooked ==
  \A r \in Requests : pc[r] = "booked" =>
    /\ IsBooked(r)
    /\ awbs[r] = NewParcel(trip[r])
    /\ deliveries[r].price = Price[trip[r]]

(* A leg that cannot change: all of it but the state. *)
Terms(leg) == [ from |-> leg.from, to |-> leg.to, price |-> leg.price, key |-> leg.key ]

Orders ==
  { [ id |-> r, content |-> << awbs[r], Terms(deliveries[r]) >> ] :
      r \in { q \in Requests : IsBooked(q) } }

(* Parcels with their legs, as they may be booked. *)
OrderContents ==
  { << NewParcel(t), Terms(NewLeg(r, t, 0)) >> : r \in Requests, t \in Trips }

Abstract == INSTANCE AtomicBooking
  WITH Ids <- Requests, Contents <- OrderContents, bookings <- Orders

(* Although it makes two calls and either may fail, CreateBooking books in *)
(* one step and for good (it saves the leg last).                          *)
ImplementsAtomicBooking == Abstract!Spec

=============================================================================
