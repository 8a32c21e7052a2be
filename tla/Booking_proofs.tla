--------------------------- MODULE Booking_proofs ---------------------------
(***************************************************************************)
(* Proofs about Booking, for any number of requests, customers and faults. *)
(*                                                                         *)
(* The invariant follows a request through CreateBooking: what it has      *)
(* built, and which of its two rows are stored, at each point.  The leg is *)
(* stored last, so a stored leg has its parcel: the order is booked by the *)
(* step that inserts the leg, and by no other.                             *)
(***************************************************************************)
EXTENDS Booking, TLAPS

(* A leg built for request r. *)
LegOf(r, leg) ==
  /\ trip[r] \in Trips
  /\ leg \in Leg
  /\ leg.parcel = r
  /\ leg.created <= leg.from
  /\ leg.from < leg.to
  /\ Terms(leg) = Terms(NewLeg(r, trip[r], 0))

RequestOK(r) ==
  /\ pc[r] \in { "save_awb", "save_delivery", "answer", "booked" }
       => LegOf(r, draft[r])
  /\ pc[r] \in { "save_delivery", "answer", "booked" } => awbs[r] = NewParcel(trip[r])
  /\ pc[r] \in { "answer", "booked" } => IsBooked(r)
  /\ pc[r] \in { "unsent", "save_awb", "save_delivery" } => ~IsBooked(r)
  /\ IsBooked(r) => LegOf(r, deliveries[r]) /\ awbs[r] = NewParcel(trip[r])

BookingInv ==
  /\ BookingTypeOK
  /\ \A r \in Requests : RequestOK(r)

LEMMA BookingInvInit == BookingInit => BookingInv
  BY DEF BookingInit, BookingInv, BookingTypeOK, RequestOK, IsBooked

-----------------------------------------------------------------------------
(* What a request builds.                                                  *)

LEMMA NewParcelTyped ==
  ASSUME NEW t \in Trips
  PROVE  NewParcel(t) \in Parcel /\ Scans(NewParcel(t))
  BY TripsAssumption DEF NewParcel, Parcel, ParcelState, Weight, Scans

LEMMA NewLegTyped ==
  ASSUME NEW r \in Requests, NEW t \in Trips, NEW time \in Nat, Bookable(t, time)
  PROVE  /\ NewLeg(r, t, time) \in Leg
         /\ NewLeg(r, t, time).parcel = r
         /\ NewLeg(r, t, time).created <= NewLeg(r, t, time).from
         /\ NewLeg(r, t, time).from < NewLeg(r, t, time).to
         /\ Terms(NewLeg(r, t, time)) = Terms(NewLeg(r, t, 0))
  <1>1. /\ t.from \in Nat
        /\ t.to \in Nat
        /\ t.from < t.to
        /\ time <= t.from
        /\ Price[t] \in Nat
    BY TripsAssumption, PriceAssumption DEF Bookable, Schedulable
  <1> QED
    BY <1>1 DEF NewLeg, Leg, State, Terms

(* A leg that moves on keeps its terms. *)
LEMMA MovedLeg ==
  ASSUME NEW leg \in Leg, NEW s \in State
  PROVE  /\ [leg EXCEPT !.state = s] \in Leg
         /\ [leg EXCEPT !.state = s].parcel = leg.parcel
         /\ [leg EXCEPT !.state = s].created = leg.created
         /\ Terms([leg EXCEPT !.state = s]) = Terms(leg)
  BY DEF Leg, Terms

-----------------------------------------------------------------------------
(* Each action preserves the invariant.                                    *)

(* A step that only moves request r, and not to "booked" or back. *)
LEMMA OthersKeep ==
  ASSUME NEW r \in Requests, NEW q \in Requests, RequestOK(q), q # r,
         pc'[q] = pc[q], trip'[q] = trip[q], draft'[q] = draft[q],
         awbs'[q] = awbs[q], deliveries'[q] = deliveries[q]
  PROVE  RequestOK(q)'
  BY DEF RequestOK, LegOf, IsBooked, Terms, NewLeg

LEMMA PostKeeps ==
  ASSUME BookingInv, NEW r \in Requests, NEW c \in Customers, NEW t \in Trips,
         Post(r, c, t)
  PROVE  BookingInv'
  <1> USE DEF BookingInv
  <1>1. /\ pc[r] = "unsent" /\ ~IsBooked(r) /\ now \in Nat
        /\ UNCHANGED << now, awbs, deliveries, faults, moves >>
    BY DEF Post, BookingTypeOK, RequestOK
  <1>2. CASE Bookable(t, now)
    <2>1. /\ pc' = [pc EXCEPT ![r] = "save_awb"]
          /\ trip' = [trip EXCEPT ![r] = t]
          /\ draft' = [draft EXCEPT ![r] = NewLeg(r, t, now)]
          /\ sender' = [sender EXCEPT ![r] = c]
      BY <1>2 DEF Post, Goes
    <2>2. NewLeg(r, t, now) \in Leg
      BY <1>1, <1>2, NewLegTyped
    <2>3. BookingTypeOK'
      BY <1>1, <2>1, <2>2 DEF BookingTypeOK
    <2>4. RequestOK(r)'
      <3>1. /\ pc'[r] = "save_awb" /\ trip'[r] = t
            /\ draft'[r] = NewLeg(r, t, now) /\ deliveries'[r] = NoRow
        BY <1>1, <2>1 DEF BookingTypeOK, IsBooked
      <3>2. LegOf(r, draft[r])'
        BY <1>1, <1>2, <3>1, NewLegTyped DEF LegOf
      <3> QED
        BY <3>1, <3>2 DEF RequestOK, IsBooked
    <2>5. ASSUME NEW q \in Requests, q # r PROVE RequestOK(q)'
      BY <1>1, <2>1, <2>5, OthersKeep DEF BookingTypeOK
    <2> QED
      BY <2>3, <2>4, <2>5
  <1>3. CASE ~Bookable(t, now)
    <2>1. /\ pc' = [pc EXCEPT ![r] = "failed"]
          /\ UNCHANGED << trip, draft >>
          /\ sender' = [sender EXCEPT ![r] = c]
      BY <1>3 DEF Post, Goes
    <2>2. BookingTypeOK'
      BY <1>1, <2>1 DEF BookingTypeOK
    <2>3. RequestOK(r)'
      BY <1>1, <2>1 DEF BookingTypeOK, RequestOK, IsBooked
    <2>4. ASSUME NEW q \in Requests, q # r PROVE RequestOK(q)'
      BY <1>1, <2>1, <2>4, OthersKeep DEF BookingTypeOK
    <2> QED
      BY <2>2, <2>3, <2>4
  <1> QED
    BY <1>2, <1>3

(* The row a call inserts, whatever becomes of the request. *)
LEMMA InsertKeeps ==
  ASSUME BookingInv, NEW r \in Requests, Insert(r), UNCHANGED << now, requestVars, moves >>,
         faults' \in Nat,
         NEW next \in { "save_delivery", "answer", "failed" }, Goes(r, next),
         next = "save_delivery" => pc[r] = "save_awb",
         next = "answer" => pc[r] = "save_delivery"
  PROVE  BookingInv'
  <1> USE DEF BookingInv
  <1>1. LegOf(r, draft[r]) /\ ~IsBooked(r) /\ RequestOK(r)
    BY DEF Insert, RequestOK
  <1>2. /\ pc' = [pc EXCEPT ![r] = next]
        /\ UNCHANGED << now, sender, trip, draft, moves >>
    BY DEF Goes, requestVars
  <1>3. CASE pc[r] = "save_awb"
    <2>1. awbs' = [awbs EXCEPT ![r] = NewParcel(trip[r])] /\ UNCHANGED deliveries
      BY <1>3 DEF Insert, InsertParcel
    <2>2. NewParcel(trip[r]) \in Parcel
      BY <1>1, NewParcelTyped DEF LegOf
    <2>3. BookingTypeOK'
      BY <1>2, <2>1, <2>2 DEF BookingTypeOK
    <2>4. RequestOK(r)'
      <3>1. /\ pc'[r] = next /\ next # "answer"
            /\ trip'[r] = trip[r] /\ draft'[r] = draft[r]
            /\ awbs'[r] = NewParcel(trip[r]) /\ deliveries'[r] = NoRow
        BY <1>1, <1>2, <1>3, <2>1 DEF BookingTypeOK, IsBooked
      <3>2. LegOf(r, draft[r])'
        BY <1>1, <3>1 DEF LegOf, Terms, NewLeg
      <3>3. awbs'[r] = NewParcel(trip[r])'
        BY <3>1 DEF NewParcel, Weight
      <3> QED
        BY <3>1, <3>2, <3>3 DEF RequestOK, IsBooked
    <2>5. ASSUME NEW q \in Requests, q # r PROVE RequestOK(q)'
      BY <1>2, <2>1, <2>5, OthersKeep DEF BookingTypeOK
    <2> QED
      BY <2>3, <2>4, <2>5
  <1>4. CASE pc[r] = "save_delivery"
    <2>1. deliveries' = [deliveries EXCEPT ![r] = draft[r]] /\ UNCHANGED awbs
      BY <1>4 DEF Insert, InsertLeg
    <2>2. draft[r] \in Leg /\ awbs[r] = NewParcel(trip[r])
      BY <1>1, <1>4 DEF LegOf, RequestOK
    <2>3. BookingTypeOK'
      BY <1>2, <2>1, <2>2 DEF BookingTypeOK
    <2>4. RequestOK(r)'
      <3>1. /\ pc'[r] = next /\ next # "save_delivery"
            /\ trip'[r] = trip[r] /\ draft'[r] = draft[r]
            /\ awbs'[r] = awbs[r] /\ deliveries'[r] = draft[r]
        BY <1>2, <1>4, <2>1 DEF BookingTypeOK
      <3>2. LegOf(r, draft[r])' /\ LegOf(r, deliveries[r])'
        BY <1>1, <3>1 DEF LegOf, Terms, NewLeg
      <3>3. awbs'[r] = NewParcel(trip[r])'
        BY <2>2, <3>1 DEF NewParcel, Weight
      <3>4. deliveries'[r] # NoRow
        BY <2>2, <3>1, NoRowAssumption
      <3> QED
        BY <3>1, <3>2, <3>3, <3>4 DEF RequestOK, IsBooked
    <2>5. ASSUME NEW q \in Requests, q # r PROVE RequestOK(q)'
      BY <1>2, <2>1, <2>5, OthersKeep DEF BookingTypeOK
    <2> QED
      BY <2>3, <2>4, <2>5
  <1> QED
    BY <1>3, <1>4 DEF Insert

LEMMA SaveKeeps ==
  ASSUME BookingInv, NEW r \in Requests, Save(r) \/ SaveFails(r)
  PROVE  BookingInv'
  <1>1. faults \in Nat /\ (UNCHANGED faults \/ Fault => faults' \in Nat)
    BY DEF BookingInv, BookingTypeOK, Fault
  <1>2. CASE Save(r)
    <2>1. /\ Insert(r) /\ UNCHANGED << now, requestVars, faults, moves >>
          /\ Goes(r, IF pc[r] = "save_awb" THEN "save_delivery" ELSE "answer")
      BY <1>2 DEF Save
    <2>2. pc[r] = "save_awb" \/ pc[r] = "save_delivery"
      BY <2>1 DEF Insert
    <2>3. CASE pc[r] = "save_awb"
      BY <1>1, <2>1, <2>3, InsertKeeps
    <2>4. CASE pc[r] = "save_delivery"
      BY <1>1, <2>1, <2>4, InsertKeeps
    <2> QED
      BY <2>2, <2>3, <2>4
  <1>3. CASE SaveFails(r) /\ Insert(r)
    BY <1>1, <1>3, InsertKeeps DEF SaveFails
  <1>4. CASE SaveFails(r) /\ UNCHANGED << awbs, deliveries >>
    <2>1. /\ pc' = [pc EXCEPT ![r] = "failed"]
          /\ UNCHANGED << now, sender, trip, draft, moves, awbs, deliveries >>
          /\ faults' \in Nat
          /\ pc[r] \in { "save_awb", "save_delivery" }
      BY <1>1, <1>4 DEF SaveFails, Goes, requestVars
    <2>2. BookingTypeOK'
      BY <2>1 DEF BookingInv, BookingTypeOK
    <2>3. RequestOK(r)'
      BY <2>1 DEF BookingInv, BookingTypeOK, RequestOK, IsBooked
    <2>4. ASSUME NEW q \in Requests, q # r PROVE RequestOK(q)'
      BY <2>1, <2>4, OthersKeep DEF BookingInv, BookingTypeOK
    <2> QED
      BY <2>2, <2>3, <2>4 DEF BookingInv
  <1> QED
    BY <1>2, <1>3, <1>4 DEF SaveFails

LEMMA AnswerKeeps ==
  ASSUME BookingInv, NEW r \in Requests, Answer(r) \/ AnswerLost(r)
  PROVE  BookingInv'
  <1>1. PICK next \in { "booked", "failed" } : pc' = [pc EXCEPT ![r] = next]
    BY DEF Answer, AnswerLost, Goes
  <1>2. /\ UNCHANGED << now, sender, trip, draft, moves, awbs, deliveries >>
        /\ faults' \in Nat
        /\ pc[r] = "answer"
    BY DEF Answer, AnswerLost, requestVars, Fault, BookingInv, BookingTypeOK
  <1>3. BookingTypeOK'
    BY <1>1, <1>2 DEF BookingInv, BookingTypeOK
  <1>4. RequestOK(r)'
    <2>1. pc'[r] = next
      BY <1>1 DEF BookingInv, BookingTypeOK
    <2>2. RequestOK(r)
      BY DEF BookingInv
    <2> QED
      BY <1>2, <2>1, <2>2 DEF RequestOK, IsBooked, LegOf, Terms, NewLeg, NewParcel, Weight
  <1>5. ASSUME NEW q \in Requests, q # r PROVE RequestOK(q)'
    BY <1>1, <1>2, <1>5, OthersKeep DEF BookingInv, BookingTypeOK
  <1> QED
    BY <1>3, <1>4, <1>5 DEF BookingInv

LEMMA CarryKeeps ==
  ASSUME BookingInv, NEW r \in Requests, NEW s \in State, Carry(r, s)
  PROVE  BookingInv'
  <1>1. /\ IsBooked(r) /\ RequestOK(r) /\ deliveries[r] \in Leg
        /\ UNCHANGED << now, pc, sender, trip, draft, awbs, faults >>
        /\ moves' \in Nat
    BY DEF Carry, BookingInv, BookingTypeOK, IsBooked, requestVars
  <1>2. deliveries' = [deliveries EXCEPT ![r] = [deliveries[r] EXCEPT !.state = s]]
    BY DEF Carry
  <1>3. BookingTypeOK'
    BY <1>1, <1>2, MovedLeg DEF BookingInv, BookingTypeOK
  <1>4. RequestOK(r)'
    <2>1. deliveries'[r] = [deliveries[r] EXCEPT !.state = s]
      BY <1>2 DEF BookingInv, BookingTypeOK
    <2>2. deliveries'[r] # NoRow
      BY <1>1, <2>1, MovedLeg, NoRowAssumption
    <2>3. LegOf(r, deliveries[r])
      BY <1>1 DEF RequestOK
    <2>4. LegOf(r, deliveries'[r])
      <3>1. deliveries'[r].from = deliveries[r].from /\ deliveries'[r].to = deliveries[r].to
        BY <1>1, <2>1 DEF Leg
      <3> QED
        BY <1>1, <2>1, <2>3, <3>1, MovedLeg DEF LegOf
    <2>5. LegOf(r, deliveries[r])'
      BY <1>1, <2>4 DEF LegOf, Terms, NewLeg
    <2> QED
      BY <1>1, <2>2, <2>5 DEF RequestOK, IsBooked, LegOf, Terms, NewLeg, NewParcel, Weight
  <1>5. ASSUME NEW q \in Requests, q # r PROVE RequestOK(q)'
    BY <1>1, <1>2, <1>5, OthersKeep DEF BookingInv, BookingTypeOK
  <1> QED
    BY <1>3, <1>4, <1>5 DEF BookingInv

-----------------------------------------------------------------------------

(* At every point of a request, what is built and stored is what the code  *)
(* needs next.                                                             *)
THEOREM BookingInvariant == BookingSpec => []BookingInv
  <1>1. BookingInv /\ [BookingNext]_vars => BookingInv'
    <2> SUFFICES ASSUME BookingInv, [BookingNext]_vars
                 PROVE  BookingInv'
      OBVIOUS
    <2>1. CASE UNCHANGED vars \/ Wait
      <3>1. /\ UNCHANGED << pc, sender, trip, draft, awbs, deliveries >>
            /\ now' \in Nat /\ faults' \in Nat /\ moves' \in Nat
        BY <2>1 DEF vars, requestVars, Wait, BookingInv, BookingTypeOK
      <3> QED
        BY <3>1 DEF BookingInv, BookingTypeOK, RequestOK, IsBooked, LegOf, Terms, NewLeg,
                    NewParcel, Weight
    <2> QED
      BY <2>1, PostKeeps, SaveKeeps, AnswerKeeps, CarryKeeps DEF BookingNext
  <1> QED
    BY <1>1, BookingInvInit, PTL DEF BookingSpec

(* Requests, drafts and rows stay well typed. *)
THEOREM BookingTypeCorrect == BookingSpec => []BookingTypeOK
  <1>1. BookingInv => BookingTypeOK
    BY DEF BookingInv
  <1> QED
    BY <1>1, BookingInvariant, PTL

(* Every leg dispatch can list has a parcel that can be read. *)
THEOREM LegsKeepParcels == BookingSpec => []LegsHaveParcels
  <1>1. BookingInv => LegsHaveParcels
    <2> SUFFICES ASSUME BookingInv, NEW r \in Requests, IsBooked(r)
                 PROVE  /\ awbs[deliveries[r].parcel] # NoRow
                        /\ Scans(awbs[deliveries[r].parcel])
                        /\ deliveries[r].created <= deliveries[r].from
                        /\ deliveries[r].from < deliveries[r].to
      BY DEF LegsHaveParcels
    <2>1. LegOf(r, deliveries[r]) /\ awbs[r] = NewParcel(trip[r])
      BY DEF BookingInv, RequestOK
    <2>2. NewParcel(trip[r]) \in Parcel /\ Scans(NewParcel(trip[r]))
      BY <2>1, NewParcelTyped DEF LegOf
    <2> QED
      BY <2>1, <2>2, NoRowAssumption DEF LegOf
  <1> QED
    BY <1>1, BookingInvariant, PTL

(* A booking that has been answered is stored, at the price answered. *)
THEOREM AnswersAreTrue == BookingSpec => []AnsweredIsBooked
  <1>1. BookingInv => AnsweredIsBooked
    <2> SUFFICES ASSUME BookingInv, NEW r \in Requests, pc[r] = "booked"
                 PROVE  /\ IsBooked(r)
                        /\ awbs[r] = NewParcel(trip[r])
                        /\ deliveries[r].price = Price[trip[r]]
      BY DEF AnsweredIsBooked
    <2>1. IsBooked(r) /\ awbs[r] = NewParcel(trip[r]) /\ LegOf(r, deliveries[r])
      BY DEF BookingInv, RequestOK
    <2>2. deliveries[r].price = Price[trip[r]]
      BY <2>1 DEF LegOf, Terms, NewLeg
    <2> QED
      BY <2>1, <2>2
  <1> QED
    BY <1>1, BookingInvariant, PTL

-----------------------------------------------------------------------------
(* Booking is atomic.                                                      *)

Content(r) == << awbs[r], Terms(deliveries[r]) >>

LEMMA OrdersDef ==
  Orders = { [ id |-> r, content |-> Content(r) ] : r \in { q \in Requests : IsBooked(q) } }
  BY DEF Orders, Content

(* A step that neither inserts a leg nor touches the terms of one leaves   *)
(* the orders as they are.                                                 *)
LEMMA OrdersStay ==
  ASSUME \A r \in Requests : IsBooked(r)' <=> IsBooked(r),
         \A r \in Requests : IsBooked(r) => Content(r)' = Content(r)
  PROVE  Orders' = Orders
  <1>1. Orders' \subseteq Orders
    BY DEF Orders, Content
  <1>2. Orders \subseteq Orders'
    BY DEF Orders, Content
  <1> QED
    BY <1>1, <1>2

(* The step that inserts the leg of r books it. *)
LEMMA InsertBooks ==
  ASSUME BookingInv, NEW r \in Requests, Insert(r), BookingInv', UNCHANGED requestVars
  PROVE  [Abstract!Next]_Orders
  <1>1. CASE pc[r] = "save_awb"
    <2>1. ~IsBooked(r) /\ UNCHANGED deliveries /\ awbs' = [awbs EXCEPT ![r] = NewParcel(trip[r])]
      BY <1>1 DEF Insert, InsertParcel, BookingInv, RequestOK
    <2>2. ASSUME NEW q \in Requests, IsBooked(q) PROVE Content(q)' = Content(q)
      <3>1. q # r /\ awbs'[q] = awbs[q] /\ deliveries'[q] = deliveries[q]
        BY <2>1, <2>2 DEF BookingInv, BookingTypeOK
      <3> QED
        BY <3>1 DEF Content, Terms
    <2>3. Orders' = Orders
      BY <2>1, <2>2, OrdersStay DEF IsBooked
    <2> QED
      BY <2>3
  <1>2. CASE pc[r] = "save_delivery"
    <2>1. /\ deliveries' = [deliveries EXCEPT ![r] = draft[r]] /\ UNCHANGED awbs
          /\ ~IsBooked(r) /\ LegOf(r, draft[r]) /\ awbs[r] = NewParcel(trip[r])
      BY <1>2 DEF Insert, InsertLeg, BookingInv, RequestOK
    <2>2. deliveries'[r] = draft[r] /\ IsBooked(r)'
      BY <2>1, NoRowAssumption DEF BookingInv, BookingTypeOK, LegOf, IsBooked
    <2>3. Content(r)' \in OrderContents
      <3>1. Content(r)' = << NewParcel(trip[r]), Terms(NewLeg(r, trip[r], 0)) >>
        BY <2>1, <2>2 DEF Content, LegOf, Terms
      <3> QED
        BY <2>1, <3>1 DEF OrderContents, LegOf
    <2>4. ASSUME NEW q \in Requests, q # r
          PROVE  (IsBooked(q)' <=> IsBooked(q)) /\ Content(q)' = Content(q)
      <3>1. awbs'[q] = awbs[q] /\ deliveries'[q] = deliveries[q]
        BY <2>1, <2>4 DEF BookingInv, BookingTypeOK
      <3> QED
        BY <3>1 DEF Content, Terms, IsBooked
    <2>5. Orders' = Orders \cup { [ id |-> r, content |-> Content(r)' ] }
      <3>1. ASSUME NEW o \in Orders' PROVE o \in Orders \cup { [ id |-> r, content |-> Content(r)' ] }
        <4>1. PICK q \in Requests : IsBooked(q)' /\ o = [ id |-> q, content |-> Content(q)' ]
          BY <3>1 DEF Orders, Content
        <4>2. CASE q = r
          BY <4>1, <4>2
        <4>3. CASE q # r
          BY <2>4, <4>1, <4>3 DEF Orders, Content
        <4> QED
          BY <4>2, <4>3
      <3>2. [ id |-> r, content |-> Content(r)' ] \in Orders'
        BY <2>2 DEF Orders, Content
      <3>3. ASSUME NEW o \in Orders PROVE o \in Orders'
        <4>1. PICK q \in Requests : IsBooked(q) /\ o = [ id |-> q, content |-> Content(q) ]
          BY <3>3 DEF Orders, Content
        <4>2. q # r
          BY <2>1, <4>1
        <4>3. IsBooked(q)' /\ o = [ id |-> q, content |-> Content(q)' ]
          BY <2>4, <4>1, <4>2
        <4> QED
          BY <4>3 DEF Orders, Content
      <3> QED
        BY <3>1, <3>2, <3>3
    <2>6. ~Abstract!Known(r)
      <3>1. ASSUME NEW o \in Orders PROVE o.id # r
        <4>1. PICK q \in Requests : IsBooked(q) /\ o = [ id |-> q, content |-> Content(q) ]
          BY <3>1 DEF Orders, Content
        <4> QED
          BY <2>1, <4>1
      <3> QED
        BY <3>1 DEF Abstract!Known
    <2>7. Abstract!Book(r, Content(r)')
      BY <2>5, <2>6 DEF Abstract!Book
    <2> QED
      BY <2>3, <2>7 DEF Abstract!Next
  <1> QED
    BY <1>1, <1>2 DEF Insert

(* No step undoes or alters an order, and the only one that adds to them   *)
(* adds one whole order.                                                   *)
LEMMA BookingSimulates ==
  ASSUME BookingInv, BookingInv', [BookingNext]_vars
  PROVE  [Abstract!Next]_Orders
  <1>1. CASE UNCHANGED << awbs, deliveries >>
    <2>1. Orders' = Orders
      BY <1>1 DEF Orders, IsBooked, Terms
    <2> QED
      BY <2>1
  <1>2. ASSUME NEW r \in Requests, Save(r) \/ SaveFails(r)
        PROVE  [Abstract!Next]_Orders
    <2>1. UNCHANGED requestVars /\ (Insert(r) \/ UNCHANGED << awbs, deliveries >>)
      BY <1>2 DEF Save, SaveFails, requestVars
    <2> QED
      BY <1>1, <2>1, InsertBooks
  <1>3. ASSUME NEW r \in Requests, NEW s \in State, Carry(r, s)
        PROVE  [Abstract!Next]_Orders
    <2>1. /\ deliveries' = [deliveries EXCEPT ![r] = [deliveries[r] EXCEPT !.state = s]]
          /\ UNCHANGED awbs /\ IsBooked(r) /\ deliveries[r] \in Leg
      BY <1>3 DEF Carry, BookingInv, BookingTypeOK, IsBooked
    <2>2. /\ deliveries'[r] = [deliveries[r] EXCEPT !.state = s]
          /\ deliveries'[r] # NoRow
      BY <2>1, MovedLeg, NoRowAssumption DEF BookingInv, BookingTypeOK
    <2>3. Content(r)' = Content(r)
      <3>1. Terms(deliveries[r])' = Terms(deliveries[r])
        BY <2>1, <2>2, MovedLeg DEF Terms
      <3> QED
        BY <2>1, <3>1 DEF Content
    <2>4. ASSUME NEW q \in Requests, q # r
          PROVE  (IsBooked(q)' <=> IsBooked(q)) /\ Content(q)' = Content(q)
      <3>1. awbs'[q] = awbs[q] /\ deliveries'[q] = deliveries[q]
        BY <2>1, <2>4 DEF BookingInv, BookingTypeOK
      <3> QED
        BY <3>1 DEF Content, Terms, IsBooked
    <2>5. IsBooked(r)' <=> IsBooked(r)
      BY <2>1, <2>2 DEF IsBooked
    <2>6. Orders' = Orders
      BY <2>3, <2>4, <2>5, OrdersStay
    <2> QED
      BY <2>6
  <1> QED
    BY <1>1, <1>2, <1>3
    DEF BookingNext, vars, Wait, Post, Answer, AnswerLost

(* Booking an order is atomic and final, though it takes two calls to the  *)
(* database and either may fail (booking/service.go:134).                  *)
THEOREM BookingImplementsAtomicBooking == BookingSpec => ImplementsAtomicBooking
  <1>1. BookingInit => Abstract!Init
    BY DEF BookingInit, Abstract!Init, Orders, IsBooked
  <1>2. BookingInv /\ BookingInv' /\ [BookingNext]_vars => [Abstract!Next]_Orders
    BY BookingSimulates
  <1>3. BookingSpec => Abstract!Init /\ [][Abstract!Next]_Orders
    BY <1>1, <1>2, BookingInvariant, PTL DEF BookingSpec
  <1> QED
    BY <1>3 DEF ImplementsAtomicBooking, Abstract!Spec

=============================================================================
