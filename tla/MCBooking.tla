----------------------------- MODULE MCBooking -----------------------------
(* Booking with two customers who may need several requests.               *)
EXTENDS Booking

CONSTANTS r1, r2, r3

Trip(from, to, weight, external) ==
  [ from |-> from, to |-> to, weight |-> weight, external |-> external ]

(* Two that can be booked, one of them only until its slot has passed, and *)
(* three that cannot: an empty slot, a reversed one, a parcel too heavy.   *)
GoodAndBad ==
  { Trip(1, 2, 0, TRUE), Trip(0, 1, 50, FALSE), Trip(1, 1, 1, FALSE),
    Trip(2, 1, 1, FALSE), Trip(1, 2, 51, FALSE) }

Prices == [ t \in Trips |-> 800 + t.from + t.weight ]

=============================================================================
