---------------------------- MODULE AtomicBooking ----------------------------
(***************************************************************************)
(* What booking promises: a parcel and the leg that carries it become      *)
(* known together, in one step, and the order is not changed afterwards.   *)
(***************************************************************************)

CONSTANTS Ids,      \* ids of orders
          Contents  \* parcels with their legs

VARIABLE bookings   \* the bookings made

Init == bookings = {}

Known(id) == \E b \in bookings : b.id = id

Book(id, c) ==
  /\ ~Known(id)
  /\ bookings' = bookings \cup { [id |-> id, content |-> c] }

Next == \E id \in Ids, c \in Contents : Book(id, c)

Spec == Init /\ [][Next]_bookings

=============================================================================
