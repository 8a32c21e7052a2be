---------------------------- MODULE DispatchOnce ----------------------------
(***************************************************************************)
(* What dispatch promises: a booking gets one order at most, at one        *)
(* carrier, and its row comes to name that carrier and never another.      *)
(***************************************************************************)

CONSTANTS Deliveries, Carriers, NoCarrier

VARIABLES booked,   \* the deliveries booked so far
          ordered,  \* ordered[d]: the carrier that has the order for d
          named     \* named[d]: the carrier the row of d names

Init == /\ booked = {}
        /\ ordered = [d \in Deliveries |-> NoCarrier]
        /\ named = [d \in Deliveries |-> NoCarrier]

Book(d) ==
  /\ booked' = booked \cup {d}
  /\ UNCHANGED << ordered, named >>

Place(d, c) ==
  /\ d \in booked
  /\ ordered[d] = NoCarrier
  /\ ordered' = [ordered EXCEPT ![d] = c]
  /\ UNCHANGED << booked, named >>

Adopt(d) ==
  /\ ordered[d] # NoCarrier
  /\ named' = [named EXCEPT ![d] = ordered[d]]
  /\ UNCHANGED << booked, ordered >>

Next == \E d \in Deliveries : \/ Book(d)
                              \/ \E c \in Carriers : Place(d, c)
                              \/ Adopt(d)

Spec == Init /\ [][Next]_<< booked, ordered, named >>

=============================================================================
