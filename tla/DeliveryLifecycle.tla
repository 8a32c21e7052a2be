------------------------- MODULE DeliveryLifecycle -------------------------
(***************************************************************************)
(* What the delivery aggregate and the ledger together promise: a delivery *)
(* only ever moves along the state graph, and it only enters a state once  *)
(* the custody event that state reports is on record.                      *)
(***************************************************************************)
EXTENDS DeliveryStates

CONSTANT Deliveries

VARIABLES state,     \* state[d]: the state everyone sees
          evidence   \* evidence[d]: types of the events recorded about d

Init == /\ state = [d \in Deliveries |-> "pending"]
        /\ evidence = [d \in Deliveries |-> {}]

Witness(d, t) ==
  /\ evidence' = [evidence EXCEPT ![d] = @ \cup {t}]
  /\ UNCHANGED state

Advance(d, to) ==
  /\ CanTransition(state[d], to)
  /\ NeededFor[to] \subseteq evidence[d]
  /\ state' = [state EXCEPT ![d] = to]
  /\ UNCHANGED evidence

Next == \E d \in Deliveries : \/ \E t \in EventType : Witness(d, t)
                              \/ \E to \in State : Advance(d, to)

Spec == Init /\ [][Next]_<< state, evidence >>

=============================================================================
