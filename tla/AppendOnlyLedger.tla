------------------------- MODULE AppendOnlyLedger -------------------------
(***************************************************************************)
(* What the custody ledger promises its callers, with no chain, no store   *)
(* and no concurrency in sight: per delivery an append-only history of     *)
(* events, each of them new and each with the evidence its type requires.  *)
(***************************************************************************)
EXTENDS DeliveryStates, Integers, Sequences

CONSTANTS Deliveries,  \* delivery ids
          Requests,    \* the requests callers make
          Ids          \* event ids

VARIABLE history   \* history[d]: what has been recorded about d, oldest first

Recorded == UNION { { history[d][i] : i \in 1..Len(history[d]) } :
                      d \in Deliveries }

Init == history = [d \in Deliveries |-> << >>]

(* An event never recorded before joins the end of one history. *)
Record(d, id, q) ==
  /\ Validate(q)
  /\ \A p \in Recorded : p.id # id
  /\ history' = [history EXCEPT ![d] =
                   Append(@, [id |-> id, delivery |-> d, req |-> q])]

Next == \E d \in Deliveries, id \in Ids, q \in Requests : Record(d, id, q)

Spec == Init /\ [][Next]_history

=============================================================================
