-------------------------- MODULE MCCustodyLedger --------------------------
(* CustodyLedger on a small instance.                                      *)
EXTENDS CustodyLedger

CONSTANTS r1, r2, r3, d1, d2

(* One request that needs evidence and has it, one that needs none, and    *)
(* one that Validate rejects.                                              *)
SomeRequests ==
  { [type |-> "package.picked_up", actor |-> "carrier",
       photo |-> TRUE, gps |-> TRUE],
    [type |-> "rider.assigned", actor |-> "carrier",
       photo |-> FALSE, gps |-> FALSE],
    [type |-> "package.picked_up", actor |-> "rider",
       photo |-> TRUE, gps |-> FALSE] }

=============================================================================
