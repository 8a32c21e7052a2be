---------------------------- MODULE MCDispatcher ----------------------------
(* Dispatcher with one or two loops and the endpoint.                      *)
EXTENDS Dispatcher

CONSTANTS bolt, glovo, d1, d2, d3

(* Two carriers that compete for d2 and d3; nobody takes d1. *)
Competing == [ c \in {bolt, glovo} |-> Deliveries \ {d1} ]

(* At most one carrier is eligible for a delivery, as when one adapter is  *)
(* registered for each area.                                               *)
Exclusive == [ c \in {bolt, glovo} |-> Deliveries \cap (IF c = bolt THEN {d1, d3} ELSE {d2}) ]

(* Glovo is the cheaper one. *)
Prices == [ c \in {bolt, glovo} |-> IF c = glovo THEN 1 ELSE 2 ]

(* Bolt refuses d1, and no other carrier serves it. *)
BoltRejects == { << bolt, d1 >> }

=============================================================================
