------------------------------ MODULE Pricing ------------------------------
(***************************************************************************)
(* pricing.Engine.Quote: what the customer is shown and charged.  Amounts  *)
(* are in minor units, distances in metres (haversine's result, which is   *)
(* not modelled), weights in any unit.  A slot is the hour at which it     *)
(* starts, as written: the code looks at no other, whatever the offset is  *)
(* that it was written with.                                               *)
(***************************************************************************)
EXTENDS Integers

CONSTANTS Distances, Weights, Slots, Codes,  \* what requests are made of
          BaseFare, PerKm, OversizeFlat, OversizeWeight,
          SlotPremium, EveningStart, EveningEnd,
          NoSlot         \* no slot has been chosen

(* Config: loaded from outside, and so unknown but for its signs. *)
ASSUME ConfigAssumption ==
  /\ BaseFare \in Nat /\ PerKm \in Nat /\ OversizeFlat \in Nat
  /\ OversizeWeight \in Nat /\ SlotPremium \in Nat
  /\ EveningStart \in Nat /\ EveningEnd \in Nat
ASSUME InputsAssumption ==
  /\ Distances \subseteq Nat
  /\ Weights \subseteq Nat
  /\ Slots \subseteq 0..23
ASSUME NoSlotAssumption == NoSlot \notin 0..23

Request == [ distance : Distances, weight : Weights,
             slot : Slots \cup {NoSlot}, code : Codes ]

VARIABLES request,  \* what is to be quoted
          quote     \* Quote's result, NoQuote before

NoQuote == [ subtotal |-> -1, total |-> -1 ]

vars == << request, quote >>

PricingTypeOK ==
  /\ request \in Request
  /\ quote \in [ subtotal : Nat, total : Nat ] \cup {NoQuote}

-----------------------------------------------------------------------------

\* Mutant: only the last, incomplete kilometre is charged.
DistanceFare_Remainder(d) == (2 * (d % 1000) * PerKm + 1000) \div 2000

(* math.Round: half up, for a distance is not negative. *)
DistanceFare(d) == (2 * (d * PerKm) + 1000) \div 2000

SizeModifier(w) == IF w > OversizeWeight THEN OversizeFlat ELSE 0

isEveningSlot(s) == EveningStart <= s /\ s < EveningEnd

Premium(s) == IF s # NoSlot /\ isEveningSlot(s) THEN SlotPremium ELSE 0

Subtotal(r) ==
  BaseFare + DistanceFare(r.distance) + SizeModifier(r.weight) + Premium(r.slot)

(* The discounts of a code: one or none. *)
lookupDiscount(code, subtotal) ==
  CASE code = "WELCOME"    -> {500}
    [] code = "FIRST_FREE" -> {subtotal}
    [] OTHER               -> {}

\* Mutant: the total is not kept from falling below zero.
Discounted_NoFloor(subtotal, amount) == subtotal - amount

Discounted(subtotal, amount) ==
  IF subtotal < amount THEN 0 ELSE subtotal - amount

Totals(code, subtotal) ==
  LET discounts == lookupDiscount(code, subtotal)
  IN  IF discounts = {} THEN {subtotal}
      ELSE { Discounted(subtotal, a) : a \in discounts }

Quotes(r) ==
  { [ subtotal |-> Subtotal(r), total |-> t ] : t \in Totals(r.code, Subtotal(r)) }

PricingInit == request \in Request /\ quote = NoQuote

Quote ==
  /\ quote = NoQuote
  /\ quote' \in Quotes(request)
  /\ UNCHANGED request

PricingNext == Quote

PricingSpec == PricingInit /\ [][PricingNext]_vars

-----------------------------------------------------------------------------
(* Properties.                                                             *)

IsQuoted == quote # NoQuote

(* No discount makes the price negative, and none makes it higher, however *)
(* the fares are configured (Quote's floor; WELCOME is a fixed amount).    *)
TotalWithinSubtotal ==
  IsQuoted => 0 <= quote.total /\ quote.total <= quote.subtotal

(* To go further, to send more, or to choose a slot where none was chosen, *)
(* is never cheaper with the same code: rounding, the step at the oversize *)
(* weight and the floor keep the order of prices (Quote).                  *)
NeverCheaperForMore ==
  IsQuoted =>
    \A r \in Request :
      /\ r.distance <= request.distance
      /\ r.weight <= request.weight
      /\ r.slot \in { request.slot, NoSlot }
      /\ r.code = request.code
      => \A q \in Quotes(r) : q.total <= quote.total

=============================================================================
