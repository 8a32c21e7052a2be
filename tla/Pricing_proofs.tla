--------------------------- MODULE Pricing_proofs ---------------------------
(***************************************************************************)
(* Proofs about Pricing, for every configuration and every request.        *)
(***************************************************************************)
EXTENDS Pricing, TLAPS

LEMMA ProductMonotone ==
  ASSUME NEW a \in Nat, NEW b \in Nat, NEW p \in Nat, a <= b
  PROVE  a * p \in Nat /\ b * p \in Nat /\ a * p <= b * p
  <1>1. PICK k \in Nat : b = a + k
    BY b - a \in Nat
  <1>2. b * p = a * p + k * p
    BY <1>1
  <1>3. a * p \in Nat /\ k * p \in Nat
    BY <1>1
  <1> QED
    BY <1>2, <1>3

(* Rounding to the nearest minor unit keeps the order of distances. *)
LEMMA FareMonotone ==
  ASSUME NEW d \in Nat, NEW e \in Nat, d <= e
  PROVE  DistanceFare(d) \in Nat /\ DistanceFare(d) <= DistanceFare(e)
  <1>1. d * PerKm \in Nat /\ e * PerKm \in Nat /\ d * PerKm <= e * PerKm
    BY ProductMonotone, ConfigAssumption
  <1>2. ASSUME NEW x \in Nat, NEW y \in Nat, x <= y
        PROVE  /\ (2 * x + 1000) \div 2000 \in Nat
               /\ (2 * x + 1000) \div 2000 <= (2 * y + 1000) \div 2000
    BY <1>2
  <1> QED
    BY <1>1, <1>2 DEF DistanceFare

LEMMA SubtotalMonotone ==
  ASSUME NEW r \in Request, NEW s \in Request,
         r.distance <= s.distance, r.weight <= s.weight, r.slot \in { s.slot, NoSlot }
  PROVE  Subtotal(r) \in Nat /\ Subtotal(r) <= Subtotal(s)
  <1>1. /\ r.distance \in Nat /\ s.distance \in Nat
        /\ r.weight \in Nat /\ s.weight \in Nat
    BY InputsAssumption DEF Request
  <1>2. DistanceFare(r.distance) \in Nat /\ DistanceFare(r.distance) <= DistanceFare(s.distance)
    BY <1>1, FareMonotone
  <1>3. DistanceFare(s.distance) \in Nat
    BY <1>1, FareMonotone
  <1>4. SizeModifier(r.weight) \in Nat /\ SizeModifier(s.weight) \in Nat
        /\ SizeModifier(r.weight) <= SizeModifier(s.weight)
    BY <1>1, ConfigAssumption DEF SizeModifier
  <1>5. /\ Premium(r.slot) \in Nat /\ Premium(s.slot) \in Nat
        /\ Premium(r.slot) <= Premium(s.slot)
    BY ConfigAssumption DEF Premium
  <1> QED
    BY <1>2, <1>3, <1>4, <1>5, ConfigAssumption DEF Subtotal

(* What a code leaves of a subtotal. *)
LEMMA TotalsDef ==
  ASSUME NEW code, NEW sub \in Nat
  PROVE  Totals(code, sub) =
           { IF code = "WELCOME" THEN (IF sub < 500 THEN 0 ELSE sub - 500)
             ELSE IF code = "FIRST_FREE" THEN 0 ELSE sub }
  <1>1. CASE code = "WELCOME"
    <2>1. lookupDiscount(code, sub) = {500}
      BY <1>1 DEF lookupDiscount
    <2> QED
      BY <1>1, <2>1 DEF Totals, Discounted
  <1>2. CASE code = "FIRST_FREE"
    <2>1. lookupDiscount(code, sub) = {sub}
      BY <1>2 DEF lookupDiscount
    <2> QED
      BY <1>2, <2>1 DEF Totals, Discounted
  <1>3. CASE code # "WELCOME" /\ code # "FIRST_FREE"
    <2>1. lookupDiscount(code, sub) = {}
      BY <1>3 DEF lookupDiscount
    <2> QED
      BY <1>3, <2>1 DEF Totals
  <1> QED
    BY <1>1, <1>2, <1>3

-----------------------------------------------------------------------------

PricingInv ==
  /\ request \in Request
  /\ quote \in Quotes(request) \cup {NoQuote}

THEOREM PricingInvariant == PricingSpec => []PricingInv
  <1>1. PricingInit => PricingInv
    BY DEF PricingInit, PricingInv
  <1>2. PricingInv /\ [PricingNext]_vars => PricingInv'
    <2> SUFFICES ASSUME PricingInv, [PricingNext]_vars
                 PROVE  PricingInv'
      OBVIOUS
    <2>1. request' = request /\ (quote' \in Quotes(request) \/ quote' = quote)
      BY DEF PricingNext, Quote, vars
    <2>2. Quotes(request)' = Quotes(request)
      BY <2>1 DEF Quotes, Totals, lookupDiscount, Discounted, Subtotal, Premium,
                  SizeModifier, DistanceFare, isEveningSlot
    <2> QED
      BY <2>1, <2>2 DEF PricingInv
  <1> QED
    BY <1>1, <1>2, PTL DEF PricingSpec

LEMMA QuoteInRange ==
  ASSUME PricingInv, IsQuoted
  PROVE  /\ quote.subtotal \in Nat /\ quote.total \in Nat
         /\ quote \in [ subtotal : Nat, total : Nat ]
         /\ quote.total <= quote.subtotal
  <1>1. PICK t \in Totals(request.code, Subtotal(request)) :
          quote = [ subtotal |-> Subtotal(request), total |-> t ]
    BY DEF PricingInv, IsQuoted, Quotes
  <1>2. Subtotal(request) \in Nat
    <2>1. request \in Request /\ request.distance \in Nat /\ request.weight \in Nat
      BY InputsAssumption DEF PricingInv, Request
    <2> QED
      BY <2>1, SubtotalMonotone
  <1>3. t \in Nat /\ t <= Subtotal(request)
    BY <1>1, <1>2, TotalsDef
  <1> QED
    BY <1>1, <1>2, <1>3

(* Quotes are made of amounts that are not negative. *)
THEOREM PricingTypeCorrect == PricingSpec => []PricingTypeOK
  <1>1. PricingInv => PricingTypeOK
    BY QuoteInRange DEF PricingInv, PricingTypeOK, IsQuoted
  <1> QED
    BY <1>1, PricingInvariant, PTL

(* However fares are configured, 0 <= total <= subtotal. *)
THEOREM DiscountsAreBounded == PricingSpec => []TotalWithinSubtotal
  <1>1. PricingInv => TotalWithinSubtotal
    BY QuoteInRange DEF TotalWithinSubtotal
  <1> QED
    BY <1>1, PricingInvariant, PTL

(* However fares are configured, going further, sending more or choosing a *)
(* slot is never cheaper.                                                  *)
THEOREM PricesAreMonotone == PricingSpec => []NeverCheaperForMore
  <1>1. PricingInv => NeverCheaperForMore
    <2> SUFFICES ASSUME PricingInv, IsQuoted, NEW r \in Request,
                        r.distance <= request.distance, r.weight <= request.weight,
                        r.slot \in { request.slot, NoSlot }, r.code = request.code,
                        NEW q \in Quotes(r)
                 PROVE  q.total <= quote.total
      BY DEF NeverCheaperForMore
    <2>1. request \in Request /\ quote \in Quotes(request)
      BY DEF PricingInv, IsQuoted
    <2>2. q.total \in Totals(r.code, Subtotal(r))
      BY DEF Quotes
    <2>3. quote.total \in Totals(r.code, Subtotal(request))
      BY <2>1 DEF Quotes
    <2>4. Subtotal(r) \in Nat /\ Subtotal(request) \in Nat
          /\ Subtotal(r) <= Subtotal(request)
      <3>1. request.distance \in Nat /\ request.weight \in Nat
        BY <2>1, InputsAssumption DEF Request
      <3> QED
        BY <2>1, <3>1, SubtotalMonotone
    <2> QED
      BY <2>2, <2>3, <2>4, TotalsDef
  <1> QED
    BY <1>1, PricingInvariant, PTL

=============================================================================
