----------------------------- MODULE MCPricing -----------------------------
(* Pricing around its boundaries: half a minor unit, the oversize weight,  *)
(* the first and the last evening hour, and subtotals below a discount.    *)
EXTENDS Pricing

=============================================================================
