------------------------------- MODULE Routing -------------------------------
(***************************************************************************)
(* core/routing: Engine.Decide with its three strategies.  The engine      *)
(* filters the registered carriers, asks each one left for an estimate (a  *)
(* call to the carrier, which may fail), and lets the strategy it was      *)
(* built with scan the answers.                                            *)
(*                                                                         *)
(* ListByRole ranges over a Go map, so the carriers are asked in any       *)
(* order.  Weights, sizes, prices, times and confidences are natural       *)
(* numbers; WeightedScore is scaled to integers.                           *)
(***************************************************************************)
EXTENDS Integers, Sequences, FiniteSetsExt

CONSTANTS Carriers,       \* adapters ListByRole may return
          Capabilities,   \* Capabilities[c]: what c declares
          Shipments,      \* the shipment requests the engine is asked about
          Estimates,      \* the estimates carriers answer with
          Strategies,     \* the strategies an engine may be built with
          Weights         \* the weights of WeightedScoreStrategy

CarrierRole == { "first_mile", "mid_mile", "last_mile" }
PickupMode == { "address", "locker", "hub" }
Dimensions == [1..3 -> Nat]

(* What eligible looks at.  Carriers declare Zones as well, which no code  *)
(* reads: the check that eligible's comment names (engine.go:88) is not    *)
(* made (engine.go:109).                                                   *)
CarrierCapabilities ==
  [ roles : SUBSET CarrierRole, maxWeight : Nat, maxDims : Dimensions,
    pickupModes : SUBSET PickupMode, locker : BOOLEAN ]

ShipmentRequest == [ weight : Nat, dims : Dimensions, pickup : PickupMode ]

Estimate == [ cost : Nat, eta : Nat, confidence : Nat ]

(* The zero value of Go, which a candidate without an answer carries. *)
NoEstimate == [ cost |-> 0, eta |-> 0, confidence |-> 0 ]

Candidate == [ carrier : Carriers, available : BOOLEAN, estimate : Estimate ]

ASSUME CapabilitiesAssumption == Capabilities \in [Carriers -> CarrierCapabilities]
ASSUME ShipmentsAssumption == Shipments \subseteq ShipmentRequest
ASSUME EstimatesAssumption == Estimates \subseteq Estimate
ASSUME StrategiesAssumption == Strategies \subseteq { "cheapest", "fastest", "weighted" }
ASSUME WeightsAssumption == Weights \in Estimate

VARIABLES strategy,   \* the strategy of this engine
          pc,         \* what Decide does next
          req,        \* the request it is deciding on
          todo,       \* eligible carriers not asked yet
          scored,     \* the candidates, in the order they were asked
          next, best, \* the scan: next index to look at, best index so far (0: nil)
          outcome     \* how the last Decide ended

vars == << strategy, pc, req, todo, scored, next, best, outcome >>

Outcome == { "none", "chosen", "ErrNoEligibleCarrier", "ErrNoAvailableCandidate" }

RoutingTypeOK ==
  /\ strategy \in Strategies
  /\ pc \in { "idle", "estimate", "select" }
  /\ req \in Shipments
  /\ todo \subseteq Carriers
  /\ scored \in Seq(Candidate)
  /\ next \in 1..(Len(scored) + 1)
  /\ best \in 0..(next - 1)
  /\ outcome \in Outcome

RoutingInit ==
  /\ strategy \in Strategies
  /\ pc = "idle"
  /\ req \in Shipments
  /\ todo = {}
  /\ scored = << >>
  /\ next = 1
  /\ best = 0
  /\ outcome = "none"

-----------------------------------------------------------------------------
(* What dispatch asks and what the adapter that is wired declares, for     *)
(* instances to use: in kilograms and centimetres.                         *)

toPickupMode(locationType) ==
  IF locationType \in { "locker", "hub" } THEN locationType ELSE "address"

(* dispatch asks for the place where a leg begins and the weight of its    *)
(* parcel, and leaves the sides zero.                                      *)
buildShipmentRequest(weightKg, locationType) ==
  [ weight |-> weightKg, dims |-> << 0, 0, 0 >>, pickup |-> toPickupMode(locationType) ]

(* Bolt's declaration. *)
buildCapabilities ==
  [ roles |-> {"last_mile"}, maxWeight |-> 15, maxDims |-> << 60, 40, 40 >>,
    pickupModes |-> {"address", "hub"}, locker |-> FALSE ]

-----------------------------------------------------------------------------
(* Engine.eligible.                                                        *)

(* One exchange of sortDesc: the larger of a[i] and a[j] goes to i. *)
SwapUp(a, i, j) ==
  IF a[j] > a[i] THEN [a EXCEPT ![i] = a[j], ![j] = a[i]] ELSE a

sortDesc(a) == SwapUp(SwapUp(SwapUp(a, 1, 2), 1, 3), 2, 3)

\* Mutant: the sides are compared in the order they are written.
exceedsDims_Unsorted(dims, max) == \E i \in 1..3 : dims[i] > max[i]

exceedsDims(dims, max) == \E i \in 1..3 : sortDesc(dims)[i] > sortDesc(max)[i]

eligible(r, role) ==
  { c \in Carriers :
      LET caps == Capabilities[c]
      IN  /\ role \in caps.roles
          /\ r.weight <= caps.maxWeight
          /\ ~exceedsDims(r.dims, caps.maxDims)
          /\ r.pickup \in caps.pickupModes
          /\ r.pickup = "locker" => caps.locker }

-----------------------------------------------------------------------------
(* The strategies: when does candidate a beat the best one so far?         *)

Answers == { scored[i].estimate : i \in { j \in 1..Len(scored) : scored[j].available } }

(* max - min of the available costs or times, which normalize divides by;  *)
(* it maps everything to 0 when the difference is 0.                       *)
Spread(S) == IF Max(S) = Min(S) THEN 1 ELSE Max(S) - Min(S)

\* Mutant: the time is added to the score instead of subtracted.
WeightedScore_SlowIsGood(e) ==
  LET costs == { x.cost : x \in Answers }
      etas  == { x.eta : x \in Answers }
  IN    e.confidence * Weights.confidence * Spread(costs) * Spread(etas)
      - (e.cost - Min(costs)) * Weights.cost * Spread(etas)
      + (e.eta - Min(etas)) * Weights.eta * Spread(costs)

(* score, times both spreads. *)
WeightedScore(e) ==
  LET costs == { x.cost : x \in Answers }
      etas  == { x.eta : x \in Answers }
  IN    e.confidence * Weights.confidence * Spread(costs) * Spread(etas)
      - (e.cost - Min(costs)) * Weights.cost * Spread(etas)
      - (e.eta - Min(etas)) * Weights.eta * Spread(costs)

Beats(a, b) ==
  \/ strategy = "cheapest" /\ a.cost < b.cost
  \/ strategy = "fastest" /\ a.eta < b.eta
  \/ strategy = "weighted" /\ WeightedScore(a) > WeightedScore(b)

-----------------------------------------------------------------------------
(* Engine.Decide.                                                          *)

\* Mutant: the scan starts where the last one ended.
Decide_KeepsScan(r) ==
  /\ pc = "idle"
  /\ req' = r
  /\ todo' = eligible(r, "last_mile")
  /\ scored' = << >>
  /\ outcome' = IF todo' = {} THEN "ErrNoEligibleCarrier" ELSE "none"
  /\ pc' = IF todo' = {} THEN "idle" ELSE "estimate"
  /\ UNCHANGED << strategy, next, best >>

(* dispatch.Service asks for a last-mile carrier. *)
Decide(r) ==
  /\ pc = "idle"
  /\ req' = r
  /\ todo' = eligible(r, "last_mile")
  /\ scored' = << >>
  /\ next' = 1
  /\ best' = 0
  /\ IF todo' = {}
     THEN pc' = "idle" /\ outcome' = "ErrNoEligibleCarrier"
     ELSE pc' = "estimate" /\ outcome' = "none"
  /\ UNCHANGED strategy

Answered(c, candidate) ==
  /\ pc = "estimate"
  /\ c \in todo
  /\ scored' = Append(scored, candidate)
  /\ todo' = todo \ {c}
  /\ pc' = IF todo' = {} THEN "select" ELSE "estimate"
  /\ UNCHANGED << strategy, req, next, best, outcome >>

GetEstimate(c, e) ==
  Answered(c, [ carrier |-> c, available |-> TRUE, estimate |-> e ])

EstimateFails(c) ==
  Answered(c, [ carrier |-> c, available |-> FALSE, estimate |-> NoEstimate ])

\* Mutant: candidates without an answer are not skipped.
Scan_All ==
  /\ pc = "select"
  /\ next <= Len(scored)
  /\ best' = IF best = 0 \/ Beats(scored[next].estimate, scored[best].estimate)
               THEN next ELSE best
  /\ next' = next + 1
  /\ UNCHANGED << strategy, pc, req, todo, scored, outcome >>

(* One turn of the loop of Strategy.Select. *)
Scan ==
  /\ pc = "select"
  /\ next <= Len(scored)
  /\ best' = IF /\ scored[next].available
                /\ best = 0 \/ Beats(scored[next].estimate, scored[best].estimate)
               THEN next ELSE best
  /\ next' = next + 1
  /\ UNCHANGED << strategy, pc, req, todo, scored, outcome >>

Select ==
  /\ pc = "select"
  /\ next > Len(scored)
  /\ pc' = "idle"
  /\ outcome' = IF best = 0 THEN "ErrNoAvailableCandidate" ELSE "chosen"
  /\ UNCHANGED << strategy, req, todo, scored, next, best >>

RoutingNext ==
  \/ \E r \in Shipments : Decide(r)
  \/ \E c \in Carriers : \/ \E e \in Estimates : GetEstimate(c, e)
                         \/ EstimateFails(c)
  \/ Scan
  \/ Select

RoutingSpec == RoutingInit /\ [][RoutingNext]_vars

-----------------------------------------------------------------------------
(* Properties.                                                             *)

Chosen == scored[best]

(* The package goes into the carrier's box in some orientation. *)
FitsSomeWay(dims, max) ==
  \E p \in [1..3 -> 1..3] : /\ \A i, j \in 1..3 : p[i] = p[j] => i = j
                            /\ \A i \in 1..3 : dims[p[i]] <= max[i]

CanServe(c, r) ==
  /\ "last_mile" \in Capabilities[c].roles
  /\ r.weight <= Capabilities[c].maxWeight
  /\ FitsSomeWay(r.dims, Capabilities[c].maxDims)
  /\ r.pickup \in Capabilities[c].pickupModes
  /\ r.pickup = "locker" => Capabilities[c].locker

(* A chosen carrier answered the request and passes the checks eligible    *)
(* makes: role, weight, place of pickup, and a package that fits, turned   *)
(* some way round, which sorting both sides of exceedsDims has to ask      *)
(* (engine.go:90, :127).  That it covers the zones of the request is not   *)
(* among them: CanServe is silent about zones, as the code is.             *)
ChosenCanServe ==
  outcome = "chosen" => Chosen.available /\ CanServe(Chosen.carrier, req)

(* No other answer is better by the strategy's own measure; for the        *)
(* weighted score none is at least as good in cost, time and confidence    *)
(* and better in one, whatever the order carriers were asked in, with      *)
(* positive weights (strategy.go:35, :64, :97).                            *)
Dominates(a, b) ==
  a # b /\ a.cost <= b.cost /\ a.eta <= b.eta /\ a.confidence >= b.confidence

ChosenIsBest ==
  outcome = "chosen" =>
    \A e \in Answers :
      /\ strategy = "cheapest" => Chosen.estimate.cost <= e.cost
      /\ strategy = "fastest" => Chosen.estimate.eta <= e.eta
      /\ strategy = "weighted" => ~Dominates(e, Chosen.estimate)

(* Decide gives up only when it has to: with ErrNoEligibleCarrier when no  *)
(* carrier can serve the request at all, and with ErrNoAvailableCandidate  *)
(* when every carrier that can was asked and none answered                 *)
(* (engine.go:40, strategy.go:47).                                         *)
GivesUpOnlyWhenItMust ==
  LET able == { c \in Carriers : CanServe(c, req) }
  IN  /\ outcome = "ErrNoEligibleCarrier" => able = {}
      /\ outcome = "ErrNoAvailableCandidate" =>
           /\ able = { scored[i].carrier : i \in 1..Len(scored) }
           /\ Answers = {}

=============================================================================
