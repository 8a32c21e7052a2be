--------------------------- MODULE Routing_proofs ---------------------------
(***************************************************************************)
(* Routing for every set of carriers, capabilities, requests and           *)
(* estimates.                                                              *)
(***************************************************************************)
EXTENDS Routing, FiniteSetTheorems, WellFoundedInduction, TLAPS

-----------------------------------------------------------------------------
(* exceedsDims.                                                            *)

(* What one exchange does. *)
LEMMA SwapUpValue ==
  ASSUME NEW a \in Dimensions, NEW i \in 1..3, NEW j \in 1..3, i # j
  PROVE  /\ SwapUp(a, i, j) \in Dimensions
         /\ SwapUp(a, i, j)[i] = IF a[j] > a[i] THEN a[j] ELSE a[i]
         /\ SwapUp(a, i, j)[j] = IF a[j] > a[i] THEN a[i] ELSE a[j]
         /\ \A k \in 1..3 \ {i, j} : SwapUp(a, i, j)[k] = a[k]
  BY DEF SwapUp, Dimensions

(* sortDesc returns the three sides in descending order. *)
LEMMA SortDescSorts ==
  ASSUME NEW a \in Dimensions
  PROVE  LET s == sortDesc(a)
         IN  /\ s \in Dimensions
             /\ s[1] >= s[2] /\ s[2] >= s[3]
             /\ << s[1], s[2], s[3] >> \in
                  { << a[1], a[2], a[3] >>, << a[1], a[3], a[2] >>,
                    << a[2], a[1], a[3] >>, << a[2], a[3], a[1] >>,
                    << a[3], a[1], a[2] >>, << a[3], a[2], a[1] >> }
  <1> DEFINE b == SwapUp(a, 1, 2)
             c == SwapUp(b, 1, 3)
             s == SwapUp(c, 2, 3)
  <1>1. /\ b \in Dimensions
        /\ b[1] = IF a[2] > a[1] THEN a[2] ELSE a[1]
        /\ b[2] = IF a[2] > a[1] THEN a[1] ELSE a[2]
        /\ b[3] = a[3]
    BY SwapUpValue, 1 \in 1..3, 2 \in 1..3, 3 \in 1..3 \ {1, 2}
  <1>2. /\ c \in Dimensions
        /\ c[1] = IF b[3] > b[1] THEN b[3] ELSE b[1]
        /\ c[3] = IF b[3] > b[1] THEN b[1] ELSE b[3]
        /\ c[2] = b[2]
    BY <1>1, SwapUpValue, 1 \in 1..3, 3 \in 1..3, 2 \in 1..3 \ {1, 3}
  <1>3. /\ s \in Dimensions
        /\ s[2] = IF c[3] > c[2] THEN c[3] ELSE c[2]
        /\ s[3] = IF c[3] > c[2] THEN c[2] ELSE c[3]
        /\ s[1] = c[1]
    BY <1>2, SwapUpValue, 2 \in 1..3, 3 \in 1..3, 1 \in 1..3 \ {2, 3}
  <1>4. s = sortDesc(a)
    BY DEF sortDesc
  <1>5. a[1] \in Nat /\ a[2] \in Nat /\ a[3] \in Nat
    BY DEF Dimensions
  <1> HIDE DEF b, c, s
  <1>6. s[1] >= s[2] /\ s[2] >= s[3]
    BY <1>1, <1>2, <1>3, <1>5
  <1>7. \/ s[1] = a[1] /\ s[2] = a[2] /\ s[3] = a[3]
        \/ s[1] = a[1] /\ s[2] = a[3] /\ s[3] = a[2]
        \/ s[1] = a[2] /\ s[2] = a[1] /\ s[3] = a[3]
        \/ s[1] = a[2] /\ s[2] = a[3] /\ s[3] = a[1]
        \/ s[1] = a[3] /\ s[2] = a[1] /\ s[3] = a[2]
        \/ s[1] = a[3] /\ s[2] = a[2] /\ s[3] = a[1]
    BY <1>1, <1>2, <1>3, <1>5
  <1> QED
    BY <1>3, <1>4, <1>6, <1>7

(* Box (m1, m2, m3) takes the sides (a1, a2, a3) in one of the six ways. *)
SixWays(a1, a2, a3, m1, m2, m3) ==
  \/ a1 <= m1 /\ a2 <= m2 /\ a3 <= m3
  \/ a1 <= m1 /\ a3 <= m2 /\ a2 <= m3
  \/ a2 <= m1 /\ a1 <= m2 /\ a3 <= m3
  \/ a2 <= m1 /\ a3 <= m2 /\ a1 <= m3
  \/ a3 <= m1 /\ a1 <= m2 /\ a2 <= m3
  \/ a3 <= m1 /\ a2 <= m2 /\ a1 <= m3

LEMMA FitsIsSixWays ==
  ASSUME NEW a \in Dimensions, NEW m \in Dimensions
  PROVE  FitsSomeWay(a, m) <=> SixWays(a[1], a[2], a[3], m[1], m[2], m[3])
  <1>1. ASSUME FitsSomeWay(a, m)
        PROVE  SixWays(a[1], a[2], a[3], m[1], m[2], m[3])
    <2>1. PICK p \in [1..3 -> 1..3] :
            /\ \A i, j \in 1..3 : p[i] = p[j] => i = j
            /\ \A i \in 1..3 : a[p[i]] <= m[i]
      BY <1>1 DEF FitsSomeWay
    <2>2. /\ p[1] \in {1, 2, 3} /\ p[2] \in {1, 2, 3} /\ p[3] \in {1, 2, 3}
          /\ p[1] # p[2] /\ p[1] # p[3] /\ p[2] # p[3]
      BY <2>1
    <2>3. a[p[1]] <= m[1] /\ a[p[2]] <= m[2] /\ a[p[3]] <= m[3]
      BY <2>1
    <2> QED
      BY <2>2, <2>3 DEF SixWays
  <1>2. ASSUME SixWays(a[1], a[2], a[3], m[1], m[2], m[3])
        PROVE  FitsSomeWay(a, m)
    <2> DEFINE Turn(x, y, z) == [ i \in 1..3 |-> IF i = 1 THEN x ELSE IF i = 2 THEN y ELSE z ]
    <2>1. ASSUME NEW x \in 1..3, NEW y \in 1..3, NEW z \in 1..3,
                 x # y, x # z, y # z,
                 a[x] <= m[1], a[y] <= m[2], a[z] <= m[3]
          PROVE  FitsSomeWay(a, m)
      <3>1. Turn(x, y, z) \in [1..3 -> 1..3]
        OBVIOUS
      <3>2. \A i, j \in 1..3 : Turn(x, y, z)[i] = Turn(x, y, z)[j] => i = j
        BY <2>1
      <3>3. \A i \in 1..3 : a[Turn(x, y, z)[i]] <= m[i]
        BY <2>1
      <3> HIDE DEF Turn
      <3> QED
        BY <3>1, <3>2, <3>3 DEF FitsSomeWay
    <2> QED
      BY <1>2, <2>1, 1 \in 1..3, 2 \in 1..3, 3 \in 1..3 DEF SixWays
  <1> QED
    BY <1>1, <1>2

(* exceedsDims answers the question a courier would ask: the package goes  *)
(* in some way round exactly when its sorted sides fit the sorted limits.  *)
THEOREM SortingFindsTheFit ==
  ASSUME NEW a \in Dimensions, NEW m \in Dimensions
  PROVE  ~exceedsDims(a, m) <=> FitsSomeWay(a, m)
  <1> DEFINE s == sortDesc(a)
             t == sortDesc(m)
  <1>1. /\ s \in Dimensions /\ t \in Dimensions
        /\ s[1] >= s[2] /\ s[2] >= s[3] /\ t[1] >= t[2] /\ t[2] >= t[3]
    BY SortDescSorts
  <1>2. \/ s[1] = a[1] /\ s[2] = a[2] /\ s[3] = a[3]
        \/ s[1] = a[1] /\ s[2] = a[3] /\ s[3] = a[2]
        \/ s[1] = a[2] /\ s[2] = a[1] /\ s[3] = a[3]
        \/ s[1] = a[2] /\ s[2] = a[3] /\ s[3] = a[1]
        \/ s[1] = a[3] /\ s[2] = a[1] /\ s[3] = a[2]
        \/ s[1] = a[3] /\ s[2] = a[2] /\ s[3] = a[1]
    BY SortDescSorts
  <1>3. \/ t[1] = m[1] /\ t[2] = m[2] /\ t[3] = m[3]
        \/ t[1] = m[1] /\ t[2] = m[3] /\ t[3] = m[2]
        \/ t[1] = m[2] /\ t[2] = m[1] /\ t[3] = m[3]
        \/ t[1] = m[2] /\ t[2] = m[3] /\ t[3] = m[1]
        \/ t[1] = m[3] /\ t[2] = m[1] /\ t[3] = m[2]
        \/ t[1] = m[3] /\ t[2] = m[2] /\ t[3] = m[1]
    BY SortDescSorts
  <1>4. exceedsDims(a, m) <=> s[1] > t[1] \/ s[2] > t[2] \/ s[3] > t[3]
    BY DEF exceedsDims
  <1>5. /\ a[1] \in Nat /\ a[2] \in Nat /\ a[3] \in Nat
        /\ m[1] \in Nat /\ m[2] \in Nat /\ m[3] \in Nat
    BY DEF Dimensions
  <1> HIDE DEF s, t
  <1>6. ~exceedsDims(a, m) <=> SixWays(a[1], a[2], a[3], m[1], m[2], m[3])
    BY <1>1, <1>2, <1>3, <1>4, <1>5 DEF SixWays
  <1> QED
    BY <1>6, FitsIsSixWays

-----------------------------------------------------------------------------
(* Finite sets of integers have a greatest and a least element, which is   *)
(* what minMaxCost and minMaxETA return.  The strict subset relation on    *)
(* finite sets is well-founded, so a set without one would have a smallest *)
(* subset without one.                                                     *)

(* Among finite sets there is a minimal one. *)
LEMMA SmallestSubset ==
  ASSUME NEW S, NEW D, D \subseteq FiniteSubsetsOf(S), D # {}
  PROVE  \E M \in D : \A T \in D : T \subseteq M => T = M
  <1>1. PICK M \in D : \A T \in D : ~(<< T, M >> \in StrictSubsetOrdering(S))
    BY FS_StrictSubsetOrderingWellFounded, WFMin
  <1> QED
    BY <1>1 DEF StrictSubsetOrdering, FiniteSubsetsOf

(* Some member of S comes last in the order R. *)
HasLast(S, R) == \E m \in S : \A k \in S : << k, m >> \in R

(* A total order on a finite set has a last member. *)
LEMMA LastExists ==
  ASSUME NEW S, IsFiniteSet(S), S # {}, NEW R,
         \A x, y \in S : << x, y >> \in R \/ << y, x >> \in R,
         \A x, y, z \in S : << x, y >> \in R /\ << y, z >> \in R => << x, z >> \in R
  PROVE  HasLast(S, R)
  <1> DEFINE D == { T \in FiniteSubsetsOf(S) : T # {} /\ ~HasLast(T, R) }
  <1>1. ASSUME D # {} PROVE FALSE
    <2>1. PICK M \in D : \A T \in D : T \subseteq M => T = M
      <3>1. D \subseteq FiniteSubsetsOf(S) /\ D # {}
        BY <1>1
      <3> HIDE DEF D
      <3> QED
        BY <3>1, SmallestSubset
    <2>2. M # {} /\ IsFiniteSet(M) /\ M \subseteq S /\ ~HasLast(M, R)
      BY DEF FiniteSubsetsOf
    <2>3. PICK x \in M : TRUE
      BY <2>2
    <2>4. M \ {x} \notin D
      BY <2>1, <2>3
    <2>5. M \ {x} \in FiniteSubsetsOf(S)
      BY <2>2, FS_RemoveElement DEF FiniteSubsetsOf
    <2>6. CASE M \ {x} = {}
      BY <2>2, <2>3, <2>6 DEF HasLast
    <2>7. CASE M \ {x} # {}
      <3>1. PICK m \in M \ {x} : \A k \in M \ {x} : << k, m >> \in R
        BY <2>4, <2>5, <2>7 DEF HasLast
      <3>2. CASE << x, m >> \in R
        BY <2>2, <3>1, <3>2 DEF HasLast
      <3>3. CASE << m, x >> \in R
        BY <2>2, <3>1, <3>3 DEF HasLast
      <3> QED
        BY <2>2, <3>1, <3>2, <3>3
    <2> QED
      BY <2>6, <2>7
  <1>2. S \in FiniteSubsetsOf(S)
    BY DEF FiniteSubsetsOf
  <1> QED
    BY <1>1, <1>2

LEMMA MaxAndMin ==
  ASSUME NEW S, S \subseteq Int, IsFiniteSet(S), S # {}
  PROVE  /\ Max(S) \in S /\ \A k \in S : k <= Max(S)
         /\ Min(S) \in S /\ \A k \in S : Min(S) <= k
  <1> DEFINE Up   == { p \in Int \X Int : p[1] <= p[2] }
             Down == { p \in Int \X Int : p[1] >= p[2] }
  <1>1. \A x, y \in S : /\ << x, y >> \in Up <=> x <= y
                        /\ << x, y >> \in Down <=> x >= y
    OBVIOUS
  <1>2. \A x, y \in S : x <= y \/ y <= x
    OBVIOUS
  <1>3. \A x, y, z \in S : /\ x <= y /\ y <= z => x <= z
                           /\ x >= y /\ y >= z => x >= z
    OBVIOUS
  <1> HIDE DEF Up, Down
  <1>4. HasLast(S, Up)
    BY <1>1, <1>2, <1>3, LastExists
  <1>5. HasLast(S, Down)
    BY <1>1, <1>2, <1>3, LastExists
  <1>6. \E m \in S : \A k \in S : m >= k
    BY <1>1, <1>4 DEF HasLast
  <1>7. \E m \in S : \A k \in S : m =< k
    BY <1>1, <1>5 DEF HasLast
  <1>8. Max(S) \in S /\ \A k \in S : Max(S) >= k
    BY <1>6 DEF Max
  <1>9. Min(S) \in S /\ \A k \in S : Min(S) =< k
    BY <1>7 DEF Min
  <1> QED
    BY <1>8, <1>9

(* The values that finitely many answers carry are finitely many. *)
LEMMA ValuesFinite ==
  ASSUME NEW n \in Nat, NEW J, J \subseteq 1..n, NEW f \in [J -> Nat]
  PROVE  IsFiniteSet({ f[i] : i \in J })
  <1>1. IsFiniteSet(J)
    <2>1. IsFiniteSet(1..n)
      BY FS_Interval
    <2> QED
      BY <2>1, FS_Subset
  <1>2. f \in Surjection(J, { f[i] : i \in J })
    BY DEF Surjection
  <1> QED
    BY <1>1, <1>2, FS_Surjection

(* What normalize divides by is never zero. *)
LEMMA SpreadIsPositive ==
  ASSUME NEW S, S \subseteq Int, IsFiniteSet(S), S # {}
  PROVE  Spread(S) \in Nat \ {0}
  <1>1. /\ Max(S) \in Int /\ Min(S) \in Int
        /\ Min(S) <= Max(S)
    BY MaxAndMin
  <1> QED
    BY <1>1 DEF Spread

-----------------------------------------------------------------------------
(* The weighted score.                                                     *)

(* Multiplying by a positive number keeps the order. *)
LEMMA ProductKeepsOrder ==
  ASSUME NEW x \in Int, NEW y \in Int, NEW z \in Nat \ {0}
  PROVE  /\ x * z \in Int /\ y * z \in Int
         /\ x <= y => x * z <= y * z
         /\ x < y => x * z < y * z
  OBVIOUS

(* The weights are positive: with a zero weight the measure it belongs to  *)
(* counts for nothing.                                                     *)
PositiveWeights == Weights.cost > 0 /\ Weights.eta > 0 /\ Weights.confidence > 0

(* The score of an answer with spreads P and Q and minima m and k. *)
ScoreOf(e, P, Q, m, k) ==
    e.confidence * Weights.confidence * P * Q
    - (e.cost - m) * Weights.cost * Q
    - (e.eta - k) * Weights.eta * P

LEMMA ScoreOfIsInt ==
  ASSUME NEW e \in Estimate, NEW P \in Nat, NEW Q \in Nat, NEW m \in Int, NEW k \in Int
  PROVE  ScoreOf(e, P, Q, m, k) \in Int
  <1>1. /\ e.confidence \in Int /\ e.cost \in Int /\ e.eta \in Int
        /\ Weights.confidence \in Int /\ Weights.cost \in Int /\ Weights.eta \in Int
    BY WeightsAssumption DEF Estimate
  <1> QED
    BY <1>1 DEF ScoreOf

(* An answer at least as good in everything and better in something scores *)
(* more.                                                                   *)
LEMMA DominatingScoresMore ==
  ASSUME PositiveWeights, NEW a \in Estimate, NEW b \in Estimate, Dominates(a, b),
         NEW P \in Nat \ {0}, NEW Q \in Nat \ {0}, NEW m \in Int, NEW k \in Int
  PROVE  ScoreOf(a, P, Q, m, k) > ScoreOf(b, P, Q, m, k)
  <1> DEFINE wf == Weights.confidence
             wc == Weights.cost
             we == Weights.eta
  <1>1. wf \in Nat \ {0} /\ wc \in Nat \ {0} /\ we \in Nat \ {0}
    BY WeightsAssumption DEF Estimate, PositiveWeights
  <1>2. /\ a.confidence \in Int /\ a.cost \in Int /\ a.eta \in Int
        /\ b.confidence \in Int /\ b.cost \in Int /\ b.eta \in Int
        /\ b.confidence <= a.confidence /\ a.cost <= b.cost /\ a.eta <= b.eta
        /\ b.confidence < a.confidence \/ a.cost < b.cost \/ a.eta < b.eta
    BY DEF Dominates, Estimate
  <1> HIDE DEF wf, wc, we
  <1>3. /\ a.confidence * wf * P * Q \in Int /\ b.confidence * wf * P * Q \in Int
        /\ b.confidence * wf * P * Q <= a.confidence * wf * P * Q
        /\ b.confidence < a.confidence =>
             b.confidence * wf * P * Q < a.confidence * wf * P * Q
    <2>1. /\ a.confidence * wf \in Int /\ b.confidence * wf \in Int
          /\ b.confidence * wf <= a.confidence * wf
          /\ b.confidence < a.confidence => b.confidence * wf < a.confidence * wf
      BY <1>1, <1>2, ProductKeepsOrder
    <2>2. /\ a.confidence * wf * P \in Int /\ b.confidence * wf * P \in Int
          /\ b.confidence * wf * P <= a.confidence * wf * P
          /\ b.confidence < a.confidence => b.confidence * wf * P < a.confidence * wf * P
      BY <2>1, ProductKeepsOrder
    <2> QED
      BY <2>2, ProductKeepsOrder
  <1>4. /\ (a.cost - m) * wc * Q \in Int /\ (b.cost - m) * wc * Q \in Int
        /\ (a.cost - m) * wc * Q <= (b.cost - m) * wc * Q
        /\ a.cost < b.cost => (a.cost - m) * wc * Q < (b.cost - m) * wc * Q
    <2>1. /\ a.cost - m \in Int /\ b.cost - m \in Int /\ a.cost - m <= b.cost - m
          /\ a.cost < b.cost => a.cost - m < b.cost - m
      BY <1>2
    <2>2. /\ (a.cost - m) * wc \in Int /\ (b.cost - m) * wc \in Int
          /\ (a.cost - m) * wc <= (b.cost - m) * wc
          /\ a.cost < b.cost => (a.cost - m) * wc < (b.cost - m) * wc
      BY <1>1, <2>1, ProductKeepsOrder
    <2> QED
      BY <2>2, ProductKeepsOrder
  <1>5. /\ (a.eta - k) * we * P \in Int /\ (b.eta - k) * we * P \in Int
        /\ (a.eta - k) * we * P <= (b.eta - k) * we * P
        /\ a.eta < b.eta => (a.eta - k) * we * P < (b.eta - k) * we * P
    <2>1. /\ a.eta - k \in Int /\ b.eta - k \in Int /\ a.eta - k <= b.eta - k
          /\ a.eta < b.eta => a.eta - k < b.eta - k
      BY <1>2
    <2>2. /\ (a.eta - k) * we \in Int /\ (b.eta - k) * we \in Int
          /\ (a.eta - k) * we <= (b.eta - k) * we
          /\ a.eta < b.eta => (a.eta - k) * we < (b.eta - k) * we
      BY <1>1, <2>1, ProductKeepsOrder
    <2> QED
      BY <2>2, ProductKeepsOrder
  <1> DEFINE fa == a.confidence * wf * P * Q
             fb == b.confidence * wf * P * Q
             ca == (a.cost - m) * wc * Q
             cb == (b.cost - m) * wc * Q
             ta == (a.eta - k) * we * P
             tb == (b.eta - k) * we * P
  <1>6. /\ fa \in Int /\ fb \in Int /\ ca \in Int /\ cb \in Int /\ ta \in Int /\ tb \in Int
        /\ fb <= fa /\ ca <= cb /\ ta <= tb
        /\ fb < fa \/ ca < cb \/ ta < tb
    BY <1>2, <1>3, <1>4, <1>5
  <1>7. /\ ScoreOf(a, P, Q, m, k) = fa - ca - ta
        /\ ScoreOf(b, P, Q, m, k) = fb - cb - tb
    BY DEF ScoreOf, wf, wc, we
  <1> HIDE DEF fa, fb, ca, cb, ta, tb
  <1>8. fa - ca - ta > fb - cb - tb
    BY <1>6
  <1> QED
    BY <1>7, <1>8

(* With at least one answer, the score of the code is such a score. *)
LEMMA WeightedScoreIsScore ==
  ASSUME scored \in Seq(Candidate), Answers # {}
  PROVE  \E P \in Nat \ {0}, Q \in Nat \ {0}, m \in Int, k \in Int :
           \A e : WeightedScore(e) = ScoreOf(e, P, Q, m, k)
  <1> DEFINE J     == { j \in 1..Len(scored) : scored[j].available }
             costs == { x.cost : x \in Answers }
             etas  == { x.eta : x \in Answers }
             f     == [ i \in J |-> scored[i].estimate.cost ]
             g     == [ i \in J |-> scored[i].estimate.eta ]
  <1>1. \A i \in J : scored[i].estimate \in Estimate
    <2> TAKE i \in J
    <2>1. scored[i] \in Candidate
      OBVIOUS
    <2> QED
      BY <2>1 DEF Candidate
  <1>2. f \in [J -> Nat] /\ g \in [J -> Nat] /\ Len(scored) \in Nat
    BY <1>1 DEF Estimate
  <1>3. costs = { f[i] : i \in J } /\ etas = { g[i] : i \in J }
    BY DEF Answers
  <1>4. costs \subseteq Int /\ etas \subseteq Int /\ costs # {} /\ etas # {}
    <2>1. Answers \subseteq Estimate
      BY <1>1 DEF Answers
    <2> QED
      BY <2>1 DEF Estimate
  <1>5. IsFiniteSet(costs) /\ IsFiniteSet(etas)
    <2>1. J \subseteq 1..Len(scored)
      OBVIOUS
    <2> HIDE DEF J, f, g, costs, etas
    <2> QED
      BY <1>2, <1>3, <2>1, ValuesFinite
  <1> HIDE DEF J, f, g, costs, etas
  <1>6. Spread(costs) \in Nat \ {0} /\ Spread(etas) \in Nat \ {0}
    BY <1>4, <1>5, SpreadIsPositive
  <1>7. Min(costs) \in Int /\ Min(etas) \in Int
    BY <1>4, <1>5, MaxAndMin
  <1>8. \A e : WeightedScore(e) =
                 ScoreOf(e, Spread(costs), Spread(etas), Min(costs), Min(etas))
    BY DEF WeightedScore, ScoreOf, costs, etas
  <1> QED
    BY <1>6, <1>7, <1>8

-----------------------------------------------------------------------------
(* The engine.  Decide is a loop over carriers and then a loop over their  *)
(* answers, so the invariant says what holds in the middle of each: every  *)
(* eligible carrier is still to be asked or among the candidates, and best *)
(* is unbeaten among the candidates scanned so far.                        *)

Able == eligible(req, "last_mile")

Asked == { scored[i].carrier : i \in 1..Len(scored) }

(* The variables below describe the request in req. *)
Current == pc # "idle" \/ outcome \in { "chosen", "ErrNoAvailableCandidate" }

Unbeaten ==
  \A j \in 1..(next - 1) : scored[j].available =>
    /\ best # 0
    /\ strategy = "cheapest" => scored[best].estimate.cost <= scored[j].estimate.cost
    /\ strategy = "fastest" => scored[best].estimate.eta <= scored[j].estimate.eta
    /\ strategy = "weighted" =>
         WeightedScore(scored[best].estimate) >= WeightedScore(scored[j].estimate)

RoutingInv ==
  /\ RoutingTypeOK
  /\ Current => Asked \cup todo = Able
  /\ best # 0 => scored[best].available
  /\ Unbeaten
  /\ pc # "idle" => outcome = "none"
  /\ pc = "estimate" => next = 1
  /\ pc = "select" => todo = {}
  /\ outcome \in { "chosen", "ErrNoAvailableCandidate" } =>
       todo = {} /\ next = Len(scored) + 1
  /\ outcome = "chosen" => best # 0
  /\ outcome = "ErrNoAvailableCandidate" => best = 0
  /\ outcome = "ErrNoEligibleCarrier" => Able = {}

LEMMA RoutingInvInit == RoutingInit => RoutingInv
  BY DEF RoutingInit, RoutingInv, RoutingTypeOK, Outcome, Current, Unbeaten

LEMMA DecideKeeps ==
  ASSUME RoutingInv, NEW r \in Shipments, Decide(r)
  PROVE  RoutingInv'
  <1>1. RoutingTypeOK'
    BY DEF RoutingInv, RoutingTypeOK, Decide, eligible, Outcome
  <1>2. Able' = todo'
    BY DEF Able, Decide, eligible
  <1>3. Asked' = {} /\ best' = 0 /\ next' = 1
    BY DEF Decide, Asked
  <1>4. \/ pc' = "idle" /\ outcome' = "ErrNoEligibleCarrier" /\ todo' = {}
        \/ pc' = "estimate" /\ outcome' = "none"
    BY DEF Decide
  <1>5. Unbeaten'
    BY <1>3 DEF Unbeaten
  <1> QED
    BY <1>1, <1>2, <1>3, <1>4, <1>5 DEF RoutingInv, Current

(* One more candidate, with or without an answer. *)
LEMMA AnsweredKeeps ==
  ASSUME RoutingInv, NEW c \in Carriers, NEW x \in Candidate, x.carrier = c,
         Answered(c, x)
  PROVE  RoutingInv'
  <1>1. /\ pc = "estimate" /\ c \in todo /\ outcome' = "none" /\ outcome = "none"
        /\ scored' = Append(scored, x) /\ todo' = todo \ {c}
        /\ next' = next /\ best' = best /\ req' = req /\ strategy' = strategy
        /\ pc' \in { "estimate", "select" }
        /\ pc' = "select" => todo' = {}
    BY DEF Answered, RoutingInv
  <1>2. /\ scored \in Seq(Candidate) /\ next \in 1..(Len(scored) + 1)
        /\ best \in 0..(next - 1)
    BY DEF RoutingInv, RoutingTypeOK
  <1>3. /\ Len(scored') = Len(scored) + 1
        /\ scored'[Len(scored) + 1] = x
        /\ \A i \in 1..Len(scored) : scored'[i] = scored[i]
        /\ scored' \in Seq(Candidate)
    BY <1>1, <1>2
  <1>4. RoutingTypeOK'
    BY <1>1, <1>2, <1>3 DEF RoutingInv, RoutingTypeOK, Outcome
  <1>5. Asked' = Asked \cup {c}
    BY <1>2, <1>3 DEF Asked
  <1>6. Asked' \cup todo' = Able'
    <2>1. Asked \cup todo = Able
      BY <1>1 DEF RoutingInv, Current
    <2>2. Able' = Able
      BY <1>1 DEF Able
    <2> QED
      BY <1>1, <1>5, <2>1, <2>2
  <1>7. best' # 0 => scored'[best'].available
    BY <1>1, <1>2, <1>3 DEF RoutingInv
  <1>8. next' = 1 /\ Unbeaten'
    BY <1>1 DEF RoutingInv, Unbeaten
  <1> QED
    BY <1>1, <1>4, <1>6, <1>7, <1>8 DEF RoutingInv

LEMMA ScanKeeps ==
  ASSUME RoutingInv, Scan
  PROVE  RoutingInv'
  <1>1. /\ pc = "select" /\ pc' = pc /\ outcome' = outcome /\ scored' = scored
        /\ next <= Len(scored) /\ next' = next + 1
        /\ req' = req /\ todo' = todo /\ strategy' = strategy
        /\ best' = best \/ (best' = next /\ scored[next].available)
    BY DEF Scan
  <1>2. /\ scored \in Seq(Candidate) /\ next \in 1..(Len(scored) + 1)
        /\ best \in 0..(next - 1) /\ strategy \in Strategies
    BY DEF RoutingInv, RoutingTypeOK
  <1>3. \A i \in 1..Len(scored) :
          /\ scored[i].estimate \in Estimate
          /\ scored[i].estimate.cost \in Nat
          /\ scored[i].estimate.eta \in Nat
    <2> TAKE i \in 1..Len(scored)
    <2>1. scored[i] \in Candidate
      BY <1>2
    <2> QED
      BY <2>1 DEF Candidate, Estimate
  <1>4. RoutingTypeOK'
    BY <1>1, <1>2 DEF RoutingInv, RoutingTypeOK
  <1>5. Able' = Able /\ Asked' = Asked
    BY <1>1 DEF Able, Asked
  <1>6. best' # 0 => scored'[best'].available
    BY <1>1 DEF RoutingInv
  <1>7. \A e : WeightedScore(e)' = WeightedScore(e)
    BY <1>1 DEF WeightedScore, Answers
  <1>8. Unbeaten'
    <2> SUFFICES ASSUME NEW j \in 1..next, scored[j].available
                 PROVE  /\ best' # 0
                        /\ strategy = "cheapest" =>
                             scored[best'].estimate.cost <= scored[j].estimate.cost
                        /\ strategy = "fastest" =>
                             scored[best'].estimate.eta <= scored[j].estimate.eta
                        /\ strategy = "weighted" =>
                             WeightedScore(scored[best'].estimate)
                               >= WeightedScore(scored[j].estimate)
      BY <1>1, <1>2, <1>7 DEF Unbeaten
    <2>1. best' = IF /\ scored[next].available
                     /\ best = 0 \/ Beats(scored[next].estimate, scored[best].estimate)
                    THEN next ELSE best
      BY DEF Scan
    <2>2. j < next => /\ best # 0
                      /\ strategy = "cheapest" =>
                           scored[best].estimate.cost <= scored[j].estimate.cost
                      /\ strategy = "fastest" =>
                           scored[best].estimate.eta <= scored[j].estimate.eta
                      /\ strategy = "weighted" =>
                           WeightedScore(scored[best].estimate)
                             >= WeightedScore(scored[j].estimate)
      BY <1>2 DEF RoutingInv, Unbeaten
    <2>3. j \in 1..Len(scored) /\ next \in 1..Len(scored)
          /\ (best # 0 => best \in 1..Len(scored))
      BY <1>1, <1>2
    <2>4. \A i \in 1..Len(scored) : WeightedScore(scored[i].estimate) \in Int
      <3>1. scored[j].estimate \in Answers
        BY <2>3 DEF Answers
      <3>2. PICK P \in Nat \ {0}, Q \in Nat \ {0}, m \in Int, k \in Int :
              \A e : WeightedScore(e) = ScoreOf(e, P, Q, m, k)
        BY <1>2, <3>1, WeightedScoreIsScore
      <3> QED
        BY <1>3, <3>2, ScoreOfIsInt
    <2>5. CASE best = 0
      BY <1>2, <1>3, <2>1, <2>2, <2>3, <2>4, <2>5
    <2>6. CASE best # 0 /\ strategy = "cheapest"
      <3>1. Beats(scored[next].estimate, scored[best].estimate)
              <=> scored[next].estimate.cost < scored[best].estimate.cost
        BY <2>6 DEF Beats
      <3> QED
        BY <1>2, <1>3, <2>1, <2>2, <2>3, <2>6, <3>1
    <2>7. CASE best # 0 /\ strategy = "fastest"
      <3>1. Beats(scored[next].estimate, scored[best].estimate)
              <=> scored[next].estimate.eta < scored[best].estimate.eta
        BY <2>7 DEF Beats
      <3> QED
        BY <1>2, <1>3, <2>1, <2>2, <2>3, <2>7, <3>1
    <2>8. CASE best # 0 /\ strategy = "weighted"
      <3>1. Beats(scored[next].estimate, scored[best].estimate)
              <=> WeightedScore(scored[next].estimate) > WeightedScore(scored[best].estimate)
        BY <2>8 DEF Beats
      <3> QED
        BY <1>2, <2>1, <2>2, <2>3, <2>4, <2>8, <3>1
    <2> QED
      BY <1>2, <2>5, <2>6, <2>7, <2>8, StrategiesAssumption
  <1> QED
    BY <1>1, <1>4, <1>5, <1>6, <1>8 DEF RoutingInv, Current

LEMMA SelectKeeps ==
  ASSUME RoutingInv, Select
  PROVE  RoutingInv'
  <1>1. /\ pc = "select" /\ pc' = "idle" /\ scored' = scored /\ next > Len(scored)
        /\ req' = req /\ todo' = todo /\ strategy' = strategy
        /\ next' = next /\ best' = best
        /\ outcome' = IF best = 0 THEN "ErrNoAvailableCandidate" ELSE "chosen"
    BY DEF Select
  <1>2. next = Len(scored) + 1
    BY <1>1 DEF RoutingInv, RoutingTypeOK
  <1>3. RoutingTypeOK'
    BY <1>1 DEF RoutingInv, RoutingTypeOK, Outcome
  <1>4. Able' = Able /\ Asked' = Asked /\ (Unbeaten <=> Unbeaten')
    BY <1>1 DEF Able, Asked, Unbeaten, WeightedScore, Answers
  <1> QED
    BY <1>1, <1>2, <1>3, <1>4 DEF RoutingInv, Current

THEOREM RoutingInvariant == RoutingSpec => []RoutingInv
  <1>1. RoutingInit => RoutingInv
    BY RoutingInvInit
  <1>2. RoutingInv /\ [RoutingNext]_vars => RoutingInv'
    <2> SUFFICES ASSUME RoutingInv, [RoutingNext]_vars
                 PROVE  RoutingInv'
      OBVIOUS
    <2>1. ASSUME NEW r \in Shipments, Decide(r)
          PROVE  RoutingInv'
      BY <2>1, DecideKeeps
    <2>2. ASSUME NEW c \in Carriers, NEW e \in Estimates, GetEstimate(c, e)
          PROVE  RoutingInv'
      <3> DEFINE x == [ carrier |-> c, available |-> TRUE, estimate |-> e ]
      <3>1. x \in Candidate /\ x.carrier = c
        BY EstimatesAssumption DEF Candidate
      <3>2. Answered(c, x)
        BY <2>2 DEF GetEstimate
      <3> HIDE DEF x
      <3> QED
        BY <3>1, <3>2, AnsweredKeeps
    <2>3. ASSUME NEW c \in Carriers, EstimateFails(c)
          PROVE  RoutingInv'
      <3> DEFINE x == [ carrier |-> c, available |-> FALSE, estimate |-> NoEstimate ]
      <3>1. x \in Candidate /\ x.carrier = c
        BY DEF Candidate, NoEstimate, Estimate
      <3>2. Answered(c, x)
        BY <2>3 DEF EstimateFails
      <3> HIDE DEF x
      <3> QED
        BY <3>1, <3>2, AnsweredKeeps
    <2>4. CASE Scan
      BY <2>4, ScanKeeps
    <2>5. CASE Select
      BY <2>5, SelectKeeps
    <2>6. CASE UNCHANGED vars
      BY <2>6 DEF vars, RoutingInv, RoutingTypeOK, Current, Unbeaten, WeightedScore,
                   Answers, Able, Asked
    <2> QED
      BY <2>1, <2>2, <2>3, <2>4, <2>5, <2>6 DEF RoutingNext
  <1> QED
    BY <1>1, <1>2, PTL DEF RoutingSpec

(* The state of a Decide in progress stays well typed. *)
THEOREM RoutingTypeCorrect == RoutingSpec => []RoutingTypeOK
  <1>1. RoutingInv => RoutingTypeOK
    BY DEF RoutingInv
  <1> QED
    BY <1>1, RoutingInvariant, PTL

(* Passing eligible is being able to serve. *)
LEMMA EligibleCanServe ==
  ASSUME NEW r \in Shipments, NEW c \in Carriers
  PROVE  c \in eligible(r, "last_mile") <=> CanServe(c, r)
  <1>1. r.dims \in Dimensions /\ Capabilities[c].maxDims \in Dimensions
    BY ShipmentsAssumption, CapabilitiesAssumption DEF ShipmentRequest, CarrierCapabilities
  <1>2. ~exceedsDims(r.dims, Capabilities[c].maxDims)
          <=> FitsSomeWay(r.dims, Capabilities[c].maxDims)
    BY <1>1, SortingFindsTheFit
  <1> QED
    BY <1>2 DEF eligible, CanServe

(* Every carrier Decide returns answered and can take the package. *)
THEOREM ChosenCarrierCanServe == RoutingSpec => []ChosenCanServe
  <1>1. RoutingInv => ChosenCanServe
    <2> SUFFICES ASSUME RoutingInv, outcome = "chosen"
                 PROVE  scored[best].available /\ CanServe(scored[best].carrier, req)
      BY DEF ChosenCanServe, Chosen
    <2>1. best \in 1..Len(scored) /\ scored[best].available /\ todo = {}
      BY DEF RoutingInv, RoutingTypeOK
    <2>2. scored[best].carrier \in Able
      BY <2>1 DEF RoutingInv, Current, Asked
    <2>3. req \in Shipments /\ scored[best].carrier \in Carriers
      BY <2>1, <2>2 DEF RoutingInv, RoutingTypeOK, Able, eligible
    <2> QED
      BY <2>1, <2>2, <2>3, EligibleCanServe DEF Able
  <1> QED
    BY <1>1, RoutingInvariant, PTL

(* Decide gives up only when no carrier can serve or none answered. *)
THEOREM GivingUpIsForced == RoutingSpec => []GivesUpOnlyWhenItMust
  <1>1. RoutingInv => GivesUpOnlyWhenItMust
    <2> SUFFICES ASSUME RoutingInv
                 PROVE  GivesUpOnlyWhenItMust
      OBVIOUS
    <2>1. req \in Shipments
      BY DEF RoutingInv, RoutingTypeOK
    <2>2. { c \in Carriers : CanServe(c, req) } = Able
      BY <2>1, EligibleCanServe DEF Able, eligible
    <2>3. ASSUME outcome = "ErrNoAvailableCandidate"
          PROVE  Able = Asked /\ Answers = {}
      <3>1. Able = Asked
        BY <2>3 DEF RoutingInv, Current
      <3>2. \A j \in 1..Len(scored) : ~scored[j].available
        BY <2>3 DEF RoutingInv, RoutingTypeOK, Unbeaten
      <3>3. Answers = {}
        BY <3>2 DEF Answers
      <3> QED
        BY <3>1, <3>3
    <2>4. outcome = "ErrNoEligibleCarrier" => Able = {}
      BY DEF RoutingInv
    <2> QED
      BY <2>2, <2>3, <2>4 DEF GivesUpOnlyWhenItMust, Asked
  <1> QED
    BY <1>1, RoutingInvariant, PTL

(* The cheapest and the fastest strategy choose the best, with any weights. *)
THEOREM BestByOneMeasure == RoutingSpec => [](strategy # "weighted" => ChosenIsBest)
  <1>1. RoutingInv => (strategy # "weighted" => ChosenIsBest)
    <2> SUFFICES ASSUME RoutingInv, outcome = "chosen", NEW e \in Answers
                 PROVE  /\ strategy = "cheapest" => scored[best].estimate.cost <= e.cost
                        /\ strategy = "fastest" => scored[best].estimate.eta <= e.eta
      BY DEF ChosenIsBest, Chosen
    <2>1. PICK j \in 1..Len(scored) : scored[j].available /\ scored[j].estimate = e
      BY DEF Answers
    <2>2. next = Len(scored) + 1 /\ scored \in Seq(Candidate)
      BY DEF RoutingInv, RoutingTypeOK
    <2> QED
      BY <2>1, <2>2 DEF RoutingInv, Unbeaten
  <1> QED
    BY <1>1, RoutingInvariant, PTL

(* Whatever the strategy and the order in which the carriers were asked,   *)
(* the choice is the best of those that answered: the cheapest, the        *)
(* fastest, or by the weighted score one that no answer dominates.         *)
THEOREM ChoiceIsBest ==
  ASSUME PositiveWeights
  PROVE  RoutingSpec => []ChosenIsBest
  <1>1. RoutingInv => ChosenIsBest
    <2> SUFFICES ASSUME RoutingInv, outcome = "chosen", NEW e \in Answers
                 PROVE  /\ strategy = "cheapest" => scored[best].estimate.cost <= e.cost
                        /\ strategy = "fastest" => scored[best].estimate.eta <= e.eta
                        /\ strategy = "weighted" => ~Dominates(e, scored[best].estimate)
      BY DEF ChosenIsBest, Chosen
    <2>1. PICK j \in 1..Len(scored) : scored[j].available /\ scored[j].estimate = e
      BY DEF Answers
    <2>2. /\ next = Len(scored) + 1 /\ scored \in Seq(Candidate)
          /\ best \in 1..Len(scored)
      BY DEF RoutingInv, RoutingTypeOK
    <2>3. /\ strategy = "cheapest" => scored[best].estimate.cost <= scored[j].estimate.cost
          /\ strategy = "fastest" => scored[best].estimate.eta <= scored[j].estimate.eta
          /\ strategy = "weighted" =>
               WeightedScore(scored[best].estimate) >= WeightedScore(scored[j].estimate)
      BY <2>1, <2>2 DEF RoutingInv, Unbeaten
    <2>4. scored[best].estimate \in Estimate /\ e \in Estimate
      <3>1. scored[best] \in Candidate /\ scored[j] \in Candidate
        BY <2>2
      <3> QED
        BY <2>1, <3>1 DEF Candidate
    <2>5. ASSUME strategy = "weighted", Dominates(e, scored[best].estimate)
          PROVE  FALSE
      <3>1. PICK P \in Nat \ {0}, Q \in Nat \ {0}, m \in Int, k \in Int :
              \A x : WeightedScore(x) = ScoreOf(x, P, Q, m, k)
        BY <2>2, WeightedScoreIsScore
      <3>2. ScoreOf(e, P, Q, m, k) > ScoreOf(scored[best].estimate, P, Q, m, k)
        BY <2>4, <2>5, DominatingScoresMore
      <3>3. /\ ScoreOf(e, P, Q, m, k) \in Int
            /\ ScoreOf(scored[best].estimate, P, Q, m, k) \in Int
        BY <2>4, ScoreOfIsInt
      <3> QED
        BY <2>1, <2>3, <2>5, <3>1, <3>2, <3>3
    <2> QED
      BY <2>1, <2>3, <2>5
  <1> QED
    BY <1>1, RoutingInvariant, PTL

=============================================================================
