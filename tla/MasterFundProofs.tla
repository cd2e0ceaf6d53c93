--------------------------- MODULE MasterFundProofs ---------------------------
(***************************************************************************)
(* What the risk gate and the strategy engine guarantee in every cycle of  *)
(* every fund, whatever is proposed, held, forecast or allocated.          *)
(***************************************************************************)
EXTENDS MasterFund, RiskGateProofs

(* The largest and the smallest member of a finite set of numbers.         *)
LEMMA MaxOfFinite ==
  ASSUME NEW S \in SUBSET Int, IsFiniteSet(S), S # {}
  PROVE  Max(S) \in S /\ \A x \in S : x <= Max(S)
<1>1. \E n \in S : \A m \in S : m <= n
  BY GreatestNumber
<1>2. \E n \in S : \A m \in S : n >= m
  BY <1>1
<1>3. Max(S) \in S /\ \A x \in S : Max(S) >= x
  BY <1>2 DEF Max
<1> QED
  BY <1>3

LEMMA MinOfNaturals ==
  ASSUME NEW S \in SUBSET Nat, S # {}
  PROVE  Min(S) \in S /\ \A x \in S : Min(S) <= x
<1>1. \E n \in S : \A m \in S : n <= m
  BY LeastNumber
<1> QED
  BY <1>1 DEF Min

-----------------------------------------------------------------------------
(* The pods.                                                               *)
PodSound(pod) ==
  /\ pod.capital \in Nat /\ pod.grossTarget \in Nat
  /\ pod.maxGross \in Nat /\ pod.maxPosition \in Nat

LEMMA LargestPositionType ==
  ASSUME NEW w, WeightMap(w)
  PROVE  /\ LargestPosition(w) \in Nat
         /\ \A t \in DOMAIN w : Abs(w[t]) <= LargestPosition(w)
         /\ \A b \in Nat : (\A t \in DOMAIN w : Abs(w[t]) <= b) => LargestPosition(w) <= b
<1> DEFINE P == {Abs(w[t]) : t \in DOMAIN w}
           S == {0} \union P
<1>1. \A t \in DOMAIN w : Abs(w[t]) \in Nat
  BY DEF WeightMap, Abs
<1>2. IsFiniteSet(P)
  <2>1. IsFiniteSet({Sizes(w)[t] : t \in DOMAIN w})
    BY FiniteImage DEF WeightMap
  <2> QED
    BY <2>1 DEF Sizes
<1>3. S \in SUBSET Int /\ S \in SUBSET Nat /\ IsFiniteSet(S) /\ S # {}
  <2>1. IsFiniteSet(P \union {0})
    BY <1>2, FS_AddElement
  <2>2. S = P \union {0}
    OBVIOUS
  <2> QED
    BY <1>1, <2>1, <2>2
<1>4. LargestPosition(w) = Max(S)
  BY DEF LargestPosition
<1> HIDE DEF S
<1>5. Max(S) \in S /\ \A x \in S : x <= Max(S)
  BY <1>3, MaxOfFinite
<1> QED
  BY <1>3, <1>4, <1>5 DEF S

(* The common factor holds both of a pod's budgets.                        *)
LEMMA WithinBudgetHolds ==
  ASSUME NEW w, WeightMap(w), NEW pod, PodSound(pod)
  PROVE  LET v == WithinBudget(pod, w)
         IN  /\ Shrunk(v, w)
             /\ Gross(v) <= GrossLimit(pod)
             /\ LargestPosition(v) <= pod.maxPosition
<1> DEFINE limit == GrossLimit(pod)
           L == LargestPosition(w)
           q == Common(limit, Gross(w), pod.maxPosition, L)
           v == WithinBudget(pod, w)
<1>1. v = Scaled(w, q)
  BY DEF WithinBudget, Scaled, Common
<1>2. limit \in Nat /\ L \in Nat /\ Gross(w) \in Nat /\ pod.maxPosition \in Nat
  BY ExposureTypes, LargestPositionType DEF GrossLimit, AtMost, PodSound
<1> HIDE DEF limit, v
<1>3. /\ Ratio(q) /\ q[1] <= q[2]
      /\ Brings(q, Gross(w), limit) /\ Brings(q, L, pod.maxPosition)
  <2> HIDE DEF L
  <2> QED
    BY <1>2, CommonBrings
<1> HIDE DEF q
<1>4. Shrunk(v, w) /\ q[2] * Gross(v) <= q[1] * Gross(w)
  BY <1>1, <1>3, ScaledShrinks
<1>5. WeightMap(v) /\ DOMAIN v = DOMAIN w
  BY <1>4 DEF Shrunk
<1>6. q[1] \in Nat /\ q[2] \in Nat \ {0} /\ Gross(v) \in Nat
  BY <1>3, <1>5, ExposureTypes DEF Ratio
<1>7. Gross(v) <= limit
  <2>1. q[2] * Gross(v) <= q[2] * limit
    BY <1>2, <1>3, <1>4, <1>6 DEF Brings
  <2> QED
    BY <1>2, <1>6, <2>1, TimesCancel
<1>8. ASSUME NEW t \in DOMAIN v PROVE Abs(v[t]) <= pod.maxPosition
  <2>1. w[t] \in Int /\ v[t] = Scale(w[t], q[1], q[2])
    BY <1>1, <1>5 DEF WeightMap, Scaled
  <2>2. v[t] \in Int /\ q[2] * Abs(v[t]) <= q[1] * Abs(w[t])
    BY <1>3, <1>6, <2>1, ScaleShrinks
  <2>3. Abs(w[t]) <= L /\ Abs(w[t]) \in Nat /\ Abs(v[t]) \in Nat
    BY <1>5, <2>1, <2>2, LargestPositionType DEF Abs
  <2>4. q[1] * Abs(w[t]) <= q[1] * L
    BY <1>2, <1>6, <2>3, TimesMonotone
  <2>5. q[1] * L <= q[2] * pod.maxPosition
    BY <1>2, <1>3, <1>6 DEF Brings
  <2> DEFINE x == Abs(v[t])
             y == Abs(w[t])
  <2>6. x \in Int /\ y \in Int /\ q[2] * x \in Int /\ q[1] * y \in Int /\ q[1] * L \in Int
        /\ q[2] * pod.maxPosition \in Int
    BY <1>2, <1>6, <2>3
  <2>7. q[2] * x <= q[2] * pod.maxPosition
    BY <2>2, <2>4, <2>5, <2>6
  <2> QED
    BY <1>2, <1>6, <2>6, <2>7, TimesCancel
<1>9. LargestPosition(v) <= pod.maxPosition
  BY <1>2, <1>5, <1>8, LargestPositionType
<1> QED
  BY <1>4, <1>7, <1>9 DEF v, limit

LEMMA NeutralIsABook ==
  ASSUME NEW w, WeightMap(w), NEW pod
  PROVE  WeightMap(Neutral(pod, w)) /\ DOMAIN Neutral(pod, w) = DOMAIN w
<1>1. CASE ~pod.neutral
  BY <1>1 DEF Neutral
<1>2. CASE pod.neutral
  <2> DEFINE s == Scale(SignedNet(w), 1, Cardinality(DOMAIN w))
             v == [t \in DOMAIN w |-> w[t] - s]
  <2>1. Neutral(pod, w) = v /\ DOMAIN v = DOMAIN w
    BY <1>2 DEF Neutral
  <2>2. ASSUME NEW t \in DOMAIN w PROVE s \in Int
    <3>1. Cardinality(DOMAIN w) \in Nat \ {0}
      BY OneLess DEF WeightMap
    <3>2. SignedNet(w) \in Int
      BY ExposureTypes
    <3>3. 1 \in Nat /\ 1 <= Cardinality(DOMAIN w)
      BY <3>1
    <3> QED
      BY <3>1, <3>2, <3>3, ScaleShrinks
  <2> HIDE DEF s
  <2>3. WeightMap(v)
    BY <2>2 DEF WeightMap
  <2> QED
    BY <2>1, <2>3
<1> QED
  BY <1>1, <1>2

(* What a pod may end with: a book of blended tickers within its budgets.  *)
LEMMA PodTargetHolds ==
  ASSUME NEW pod, PodSound(pod), NEW forecasts, IsFiniteSet(Blended(pod, forecasts)),
         NEW v \in PodTargets(pod, forecasts)
  PROVE  /\ WeightMap(v) /\ DOMAIN v = Blended(pod, forecasts)
         /\ Gross(v) <= GrossLimit(pod)
         /\ LargestPosition(v) <= pod.maxPosition
<1> DEFINE B == Blended(pod, forecasts)
<1>0. pod.maxPosition \in Nat /\ GrossLimit(pod) \in Nat
  BY DEF PodSound, GrossLimit, AtMost
<1>1. CASE B = {}
  <2>1. v = [t \in {} |-> 0]
    BY <1>1 DEF PodTargets
  <2>2. WeightMap(v) /\ DOMAIN v = {} /\ Gross(v) = 0
    BY <2>1, EmptyBook
  <2>3. LargestPosition(v) <= pod.maxPosition
    BY <1>0, <2>2, LargestPositionType
  <2> QED
    BY <1>0, <1>1, <2>2, <2>3
<1>2. CASE B # {}
  <2>1. PICK w \in ModelWeights(pod, B) : v = Finished(pod, w)
    BY <1>2 DEF PodTargets
  <2>2. w \in [B -> 0..pod.grossTarget]
    BY <2>1 DEF ModelWeights, Simplex
  <2>3. WeightMap(w) /\ DOMAIN w = B
    BY <2>2 DEF WeightMap, PodSound
  <2> DEFINE u == Neutral(pod, w)
  <2>4. WeightMap(u) /\ DOMAIN u = B
    BY <2>3, NeutralIsABook
  <2>5. v = WithinBudget(pod, u)
    BY <2>1 DEF Finished
  <2> HIDE DEF u
  <2>6. Shrunk(v, u) /\ Gross(v) <= GrossLimit(pod) /\ LargestPosition(v) <= pod.maxPosition
    BY <2>4, <2>5, WithinBudgetHolds
  <2> QED
    BY <2>4, <2>6 DEF Shrunk
<1> QED
  BY <1>1, <1>2

-----------------------------------------------------------------------------
(* The netting.  What is assumed of the portfolios of the pods that a      *)
(* master portfolio is built from:                                         *)
PodsBuilt(mandat, targets, vol) ==
  /\ mandat.allocator \in {"static", "inverse_volatility"}
  /\ IsFiniteSet(DOMAIN targets)
  /\ \A p \in DOMAIN targets :
       /\ PodSound(mandat.pods[p])
       /\ WeightMap(targets[p])
       /\ Gross(targets[p]) <= GrossLimit(mandat.pods[p])
       /\ \A t \in DOMAIN targets[p] : vol[t] \in Nat

LEMMA VolatilityType ==
  ASSUME NEW w, WeightMap(w), NEW vol, \A t \in DOMAIN w : vol[t] \in Nat
  PROVE  Volatility(w, vol) \in Nat
<1> DEFINE f == [t \in DOMAIN w |-> Abs(w[t]) * vol[t]]
<1>1. Volatility(w, vol) = SumFunctionOnSet(f, DOMAIN w)
  <2>1. Volatility(w, vol) = SumFunction(f) /\ DOMAIN f = DOMAIN w
    BY DEF Volatility
  <2> QED
    BY <2>1, SumOfFunction
<1>2. \A t \in DOMAIN w : f[t] \in Nat
  BY DEF Abs, WeightMap
<1> HIDE DEF f
<1>3. IsFiniteSet(DOMAIN w)
  BY DEF WeightMap
<1> QED
  BY <1>1, <1>2, <1>3, SumNatural

(* No pod is allocated more than the capital it declares.                  *)
LEMMA AllocatorsHold ==
  ASSUME NEW mandat, NEW targets, NEW vol, PodsBuilt(mandat, targets, vol),
         ~AllocatorRefuses(mandat, targets, vol), NEW p \in DOMAIN targets
  PROVE  Allocators(mandat, targets, vol)[p] \in 0..mandat.pods[p].capital
<1> DEFINE a == Allocators(mandat, targets, vol)
           capital == mandat.pods[p].capital
           V(q) == Volatility(targets[q], vol)
           S == {V(q) : q \in Active(targets)}
<1>1. capital \in Nat
  BY DEF PodsBuilt, PodSound
<1>2. CASE mandat.allocator = "static" \/ p \notin Active(targets)
  <2>1. a[p] = capital
    BY <1>2 DEF Allocators
  <2> QED
    BY <1>1, <2>1
<1>3. CASE ~(mandat.allocator = "static" \/ p \notin Active(targets))
  <2>1. mandat.allocator = "inverse_volatility" /\ p \in Active(targets)
    BY <1>3 DEF PodsBuilt
  <2>2. a[p] = Scale(capital, Min(S), V(p))
    BY <1>3 DEF Allocators
  <2>3. \A q \in Active(targets) : V(q) \in Nat \ {0}
    <3> SUFFICES ASSUME NEW q \in Active(targets) PROVE V(q) \in Nat \ {0}
      OBVIOUS
    <3>1. V(q) \in Nat
      BY VolatilityType DEF PodsBuilt, Active
    <3>2. V(q) # 0
      BY <2>1 DEF AllocatorRefuses
    <3> QED
      BY <3>1, <3>2
  <2> HIDE DEF a, V
  <2>4. S \in SUBSET Nat /\ S # {} /\ V(p) \in S
    BY <2>1, <2>3
  <2> HIDE DEF S
  <2>5. Min(S) \in Nat /\ Min(S) <= V(p)
    BY <2>4, MinOfNaturals
  <2>6. V(p) \in Nat \ {0}
    BY <2>1, <2>3
  <2> HIDE DEF capital
  <2>7. Scale(capital, Min(S), V(p)) \in Int /\ Toward(Scale(capital, Min(S), V(p)), capital)
    BY <1>1, <2>5, <2>6, ScaleShrinks
  <2> QED
    BY <1>1, <2>2, <2>7 DEF Toward, a, capital
<1> QED
  BY <1>2, <1>3

(* What a pod puts into a ticker of the fund, and its size. *)
Share(targets, a, t) == [p \in DOMAIN targets |-> Weight(targets[p], t) * a[p]]
HeldByPods(targets) == UNION {DOMAIN targets[p] : p \in DOMAIN targets}
Unnetted(targets, a) == [t \in HeldByPods(targets) |-> SumFunction(Share(targets, a, t))]

LEMMA FiniteTickers ==
  ASSUME NEW targets, IsFiniteSet(DOMAIN targets),
         \A p \in DOMAIN targets : IsFiniteSet(DOMAIN targets[p])
  PROVE  IsFiniteSet(HeldByPods(targets))
<1> DEFINE d == [p \in DOMAIN targets |-> DOMAIN targets[p]]
           D == {d[p] : p \in DOMAIN targets}
<1>1. IsFiniteSet(D)
  <2> HIDE DEF d
  <2> QED
    BY FiniteImage
<1>2. \A x \in D : IsFiniteSet(x)
  OBVIOUS
<1>3. IsFiniteSet(UNION D)
  <2> HIDE DEF D
  <2> QED
    BY <1>1, <1>2, FS_UNION
<1>4. UNION D = HeldByPods(targets)
  BY DEF HeldByPods
<1> QED
  BY <1>3, <1>4

LEMMA TriangleInequality ==
  ASSUME NEW f, NEW S, IsFiniteSet(S), f = [s \in S |-> f[s]], \A s \in S : f[s] \in Int
  PROVE  /\ SumFunction(f) \in Int
         /\ Abs(SumFunction(f)) <= SumFunctionOnSet([s \in S |-> Abs(f[s])], S)
<1>1. DOMAIN f = S
  OBVIOUS
<1>2. WeightMap(f)
  BY <1>1 DEF WeightMap
<1>3. SignedNet(f) = SumFunction(f)
  BY DEF SignedNet
<1>4. Gross(f) = SumFunctionOnSet([s \in S |-> Abs(f[s])], S)
  BY <1>1, ExposuresAreSums DEF Sizes
<1> QED
  BY <1>2, <1>3, <1>4, AbsSignedNet, ExposureTypes

(* The fund's target is a dict over the pods' tickers, and its gross is at *)
(* most what the pods hold of their allocations.                           *)
LEMMA NettedHolds ==
  ASSUME NEW targets, IsFiniteSet(DOMAIN targets), NEW a,
         \A p \in DOMAIN targets : WeightMap(targets[p]) /\ a[p] \in Nat
  PROVE  /\ WeightMap(Netted(targets, a))
         /\ DOMAIN Netted(targets, a) \subseteq HeldByPods(targets)
         /\ Gross(Netted(targets, a))
              <= SumFunctionOnSet([p \in DOMAIN targets |-> a[p] * Gross(targets[p])],
                                  DOMAIN targets)
<1> DEFINE P == DOMAIN targets
           T == HeldByPods(targets)
           w == Unnetted(targets, a)
           m == [t \in T |-> [p \in P |-> Abs(Weight(targets[p], t) * a[p])]]
           row(t) == SumFunctionOnSet([p \in P |-> m[t][p]], P)
           column(p) == SumFunctionOnSet([t \in T |-> m[t][p]], T)
<1>1. IsFiniteSet(T)
  BY FiniteTickers DEF WeightMap
<1>2. \A p \in P, t \in T : Weight(targets[p], t) \in Int
  BY DEF Weight, WeightMap
<1>3. \A t \in T : \A p \in P : /\ Weight(targets[p], t) * a[p] \in Int
                                /\ m[t][p] = Abs(Weight(targets[p], t) * a[p])
                                /\ m[t][p] = a[p] * Abs(Weight(targets[p], t))
                                /\ m[t][p] \in Int
  <2> SUFFICES ASSUME NEW t \in T, NEW p \in P
               PROVE  /\ Weight(targets[p], t) * a[p] \in Int
                      /\ Abs(Weight(targets[p], t) * a[p]) = a[p] * Abs(Weight(targets[p], t))
                      /\ Abs(Weight(targets[p], t) * a[p]) \in Int
    OBVIOUS
  <2> DEFINE x == Weight(targets[p], t)
             y == a[p]
  <2>1. x \in Int /\ y \in Nat
    BY <1>2
  <2> HIDE DEF x, y
  <2>2. x * y \in Int /\ (x >= 0 => x * y >= 0) /\ (x < 0 => x * y <= 0)
    BY <2>1
  <2>3. Abs(x * y) = y * Abs(x)
    <3>1. CASE x >= 0
      BY <2>1, <2>2, <3>1 DEF Abs
    <3>2. CASE x < 0
      <4>1. Abs(x) = -x
        BY <3>2 DEF Abs
      <4>2. Abs(x * y) = -(x * y)
        BY <2>2, <3>2 DEF Abs
      <4>3. y * (-x) = -(x * y)
        BY <2>1
      <4> QED
        BY <4>1, <4>2, <4>3
    <3> QED
      BY <2>1, <3>1, <3>2
  <2>4. Abs(x * y) \in Int
    BY <2>2 DEF Abs
  <2> QED
    BY <2>2, <2>3, <2>4 DEF x, y
<1>4. \A t \in T : /\ w[t] \in Int
                   /\ Abs(w[t]) \in Int /\ row(t) \in Int
                   /\ Abs(w[t]) <= row(t)
  <2> SUFFICES ASSUME NEW t \in T
               PROVE  w[t] \in Int /\ Abs(w[t]) \in Int /\ row(t) \in Int /\ Abs(w[t]) <= row(t)
    OBVIOUS
  <2> DEFINE f == Share(targets, a, t)
             g == [p \in P |-> Abs(f[p])]
  <2>1. w[t] = SumFunction(f)
    BY DEF Unnetted
  <2>2. f = [p \in P |-> f[p]] /\ \A p \in P : f[p] \in Int
    BY <1>3 DEF Share
  <2>3. g = [p \in P |-> m[t][p]]
    BY <1>3 DEF Share
  <2>4. \A p \in P : g[p] \in Int
    BY <2>2 DEF Abs
  <2> HIDE DEF f, w, m, g
  <2>5. SumFunction(f) \in Int /\ Abs(SumFunction(f)) <= SumFunctionOnSet(g, P)
    BY <2>2, TriangleInequality DEF g
  <2>6. SumFunctionOnSet(g, P) \in Int
    BY <2>4, SumWithout
  <2>7. SumFunctionOnSet(g, P) = row(t)
    BY <2>3
  <2>8. \A x \in Int : Abs(x) \in Int
    BY DEF Abs
  <2> QED
    BY <2>1, <2>5, <2>6, <2>7, <2>8
<1>5. WeightMap(w) /\ DOMAIN w = T
  BY <1>1, <1>4 DEF Unnetted, WeightMap
<1>6. Netted(targets, a) = DropZeros(w)
  BY DEF Netted, Unnetted, Share, HeldByPods
<1>7. /\ WeightMap(Netted(targets, a)) /\ DOMAIN Netted(targets, a) \subseteq T
      /\ Gross(Netted(targets, a)) = Gross(w)
  BY <1>5, <1>6, DropZerosKeeps
<1>8. \A p \in P : /\ column(p) \in Int /\ a[p] * Gross(targets[p]) \in Int
                   /\ column(p) = a[p] * Gross(targets[p])
  <2> SUFFICES ASSUME NEW p \in P
               PROVE  /\ column(p) \in Int /\ a[p] * Gross(targets[p]) \in Int
                      /\ column(p) = a[p] * Gross(targets[p])
    OBVIOUS
  <2> DEFINE v == targets[p]
             c == [t \in T |-> m[t][p]]
             z == [t \in T |-> Abs(Weight(v, t))]
             D == DOMAIN v
  <2>1. WeightMap(v) /\ D \in SUBSET T /\ IsFiniteSet(D)
    BY DEF HeldByPods, WeightMap
  <2>2. \A t \in T : z[t] \in Int /\ c[t] = a[p] * z[t]
    <3>1. \A x \in Int : Abs(x) \in Int
      BY DEF Abs
    <3> QED
      BY <1>2, <1>3, <3>1
  <2>3. \A t \in T \ D : z[t] = 0
    BY DEF Weight, Abs
  <2>4. \A t \in D : z[t] \in Int /\ z[t] = Sizes(v)[t]
    BY <2>1, <2>2 DEF Sizes, Weight
  <2>5. Gross(v) = SumFunctionOnSet(Sizes(v), D)
    BY ExposuresAreSums
  <2>6. a[p] \in Int /\ Gross(v) \in Int
    BY <2>1, ExposureTypes
  <2> HIDE DEF v, c, z, D, m
  <2>7. SumFunctionOnSet(z, D) = SumFunctionOnSet(z, T)
    BY <1>1, <2>1, <2>2, <2>3, SumOfPart
  <2>8. SumFunctionOnSet(z, D) = SumFunctionOnSet(Sizes(v), D)
    BY <2>1, <2>4, SumOfEquals
  <2>9. SumFunctionOnSet(c, T) = a[p] * SumFunctionOnSet(z, T)
    BY <1>1, <2>2, <2>6, SumTimes
  <2>10. SumFunctionOnSet(c, T) = a[p] * Gross(v)
    BY <2>5, <2>7, <2>8, <2>9, Zenon
  <2>11. a[p] * Gross(v) \in Int
    BY <2>6
  <2> QED
    BY <2>10, <2>11 DEF c, v
<1>9. Gross(w) <= SumFunctionOnSet([t \in T |-> row(t)], T)
  <2>1. Gross(w) = SumFunctionOnSet(Sizes(w), T)
    BY <1>5, ExposuresAreSums
  <2> DEFINE r == [t \in T |-> row(t)]
  <2>2. \A t \in T : Sizes(w)[t] \in Int /\ r[t] \in Int /\ Sizes(w)[t] <= r[t]
    BY <1>4, <1>5 DEF Sizes
  <2> HIDE DEF r, w
  <2>3. SumFunctionOnSet(Sizes(w), T) <= SumFunctionOnSet(r, T)
    BY <1>1, <2>2, SumDominated
  <2> QED
    BY <2>1, <2>3 DEF r
<1>10. SumFunctionOnSet([t \in T |-> row(t)], T) = SumFunctionOnSet([p \in P |-> column(p)], P)
  <2>1. IsFiniteSet(P) /\ \A t \in T : \A p \in P : m[t][p] \in Int
    BY <1>3
  <2>2. RowSums(m, T, P) = [t \in T |-> row(t)]
    BY DEF RowSums
  <2>3. ColumnSums(m, T, P) = [p \in P |-> column(p)]
    BY DEF ColumnSums
  <2> HIDE DEF m, T, P
  <2>4. SumFunctionOnSet(RowSums(m, T, P), T) = SumFunctionOnSet(ColumnSums(m, T, P), P)
    BY <1>1, <2>1, SumExchange
  <2> HIDE DEF row, column
  <2> QED
    BY <2>2, <2>3, <2>4, Zenon
<1>11. [p \in P |-> column(p)] = [p \in P |-> a[p] * Gross(targets[p])]
  BY <1>8
<1> QED
  BY <1>7, <1>9, <1>10, <1>11

-----------------------------------------------------------------------------
(* The inductive invariant.  The book is a dict of weights; the review is  *)
(* a proposal, a book and what the gate decides on them; a built master    *)
(* portfolio is what accepted inputs and the pods' models make of it.      *)
BookOK == WeightMap(book) /\ DOMAIN book \subseteq Tickers

ReviewOK ==
  /\ WeightMap(review.target) /\ DOMAIN review.target \subseteq Tickers
  /\ WeightMap(review.current) /\ DOMAIN review.current \subseteq Tickers
  /\ \A s \in DOMAIN review.allocations : review.allocations[s] \in Int
  /\ review.decision = Evaluate(review.target, review.current, policy, review.sectors,
                                review.allocations)

MasterOK ==
  Built =>
    /\ fund \in DOMAIN Mandates
    /\ master.dossier \in DOMAIN Dossiers /\ master.case \in Cases
    /\ InputsAccepted(mandate, Given, master.case)
    /\ DOMAIN master.pods = DOMAIN mandate.pods
    /\ \A p \in DOMAIN mandate.pods :
         master.pods[p] \in PodTargets(mandate.pods[p], ForTickers(Given, master.case))
    /\ MasterAccepted(mandate, master.pods, Given.vol)
    /\ master.allocators = Allocators(mandate, master.pods, Given.vol)
    /\ master.target = Netted(master.pods, master.allocators)

FundInv ==
  /\ policy \in Policies
  /\ fund = Single \/ fund \in DOMAIN Mandates
  /\ BookOK
  /\ ReviewOK
  /\ MasterOK

LEMMA PolicyIsSound == \A p \in Policies : PolicySound(p)
BY PoliciesAssumption DEF Coherent

(* What an unfinished master portfolio rests on.                           *)
LEMMA MandateParts ==
  ASSUME FundInv, Built
  PROVE  /\ mandate.allocator \in {"static", "inverse_volatility"}
         /\ IsFiniteSet(DOMAIN mandate.pods)
         /\ \A p \in DOMAIN mandate.pods : PodSound(mandate.pods[p])
         /\ DOMAIN master.pods = DOMAIN mandate.pods
<1>1. fund \in DOMAIN Mandates /\ DOMAIN master.pods = DOMAIN mandate.pods
  BY DEF FundInv, MasterOK
<1>2. MandateCoherent(mandate)
  BY <1>1, MandatesAssumption DEF mandate
<1> QED
  BY <1>1, <1>2 DEF MandateCoherent, PodSound

LEMMA PodsHold ==
  ASSUME FundInv, Built, NEW p \in DOMAIN master.pods
  PROVE  LET forecasts == ForTickers(Given, master.case)
             pod       == mandate.pods[p]
         IN  /\ WeightMap(master.pods[p])
             /\ DOMAIN master.pods[p] = Blended(pod, forecasts)
             /\ Gross(master.pods[p]) <= GrossLimit(pod)
             /\ LargestPosition(master.pods[p]) <= pod.maxPosition
             /\ DOMAIN master.pods[p] \subseteq Tickers
<1> DEFINE forecasts == ForTickers(Given, master.case)
           pod       == mandate.pods[p]
           B         == Blended(pod, forecasts)
<1>1. PodSound(pod) /\ p \in DOMAIN mandate.pods
  BY MandateParts
<1>2. master.pods[p] \in PodTargets(pod, forecasts) /\ master.case \in Cases
  BY <1>1 DEF FundInv, MasterOK
<1>3. B \subseteq master.case
  BY DEF Blended, Opinions, PodForecasts, ForTickers
<1>4. B \subseteq Tickers /\ IsFiniteSet(B)
  <2>1. B \subseteq Tickers
    BY <1>2, <1>3, UniverseAssumption
  <2> HIDE DEF B
  <2> QED
    BY <2>1, UniverseAssumption, FS_Subset
<1> HIDE DEF forecasts, pod
<1>5. /\ WeightMap(master.pods[p]) /\ DOMAIN master.pods[p] = B
      /\ Gross(master.pods[p]) <= GrossLimit(pod)
      /\ LargestPosition(master.pods[p]) <= pod.maxPosition
  BY <1>1, <1>2, <1>4, PodTargetHolds
<1> QED
  BY <1>4, <1>5 DEF forecasts, pod

LEMMA MasterHolds ==
  ASSUME FundInv, Built
  PROVE  /\ WeightMap(master.target) /\ DOMAIN master.target \subseteq Tickers
         /\ \A t \in DOMAIN master.target : \E p \in DOMAIN master.pods :
              t \in DOMAIN master.pods[p]
         /\ DOMAIN master.allocators = DOMAIN master.pods
         /\ \A p \in DOMAIN master.pods :
              master.allocators[p] \in 0..mandate.pods[p].capital
         /\ Gross(master.target)
              <= SumFunctionOnSet([p \in DOMAIN master.pods |->
                                    master.allocators[p] * Gross(master.pods[p])],
                                  DOMAIN master.pods)
<1> DEFINE pods == master.pods
           a    == master.allocators
           vol  == Given.vol
<1>1. /\ MasterAccepted(mandate, pods, vol)
      /\ a = Allocators(mandate, pods, vol)
      /\ master.target = Netted(pods, a)
      /\ master.dossier \in DOMAIN Dossiers
  BY DEF FundInv, MasterOK
<1>2. \A p \in DOMAIN pods : /\ WeightMap(pods[p]) /\ DOMAIN pods[p] \subseteq Tickers
                             /\ Gross(pods[p]) <= GrossLimit(mandate.pods[p])
  BY PodsHold
<1>3. \A t \in Tickers : vol[t] \in Nat
  BY <1>1, DossiersAssumption DEF Given
<1>4. PodsBuilt(mandate, pods, vol)
  BY <1>2, <1>3, MandateParts DEF PodsBuilt
<1>5. ~AllocatorRefuses(mandate, pods, vol)
  BY <1>1 DEF MasterAccepted
<1>6. DOMAIN a = DOMAIN pods
  BY <1>1 DEF Allocators
<1> HIDE DEF pods, a, vol
<1>7. \A p \in DOMAIN pods : a[p] \in 0..mandate.pods[p].capital
  BY <1>1, <1>4, <1>5, AllocatorsHold
<1>8. \A p \in DOMAIN pods : WeightMap(pods[p]) /\ a[p] \in Nat
  BY <1>2, <1>4, <1>7 DEF PodsBuilt, PodSound
<1>9. IsFiniteSet(DOMAIN pods)
  BY <1>4 DEF PodsBuilt
<1>10. /\ WeightMap(Netted(pods, a))
       /\ DOMAIN Netted(pods, a) \subseteq HeldByPods(pods)
       /\ Gross(Netted(pods, a))
            <= SumFunctionOnSet([p \in DOMAIN pods |-> a[p] * Gross(pods[p])], DOMAIN pods)
  BY <1>8, <1>9, NettedHolds
<1> QED
  BY <1>1, <1>2, <1>6, <1>7, <1>10 DEF pods, a, HeldByPods

-----------------------------------------------------------------------------
(* The inductive invariant holds.                                          *)
LEMMA FundInit == InitFund => FundInv
<1> SUFFICES ASSUME InitFund PROVE FundInv
  OBVIOUS
<1>1. policy \in Policies /\ book = NoBook /\ review = NoReview /\ master = NoMaster
      /\ (fund = Single \/ fund \in DOMAIN Mandates)
  BY DEF InitFund, Init
<1>2. NoBook = [t \in {} |-> 0] /\ WeightMap(NoBook) /\ DOMAIN NoBook = {}
  BY EmptyBook DEF NoBook
<1>3. Evaluate(NoBook, NoBook, policy, NoBook, NoBook)
        = [approved |-> TRUE, weights |-> NoBook, violations |-> {}]
  BY <1>1, <1>2, PolicyIsSound, EvaluateNothing
<1>4. ReviewOK
  BY <1>1, <1>2, <1>3 DEF ReviewOK, NoReview
<1> QED
  BY <1>1, <1>2, <1>4 DEF FundInv, BookOK, MasterOK, Built, NoMaster

(* What the gate decides on a book of the universe.                        *)
LEMMA DecideHolds ==
  ASSUME FundInv, NEW target, WeightMap(target), DOMAIN target \subseteq Tickers,
         NEW allocations, \A s \in DOMAIN allocations : allocations[s] \in Int,
         NEW case, Decide(target, allocations, case)
  PROVE  ReviewOK' /\ policy' = policy /\ book' = book
BY DEF FundInv, BookOK, Decide, ReviewOK

LEMMA FundStep == FundInv /\ [NextFund]_fundVars => FundInv'
<1> SUFFICES ASSUME FundInv, [NextFund]_fundVars PROVE FundInv'
  OBVIOUS
<1>0. /\ policy \in Policies /\ (fund = Single \/ fund \in DOMAIN Mandates)
      /\ BookOK /\ ReviewOK /\ MasterOK
  BY DEF FundInv
<1>1. CASE TradeFund
  <2>1. /\ policy' = policy /\ fund' = fund /\ master' = NoMaster /\ review' = NoReview
        /\ book' \in {review.decision.weights, book}
    BY <1>1 DEF TradeFund, Trade
  <2> DEFINE w == review.decision.weights
  <2>2. WeightMap(w) /\ DOMAIN w \subseteq Tickers
    <3>1. PolicySound(policy)
      BY <1>0, PolicyIsSound
    <3>2. WeightMap(w) /\ DOMAIN w \subseteq DOMAIN review.target \union DOMAIN review.current
      BY <1>0, <3>1, EvaluateIsABook DEF ReviewOK
    <3> QED
      BY <1>0, <3>2 DEF ReviewOK
  <2> HIDE DEF w
  <2>3. BookOK'
    BY <1>0, <2>1, <2>2 DEF BookOK, w
  <2>4. ReviewOK'
    <3>1. NoBook = [t \in {} |-> 0] /\ WeightMap(NoBook) /\ DOMAIN NoBook = {}
      BY EmptyBook DEF NoBook
    <3>2. Evaluate(NoBook, NoBook, policy, NoBook, NoBook)
            = [approved |-> TRUE, weights |-> NoBook, violations |-> {}]
      BY <1>0, <3>1, PolicyIsSound, EvaluateNothing
    <3> QED
      BY <2>1, <3>1, <3>2 DEF ReviewOK, NoReview
  <2>5. MasterOK'
    BY <2>1 DEF MasterOK, Built, NoMaster
  <2> QED
    BY <1>0, <2>1, <2>3, <2>4, <2>5 DEF FundInv
<1>2. CASE DriftFund
  <2>1. /\ policy' = policy /\ fund' = fund /\ master' = master /\ review' = review
    BY <1>2 DEF DriftFund, Drift
  <2>2. book' \in [DOMAIN book -> DriftLevels[policy]]
    BY <1>2 DEF DriftFund, Drift
  <2>3. DriftLevels[policy] \subseteq Int
    BY <1>0, PoliciesAssumption
  <2>4. BookOK'
    BY <1>0, <2>2, <2>3 DEF BookOK, WeightMap
  <2>5. ReviewOK' /\ MasterOK'
    BY <1>0, <2>1 DEF ReviewOK, MasterOK, Built, Given, mandate
  <2> QED
    BY <1>0, <2>1, <2>4, <2>5 DEF FundInv
<1>3. CASE GateMaster
  <2>1. /\ Built /\ fund' = fund /\ master' = master
        /\ Decide(master.target, master.allocators, master.case)
    BY <1>3 DEF GateMaster, Built
  <2>2. WeightMap(master.target) /\ DOMAIN master.target \subseteq Tickers
    BY <2>1, MasterHolds
  <2>3. \A s \in DOMAIN master.allocators : master.allocators[s] \in Int
    <3>1. /\ DOMAIN master.allocators = DOMAIN master.pods
          /\ \A s \in DOMAIN master.pods : master.allocators[s] \in 0..mandate.pods[s].capital
      BY <2>1, MasterHolds
    <3>2. \A s \in DOMAIN master.pods : mandate.pods[s].capital \in Nat
      BY <2>1, MandateParts DEF PodSound
    <3> QED
      BY <3>1, <3>2
  <2>4. ReviewOK' /\ policy' = policy /\ book' = book
    BY <2>1, <2>2, <2>3, DecideHolds
  <2>5. BookOK' /\ MasterOK'
    BY <1>0, <2>1, <2>4 DEF BookOK, MasterOK, Built, Given, mandate
  <2> QED
    BY <1>0, <2>1, <2>4, <2>5 DEF FundInv
<1>4. CASE NextCase
  <2>1. /\ policy' = policy /\ fund' = fund /\ master' = NoMaster /\ review' = review
        /\ book' = book
    BY <1>4 DEF NextCase
  <2> QED
    BY <1>0, <2>1 DEF FundInv, BookOK, ReviewOK, MasterOK, Built, NoMaster
<1>5. ASSUME NEW target \in MapsTo(TargetLevels[policy]), Propose(target)
      PROVE  FundInv'
  <2>1. PICK case \in Cases, allocations \in Allocations : Decide(target, allocations, case)
    BY <1>5 DEF Propose, Review
  <2>2. fund' = fund /\ master' = master
    BY <1>5 DEF Propose
  <2>3. WeightMap(target) /\ DOMAIN target \subseteq Tickers
    <3>1. PICK held \in SUBSET Tickers : target \in [held -> TargetLevels[policy]]
      BY DEF MapsTo
    <3>2. IsFiniteSet(held)
      BY <3>1, UniverseAssumption, FS_Subset
    <3>3. TargetLevels[policy] \subseteq Int
      BY <1>0, PoliciesAssumption
    <3> QED
      BY <3>1, <3>2, <3>3 DEF WeightMap
  <2>4. \A s \in DOMAIN allocations : allocations[s] \in Int
    BY UniverseAssumption
  <2>5. ReviewOK' /\ policy' = policy /\ book' = book
    BY <2>1, <2>3, <2>4, DecideHolds
  <2>6. BookOK' /\ MasterOK'
    BY <1>0, <2>2, <2>5 DEF BookOK, MasterOK, Built, Given, mandate
  <2> QED
    BY <1>0, <2>2, <2>5, <2>6 DEF FundInv
<1>6. ASSUME NEW name \in DOMAIN Dossiers, NEW case \in Cases, BuildMaster(name, case)
      PROVE  FundInv'
  <2>1. /\ policy' = policy /\ fund' = fund /\ review' = review /\ book' = book
        /\ fund \in DOMAIN Mandates
    BY <1>0, <1>6 DEF BuildMaster
  <2> DEFINE dossier == Dossiers[name]
             pods == DOMAIN mandate.pods
             forecasts == ForTickers(dossier, case)
  <2>2. PICK targets \in [pods -> UNION {PodTargets(mandate.pods[p], forecasts) : p \in pods}] :
          /\ \A p \in pods : targets[p] \in PodTargets(mandate.pods[p], forecasts)
          /\ MasterAccepted(mandate, targets, dossier.vol)
          /\ master' = [status |-> "built", dossier |-> name, case |-> case, pods |-> targets,
                        allocators |-> Allocators(mandate, targets, dossier.vol),
                        target |-> Netted(targets, Allocators(mandate, targets, dossier.vol))]
    BY <1>6 DEF BuildMaster
  <2>3. InputsAccepted(mandate, dossier, case)
    BY <1>6 DEF BuildMaster
  <2>4. mandate' = mandate /\ Given' = dossier
    BY <2>1, <2>2 DEF mandate, Given
  <2>5. /\ master'.dossier = name /\ master'.case = case /\ master'.pods = targets
        /\ DOMAIN targets = pods
        /\ master'.allocators = Allocators(mandate, targets, dossier.vol)
        /\ master'.target = Netted(targets, Allocators(mandate, targets, dossier.vol))
    BY <2>2
  <2> HIDE DEF dossier, forecasts, pods
  <2>6. MasterOK'
    BY <2>1, <2>2, <2>3, <2>4, <2>5 DEF MasterOK, pods, forecasts
  <2> QED
    BY <1>0, <2>1, <2>6 DEF FundInv, BookOK, ReviewOK
<1>7. ASSUME NEW name \in DOMAIN Dossiers, NEW case \in Cases, CycleRefused(name, case)
      PROVE  FundInv'
  <2>1. /\ policy' = policy /\ fund' = fund /\ review' = review /\ book' = book
        /\ master' = [status |-> "refused"]
    BY <1>7 DEF CycleRefused
  <2> QED
    BY <1>0, <2>1 DEF FundInv, BookOK, ReviewOK, MasterOK, Built
<1>8. CASE UNCHANGED fundVars
  BY <1>0, <1>8 DEF FundInv, BookOK, ReviewOK, MasterOK, Built, Given, mandate, fundVars
<1> QED
  BY <1>1, <1>2, <1>3, <1>4, <1>5, <1>6, <1>7, <1>8 DEF NextFund

(* What is proposed, held, built and decided is of this form throughout.   *)
THEOREM FundInvariance == SpecFund => []FundInv
BY FundInit, FundStep, PTL DEF SpecFund

-----------------------------------------------------------------------------
(* The gate.  A position asked to shrink shrinks as asked, in every cycle  *)
(* of every fund, whatever the turnover limit (checks.py, "may delay new   *)
(* risk, but may not undo an explicit reduction").                         *)
THEOREM ReductionsAreHonoured == SpecFund => []DeRiskHonoured
<1>1. FundInv => DeRiskHonoured
  <2> SUFFICES ASSUME FundInv, NEW t \in DOMAIN review.current,
                      Abs(Weight(review.target, t)) < Abs(review.current[t])
               PROVE  Abs(Weight(decision.weights, t)) <= Abs(Weight(review.target, t))
    BY DEF DeRiskHonoured
  <2>1. PolicySound(policy) /\ ReviewOK
    BY PolicyIsSound DEF FundInv
  <2> QED
    BY <2>1, EvaluateReduces DEF ReviewOK, decision
<1> QED
  BY <1>1, FundInvariance, PTL

(* No new risk rides on that override: what the positions that grow trade  *)
(* together, in any cycle of any fund, is within the turnover limit.       *)
THEOREM NewRiskIsDelayed == SpecFund => []NewRiskDelayed
<1>1. FundInv => NewRiskDelayed
  <2> DEFINE w == decision.weights
             T == DOMAIN review.target \union DOMAIN review.current
             grown == {t \in DOMAIN w : Abs(w[t]) > Abs(Weight(review.current, t))}
             f == [t \in grown |-> Abs(w[t] - Weight(review.current, t))]
             g == Growth(w, review.current, T)
  <2> SUFFICES ASSUME FundInv PROVE SumFunction(f) <= 2 * policy.maxTurnover
    BY DEF NewRiskDelayed
  <2>1. PolicySound(policy) /\ ReviewOK
    BY PolicyIsSound DEF FundInv
  <2>2. /\ WeightMap(review.target) /\ WeightMap(review.current) /\ IsFiniteSet(T)
    BY <2>1, FS_Union DEF ReviewOK, WeightMap
  <2>3. /\ WeightMap(w) /\ DOMAIN w \subseteq T
        /\ SumFunctionOnSet(g, T) <= 2 * policy.maxTurnover
    BY <2>1, <2>2, EvaluateLimitsGrowth DEF ReviewOK, decision
  <2> HIDE DEF w
  <2>4. /\ \A t \in T : g[t] \in Int
        /\ \A t \in T \ grown : g[t] = 0
        /\ \A t \in grown : f[t] \in Int /\ g[t] \in Int /\ f[t] = g[t]
    BY <2>2, <2>3 DEF Growth, Weight, WeightMap, Abs
  <2>5. grown \in SUBSET T /\ IsFiniteSet(grown)
    BY <2>2, <2>3, FS_Subset
  <2>6. SumFunction(f) = SumFunctionOnSet(f, grown)
    BY SumOfFunction
  <2> HIDE DEF T, grown, f, g
  <2>7. SumFunctionOnSet(f, grown) = SumFunctionOnSet(g, grown)
    BY <2>4, <2>5, SumOfEquals
  <2>8. SumFunctionOnSet(g, grown) = SumFunctionOnSet(g, T)
    BY <2>2, <2>4, <2>5, SumOfPart
  <2> QED
    BY <2>3, <2>6, <2>7, <2>8
<1> QED
  BY <1>1, FundInvariance, PTL

(* An approved book, proposed again, is approved unchanged: a fund at its  *)
(* target does not churn.                                                  *)
THEOREM ApprovedBooksAreStable == SpecFund => []ApprovedIsStable
<1>1. FundInv => ApprovedIsStable
  <2> SUFFICES ASSUME FundInv, decision.approved PROVE ApprovedIsStable
    BY DEF ApprovedIsStable
  <2>1. PolicySound(policy) /\ ReviewOK
    BY PolicyIsSound DEF FundInv
  <2> DEFINE again == Evaluate(decision.weights, decision.weights, policy,
                               review.sectors, review.allocations)
  <2>2. again.approved /\ again.weights = decision.weights
    BY <2>1, EvaluateStable DEF ReviewOK, decision
  <2> QED
    BY <2>2 DEF ApprovedIsStable
<1> QED
  BY <1>1, FundInvariance, PTL

(* The clamps suffice: a classified proposal to a classified book, within  *)
(* the strategies' shares, is never refused.  Where shorts make the net    *)
(* less than the gross, an integer weight truncated toward zero can leave  *)
(* the net above its limit; no other rule can refuse even then.            *)
LEMMA ReviewIsClamped ==
  ASSUME FundInv, StrategiesAllowed,
         DOMAIN review.target \union DOMAIN review.current \subseteq DOMAIN review.sectors
  PROVE  /\ decision.violations \subseteq {"net"}
         /\ NetIsCapped(policy) => decision.approved
<1>1. PolicySound(policy) /\ ReviewOK
  BY PolicyIsSound DEF FundInv
<1>2. \A s \in DOMAIN review.allocations : ~(review.allocations[s] > policy.maxStrategy)
  BY <1>1 DEF ReviewOK, StrategiesAllowed, PolicySound
<1> QED
  BY <1>1, <1>2, EvaluateClamps DEF ReviewOK, decision

THEOREM ClampsAreSufficient ==
  SpecFund => [](NetIsCapped(policy) => ClampsSuffice)
<1>1. FundInv => (NetIsCapped(policy) => ClampsSuffice)
  BY ReviewIsClamped DEF ClampsSuffice
<1> QED
  BY <1>1, FundInvariance, PTL

THEOREM OnlyTheNetIsRefused ==
  SpecFund => [](/\ DOMAIN review.target \union DOMAIN review.current \subseteq DOMAIN review.sectors
                 /\ StrategiesAllowed
                 => decision.violations \subseteq {"net"})
<1>1. FundInv => (/\ DOMAIN review.target \union DOMAIN review.current \subseteq DOMAIN review.sectors
                  /\ StrategiesAllowed
                  => decision.violations \subseteq {"net"})
  BY ReviewIsClamped
<1> QED
  BY <1>1, FundInvariance, PTL

(* The refusal OnlyTheNetIsRefused leaves is one of rounding: whatever the *)
(* policy allows, the net misses its limit by at most a unit for each      *)
(* weight, where the common factor was truncated (checks.py, "net").       *)
NetStaysClose ==
  Abs(SignedNet(decision.weights))
    <= policy.maxNet + Cardinality(DOMAIN review.target \union DOMAIN review.current)

THEOREM NetIsNearItsLimit == SpecFund => []NetStaysClose
<1>1. FundInv => NetStaysClose
  <2> SUFFICES ASSUME FundInv PROVE NetStaysClose
    OBVIOUS
  <2>1. PolicySound(policy) /\ ReviewOK
    BY PolicyIsSound DEF FundInv
  <2> QED
    BY <2>1, EvaluateNearNet DEF ReviewOK, decision, NetStaysClose
<1> QED
  BY <1>1, FundInvariance, PTL

(* "Such reductions override turnover" (checks.py) does hold of a book all *)
(* of whose tickers are in the case: what run risk_reduction finds takes   *)
(* a position that the sectors of the cycle do not know.                   *)
THEOREM ClassifiedReductionsExecute ==
  SpecFund => [](/\ NetIsCapped(policy)
                 /\ DOMAIN review.current \subseteq DOMAIN review.sectors
                 => PureReductionExecutes)
<1>1. FundInv => (/\ NetIsCapped(policy)
                  /\ DOMAIN review.current \subseteq DOMAIN review.sectors
                  => PureReductionExecutes)
  <2> SUFFICES ASSUME FundInv, NetIsCapped(policy), StrategiesAllowed,
                      DOMAIN review.current \subseteq DOMAIN review.sectors,
                      DOMAIN review.target \subseteq DOMAIN review.current
               PROVE  decision.approved
    BY DEF PureReductionExecutes
  <2>1. DOMAIN review.target \union DOMAIN review.current \subseteq DOMAIN review.sectors
    OBVIOUS
  <2> QED
    BY <2>1, ReviewIsClamped
<1> QED
  BY <1>1, FundInvariance, PTL

-----------------------------------------------------------------------------
(* The strategy engine.  Whatever its model proposed, hedged or not, a pod *)
(* is within its gross and position budgets.                               *)
THEOREM PodBudgetsAreKept == SpecFund => []PodBudgetsHold
<1>1. FundInv => PodBudgetsHold
  BY PodsHold DEF PodBudgetsHold
<1> QED
  BY <1>1, FundInvariance, PTL

(* Capital a pod does not use stays cash: an allocator never exceeds the   *)
(* declared capital, and the fund's gross is at most what the active pods  *)
(* may use of theirs.                                                      *)
THEOREM BudgetsStayInCash == SpecFund => []BudgetsStayCash
<1>1. FundInv => BudgetsStayCash
  <2> SUFFICES ASSUME FundInv, Built PROVE BudgetsStayCash
    BY DEF BudgetsStayCash
  <2> DEFINE P == DOMAIN master.pods
             A == Active(master.pods)
             a == master.allocators
             G(p) == Gross(master.pods[p])
             limit(p) == GrossLimit(mandate.pods[p])
             capital(p) == mandate.pods[p].capital
             used == [p \in P |-> a[p] * G(p)]
             budget == [p \in A |-> capital(p) * limit(p)]
  <2>1. /\ \A p \in P : a[p] \in 0..capital(p)
        /\ Gross(master.target) <= SumFunctionOnSet(used, P)
        /\ Gross(master.target) \in Nat
    BY MasterHolds, ExposureTypes
  <2>2. \A p \in P : /\ capital(p) \in Nat /\ limit(p) \in Nat
                     /\ WeightMap(master.pods[p]) /\ G(p) \in Nat /\ G(p) <= limit(p)
    <3> SUFFICES ASSUME NEW p \in P
                 PROVE  /\ capital(p) \in Nat /\ limit(p) \in Nat
                        /\ WeightMap(master.pods[p]) /\ G(p) \in Nat /\ G(p) <= limit(p)
      OBVIOUS
    <3>1. PodSound(mandate.pods[p])
      BY MandateParts
    <3>2. WeightMap(master.pods[p]) /\ G(p) <= limit(p)
      BY PodsHold
    <3>3. capital(p) \in Nat /\ limit(p) \in Nat
      BY <3>1 DEF PodSound, GrossLimit, AtMost
    <3> QED
      BY <3>2, <3>3, ExposureTypes
  <2>3. IsFiniteSet(P) /\ A \in SUBSET P /\ IsFiniteSet(A)
    BY MandateParts, FS_Subset DEF Active
  <2>4. \A p \in P \ A : G(p) = 0
    <3> SUFFICES ASSUME NEW p \in P \ A PROVE G(p) = 0
      OBVIOUS
    <3>1. DOMAIN master.pods[p] = {} /\ WeightMap(master.pods[p])
      BY <2>2 DEF Active
    <3>2. master.pods[p] = [t \in {} |-> 0]
      BY <3>1 DEF WeightMap
    <3> QED
      BY <3>2, EmptyBook
  <2>5. SumFunction(budget) = SumFunctionOnSet(budget, A)
    <3>1. DOMAIN budget = A
      OBVIOUS
    <3> HIDE DEF budget
    <3> QED
      BY <3>1, SumOfFunction
  <2> HIDE DEF P, A, a, G, limit, capital
  <2>6. \A p \in P : used[p] \in Int
    BY <2>1, <2>2
  <2>7. \A p \in P \ A : used[p] = 0
    BY <2>1, <2>2, <2>4
  <2>8. \A p \in A : budget[p] \in Int /\ used[p] <= budget[p]
    <3> SUFFICES ASSUME NEW p \in A PROVE budget[p] \in Int /\ used[p] <= budget[p]
      OBVIOUS
    <3>1. /\ a[p] \in Nat /\ capital(p) \in Nat /\ a[p] <= capital(p)
          /\ G(p) \in Nat /\ limit(p) \in Nat /\ G(p) <= limit(p)
      BY <2>1, <2>2, <2>3
    <3>2. a[p] * G(p) <= a[p] * limit(p) /\ a[p] * limit(p) <= capital(p) * limit(p)
      BY <3>1, TimesMonotone
    <3>3. a[p] * G(p) \in Int /\ a[p] * limit(p) \in Int /\ capital(p) * limit(p) \in Int
      BY <3>1
    <3> QED
      BY <2>3, <3>2, <3>3
  <2> HIDE DEF used, budget
  <2>9. SumFunctionOnSet(used, A) = SumFunctionOnSet(used, P)
    BY <2>3, <2>6, <2>7, SumOfPart
  <2>10. \A p \in A : used[p] \in Int /\ budget[p] \in Int /\ used[p] <= budget[p]
    BY <2>3, <2>6, <2>8
  <2>11. SumFunctionOnSet(used, A) <= SumFunctionOnSet(budget, A)
    BY <2>3, <2>10, SumDominated
  <2>12. SumFunctionOnSet(used, A) \in Int /\ SumFunctionOnSet(budget, A) \in Int
    BY <2>3, <2>10, SumWithout
  <2>13. Gross(master.target) <= SumFunction(budget)
    BY <2>1, <2>5, <2>9, <2>11, <2>12
  <2>14. \A p \in P : a[p] <= capital(p)
    BY <2>1, <2>2
  <2> QED
    BY <2>13, <2>14 DEF BudgetsStayCash, budget, P, A, a, limit, capital
<1> QED
  BY <1>1, FundInvariance, PTL

(* Every position of the fund's target rests on a forecast that qualifies  *)
(* for it: declared, bound, eligible, and of evidence already published.   *)
THEOREM TargetsAreSupported == SpecFund => []TargetIsSupported
<1>1. FundInv => TargetIsSupported
  <2> SUFFICES ASSUME FundInv, Built, NEW t \in DOMAIN master.target
               PROVE  /\ t \in Given.bundle.eligible
                      /\ \E p \in Active(master.pods), f \in Given.forecasts :
                           /\ f.ticker = t
                           /\ f.model \in DOMAIN mandate.pods[p].models
                           /\ ~f.abstained /\ f.bound /\ f.current
                           /\ BatchEligible(mandate.pods[p], f)
                           /\ \A e \in f.cites : e \in DOMAIN Given.evidence
                                                 /\ Given.evidence[e] <= 0
    BY DEF TargetIsSupported
  <2> DEFINE forecasts == ForTickers(Given, master.case)
  <2>1. PICK p \in DOMAIN master.pods : t \in DOMAIN master.pods[p]
    BY MasterHolds
  <2> DEFINE pod == mandate.pods[p]
  <2>2. t \in Blended(pod, forecasts)
    BY <2>1, PodsHold
  <2>3. PICK f \in Contributors(pod, forecasts, t) : TRUE
    BY <2>2 DEF Blended
  <2>4. /\ f \in forecasts /\ f.model \in DOMAIN pod.models /\ ~f.abstained
        /\ f.ticker = t /\ BatchEligible(pod, f)
    BY <2>3 DEF Contributors, EligibleFor, Opinions, PodForecasts
  <2>5. BatchesAccepted(mandate, Given, forecasts)
    BY DEF FundInv, MasterOK, InputsAccepted
  <2>6. ForecastAccepted(mandate, Given.bundle, f)
    BY <2>4, <2>5 DEF BatchesAccepted
  <2>7. f.current /\ f.ticker \in Given.bundle.eligible /\ f.bound
    BY <2>4, <2>6 DEF ForecastAccepted
  <2>8. f.model \in Models(mandate) /\ f \in Batch(forecasts, f.model)
    BY <2>4, <2>5 DEF BatchesAccepted, Batch
  <2>9. BatchAccepted(Batch(forecasts, f.model), Given.evidence)
    BY <2>5, <2>8 DEF BatchesAccepted
  <2>10. \A e \in f.cites : e \in DOMAIN Given.evidence /\ Given.evidence[e] <= 0
    BY <2>8, <2>9 DEF BatchAccepted
  <2>11. p \in Active(master.pods) /\ f \in Given.forecasts
    BY <2>1, <2>4 DEF Active, ForTickers
  <2> QED
    BY <2>4, <2>7, <2>10, <2>11
<1> QED
  BY <1>1, FundInvariance, PTL
=============================================================================
