---------------------------- MODULE RiskGateProofs ----------------------------
(***************************************************************************)
(* What the risk gate guarantees for every policy, proposal and book: the  *)
(* clamps only take exposure away, what they leave is within the limits,   *)
(* a reduction is honoured, and an approved book is a fixed point.         *)
(***************************************************************************)
EXTENDS RiskGate, InductionLemmas

(* A dict of weights: a function from a finite set to integers.            *)
WeightMap(w) ==
  /\ w = [t \in DOMAIN w |-> w[t]]
  /\ IsFiniteSet(DOMAIN w)
  /\ \A t \in DOMAIN w : w[t] \in Int

(* x is between zero and y. *)
Toward(x, y) == (y >= 0 => 0 <= x /\ x <= y) /\ (y <= 0 => y <= x /\ x <= 0)

(* v holds what w holds, and of nothing more. *)
Shrunk(v, w) ==
  /\ WeightMap(v) /\ DOMAIN v = DOMAIN w
  /\ \A t \in DOMAIN w : Toward(v[t], w[t])

-----------------------------------------------------------------------------
(* Scaling by a factor of at most one takes an integer toward zero, to at  *)
(* most the exact product.                                                 *)
LEMMA ScaleOfNatural ==
  ASSUME NEW x \in Nat, NEW num \in Nat, NEW den \in Nat \ {0}, num <= den
  PROVE  /\ (x * num) \div den \in 0..x
         /\ den * ((x * num) \div den) <= num * x
<1>1. x * num \in Nat
  OBVIOUS
<1>2. (x * num) \div den \in Nat /\ den * ((x * num) \div den) <= x * num
  BY <1>1, Quotient
<1>3. x * num <= x * den /\ x * den = den * x /\ x * num = num * x
  BY TimesMonotone
<1>4. den * ((x * num) \div den) <= den * x
  BY <1>2, <1>3
<1>5. (x * num) \div den <= x
  BY <1>2, <1>4, TimesCancel
<1> QED
  BY <1>2, <1>3, <1>5

LEMMA ScaleShrinks ==
  ASSUME NEW x \in Int, NEW num \in Nat, NEW den \in Nat \ {0}, num <= den
  PROVE  /\ Scale(x, num, den) \in Int
         /\ Toward(Scale(x, num, den), x)
         /\ den * Abs(Scale(x, num, den)) <= num * Abs(x)
<1>1. CASE x >= 0
  <2>1. x \in Nat /\ Scale(x, num, den) = (x * num) \div den /\ Abs(x) = x
    BY <1>1 DEF Scale, Abs
  <2>2. (x * num) \div den \in 0..x /\ den * ((x * num) \div den) <= num * x
    BY <2>1, ScaleOfNatural
  <2>3. Abs((x * num) \div den) = (x * num) \div den
    BY <2>2 DEF Abs
  <2> QED
    BY <1>1, <2>1, <2>2, <2>3 DEF Toward
<1>2. CASE x < 0
  <2> DEFINE y == -x
  <2>1. y \in Nat /\ Scale(x, num, den) = -((y * num) \div den) /\ Abs(x) = y
    BY <1>2 DEF Scale, Abs
  <2> HIDE DEF y
  <2>2. (y * num) \div den \in 0..y /\ den * ((y * num) \div den) <= num * y
    BY <2>1, ScaleOfNatural
  <2>3. Abs(-((y * num) \div den)) = (y * num) \div den
    BY <2>2 DEF Abs
  <2>4. x = -y
    BY DEF y
  <2> QED
    BY <1>2, <2>1, <2>2, <2>3, <2>4 DEF Toward
<1> QED
  BY <1>1, <1>2

LEMMA ScaleByOne == \A x \in Int : Scale(x, 1, 1) = x
BY DEF Scale

LEMMA TowardAbs ==
  ASSUME NEW x \in Int, NEW y \in Int, Toward(x, y)
  PROVE  /\ Abs(x) \in Nat /\ Abs(y) \in Nat /\ Abs(x) <= Abs(y)
         /\ Positive(x) \in Nat /\ Positive(y) \in Nat /\ Positive(x) <= Positive(y)
BY DEF Toward, Abs, Positive

LEMMA ShrunkTransitive ==
  ASSUME NEW u, NEW v, NEW w, WeightMap(w), Shrunk(v, w), Shrunk(u, v)
  PROVE  Shrunk(u, w)
BY DEF Shrunk, WeightMap, Toward

-----------------------------------------------------------------------------
(* Exposures are sums over a dict. *)
Sizes(w) == [t \in DOMAIN w |-> Abs(w[t])]
Members(w, sectors, s) == {t \in DOMAIN w : sectors[t] = s}
Longs(w, S) == [t \in S |-> Positive(w[t])]

LEMMA ExposuresAreSums ==
  ASSUME NEW w, NEW sectors, NEW s
  PROVE  /\ Gross(w) = SumFunctionOnSet(Sizes(w), DOMAIN w)
         /\ SignedNet(w) = SumFunctionOnSet(w, DOMAIN w)
         /\ SectorExposure(w, sectors, s)
              = SumFunctionOnSet(Longs(w, Members(w, sectors, s)), Members(w, sectors, s))
<1>1. DOMAIN Sizes(w) = DOMAIN w
      /\ DOMAIN Longs(w, Members(w, sectors, s)) = Members(w, sectors, s)
  BY DEF Sizes, Longs
<1>2. /\ Gross(w) = SumFunction(Sizes(w))
      /\ SignedNet(w) = SumFunction(w)
      /\ SectorExposure(w, sectors, s) = SumFunction(Longs(w, Members(w, sectors, s)))
  BY DEF Gross, SignedNet, SectorExposure, Sizes, Longs, Members
<1> QED
  BY <1>1, <1>2, SumOfFunction

LEMMA SizesAreNatural ==
  ASSUME NEW w, WeightMap(w)
  PROVE  \A t \in DOMAIN w : Sizes(w)[t] = Abs(w[t]) /\ Abs(w[t]) \in Nat
BY DEF WeightMap, Sizes, Abs

(* A sum of naturals is natural. *)
LEMMA SumNatural ==
  ASSUME NEW f, NEW S, IsFiniteSet(S), \A s \in S : f[s] \in Nat
  PROVE  SumFunctionOnSet(f, S) \in Nat
<1>1. SumFunctionOnSet(f, S) \in Int
  BY SumWithout
<1>2. SumFunctionOnSet(f, {}) <= SumFunctionOnSet(f, S)
  <2>1. {} \in SUBSET S /\ (\A s \in S \ {} : f[s] >= 0) /\ (\A s \in S : f[s] \in Int)
    OBVIOUS
  <2> QED
    BY <2>1, SumOfPart
<1> QED
  BY <1>1, <1>2, SumOfNothing

LEMMA ExposureTypes ==
  ASSUME NEW w, WeightMap(w)
  PROVE  /\ Gross(w) \in Nat /\ SignedNet(w) \in Int
         /\ SignedNet(w) <= Gross(w)
         /\ (\A t \in DOMAIN w : w[t] >= 0) => SignedNet(w) = Gross(w)
         /\ \A sectors, s : SectorExposure(w, sectors, s) \in Nat
<1>1. IsFiniteSet(DOMAIN w) /\ \A t \in DOMAIN w : w[t] \in Int
  BY DEF WeightMap
<1>2. Gross(w) \in Nat
  BY <1>1, SizesAreNatural, SumNatural, ExposuresAreSums
<1>3. SignedNet(w) \in Int
  BY <1>1, SumWithout, ExposuresAreSums
<1>4. SignedNet(w) <= Gross(w)
  <2>1. \A t \in DOMAIN w : w[t] \in Int /\ Sizes(w)[t] \in Int /\ w[t] <= Sizes(w)[t]
    BY <1>1 DEF Sizes, Abs
  <2> QED
    BY <1>1, <2>1, SumDominated, ExposuresAreSums
<1>5. ASSUME \A t \in DOMAIN w : w[t] >= 0 PROVE SignedNet(w) = Gross(w)
  <2>1. \A t \in DOMAIN w : w[t] \in Int /\ w[t] = Sizes(w)[t]
    BY <1>1, <1>5 DEF Sizes, Abs
  <2> QED
    BY <1>1, <2>1, SumOfEquals, ExposuresAreSums
<1>6. ASSUME NEW sectors, NEW s PROVE SectorExposure(w, sectors, s) \in Nat
  <2> DEFINE M == Members(w, sectors, s)
  <2>1. IsFiniteSet(M) /\ M \subseteq DOMAIN w
    BY <1>1, FS_Subset DEF Members
  <2>2. \A t \in M : Longs(w, M)[t] \in Nat
    BY <1>1, <2>1 DEF Longs, Positive
  <2> HIDE DEF M
  <2>3. SumFunctionOnSet(Longs(w, M), M) \in Nat
    BY <2>1, <2>2, SumNatural
  <2> QED
    BY <2>3, ExposuresAreSums DEF M
<1> QED
  BY <1>2, <1>3, <1>4, <1>5, <1>6

(* Less is held, less is exposed. *)
LEMMA ExposuresShrink ==
  ASSUME NEW w, WeightMap(w), NEW v, Shrunk(v, w)
  PROVE  /\ Gross(v) <= Gross(w)
         /\ \A sectors, s : SectorExposure(v, sectors, s) <= SectorExposure(w, sectors, s)
<1>1. /\ IsFiniteSet(DOMAIN w) /\ DOMAIN v = DOMAIN w
      /\ \A t \in DOMAIN w : w[t] \in Int /\ v[t] \in Int /\ Toward(v[t], w[t])
  BY DEF WeightMap, Shrunk
<1>2. Gross(v) <= Gross(w)
  <2>1. \A t \in DOMAIN w : Sizes(v)[t] \in Int /\ Sizes(w)[t] \in Int /\ Sizes(v)[t] <= Sizes(w)[t]
    BY <1>1, TowardAbs DEF Sizes
  <2>2. SumFunctionOnSet(Sizes(v), DOMAIN w) <= SumFunctionOnSet(Sizes(w), DOMAIN w)
    BY <1>1, <2>1, SumDominated
  <2> QED
    BY <1>1, <2>2, ExposuresAreSums
<1>3. ASSUME NEW sectors, NEW s
      PROVE  SectorExposure(v, sectors, s) <= SectorExposure(w, sectors, s)
  <2> DEFINE M == Members(w, sectors, s)
  <2>1. IsFiniteSet(M) /\ M \subseteq DOMAIN w
    BY <1>1, FS_Subset DEF Members
  <2>2. Members(v, sectors, s) = M
    BY <1>1 DEF Members
  <2> HIDE DEF M
  <2>3. \A t \in M : /\ Longs(v, M)[t] \in Int /\ Longs(w, M)[t] \in Int
                     /\ Longs(v, M)[t] <= Longs(w, M)[t]
    BY <1>1, <2>1, TowardAbs DEF Longs
  <2>4. SumFunctionOnSet(Longs(v, M), M) <= SumFunctionOnSet(Longs(w, M), M)
    BY <2>1, <2>3, SumDominated
  <2> QED
    BY <2>2, <2>4, ExposuresAreSums DEF M
<1> QED
  BY <1>2, <1>3

-----------------------------------------------------------------------------
(* The common factor of a clamp is a ratio <<num, den>>.                   *)
Ratio(q) == q = <<q[1], q[2]>> /\ q[1] \in Nat /\ q[2] \in Nat \ {0}

(* The factor brings an exposure down to its cap. *)
Brings(q, exposure, cap) == q[1] * exposure <= cap * q[2]

LEMMA CapRatioBrings ==
  ASSUME NEW cap \in Nat, NEW exposure \in Nat
  PROVE  /\ Ratio(CapRatio(cap, exposure)) /\ Brings(CapRatio(cap, exposure), exposure, cap)
         /\ exposure <= cap => CapRatio(cap, exposure)[1] >= CapRatio(cap, exposure)[2]
<1>1. CASE exposure = 0
  BY <1>1 DEF CapRatio, One, Ratio, Brings
<1>2. CASE exposure # 0
  BY <1>2 DEF CapRatio, Ratio, Brings
<1> QED
  BY <1>1, <1>2

(* The smaller of two factors does what either of them does.               *)
LEMMA ProductsCompare ==
  ASSUME NEW a \in Nat, NEW b \in Nat \ {0}, NEW c \in Nat, NEW d \in Nat \ {0},
         NEW x \in Nat, NEW y \in Nat, a * d <= c * b, c * x <= y * d
  PROVE  a * x <= y * b
<1>1. d * (a * x) = (a * d) * x /\ (a * d) * x <= (c * b) * x
  <2>1. a * d \in Int /\ c * b \in Int
    OBVIOUS
  <2>2. (a * d) * x <= (c * b) * x
    BY <2>1, TimesMonotone
  <2>3. d * (a * x) = (a * d) * x
    OBVIOUS
  <2> QED
    BY <2>2, <2>3
<1>2. (c * b) * x = b * (c * x) /\ b * (c * x) <= b * (y * d)
  <2>1. c * x \in Int /\ y * d \in Int
    OBVIOUS
  <2>2. b * (c * x) <= b * (y * d)
    BY <2>1, TimesMonotone
  <2>3. (c * b) * x = b * (c * x)
    OBVIOUS
  <2> QED
    BY <2>2, <2>3
<1>3. b * (y * d) = d * (y * b)
  OBVIOUS
<1>4. /\ a * x \in Int /\ y * b \in Int
      /\ d * (a * x) \in Int /\ d * (y * b) \in Int
      /\ (a * d) * x \in Int /\ (c * b) * x \in Int /\ b * (c * x) \in Int /\ b * (y * d) \in Int
  OBVIOUS
<1>5. d * (a * x) <= d * (y * b)
  BY <1>1, <1>2, <1>3, <1>4
<1> QED
  BY <1>4, <1>5, TimesCancel

LEMMA LessBrings ==
  ASSUME NEW q, NEW r, Ratio(q), Ratio(r), q[1] * r[2] <= r[1] * q[2],
         NEW exposure \in Nat, NEW cap \in Nat, Brings(r, exposure, cap)
  PROVE  Brings(q, exposure, cap)
<1> DEFINE a == q[1]
           b == q[2]
           c == r[1]
           d == r[2]
<1>1. a \in Nat /\ b \in Nat \ {0} /\ c \in Nat /\ d \in Nat \ {0}
  BY DEF Ratio
<1>2. a * d <= c * b /\ c * exposure <= cap * d
  BY DEF Brings
<1>3. SUFFICES a * exposure <= cap * b
  BY DEF Brings
<1> HIDE DEF a, b, c, d
<1> QED
  BY <1>1, <1>2, ProductsCompare

LEMMA SmallerRatioBrings ==
  ASSUME NEW q, NEW r, Ratio(q), Ratio(r), NEW exposure \in Nat, NEW cap \in Nat
  PROVE  /\ SmallerRatio(q, r) \in {q, r}
         /\ Brings(q, exposure, cap) => Brings(SmallerRatio(q, r), exposure, cap)
         /\ Brings(r, exposure, cap) => Brings(SmallerRatio(q, r), exposure, cap)
<1>0. /\ q[1] \in Nat /\ q[2] \in Nat \ {0} /\ r[1] \in Nat /\ r[2] \in Nat \ {0}
  BY DEF Ratio
<1>1. SmallerRatio(q, r) \in {q, r}
  BY DEF SmallerRatio
<1>2. CASE q[1] * r[2] <= r[1] * q[2]
  <2>1. SmallerRatio(q, r) = q
    BY <1>2 DEF SmallerRatio
  <2>2. Brings(r, exposure, cap) => Brings(q, exposure, cap)
    BY <1>2, LessBrings
  <2> QED
    BY <1>1, <2>1, <2>2
<1>3. CASE ~(q[1] * r[2] <= r[1] * q[2])
  <2>1. SmallerRatio(q, r) = r
    BY <1>3 DEF SmallerRatio
  <2>2. r[1] * q[2] <= q[1] * r[2]
    BY <1>0, <1>3
  <2>3. Brings(q, exposure, cap) => Brings(r, exposure, cap)
    BY <2>2, LessBrings
  <2> QED
    BY <1>1, <2>1, <2>3
<1> QED
  BY <1>2, <1>3

(* A factor of at most one applied to every weight.                        *)
Scaled(w, q) == [t \in DOMAIN w |-> Scale(w[t], q[1], q[2])]

LEMMA ScaledShrinks ==
  ASSUME NEW w, WeightMap(w), NEW q, Ratio(q), q[1] <= q[2]
  PROVE  /\ Shrunk(Scaled(w, q), w)
         /\ q[2] * Gross(Scaled(w, q)) <= q[1] * Gross(w)
<1>1. /\ IsFiniteSet(DOMAIN w) /\ \A t \in DOMAIN w : w[t] \in Int
      /\ q[1] \in Nat /\ q[2] \in Nat \ {0}
  BY DEF WeightMap, Ratio
<1>2. \A t \in DOMAIN w :
        /\ Scale(w[t], q[1], q[2]) \in Int
        /\ Toward(Scale(w[t], q[1], q[2]), w[t])
        /\ q[2] * Abs(Scale(w[t], q[1], q[2])) <= q[1] * Abs(w[t])
  BY <1>1, ScaleShrinks
<1>3. Shrunk(Scaled(w, q), w)
  BY <1>1, <1>2 DEF Shrunk, WeightMap, Scaled
<1>4. DOMAIN Scaled(w, q) = DOMAIN w /\ WeightMap(Scaled(w, q))
  BY <1>3 DEF Shrunk
<1>5. \A t \in DOMAIN w : /\ Sizes(Scaled(w, q))[t] \in Int /\ Sizes(w)[t] \in Int
                          /\ q[2] * Sizes(Scaled(w, q))[t] <= q[1] * Sizes(w)[t]
  <2>1. \A t \in DOMAIN w : /\ Sizes(Scaled(w, q))[t] = Abs(Scale(w[t], q[1], q[2]))
                            /\ Sizes(w)[t] = Abs(w[t])
    BY DEF Sizes, Scaled
  <2>2. \A t \in DOMAIN w : Sizes(Scaled(w, q))[t] \in Int /\ Sizes(w)[t] \in Int
    BY <1>4, SizesAreNatural
  <2> QED
    BY <1>2, <2>1, <2>2
<1>6. q[2] * SumFunctionOnSet(Sizes(Scaled(w, q)), DOMAIN w)
        <= q[1] * SumFunctionOnSet(Sizes(w), DOMAIN w)
  BY <1>1, <1>5, SumBounded
<1> QED
  BY <1>3, <1>4, <1>6, ExposuresAreSums

LEMMA ScaledByOne ==
  ASSUME NEW w, WeightMap(w)
  PROVE  Scaled(w, One) = w
<1>1. \A t \in DOMAIN w : Scale(w[t], One[1], One[2]) = w[t]
  BY ScaleByOne DEF WeightMap, One
<1> QED
  BY <1>1 DEF Scaled, WeightMap

-----------------------------------------------------------------------------
(* The four clamps, one at a time.                                         *)
LEMMA ShrunkReflexive ==
  ASSUME NEW w, WeightMap(w)
  PROVE  Shrunk(w, w)
BY DEF Shrunk, WeightMap, Toward

LEMMA NoShortingShrinks ==
  ASSUME NEW w, WeightMap(w), NEW policy
  PROVE  /\ Shrunk(NoShorting(w, policy), w)
         /\ ~policy.allowShorting => \A t \in DOMAIN w : NoShorting(w, policy)[t] >= 0
<1>1. CASE policy.allowShorting
  BY <1>1, ShrunkReflexive DEF NoShorting
<1>2. CASE ~policy.allowShorting
  <2>1. NoShorting(w, policy) = [t \in DOMAIN w |-> Positive(w[t])]
    BY <1>2 DEF NoShorting
  <2>2. \A t \in DOMAIN w : Positive(w[t]) \in Nat /\ Toward(Positive(w[t]), w[t])
    BY DEF WeightMap, Positive, Toward
  <2> QED
    BY <2>1, <2>2 DEF Shrunk, WeightMap
<1> QED
  BY <1>1, <1>2

LEMMA CapPositionsShrinks ==
  ASSUME NEW w, WeightMap(w), NEW policy, policy.maxPosition \in Nat
  PROVE  /\ Shrunk(CapPositions(w, policy), w)
         /\ \A t \in DOMAIN w : Abs(CapPositions(w, policy)[t]) <= policy.maxPosition
<1> DEFINE v == CapPositions(w, policy)
<1>1. DOMAIN v = DOMAIN w /\ IsFiniteSet(DOMAIN w) /\ \A t \in DOMAIN w : w[t] \in Int
  BY DEF CapPositions, WeightMap
<1>2. \A t \in DOMAIN w : /\ v[t] \in Int /\ Toward(v[t], w[t])
                          /\ Abs(v[t]) <= policy.maxPosition
  <2> TAKE t \in DOMAIN w
  <2>1. v[t] = IF Abs(w[t]) <= policy.maxPosition THEN w[t]
               ELSE IF w[t] > 0 THEN policy.maxPosition ELSE -policy.maxPosition
    BY DEF CapPositions
  <2> HIDE DEF v
  <2> QED
    BY <1>1, <2>1 DEF Abs, Toward
<1>3. v = [t \in DOMAIN v |-> v[t]]
  BY DEF CapPositions
<1> HIDE DEF v
<1>4. Shrunk(v, w)
  BY <1>1, <1>2, <1>3 DEF Shrunk, WeightMap
<1> QED
  BY <1>2, <1>4 DEF v

(* Every sector of a classified book ends within its cap: the longs of a   *)
(* sector over it are all scaled by the cap over their sum.                *)
LEMMA CapSectorsShrinks ==
  ASSUME NEW w, WeightMap(w), NEW policy, policy.maxSector \in Nat, NEW sectors
  PROVE  /\ Shrunk(CapSectors(w, policy, sectors), w)
         /\ ~Unclassified(w, sectors) =>
              \A s : SectorExposure(CapSectors(w, policy, sectors), sectors, s)
                       <= policy.maxSector
<1>1. CASE Unclassified(w, sectors)
  BY <1>1, ShrunkReflexive DEF CapSectors
<1>2. CASE ~Unclassified(w, sectors)
  <2> DEFINE v == CapSectors(w, policy, sectors)
             E(s) == SectorExposure(w, sectors, s)
             cap == policy.maxSector
  <2>1. /\ v = [t \in DOMAIN w |-> IF w[t] > 0 /\ E(sectors[t]) > cap
                                   THEN Scale(w[t], cap, E(sectors[t])) ELSE w[t]]
    BY <1>2 DEF CapSectors
  <2>2. DOMAIN v = DOMAIN w /\ v = [t \in DOMAIN v |-> v[t]]
    BY <2>1
  <2>3. \A t \in DOMAIN w : v[t] = IF w[t] > 0 /\ E(sectors[t]) > cap
                                   THEN Scale(w[t], cap, E(sectors[t])) ELSE w[t]
    BY <2>1
  <2>4. /\ IsFiniteSet(DOMAIN w) /\ \A t \in DOMAIN w : w[t] \in Int
        /\ \A s : E(s) \in Nat
        /\ cap \in Nat
    BY ExposureTypes DEF WeightMap
  <2> HIDE DEF v, E, cap
  <2>5. \A t \in DOMAIN w :
          /\ v[t] \in Int /\ Toward(v[t], w[t])
          /\ E(sectors[t]) > cap => E(sectors[t]) * Positive(v[t]) <= cap * Positive(w[t])
    <3> SUFFICES ASSUME NEW t \in DOMAIN w
                 PROVE  /\ v[t] \in Int /\ Toward(v[t], w[t])
                        /\ E(sectors[t]) > cap =>
                             E(sectors[t]) * Positive(v[t]) <= cap * Positive(w[t])
      OBVIOUS
    <3> DEFINE e == E(sectors[t])
               x == w[t]
    <3>1. e \in Nat /\ x \in Int /\ cap \in Nat
      BY <2>4
    <3>2. v[t] = IF x > 0 /\ e > cap THEN Scale(x, cap, e) ELSE x
      BY <2>3
    <3> HIDE DEF e, x
    <3>3. CASE x > 0 /\ e > cap
      <4>1. e \in Nat \ {0} /\ cap <= e
        BY <3>1, <3>3
      <4>2. /\ Scale(x, cap, e) \in Int /\ Toward(Scale(x, cap, e), x)
            /\ e * Abs(Scale(x, cap, e)) <= cap * Abs(x)
        BY <3>1, <4>1, ScaleShrinks
      <4>3. Abs(x) = Positive(x) /\ Abs(Scale(x, cap, e)) = Positive(Scale(x, cap, e))
        BY <3>1, <3>3, <4>2 DEF Toward, Abs, Positive
      <4>4. v[t] = Scale(x, cap, e)
        BY <3>2, <3>3
      <4> QED
        BY <4>2, <4>3, <4>4 DEF e, x
    <3>4. CASE ~(x > 0 /\ e > cap)
      <4>1. v[t] = x
        BY <3>2, <3>4
      <4>2. e > cap => Positive(x) = 0
        BY <3>1, <3>4 DEF Positive
      <4>3. e > cap => e * Positive(x) <= cap * Positive(x)
        BY <3>1, <4>2
      <4> QED
        BY <3>1, <4>1, <4>3 DEF Toward, e, x
    <3> QED
      BY <3>3, <3>4
  <2>6. Shrunk(v, w)
    BY <2>2, <2>4, <2>5 DEF Shrunk, WeightMap
  <2>7. ASSUME NEW s PROVE SectorExposure(v, sectors, s) <= cap
    <3>1. CASE E(s) <= cap
      <4>1. SectorExposure(v, sectors, s) <= E(s)
        BY <2>6, ExposuresShrink DEF E
      <4>2. SectorExposure(v, sectors, s) \in Nat
        BY <2>6, ExposureTypes DEF Shrunk
      <4> QED
        BY <2>4, <3>1, <4>1, <4>2
    <3>2. CASE E(s) > cap
      <4> DEFINE M == Members(w, sectors, s)
      <4>1. IsFiniteSet(M) /\ M \subseteq DOMAIN w /\ \A t \in M : sectors[t] = s
        BY <2>4, FS_Subset DEF Members
      <4>2. Members(v, sectors, s) = M
        BY <2>2 DEF Members
      <4> HIDE DEF M
      <4>3. \A t \in M : /\ Longs(v, M)[t] \in Int /\ Longs(w, M)[t] \in Int
                         /\ E(s) * Longs(v, M)[t] <= cap * Longs(w, M)[t]
        <5>1. \A t \in M : /\ v[t] \in Int /\ w[t] \in Int
                           /\ E(s) * Positive(v[t]) <= cap * Positive(w[t])
          BY <2>4, <2>5, <3>2, <4>1
        <5>2. \A t \in M : Longs(v, M)[t] = Positive(v[t]) /\ Longs(w, M)[t] = Positive(w[t])
          BY DEF Longs
        <5>3. \A x \in Int : Positive(x) \in Int
          BY DEF Positive
        <5> QED
          BY <5>1, <5>2, <5>3, Zenon
      <4>4. E(s) * SumFunctionOnSet(Longs(v, M), M) <= cap * SumFunctionOnSet(Longs(w, M), M)
        BY <2>4, <4>1, <4>3, SumBounded
      <4>5. /\ SumFunctionOnSet(Longs(w, M), M) = E(s)
            /\ SumFunctionOnSet(Longs(v, M), M) = SectorExposure(v, sectors, s)
        BY <4>2, ExposuresAreSums DEF E, M
      <4>6. E(s) * SectorExposure(v, sectors, s) <= E(s) * cap
        BY <2>4, <4>4, <4>5
      <4>7. SectorExposure(v, sectors, s) \in Int /\ E(s) \in Nat \ {0}
        <5>1. SectorExposure(v, sectors, s) \in Nat
          BY <2>6, ExposureTypes DEF Shrunk
        <5>2. E(s) \in Nat
          BY <2>4
        <5> QED
          BY <2>4, <3>2, <5>1, <5>2
      <4> QED
        BY <2>4, <4>6, <4>7, TimesCancel
    <3> QED
      <4>1. E(s) \in Nat
        BY <2>4
      <4> QED
        BY <2>4, <3>1, <3>2, <4>1
  <2> QED
    BY <2>6, <2>7 DEF v, cap
<1> QED
  BY <1>1, <1>2

-----------------------------------------------------------------------------
(* The last clamp: one common factor for gross, net and minimum cash.      *)
Common(c, x, d, y) == SmallerRatio(One, SmallerRatio(CapRatio(c, x), CapRatio(d, y)))

LEMMA CommonBrings ==
  ASSUME NEW c \in Nat, NEW x \in Nat, NEW d \in Nat, NEW y \in Nat
  PROVE  LET q == Common(c, x, d, y)
         IN  /\ Ratio(q) /\ q[1] <= q[2]
             /\ Brings(q, x, c) /\ Brings(q, y, d)
             /\ x <= c /\ y <= d => q = One
<1> DEFINE g == CapRatio(c, x)
           n == CapRatio(d, y)
           m == SmallerRatio(g, n)
           q == Common(c, x, d, y)
<1>1. q = SmallerRatio(One, m)
  BY DEF Common
<1>2. /\ Ratio(g) /\ Brings(g, x, c) /\ (x <= c => g[1] >= g[2])
      /\ Ratio(n) /\ Brings(n, y, d) /\ (y <= d => n[1] >= n[2])
  BY CapRatioBrings
<1> HIDE DEF g, n, q
<1>3. Ratio(One) /\ One[1] = 1 /\ One[2] = 1
  BY DEF Ratio, One
<1>4. Ratio(m) /\ m \in {g, n} /\ Brings(m, x, c) /\ Brings(m, y, d)
  BY <1>2, SmallerRatioBrings
<1> HIDE DEF m
<1>5. Ratio(q) /\ Brings(q, x, c) /\ Brings(q, y, d)
  BY <1>1, <1>3, <1>4, SmallerRatioBrings
<1>6. m[1] \in Nat /\ m[2] \in Nat
  BY <1>4 DEF Ratio
<1>7. q = IF 1 * m[2] <= m[1] * 1 THEN One ELSE m
  BY <1>1, <1>3 DEF SmallerRatio
<1>8. q[1] <= q[2]
  BY <1>3, <1>6, <1>7
<1>9. ASSUME x <= c, y <= d PROVE q = One
  <2>1. m[1] >= m[2]
    BY <1>2, <1>4, <1>9
  <2> QED
    BY <1>6, <1>7, <2>1
<1> QED
  BY <1>5, <1>8, <1>9 DEF q

GrossCap(policy) == AtMost(policy.maxGross, policy.one - policy.minCash)
Factor(w, policy) == Common(GrossCap(policy), Gross(w), policy.maxNet, Abs(SignedNet(w)))

LEMMA CapExposureScales ==
  \A w, policy : CapExposure(w, policy) = Scaled(w, Factor(w, policy))
BY DEF CapExposure, Scaled, Factor, Common, GrossCap

LEMMA GrossCapType ==
  ASSUME NEW policy, PolicySound(policy)
  PROVE  /\ GrossCap(policy) \in Nat
         /\ GrossCap(policy) <= policy.maxGross
         /\ GrossCap(policy) <= policy.one - policy.minCash
BY DEF PolicySound, GrossCap, AtMost

LEMMA FactorBrings ==
  ASSUME NEW w, WeightMap(w), NEW policy, PolicySound(policy)
  PROVE  LET q == Factor(w, policy)
         IN  /\ Ratio(q) /\ q[1] <= q[2]
             /\ Brings(q, Gross(w), GrossCap(policy))
             /\ Brings(q, Abs(SignedNet(w)), policy.maxNet)
             /\ Gross(w) <= GrossCap(policy) /\ Abs(SignedNet(w)) <= policy.maxNet => q = One
<1>1. /\ Gross(w) \in Nat /\ Abs(SignedNet(w)) \in Nat
      /\ GrossCap(policy) \in Nat /\ policy.maxNet \in Nat
  BY ExposureTypes, GrossCapType DEF Abs, PolicySound
<1> QED
  BY <1>1, CommonBrings DEF Factor

(* A net limit that the common factor meets to the unit: a long book's net *)
(* is its gross, and a gross limit below the net limit implies it.         *)
NetIsCapped(policy) == ~policy.allowShorting \/ policy.maxGross <= policy.maxNet

LEMMA CapExposureShrinks ==
  ASSUME NEW w, WeightMap(w), NEW policy, PolicySound(policy)
  PROVE  LET v == CapExposure(w, policy)
         IN  /\ Shrunk(v, w)
             /\ Gross(v) <= GrossCap(policy)
             /\ (\A t \in DOMAIN w : w[t] >= 0) => Abs(SignedNet(v)) <= policy.maxNet
             /\ Gross(w) <= GrossCap(policy) /\ Abs(SignedNet(w)) <= policy.maxNet => v = w
<1> DEFINE q == Factor(w, policy)
           v == CapExposure(w, policy)
<1>1. v = Scaled(w, q)
  BY CapExposureScales
<1>2. /\ Ratio(q) /\ q[1] <= q[2]
      /\ Brings(q, Gross(w), GrossCap(policy))
      /\ Brings(q, Abs(SignedNet(w)), policy.maxNet)
      /\ Gross(w) <= GrossCap(policy) /\ Abs(SignedNet(w)) <= policy.maxNet => q = One
  BY FactorBrings
<1> HIDE DEF q, v
<1>3. Shrunk(v, w) /\ q[2] * Gross(v) <= q[1] * Gross(w)
  BY <1>1, <1>2, ScaledShrinks
<1>4. WeightMap(v) /\ DOMAIN v = DOMAIN w
  BY <1>3 DEF Shrunk
<1>5. /\ q[1] \in Nat /\ q[2] \in Nat \ {0}
      /\ Gross(v) \in Nat /\ Gross(w) \in Nat /\ SignedNet(v) \in Int /\ SignedNet(w) \in Int
      /\ GrossCap(policy) \in Nat /\ policy.maxNet \in Nat
  BY <1>2, <1>4, ExposureTypes, GrossCapType DEF Ratio, PolicySound
<1>6. Gross(v) <= GrossCap(policy)
  <2>1. q[2] * Gross(v) <= q[2] * GrossCap(policy)
    BY <1>2, <1>3, <1>5 DEF Brings
  <2> QED
    BY <1>5, <2>1, TimesCancel
<1>7. ASSUME \A t \in DOMAIN w : w[t] >= 0 PROVE Abs(SignedNet(v)) <= policy.maxNet
  <2>1. \A t \in DOMAIN v : v[t] >= 0
    BY <1>3, <1>4, <1>7 DEF Shrunk, Toward
  <2>2. SignedNet(v) = Gross(v) /\ SignedNet(w) = Gross(w)
    BY <1>4, <1>7, <2>1, ExposureTypes
  <2>3. Abs(SignedNet(v)) = Gross(v) /\ Abs(SignedNet(w)) = Gross(w)
    BY <1>5, <2>2 DEF Abs
  <2>4. q[2] * Gross(v) <= q[2] * policy.maxNet
    BY <1>2, <1>3, <1>5, <2>3 DEF Brings
  <2>5. Gross(v) <= policy.maxNet
    BY <1>5, <2>4, TimesCancel
  <2> QED
    BY <2>3, <2>5
<1>8. ASSUME Gross(w) <= GrossCap(policy), Abs(SignedNet(w)) <= policy.maxNet PROVE v = w
  BY <1>1, <1>2, <1>8, ScaledByOne
<1> QED
  BY <1>3, <1>6, <1>7, <1>8 DEF v

-----------------------------------------------------------------------------
(* A book within the limits the clamps enforce.                            *)
Within(w, policy, sectors) ==
  /\ ~policy.allowShorting => \A t \in DOMAIN w : w[t] >= 0
  /\ \A t \in DOMAIN w : Abs(w[t]) <= policy.maxPosition
  /\ ~Unclassified(w, sectors) => \A s : SectorExposure(w, sectors, s) <= policy.maxSector
  /\ Gross(w) <= GrossCap(policy)
  /\ NetIsCapped(policy) => Abs(SignedNet(w)) <= policy.maxNet

LEMMA AbsSignedNet ==
  ASSUME NEW w, WeightMap(w)
  PROVE  Abs(SignedNet(w)) \in Nat /\ Abs(SignedNet(w)) <= Gross(w)
<1> DEFINE S == SumFunctionOnSet(w, DOMAIN w)
           G == SumFunctionOnSet(Sizes(w), DOMAIN w)
<1>1. SignedNet(w) = S /\ Gross(w) = G
  BY ExposuresAreSums
<1>2. IsFiniteSet(DOMAIN w) /\ \A t \in DOMAIN w : w[t] \in Int /\ Sizes(w)[t] \in Int
  BY SizesAreNatural DEF WeightMap
<1>3. \A t \in DOMAIN w : (-1) * w[t] <= 1 * Sizes(w)[t]
  BY <1>2, SizesAreNatural DEF Abs
<1>4. (-1) * S <= 1 * G
  BY <1>2, <1>3, SumBounded
<1>5. S \in Int /\ G \in Nat /\ S <= G
  BY <1>1, ExposureTypes
<1> HIDE DEF S, G
<1> QED
  BY <1>1, <1>4, <1>5 DEF Abs

(* The clamps of the gate: nothing is added, and the result is within.     *)
LEMMA ClampsShrink ==
  ASSUME NEW w, WeightMap(w), NEW policy, PolicySound(policy), NEW sectors
  PROVE  /\ Shrunk(SafetyClamps(w, policy, sectors), w)
         /\ Within(SafetyClamps(w, policy, sectors), policy, sectors)
<1> DEFINE a == NoShorting(w, policy)
           b == CapPositions(a, policy)
           c == CapSectors(b, policy, sectors)
           d == CapExposure(c, policy)
<1>0. SafetyClamps(w, policy, sectors) = d
  BY DEF SafetyClamps
<1>1. Shrunk(a, w) /\ (~policy.allowShorting => \A t \in DOMAIN w : a[t] >= 0)
  BY NoShortingShrinks
<1> HIDE DEF a
<1>2. WeightMap(a)
  BY <1>1 DEF Shrunk
<1>3. Shrunk(b, a) /\ \A t \in DOMAIN a : Abs(b[t]) <= policy.maxPosition
  BY <1>2, CapPositionsShrinks DEF PolicySound
<1> HIDE DEF b
<1>4. WeightMap(b)
  BY <1>3 DEF Shrunk
<1>5. /\ Shrunk(c, b)
      /\ ~Unclassified(b, sectors) => \A s : SectorExposure(c, sectors, s) <= policy.maxSector
  BY <1>4, CapSectorsShrinks DEF PolicySound
<1> HIDE DEF c
<1>6. WeightMap(c)
  BY <1>5 DEF Shrunk
<1>7. /\ Shrunk(d, c) /\ Gross(d) <= GrossCap(policy)
      /\ (\A t \in DOMAIN c : c[t] >= 0) => Abs(SignedNet(d)) <= policy.maxNet
  BY <1>6, CapExposureShrinks
<1> HIDE DEF d
<1>8. WeightMap(d) /\ DOMAIN a = DOMAIN w /\ DOMAIN b = DOMAIN w /\ DOMAIN c = DOMAIN w
      /\ DOMAIN d = DOMAIN w
  BY <1>1, <1>3, <1>5, <1>7 DEF Shrunk
<1>9. Shrunk(d, b) /\ Shrunk(c, a)
  BY <1>2, <1>3, <1>4, <1>5, <1>7, ShrunkTransitive
<1>10. Shrunk(d, w)
  BY <1>1, <1>2, <1>3, <1>9, ShrunkTransitive
<1>11. ASSUME ~policy.allowShorting
       PROVE  /\ \A t \in DOMAIN d : d[t] >= 0
              /\ \A t \in DOMAIN c : c[t] >= 0
  <2>1. \A t \in DOMAIN w : a[t] >= 0
    BY <1>1, <1>11
  <2>2. \A t \in DOMAIN w : c[t] >= 0
    BY <1>8, <1>9, <2>1 DEF Shrunk, Toward
  <2> QED
    BY <1>7, <1>8, <2>2 DEF Shrunk, Toward
<1>12. \A t \in DOMAIN d : Abs(d[t]) <= policy.maxPosition
  <2> SUFFICES ASSUME NEW t \in DOMAIN d PROVE Abs(d[t]) <= policy.maxPosition
    OBVIOUS
  <2>1. d[t] \in Int /\ b[t] \in Int /\ Toward(d[t], b[t])
    BY <1>4, <1>8, <1>9 DEF Shrunk, WeightMap
  <2>2. Abs(d[t]) <= Abs(b[t]) /\ Abs(d[t]) \in Nat /\ Abs(b[t]) \in Nat
    BY <2>1, TowardAbs
  <2>3. Abs(b[t]) <= policy.maxPosition /\ policy.maxPosition \in Nat
    BY <1>3, <1>8 DEF PolicySound
  <2> QED
    BY <2>2, <2>3
<1>13. ASSUME ~Unclassified(d, sectors), NEW s
       PROVE  SectorExposure(d, sectors, s) <= policy.maxSector
  <2>1. ~Unclassified(b, sectors)
    BY <1>8, <1>13 DEF Unclassified
  <2>2. SectorExposure(c, sectors, s) <= policy.maxSector
    BY <1>5, <2>1
  <2>3. SectorExposure(d, sectors, s) <= SectorExposure(c, sectors, s)
    BY <1>6, <1>7, ExposuresShrink
  <2>4. SectorExposure(c, sectors, s) \in Nat /\ SectorExposure(d, sectors, s) \in Nat
        /\ policy.maxSector \in Nat
    BY <1>6, <1>8, ExposureTypes DEF PolicySound
  <2> QED
    BY <2>2, <2>3, <2>4
<1>14. ASSUME NetIsCapped(policy) PROVE Abs(SignedNet(d)) <= policy.maxNet
  <2>1. CASE ~policy.allowShorting
    BY <1>7, <1>11, <2>1
  <2>2. CASE policy.maxGross <= policy.maxNet
    <3>1. Abs(SignedNet(d)) \in Nat /\ Abs(SignedNet(d)) <= Gross(d) /\ Gross(d) \in Nat
      BY <1>8, AbsSignedNet, ExposureTypes
    <3>2. GrossCap(policy) <= policy.maxGross /\ GrossCap(policy) \in Nat
          /\ policy.maxGross \in Nat /\ policy.maxNet \in Nat
      BY GrossCapType DEF PolicySound
    <3> QED
      BY <1>7, <2>2, <3>1, <3>2
  <2> QED
    BY <1>14, <2>1, <2>2 DEF NetIsCapped
<1>15. Within(d, policy, sectors)
  BY <1>7, <1>11, <1>12, <1>13, <1>14 DEF Within
<1> QED
  BY <1>0, <1>10, <1>15

-----------------------------------------------------------------------------
(* Dropping what is zero changes no exposure.                              *)
LEMMA DropZerosIs ==
  \A w : DropZeros(w) = [t \in {u \in DOMAIN w : w[u] # 0} |-> w[t]]
BY DEF DropZeros, RestrictValues, Restrict

LEMMA DropZerosKeeps ==
  ASSUME NEW w, WeightMap(w)
  PROVE  LET v == DropZeros(w)
         IN  /\ WeightMap(v)
             /\ DOMAIN v \subseteq DOMAIN w
             /\ \A t \in DOMAIN v : v[t] = w[t] /\ v[t] # 0
             /\ \A t \in DOMAIN w : Weight(v, t) = w[t]
             /\ Gross(v) = Gross(w)
             /\ SignedNet(v) = SignedNet(w)
             /\ \A sectors, s : SectorExposure(v, sectors, s) = SectorExposure(w, sectors, s)
<1> DEFINE v == DropZeros(w)
           D == DOMAIN v
<1>1. /\ v = [t \in {u \in DOMAIN w : w[u] # 0} |-> w[t]]
      /\ D = {u \in DOMAIN w : w[u] # 0}
  BY DropZerosIs
<1>2. /\ v = [t \in D |-> v[t]] /\ D \subseteq DOMAIN w
      /\ \A t \in D : v[t] = w[t] /\ v[t] # 0
      /\ \A t \in DOMAIN w \ D : w[t] = 0
  BY <1>1
<1>3. \A t \in DOMAIN w : Weight(v, t) = w[t]
  BY <1>1 DEF Weight
<1> HIDE DEF v
<1>4. IsFiniteSet(DOMAIN w) /\ \A t \in DOMAIN w : w[t] \in Int
  BY DEF WeightMap
<1>5. WeightMap(v)
  BY <1>2, <1>4, FS_Subset DEF WeightMap
<1>6. SumFunctionOnSet(Sizes(v), D) = SumFunctionOnSet(Sizes(w), DOMAIN w)
  <2>1. \A t \in D : Sizes(v)[t] \in Int /\ Sizes(v)[t] = Sizes(w)[t]
    BY <1>2, <1>4 DEF Sizes, Abs
  <2>2. SumFunctionOnSet(Sizes(v), D) = SumFunctionOnSet(Sizes(w), D)
    BY <1>5, <2>1, SumOfEquals DEF WeightMap
  <2>3. \A t \in DOMAIN w : Sizes(w)[t] \in Int
    BY <1>4 DEF Sizes, Abs
  <2>4. \A t \in DOMAIN w \ D : Sizes(w)[t] = 0
    BY <1>2 DEF Sizes, Abs
  <2>5. D \in SUBSET DOMAIN w
    BY <1>2
  <2>6. SumFunctionOnSet(Sizes(w), D) = SumFunctionOnSet(Sizes(w), DOMAIN w)
    BY <1>4, <2>3, <2>4, <2>5, SumOfPart
  <2> QED
    BY <2>2, <2>6
<1>7. SumFunctionOnSet(v, D) = SumFunctionOnSet(w, DOMAIN w)
  <2>1. \A t \in D : v[t] \in Int /\ v[t] = w[t]
    BY <1>2, <1>4
  <2>2. SumFunctionOnSet(v, D) = SumFunctionOnSet(w, D)
    BY <1>5, <2>1, SumOfEquals DEF WeightMap
  <2>3. D \in SUBSET DOMAIN w
    BY <1>2
  <2>4. SumFunctionOnSet(w, D) = SumFunctionOnSet(w, DOMAIN w)
    BY <1>2, <1>4, <2>3, SumOfPart
  <2> QED
    BY <2>2, <2>4
<1>8. ASSUME NEW sectors, NEW s
      PROVE  SectorExposure(v, sectors, s) = SectorExposure(w, sectors, s)
  <2> DEFINE M == Members(w, sectors, s)
             K == Members(v, sectors, s)
  <2>1. K \in SUBSET M /\ M \subseteq DOMAIN w /\ IsFiniteSet(M) /\ IsFiniteSet(K)
        /\ K \subseteq D /\ M \ K \subseteq DOMAIN w \ D
    BY <1>2, <1>4, FS_Subset DEF Members
  <2> HIDE DEF M, K
  <2>2. \A t \in K : Longs(v, K)[t] \in Int /\ Longs(v, K)[t] = Longs(w, M)[t]
    BY <1>2, <1>4, <2>1 DEF Longs, Positive
  <2>3. SumFunctionOnSet(Longs(v, K), K) = SumFunctionOnSet(Longs(w, M), K)
    BY <2>1, <2>2, SumOfEquals
  <2>4. \A t \in M : Longs(w, M)[t] \in Int
    BY <1>4, <2>1 DEF Longs, Positive
  <2>5. \A t \in M \ K : Longs(w, M)[t] = 0
    BY <1>2, <2>1 DEF Longs, Positive
  <2>6. SumFunctionOnSet(Longs(w, M), K) = SumFunctionOnSet(Longs(w, M), M)
    BY <2>1, <2>4, <2>5, SumOfPart
  <2>7. /\ SectorExposure(v, sectors, s) = SumFunctionOnSet(Longs(v, K), K)
        /\ SectorExposure(w, sectors, s) = SumFunctionOnSet(Longs(w, M), M)
    BY ExposuresAreSums DEF M, K
  <2> QED
    BY <2>3, <2>6, <2>7
<1>9. Gross(v) = Gross(w) /\ SignedNet(v) = SignedNet(w)
  BY <1>6, <1>7, ExposuresAreSums
<1> QED
  BY <1>2, <1>3, <1>5, <1>8, <1>9 DEF v

(* Twice the turnover is a natural number, and zero from a book to itself. *)
LEMMA MovedType ==
  ASSUME NEW v, WeightMap(v), NEW w, WeightMap(w)
  PROVE  /\ Moved(v, w) \in Nat
         /\ v = w => Moved(v, w) = 0
<1> DEFINE S == DOMAIN v \union DOMAIN w
           f == [t \in S |-> Abs(Weight(v, t) - Weight(w, t))]
<1>1. IsFiniteSet(S)
  BY FS_Union DEF WeightMap
<1>2. \A t : Weight(v, t) \in Int /\ Weight(w, t) \in Int
  BY DEF Weight, WeightMap
<1>3. \A t \in S : f[t] \in Nat
  BY <1>2 DEF Abs
<1>4. Moved(v, w) = SumFunctionOnSet(f, S)
  <2>1. Moved(v, w) = SumFunction(f) /\ DOMAIN f = S
    BY DEF Moved
  <2> QED
    BY <2>1, SumOfFunction
<1>5. ASSUME v = w PROVE SumFunctionOnSet(f, S) = 0
  <2>1. \A t \in S : f[t] = 0
    BY <1>2, <1>5 DEF Abs
  <2> HIDE DEF f, S
  <2>2. {} \in SUBSET S /\ (\A t \in S \ {} : f[t] = 0) /\ (\A t \in S : f[t] \in Int)
    BY <2>1
  <2> QED
    BY <1>1, <2>2, SumOfPart, SumOfNothing
<1> HIDE DEF f, S
<1> QED
  BY <1>1, <1>3, <1>4, <1>5, SumNatural

LEMMA LimitedIsABook ==
  ASSUME NEW safe, WeightMap(safe), NEW current, WeightMap(current),
         NEW policy, PolicySound(policy), Moved(safe, current) > 2 * policy.maxTurnover
  PROVE  LET w == Limited(safe, current, policy)
         IN  /\ WeightMap(w)
             /\ DOMAIN w = DOMAIN safe \union DOMAIN current
             /\ \A t \in DOMAIN w : Abs(Weight(safe, t)) < Abs(Weight(current, t))
                                      => w[t] = Weight(safe, t)
<1> DEFINE w == Limited(safe, current, policy)
           S == DOMAIN safe \union DOMAIN current
           moved == Moved(safe, current)
           part == 2 * policy.maxTurnover
<1>1. DOMAIN w = S /\ w = [t \in DOMAIN w |-> w[t]]
  BY DEF Limited
<1>2. \A t \in S : w[t] = IF Abs(Weight(safe, t)) < Abs(Weight(current, t)) THEN Weight(safe, t)
                          ELSE Weight(current, t)
                                 + Scale(Weight(safe, t) - Weight(current, t), part, moved)
  BY DEF Limited
<1>3. moved \in Nat \ {0} /\ part \in Nat /\ part <= moved
  BY MovedType DEF PolicySound
<1>4. \A t : Weight(safe, t) \in Int /\ Weight(current, t) \in Int
  BY DEF Weight, WeightMap
<1> HIDE DEF w, moved, part
<1>5. \A t \in S : w[t] \in Int
  <2> SUFFICES ASSUME NEW t \in S PROVE w[t] \in Int
    OBVIOUS
  <2>1. Weight(safe, t) - Weight(current, t) \in Int
    BY <1>4
  <2>2. Scale(Weight(safe, t) - Weight(current, t), part, moved) \in Int
    BY <1>3, <2>1, ScaleShrinks
  <2> QED
    BY <1>2, <1>4, <2>2
<1>6. IsFiniteSet(S)
  BY FS_Union DEF WeightMap
<1>7. WeightMap(w)
  BY <1>1, <1>5, <1>6 DEF WeightMap
<1> QED
  BY <1>1, <1>2, <1>7 DEF w

-----------------------------------------------------------------------------
(* The second pass of the clamps: what is left after the turnover limit.   *)
LEMMA RestrainedIsWithin ==
  ASSUME NEW target, WeightMap(target), NEW current, WeightMap(current),
         NEW policy, PolicySound(policy), NEW sectors
  PROVE  LET safe       == SafetyClamps(target, policy, sectors)
             restrained == Restrained(safe, current, policy, sectors)
         IN  /\ Shrunk(safe, target)
             /\ WeightMap(restrained) /\ Within(restrained, policy, sectors)
             /\ DOMAIN restrained \subseteq DOMAIN target \union DOMAIN current
             /\ \A t \in DOMAIN restrained :
                  Abs(Weight(target, t)) < Abs(Weight(current, t))
                    => Abs(restrained[t]) <= Abs(Weight(target, t))
<1> DEFINE safe == SafetyClamps(target, policy, sectors)
           limited == Limited(safe, current, policy)
           restrained == Restrained(safe, current, policy, sectors)
<1>1. Shrunk(safe, target) /\ Within(safe, policy, sectors)
  BY ClampsShrink
<1>2. restrained = IF Moved(safe, current) > 2 * policy.maxTurnover
                   THEN SafetyClamps(limited, policy, sectors) ELSE safe
  BY DEF Restrained
<1> HIDE DEF safe, restrained
<1>3. WeightMap(safe) /\ DOMAIN safe = DOMAIN target
  BY <1>1 DEF Shrunk
<1>4. \A t : /\ Abs(Weight(safe, t)) <= Abs(Weight(target, t))
             /\ Abs(Weight(safe, t)) \in Nat /\ Abs(Weight(target, t)) \in Nat
             /\ Abs(Weight(current, t)) \in Nat
  <2>1. \A t : /\ Weight(safe, t) \in Int /\ Weight(target, t) \in Int
               /\ Weight(current, t) \in Int
               /\ Toward(Weight(safe, t), Weight(target, t))
    BY <1>1, <1>3 DEF Weight, WeightMap, Shrunk, Toward
  <2>2. \A x \in Int : Abs(x) \in Nat
    BY DEF Abs
  <2> QED
    BY <2>1, <2>2, TowardAbs
<1>5. CASE Moved(safe, current) > 2 * policy.maxTurnover
  <2>1. restrained = SafetyClamps(limited, policy, sectors)
    BY <1>2, <1>5
  <2>2. /\ WeightMap(limited) /\ DOMAIN limited = DOMAIN safe \union DOMAIN current
        /\ \A t \in DOMAIN limited : Abs(Weight(safe, t)) < Abs(Weight(current, t))
                                       => limited[t] = Weight(safe, t)
    BY <1>3, <1>5, LimitedIsABook
  <2> HIDE DEF limited
  <2>3. Shrunk(restrained, limited) /\ Within(restrained, policy, sectors)
    BY <2>1, <2>2, ClampsShrink
  <2>4. WeightMap(restrained) /\ DOMAIN restrained = DOMAIN target \union DOMAIN current
    BY <1>3, <2>2, <2>3 DEF Shrunk
  <2>5. ASSUME NEW t \in DOMAIN restrained,
               Abs(Weight(target, t)) < Abs(Weight(current, t))
        PROVE  Abs(restrained[t]) <= Abs(Weight(target, t))
    <3>1. Abs(Weight(safe, t)) < Abs(Weight(current, t))
      BY <1>4, <2>5
    <3>2. limited[t] = Weight(safe, t)
      BY <1>3, <2>2, <2>4, <3>1
    <3>3. restrained[t] \in Int /\ limited[t] \in Int /\ Toward(restrained[t], limited[t])
      BY <1>3, <2>2, <2>3, <2>4 DEF Shrunk, WeightMap
    <3>4. Abs(restrained[t]) \in Nat /\ Abs(restrained[t]) <= Abs(limited[t])
      BY <3>3, TowardAbs
    <3> QED
      BY <1>4, <3>2, <3>4
  <2> QED
    BY <1>1, <2>3, <2>4, <2>5 DEF safe, restrained
<1>6. CASE ~(Moved(safe, current) > 2 * policy.maxTurnover)
  <2>1. restrained = safe
    BY <1>2, <1>6
  <2>2. \A t \in DOMAIN restrained : Abs(restrained[t]) <= Abs(Weight(target, t))
    BY <1>4, <2>1 DEF Weight
  <2> QED
    BY <1>1, <1>3, <2>1, <2>2 DEF safe, restrained
<1> QED
  BY <1>5, <1>6

-----------------------------------------------------------------------------
(* The decision of the gate, for every proposal and book.                  *)
LEMMA EvaluateParts ==
  ASSUME NEW target, NEW current, NEW policy, NEW sectors, NEW allocations
  PROVE  LET safe       == SafetyClamps(target, policy, sectors)
             restrained == Restrained(safe, current, policy, sectors)
             final      == DropZeros(restrained)
             d          == Evaluate(target, current, policy, sectors, allocations)
         IN  /\ d.weights = final
             /\ d.approved <=> d.violations = {}
             /\ d.violations = {rule \in {"unclassified"} : \/ Unclassified(safe, sectors)
                                                            \/ Unclassified(restrained, sectors)}
                                 \union {rule \in {"strategy"} : \E s \in DOMAIN allocations :
                                            allocations[s] > policy.maxStrategy}
                                 \union Remaining(final, policy, sectors)
BY DEF Evaluate

(* What the limits leave is not a violation of any of them.                *)
LEMMA WithinRemains ==
  ASSUME NEW w, WeightMap(w), NEW policy, PolicySound(policy), NEW sectors,
         Within(w, policy, sectors), ~Unclassified(w, sectors)
  PROVE  /\ Remaining(w, policy, sectors) \subseteq {"net"}
         /\ NetIsCapped(policy) => Remaining(w, policy, sectors) = {}
<1>1. /\ Gross(w) \in Nat /\ SignedNet(w) \in Int /\ SignedNet(w) <= Gross(w)
      /\ Abs(SignedNet(w)) \in Nat
      /\ \A s : SectorExposure(w, sectors, s) \in Nat
  BY ExposureTypes, AbsSignedNet
<1>2. \A t \in DOMAIN w : w[t] \in Int /\ Abs(w[t]) \in Nat
  BY DEF WeightMap, Abs
<1>3. /\ GrossCap(policy) \in Nat /\ GrossCap(policy) <= policy.maxGross
      /\ GrossCap(policy) <= policy.one - policy.minCash
  BY GrossCapType
<1>4. ~policy.allowShorting => ~\E t \in DOMAIN w : w[t] < 0
  BY <1>2 DEF Within
<1>5. ~\E t \in DOMAIN w : Abs(w[t]) > policy.maxPosition
  BY <1>2 DEF Within, PolicySound
<1>6. ~\E t \in DOMAIN w : SectorExposure(w, sectors, sectors[t]) > policy.maxSector
  BY <1>1 DEF Within, PolicySound
<1>7. ~(Gross(w) > policy.maxGross)
  BY <1>1, <1>3 DEF Within, PolicySound
<1>8. ~policy.allowLeverage => ~(Gross(w) > policy.one)
  BY <1>1, <1>3 DEF Within, PolicySound
<1>9. ~(policy.one - SignedNet(w) < policy.minCash)
  BY <1>1, <1>3 DEF Within, PolicySound
<1>10. NetIsCapped(policy) => ~(Abs(SignedNet(w)) > policy.maxNet)
  BY <1>1 DEF Within, PolicySound
<1>11. Remaining(w, policy, sectors) \subseteq {"net"}
  BY <1>4, <1>5, <1>6, <1>7, <1>8, <1>9 DEF Remaining
<1>12. NetIsCapped(policy) => "net" \notin Remaining(w, policy, sectors)
  BY <1>10 DEF Remaining
<1> QED
  BY <1>11, <1>12

(* The clamps are sufficient: of a classified proposal and book, with no   *)
(* strategy over its share, only the net of a book with shorts is left.    *)
LEMMA EvaluateClamps ==
  ASSUME NEW target, WeightMap(target), NEW current, WeightMap(current),
         NEW policy, PolicySound(policy), NEW sectors, NEW allocations,
         DOMAIN target \union DOMAIN current \subseteq DOMAIN sectors,
         \A s \in DOMAIN allocations : ~(allocations[s] > policy.maxStrategy)
  PROVE  LET d == Evaluate(target, current, policy, sectors, allocations)
         IN  /\ d.violations \subseteq {"net"}
             /\ NetIsCapped(policy) => d.approved
<1> DEFINE safe       == SafetyClamps(target, policy, sectors)
           restrained == Restrained(safe, current, policy, sectors)
           final      == DropZeros(restrained)
           d          == Evaluate(target, current, policy, sectors, allocations)
<1>1. /\ Shrunk(safe, target)
      /\ WeightMap(restrained) /\ Within(restrained, policy, sectors)
      /\ DOMAIN restrained \subseteq DOMAIN target \union DOMAIN current
  BY RestrainedIsWithin
<1>2. /\ d.approved <=> d.violations = {}
      /\ d.violations = {rule \in {"unclassified"} : \/ Unclassified(safe, sectors)
                                                     \/ Unclassified(restrained, sectors)}
                          \union {rule \in {"strategy"} : \E s \in DOMAIN allocations :
                                     allocations[s] > policy.maxStrategy}
                          \union Remaining(final, policy, sectors)
  BY EvaluateParts
<1> HIDE DEF safe, restrained, d
<1>3. ~Unclassified(safe, sectors) /\ ~Unclassified(restrained, sectors)
  BY <1>1 DEF Shrunk, Unclassified
<1>4. /\ WeightMap(final) /\ DOMAIN final \subseteq DOMAIN restrained
      /\ \A t \in DOMAIN final : final[t] = restrained[t]
      /\ Gross(final) = Gross(restrained) /\ SignedNet(final) = SignedNet(restrained)
      /\ \A s : SectorExposure(final, sectors, s) = SectorExposure(restrained, sectors, s)
  BY <1>1, DropZerosKeeps
<1> HIDE DEF final
<1>5. Within(final, policy, sectors) /\ ~Unclassified(final, sectors)
  BY <1>1, <1>3, <1>4 DEF Within, Unclassified
<1>6. /\ Remaining(final, policy, sectors) \subseteq {"net"}
      /\ NetIsCapped(policy) => Remaining(final, policy, sectors) = {}
  BY <1>4, <1>5, WithinRemains
<1>7. d.violations = Remaining(final, policy, sectors)
  BY <1>2, <1>3
<1> QED
  BY <1>2, <1>6, <1>7 DEF d

(* A reduction is honoured, whatever the turnover limit.                   *)
LEMMA EvaluateReduces ==
  ASSUME NEW target, WeightMap(target), NEW current, WeightMap(current),
         NEW policy, PolicySound(policy), NEW sectors, NEW allocations,
         NEW t \in DOMAIN current, Abs(Weight(target, t)) < Abs(current[t])
  PROVE  LET d == Evaluate(target, current, policy, sectors, allocations)
         IN  Abs(Weight(d.weights, t)) <= Abs(Weight(target, t))
<1> DEFINE safe       == SafetyClamps(target, policy, sectors)
           restrained == Restrained(safe, current, policy, sectors)
           final      == DropZeros(restrained)
<1>1. /\ WeightMap(restrained)
      /\ \A u \in DOMAIN restrained :
           Abs(Weight(target, u)) < Abs(Weight(current, u))
             => Abs(restrained[u]) <= Abs(Weight(target, u))
  BY RestrainedIsWithin
<1>2. Evaluate(target, current, policy, sectors, allocations).weights = final
  BY EvaluateParts
<1> HIDE DEF restrained
<1>3. /\ DOMAIN final \subseteq DOMAIN restrained
      /\ \A u \in DOMAIN final : final[u] = restrained[u]
  BY <1>1, DropZerosKeeps
<1> HIDE DEF final
<1>4. Abs(Weight(target, t)) \in Nat
  BY DEF Weight, WeightMap, Abs
<1>5. CASE t \in DOMAIN final
  <2>1. Weight(final, t) = restrained[t] /\ Weight(current, t) = current[t]
    BY <1>3, <1>5 DEF Weight
  <2> QED
    BY <1>1, <1>2, <1>3, <1>5, <2>1
<1>6. CASE t \notin DOMAIN final
  <2>1. Abs(Weight(final, t)) = 0
    BY <1>6 DEF Weight, Abs
  <2> QED
    BY <1>2, <1>4, <2>1
<1> QED
  BY <1>5, <1>6

(* The clamps leave alone what is within the limits.                       *)
LEMMA ClampsIdle ==
  ASSUME NEW w, WeightMap(w), NEW policy, PolicySound(policy), NEW sectors,
         policy.allowShorting \/ \A t \in DOMAIN w : w[t] >= 0,
         \A t \in DOMAIN w : Abs(w[t]) <= policy.maxPosition,
         \/ Unclassified(w, sectors)
         \/ \A t \in DOMAIN w : SectorExposure(w, sectors, sectors[t]) <= policy.maxSector,
         Gross(w) <= GrossCap(policy), Abs(SignedNet(w)) <= policy.maxNet
  PROVE  SafetyClamps(w, policy, sectors) = w
<1>1. NoShorting(w, policy) = w
  <2>1. CASE policy.allowShorting
    BY <2>1 DEF NoShorting
  <2>2. CASE ~policy.allowShorting
    <3>1. \A t \in DOMAIN w : w[t] \in Int /\ w[t] >= 0
      BY <2>2 DEF WeightMap
    <3>2. \A t \in DOMAIN w : Positive(w[t]) = w[t]
      BY <3>1 DEF Positive
    <3> QED
      BY <2>2, <3>2 DEF NoShorting, WeightMap
  <2> QED
    BY <2>1, <2>2
<1>2. CapPositions(w, policy) = w
  BY DEF CapPositions, WeightMap
<1>3. CapSectors(w, policy, sectors) = w
  <2>1. CASE Unclassified(w, sectors)
    BY <2>1 DEF CapSectors
  <2>2. CASE ~Unclassified(w, sectors)
    <3>1. \A t \in DOMAIN w : ~(SectorExposure(w, sectors, sectors[t]) > policy.maxSector)
      <4>1. \A t \in DOMAIN w : SectorExposure(w, sectors, sectors[t]) <= policy.maxSector
        BY <2>2
      <4>2. \A s : SectorExposure(w, sectors, s) \in Nat
        BY ExposureTypes
      <4> QED
        BY <4>1, <4>2 DEF PolicySound
    <3>2. CapSectors(w, policy, sectors) = [t \in DOMAIN w |-> w[t]]
      BY <2>2, <3>1 DEF CapSectors
    <3> QED
      BY <3>2 DEF WeightMap
  <2> QED
    BY <2>1, <2>2
<1>4. CapExposure(w, policy) = w
  BY CapExposureShrinks
<1> QED
  BY <1>1, <1>2, <1>3, <1>4 DEF SafetyClamps

(* An approved book is a fixed point of the gate.                          *)
LEMMA EvaluateStable ==
  ASSUME NEW target, WeightMap(target), NEW current, WeightMap(current),
         NEW policy, PolicySound(policy), NEW sectors, NEW allocations,
         Evaluate(target, current, policy, sectors, allocations).approved
  PROVE  LET w     == Evaluate(target, current, policy, sectors, allocations).weights
             again == Evaluate(w, w, policy, sectors, allocations)
         IN  again.approved /\ again.weights = w
<1> DEFINE safe       == SafetyClamps(target, policy, sectors)
           restrained == Restrained(safe, current, policy, sectors)
           w          == DropZeros(restrained)
           d          == Evaluate(target, current, policy, sectors, allocations)
           again      == Evaluate(w, w, policy, sectors, allocations)
<1>1. WeightMap(restrained) /\ Within(restrained, policy, sectors)
  BY RestrainedIsWithin
<1>2. /\ d.weights = w
      /\ ~\E s \in DOMAIN allocations : allocations[s] > policy.maxStrategy
      /\ Remaining(w, policy, sectors) = {}
  BY EvaluateParts
<1> HIDE DEF restrained, d
<1>3. /\ WeightMap(w) /\ \A t \in DOMAIN w : w[t] # 0
      /\ Gross(w) = Gross(restrained)
  BY <1>1, DropZerosKeeps
<1> HIDE DEF w
<1>4. /\ policy.allowShorting \/ ~\E t \in DOMAIN w : w[t] < 0
      /\ ~\E t \in DOMAIN w : Abs(w[t]) > policy.maxPosition
      /\ ~Unclassified(w, sectors)
      /\ ~\E t \in DOMAIN w : SectorExposure(w, sectors, sectors[t]) > policy.maxSector
      /\ ~(Abs(SignedNet(w)) > policy.maxNet)
  BY <1>2 DEF Remaining
<1>5. SafetyClamps(w, policy, sectors) = w
  <2>1. \A t \in DOMAIN w : w[t] \in Int /\ Abs(w[t]) \in Nat
    BY <1>3 DEF WeightMap, Abs
  <2>2. /\ \A s : SectorExposure(w, sectors, s) \in Nat
        /\ Abs(SignedNet(w)) \in Nat
    BY <1>3, ExposureTypes, AbsSignedNet
  <2>3. policy.allowShorting \/ \A t \in DOMAIN w : w[t] >= 0
    BY <1>4, <2>1
  <2>4. \A t \in DOMAIN w : Abs(w[t]) <= policy.maxPosition
    BY <1>4, <2>1 DEF PolicySound
  <2>5. \A t \in DOMAIN w : SectorExposure(w, sectors, sectors[t]) <= policy.maxSector
    BY <1>4, <2>2 DEF PolicySound
  <2>6. Gross(w) <= GrossCap(policy) /\ Abs(SignedNet(w)) <= policy.maxNet
    BY <1>1, <1>3, <1>4, <2>2 DEF Within, PolicySound
  <2> QED
    BY <1>3, <2>3, <2>4, <2>5, <2>6, ClampsIdle
<1>6. Restrained(w, w, policy, sectors) = w
  <2>1. Moved(w, w) = 0
    BY <1>3, MovedType
  <2>2. ~(Moved(w, w) > 2 * policy.maxTurnover)
    BY <2>1 DEF PolicySound
  <2> QED
    BY <2>2 DEF Restrained
<1>7. DropZeros(w) = w
  <2>1. {t \in DOMAIN w : w[t] # 0} = DOMAIN w
    BY <1>3
  <2> QED
    BY <1>3, <2>1, DropZerosIs DEF WeightMap
<1>8. /\ again.weights = w
      /\ again.approved <=> again.violations = {}
      /\ again.violations = {rule \in {"unclassified"} : \/ Unclassified(w, sectors)
                                                         \/ Unclassified(w, sectors)}
                              \union {rule \in {"strategy"} : \E s \in DOMAIN allocations :
                                         allocations[s] > policy.maxStrategy}
                              \union Remaining(w, policy, sectors)
  BY <1>5, <1>6, <1>7, EvaluateParts
<1>9. again.violations = {}
  BY <1>2, <1>4, <1>8
<1> QED
  BY <1>2, <1>8, <1>9 DEF d

-----------------------------------------------------------------------------
(* The decision is a book again, of tickers proposed or held.              *)
LEMMA EvaluateIsABook ==
  ASSUME NEW target, WeightMap(target), NEW current, WeightMap(current),
         NEW policy, PolicySound(policy), NEW sectors, NEW allocations
  PROVE  LET w == Evaluate(target, current, policy, sectors, allocations).weights
         IN  WeightMap(w) /\ DOMAIN w \subseteq DOMAIN target \union DOMAIN current
<1> DEFINE restrained == Restrained(SafetyClamps(target, policy, sectors), current, policy, sectors)
<1>1. WeightMap(restrained) /\ DOMAIN restrained \subseteq DOMAIN target \union DOMAIN current
  BY RestrainedIsWithin
<1>2. Evaluate(target, current, policy, sectors, allocations).weights = DropZeros(restrained)
  BY EvaluateParts
<1> HIDE DEF restrained
<1> QED
  BY <1>1, <1>2, DropZerosKeeps

(* Approved or not, the book it gives is within the limits that the clamps *)
(* enforce.                                                                *)
LEMMA EvaluateIsWithin ==
  ASSUME NEW target, WeightMap(target), NEW current, WeightMap(current),
         NEW policy, PolicySound(policy), NEW sectors, NEW allocations
  PROVE  LET w == Evaluate(target, current, policy, sectors, allocations).weights
         IN  /\ \A t \in DOMAIN w : Abs(w[t]) <= policy.maxPosition
             /\ Gross(w) <= policy.maxGross
<1> DEFINE restrained == Restrained(SafetyClamps(target, policy, sectors), current, policy, sectors)
           w == DropZeros(restrained)
<1>1. WeightMap(restrained) /\ Within(restrained, policy, sectors)
  BY RestrainedIsWithin
<1>2. Evaluate(target, current, policy, sectors, allocations).weights = w
  BY EvaluateParts
<1> HIDE DEF restrained
<1>3. /\ DOMAIN w \subseteq DOMAIN restrained /\ Gross(w) = Gross(restrained)
      /\ \A t \in DOMAIN w : w[t] = restrained[t]
  BY <1>1, DropZerosKeeps
<1>4. /\ \A t \in DOMAIN restrained : Abs(restrained[t]) <= policy.maxPosition
      /\ Gross(restrained) <= GrossCap(policy)
  BY <1>1 DEF Within
<1>5. Gross(restrained) \in Nat /\ GrossCap(policy) \in Nat /\ GrossCap(policy) <= policy.maxGross
  BY <1>1, ExposureTypes, GrossCapType
<1>6. policy.maxGross \in Nat
  BY DEF PolicySound
<1> HIDE DEF w
<1>7. Gross(w) <= policy.maxGross
  BY <1>3, <1>4, <1>5, <1>6
<1>8. \A t \in DOMAIN w : Abs(w[t]) <= policy.maxPosition
  BY <1>3, <1>4
<1> QED
  BY <1>2, <1>7, <1>8

-----------------------------------------------------------------------------
(* What a decision adds to a book is within the turnover limit: reductions *)
(* are not delayed, additions are interpolated.                            *)
Changes(v, w, T) == [t \in T |-> Abs(Weight(v, t) - Weight(w, t))]
Additions(v, w, T) == [t \in T |-> Positive(Weight(v, t) - Weight(w, t))]
Growth(v, w, T) ==
  [t \in T |-> IF Abs(Weight(v, t)) > Abs(Weight(w, t)) THEN Abs(Weight(v, t) - Weight(w, t))
               ELSE 0]

LEMMA MovedIsASum ==
  ASSUME NEW v, WeightMap(v), NEW w, WeightMap(w), NEW T, IsFiniteSet(T),
         DOMAIN v \union DOMAIN w \subseteq T
  PROVE  Moved(v, w) = SumFunctionOnSet(Changes(v, w, T), T)
<1> DEFINE S == DOMAIN v \union DOMAIN w
           f == [t \in S |-> Abs(Weight(v, t) - Weight(w, t))]
           g == Changes(v, w, T)
<1>1. \A t : Weight(v, t) \in Int /\ Weight(w, t) \in Int
  BY DEF Weight, WeightMap
<1>2. /\ \A t \in T : g[t] \in Int
      /\ \A t \in T \ S : g[t] = 0
      /\ \A t \in S : f[t] \in Int /\ f[t] = g[t]
  BY <1>1 DEF Weight, Abs, Changes
<1>3. Moved(v, w) = SumFunctionOnSet(f, S)
  <2>1. Moved(v, w) = SumFunction(f) /\ DOMAIN f = S
    BY DEF Moved
  <2> QED
    BY <2>1, SumOfFunction
<1>4. S \in SUBSET T /\ IsFiniteSet(S)
  BY FS_Subset
<1> HIDE DEF S, f, g
<1>5. SumFunctionOnSet(f, S) = SumFunctionOnSet(g, S)
  BY <1>2, <1>4, SumOfEquals
<1>6. SumFunctionOnSet(g, S) = SumFunctionOnSet(g, T)
  BY <1>2, <1>4, SumOfPart
<1> QED
  BY <1>3, <1>5, <1>6 DEF g

(* One ticker: safe, current and final weight, moved the doubled turnover, *)
(* part the doubled limit.                                                 *)
LEMMA GrowthIsLimited ==
  ASSUME NEW safe \in Int, NEW current \in Int, NEW final \in Int,
         NEW moved \in Nat \ {0}, NEW part \in Nat, part <= moved,
         Toward(final, IF Abs(safe) < Abs(current) THEN safe
                       ELSE current + Scale(safe - current, part, moved)),
         Abs(final) > Abs(current)
  PROVE  moved * Abs(final - current) <= part * Abs(safe - current)
<1> DEFINE d == safe - current
           e == Scale(d, part, moved)
<1>1. ~(Abs(safe) < Abs(current))
  BY DEF Toward, Abs
<1>2. Toward(final, current + e)
  BY <1>1
<1>3. d \in Int
  OBVIOUS
<1> HIDE DEF d, e
<1>4. e \in Int /\ Toward(e, d) /\ moved * Abs(e) <= part * Abs(d)
  BY <1>3, ScaleShrinks DEF e
<1>5. Abs(final - current) \in Nat /\ Abs(e) \in Nat /\ Abs(final - current) <= Abs(e)
  BY <1>2, <1>4 DEF Toward, Abs
<1>6. moved * Abs(final - current) <= moved * Abs(e)
  BY <1>5, TimesMonotone
<1> DEFINE x == moved * Abs(final - current)
           y == moved * Abs(e)
           z == part * Abs(d)
<1>7. Abs(d) \in Nat
  BY <1>3 DEF Abs
<1>8. x \in Int /\ y \in Int /\ z \in Int /\ x <= y /\ y <= z
  BY <1>4, <1>5, <1>6, <1>7
<1> HIDE DEF x, y, z
<1>9. x <= z
  BY <1>8
<1> QED
  BY <1>9 DEF x, z, d

(* What the positions that grow trade is within the turnover limit.        *)
LEMMA EvaluateLimitsGrowth ==
  ASSUME NEW target, WeightMap(target), NEW current, WeightMap(current),
         NEW policy, PolicySound(policy), NEW sectors, NEW allocations,
         NEW T, IsFiniteSet(T), DOMAIN target \union DOMAIN current \subseteq T
  PROVE  LET w == Evaluate(target, current, policy, sectors, allocations).weights
         IN  /\ WeightMap(w) /\ DOMAIN w \subseteq T
             /\ ~policy.allowShorting => \A t \in T : Weight(w, t) \in Nat
             /\ SumFunctionOnSet(Growth(w, current, T), T) <= 2 * policy.maxTurnover
<1> DEFINE safe == SafetyClamps(target, policy, sectors)
           limited == Limited(safe, current, policy)
           restrained == Restrained(safe, current, policy, sectors)
           w == Evaluate(target, current, policy, sectors, allocations).weights
           moved == Moved(safe, current)
           part == 2 * policy.maxTurnover
           f == Growth(w, current, T)
           g == Changes(safe, current, T)
<1>1. /\ Shrunk(safe, target) /\ Within(safe, policy, sectors)
      /\ WeightMap(restrained) /\ Within(restrained, policy, sectors)
      /\ DOMAIN restrained \subseteq DOMAIN target \union DOMAIN current
  BY RestrainedIsWithin, ClampsShrink
<1>2. WeightMap(safe) /\ DOMAIN safe = DOMAIN target
  BY <1>1 DEF Shrunk
<1>3. w = DropZeros(restrained)
  BY EvaluateParts
<1>4. restrained = IF moved > part THEN SafetyClamps(limited, policy, sectors) ELSE safe
  BY DEF Restrained
<1> HIDE DEF safe, restrained, w
<1>5. /\ \A t : Weight(w, t) = Weight(restrained, t)
      /\ WeightMap(w) /\ DOMAIN w \subseteq T
  <2>1. /\ DOMAIN DropZeros(restrained) \subseteq DOMAIN restrained
        /\ WeightMap(DropZeros(restrained))
        /\ \A t \in DOMAIN restrained : Weight(DropZeros(restrained), t) = restrained[t]
    BY <1>1, DropZerosKeeps
  <2> QED
    BY <1>1, <1>3, <2>1 DEF Weight
<1>6. \A t : /\ Weight(restrained, t) \in Int /\ Weight(safe, t) \in Int
             /\ Weight(current, t) \in Int
             /\ ~policy.allowShorting => Weight(restrained, t) \in Nat
  BY <1>1, <1>2 DEF Weight, WeightMap, Within
<1>7. moved \in Nat /\ part \in Nat /\ moved = SumFunctionOnSet(g, T)
  BY <1>2, MovedType, MovedIsASum DEF PolicySound
<1>8. \A t \in T :
        /\ f[t] = IF Abs(Weight(restrained, t)) > Abs(Weight(current, t))
                  THEN Abs(Weight(restrained, t) - Weight(current, t)) ELSE 0
        /\ g[t] = Abs(Weight(safe, t) - Weight(current, t))
        /\ f[t] \in Int /\ g[t] \in Int /\ g[t] \in Nat
  BY <1>5, <1>6 DEF Growth, Changes, Abs
<1> HIDE DEF f, g
<1>9. CASE ~(moved > part)
  <2>1. \A t \in T : f[t] \in Int /\ g[t] \in Int /\ f[t] <= g[t]
    <3> TAKE t \in T
    <3>1. restrained = safe
      BY <1>4, <1>9
    <3> QED
      BY <1>8, <3>1
  <2>2. SumFunctionOnSet(f, T) <= SumFunctionOnSet(g, T)
    BY <2>1, SumDominated
  <2>3. SumFunctionOnSet(f, T) \in Int
    BY <1>8, SumWithout
  <2>4. SumFunctionOnSet(f, T) <= part
    <3> HIDE DEF moved, part
    <3> QED
      BY <1>7, <1>9, <2>2, <2>3
  <2> QED
    BY <1>5, <1>6, <2>4 DEF f, w
<1>10. CASE moved > part
  <2>1. restrained = SafetyClamps(limited, policy, sectors)
    BY <1>4, <1>10
  <2>2. WeightMap(limited) /\ DOMAIN limited = DOMAIN safe \union DOMAIN current
    BY <1>2, <1>10, LimitedIsABook
  <2>3. \A t \in DOMAIN limited :
          limited[t] = IF Abs(Weight(safe, t)) < Abs(Weight(current, t)) THEN Weight(safe, t)
                       ELSE Weight(current, t)
                              + Scale(Weight(safe, t) - Weight(current, t), part, moved)
    BY DEF Limited
  <2> HIDE DEF limited
  <2>4. Shrunk(restrained, limited)
    BY <2>1, <2>2, ClampsShrink
  <2>5. moved \in Nat \ {0} /\ part <= moved
    <3> HIDE DEF moved, part
    <3> QED
      BY <1>7, <1>10
  <2>6. ASSUME NEW t \in T PROVE moved * f[t] <= part * g[t]
    <3> DEFINE a == Weight(safe, t)
               b == Weight(current, t)
               c == Weight(restrained, t)
    <3>1. a \in Int /\ b \in Int /\ c \in Int
      BY <1>6
    <3>2. f[t] = (IF Abs(c) > Abs(b) THEN Abs(c - b) ELSE 0) /\ g[t] = Abs(a - b)
      BY <1>8
    <3>3. CASE ~(Abs(c) > Abs(b))
      <4>1. f[t] = 0 /\ g[t] \in Nat
        BY <1>8, <3>2, <3>3
      <4> HIDE DEF moved, part
      <4> QED
        BY <1>7, <4>1
    <3>4. CASE Abs(c) > Abs(b)
      <4>1. t \in DOMAIN limited
        <5>1. t \notin DOMAIN limited => c = 0
          BY <2>4 DEF Shrunk, Weight
        <5> QED
          BY <3>1, <3>4, <5>1 DEF Abs
      <4>2. Toward(c, IF Abs(a) < Abs(b) THEN a ELSE b + Scale(a - b, part, moved))
        BY <2>3, <2>4, <4>1 DEF Shrunk, Weight
      <4> HIDE DEF a, b, c, moved, part
      <4>3. moved * Abs(c - b) <= part * Abs(a - b)
        BY <1>7, <2>5, <3>1, <3>4, <4>2, GrowthIsLimited
      <4> QED
        BY <3>2, <3>4, <4>3
    <3> QED
      BY <3>3, <3>4
  <2> HIDE DEF moved, part
  <2>7. moved * SumFunctionOnSet(f, T) <= part * SumFunctionOnSet(g, T)
    <3>1. \A t \in T : f[t] \in Int /\ g[t] \in Int /\ moved * f[t] <= part * g[t]
      BY <1>8, <2>6
    <3>2. moved \in Int /\ part \in Int
      BY <1>7
    <3> QED
      BY <3>1, <3>2, SumBounded
  <2>8. SumFunctionOnSet(f, T) \in Int
    BY <1>8, SumWithout
  <2> DEFINE x == SumFunctionOnSet(f, T)
  <2>9. moved * x <= moved * part
    <3>1. part * moved = moved * part
      BY <1>7
    <3> QED
      BY <1>7, <2>7, <3>1
  <2> HIDE DEF x
  <2>10. x <= part
    BY <1>7, <2>5, <2>8, <2>9, TimesCancel DEF x
  <2> QED
    BY <1>5, <1>6, <2>10 DEF f, w, x, part
<1> QED
  BY <1>9, <1>10

(* Of a long book, these are all the additions.                            *)
LEMMA EvaluateLimitsAdditions ==
  ASSUME NEW target, WeightMap(target), NEW current, WeightMap(current),
         \A t \in DOMAIN current : current[t] >= 0,
         NEW policy, PolicySound(policy), ~policy.allowShorting, NEW sectors, NEW allocations,
         NEW T, IsFiniteSet(T), DOMAIN target \union DOMAIN current \subseteq T
  PROVE  LET w == Evaluate(target, current, policy, sectors, allocations).weights
         IN  /\ \A t \in T : Weight(w, t) \in Nat
             /\ SumFunctionOnSet(Additions(w, current, T), T) <= 2 * policy.maxTurnover
<1> DEFINE w == Evaluate(target, current, policy, sectors, allocations).weights
           f == Additions(w, current, T)
           g == Growth(w, current, T)
<1>1. /\ \A t \in T : Weight(w, t) \in Nat
      /\ SumFunctionOnSet(g, T) <= 2 * policy.maxTurnover
  BY EvaluateLimitsGrowth
<1>2. \A t \in T : Weight(current, t) \in Nat
  BY DEF Weight, WeightMap
<1> HIDE DEF w
<1>3. \A t \in T : f[t] \in Int /\ g[t] \in Int /\ f[t] = g[t]
  BY <1>1, <1>2 DEF Additions, Growth, Positive, Abs
<1> HIDE DEF f, g
<1>4. SumFunctionOnSet(f, T) = SumFunctionOnSet(g, T)
  BY <1>3, SumOfEquals
<1> QED
  BY <1>1, <1>4 DEF f, g, w

LEMMA EmptyBook ==
  ASSUME NEW w, w = [t \in {} |-> 0]
  PROVE  WeightMap(w) /\ DOMAIN w = {} /\ Gross(w) = 0 /\ SignedNet(w) = 0
<1>1. WeightMap(w) /\ DOMAIN w = {}
  BY FS_EmptySet DEF WeightMap
<1>2. Gross(w) = SumFunctionOnSet(Sizes(w), {}) /\ SignedNet(w) = SumFunctionOnSet(w, {})
  BY <1>1, ExposuresAreSums
<1> QED
  BY <1>1, <1>2, SumOfNothing

(* Nothing proposed to an empty book: approved, and nothing held.          *)
LEMMA EvaluateNothing ==
  ASSUME NEW w, w = [t \in {} |-> 0], NEW policy, PolicySound(policy)
  PROVE  Evaluate(w, w, policy, w, w) = [approved |-> TRUE, weights |-> w, violations |-> {}]
<1>1. WeightMap(w) /\ DOMAIN w = {} /\ Gross(w) = 0 /\ SignedNet(w) = 0
  BY EmptyBook
<1>2. GrossCap(policy) \in Nat /\ Abs(0) = 0
  BY GrossCapType DEF Abs
<1>3. SafetyClamps(w, policy, w) = w
  <2>1. Gross(w) <= GrossCap(policy) /\ Abs(SignedNet(w)) <= policy.maxNet
    BY <1>1, <1>2 DEF PolicySound
  <2>2. /\ \A t \in DOMAIN w : w[t] >= 0
        /\ \A t \in DOMAIN w : Abs(w[t]) <= policy.maxPosition
        /\ \A t \in DOMAIN w : SectorExposure(w, w, w[t]) <= policy.maxSector
    BY <1>1
  <2> QED
    BY <1>1, <2>1, <2>2, ClampsIdle
<1>4. Restrained(w, w, policy, w) = w
  <2>1. Moved(w, w) = 0
    BY <1>1, MovedType
  <2>2. ~(Moved(w, w) > 2 * policy.maxTurnover)
    BY <2>1 DEF PolicySound
  <2> QED
    BY <2>2 DEF Restrained
<1>5. DropZeros(w) = w
  BY <1>1, DropZerosIs
<1>6. ~Unclassified(w, w)
  BY DEF Unclassified
<1>7. Remaining(w, policy, w) = {}
  <2>1. /\ ~(Gross(w) > policy.maxGross)
        /\ ~(Abs(SignedNet(w)) > policy.maxNet)
        /\ ~(Gross(w) > policy.one)
        /\ ~(policy.one - SignedNet(w) < policy.minCash)
    BY <1>1, <1>2 DEF PolicySound
  <2>2. /\ ~\E t \in DOMAIN w : w[t] < 0
        /\ ~\E t \in DOMAIN w : Abs(w[t]) > policy.maxPosition
        /\ ~\E t \in DOMAIN w : SectorExposure(w, w, w[t]) > policy.maxSector
    BY <1>1
  <2> QED
    BY <1>6, <2>1, <2>2 DEF Remaining
<1>8. ~\E s \in DOMAIN w : w[s] > policy.maxStrategy
  BY <1>1
<1> QED
  BY <1>3, <1>4, <1>5, <1>6, <1>7, <1>8 DEF Evaluate

-----------------------------------------------------------------------------
(* By how much the common factor may miss the net limit where longs and    *)
(* shorts offset each other: a truncation takes less than a unit from one  *)
(* weight, so less than a unit for each of them from the net.              *)
LEMMA ScaleIsClose ==
  ASSUME NEW x \in Int, NEW num \in Nat, NEW den \in Nat \ {0}
  PROVE  /\ Scale(x, num, den) \in Int
         /\ den * Scale(x, num, den) <= num * x + den
         /\ num * x <= den * Scale(x, num, den) + den
<1>1. CASE x >= 0
  <2>1. Scale(x, num, den) = (x * num) \div den /\ x * num \in Int /\ x * num = num * x
    BY <1>1 DEF Scale
  <2>2. /\ (x * num) \div den \in Int /\ den * ((x * num) \div den) \in Int
        /\ den * ((x * num) \div den) <= x * num
        /\ x * num < den * ((x * num) \div den) + den
    BY <2>1, QuotientBounds
  <2> QED
    BY <2>1, <2>2
<1>2. CASE x < 0
  <2> DEFINE y == -x
             p == y * num
             d == p \div den
  <2>1. Scale(x, num, den) = -d /\ p \in Int /\ num * x = -p
    BY <1>2 DEF Scale
  <2> HIDE DEF p
  <2>2. d \in Int /\ den * d \in Int /\ den * d <= p /\ p < den * d + den
    BY <2>1, QuotientBounds
  <2> HIDE DEF d
  <2>3. den * (-d) = -(den * d)
    BY <2>2
  <2> QED
    BY <2>1, <2>2, <2>3
<1> QED
  BY <1>1, <1>2

LEMMA ScaledIsClose ==
  ASSUME NEW w, WeightMap(w), NEW q, Ratio(q)
  PROVE  /\ q[2] * SignedNet(Scaled(w, q)) <= q[1] * SignedNet(w) + q[2] * Cardinality(DOMAIN w)
         /\ q[1] * SignedNet(w) <= q[2] * SignedNet(Scaled(w, q)) + q[2] * Cardinality(DOMAIN w)
<1> DEFINE v == Scaled(w, q)
           a == q[1]
           b == q[2]
           Sum(f, T) == SumFunctionOnSet(f, T)
           F == {T \in SUBSET DOMAIN w :
                   /\ b * Sum(v, T) <= a * Sum(w, T) + b * Cardinality(T)
                   /\ a * Sum(w, T) <= b * Sum(v, T) + b * Cardinality(T)}
<1>1. /\ IsFiniteSet(DOMAIN w) /\ a \in Nat /\ b \in Nat \ {0} /\ DOMAIN v = DOMAIN w
      /\ \A t \in DOMAIN w : w[t] \in Int /\ v[t] = Scale(w[t], a, b)
  BY DEF WeightMap, Ratio, Scaled
<1> HIDE DEF v, a, b, Sum
<1>2. \A t \in DOMAIN w : v[t] \in Int /\ b * v[t] <= a * w[t] + b /\ a * w[t] <= b * v[t] + b
  BY <1>1, ScaleIsClose
<1>3. {} \in F
  <2>1. Sum(v, {}) = 0 /\ Sum(w, {}) = 0 /\ Cardinality({}) = 0
    BY SumOfNothing, FS_EmptySet DEF Sum
  <2> QED
    BY <1>1, <2>1
<1>4. ASSUME NEW T \in SUBSET DOMAIN w, NEW x \in DOMAIN w \ T, T \in F
      PROVE  T \union {x} \in F
  <2>1. IsFiniteSet(T) /\ Cardinality(T) \in Nat /\ Cardinality(T \union {x}) = Cardinality(T) + 1
    <3>1. IsFiniteSet(T)
      BY <1>1, FS_Subset
    <3> QED
      BY <3>1, FS_AddElement, FS_CardinalityType
  <2>2. \A t \in T \union {x} : w[t] \in Int /\ v[t] \in Int
    BY <1>1, <1>2
  <2>3. /\ Sum(w, T \union {x}) = w[x] + Sum(w, T) /\ Sum(w, T) \in Int
        /\ Sum(v, T \union {x}) = v[x] + Sum(v, T) /\ Sum(v, T) \in Int
    BY <2>1, <2>2, SumWith, SumWithout DEF Sum
  <2>4. /\ a * (w[x] + Sum(w, T)) = a * w[x] + a * Sum(w, T)
        /\ b * (v[x] + Sum(v, T)) = b * v[x] + b * Sum(v, T)
        /\ b * (Cardinality(T) + 1) = b * Cardinality(T) + b
        /\ {a * w[x], a * Sum(w, T), b * v[x], b * Sum(v, T), b * Cardinality(T)} \subseteq Int
    <3>1. /\ w[x] \in Int /\ v[x] \in Int /\ Sum(w, T) \in Int /\ Sum(v, T) \in Int
          /\ Cardinality(T) \in Int /\ a \in Int /\ b \in Int
      BY <1>1, <2>1, <2>2, <2>3
    <3>2. \A k, y, z \in Int : k * y \in Int /\ k * (y + z) = k * y + k * z /\ k * (y + 1) = k * y + k
      OBVIOUS
    <3>3. a * (w[x] + Sum(w, T)) = a * w[x] + a * Sum(w, T) /\ a * w[x] \in Int /\ a * Sum(w, T) \in Int
      BY <3>1, <3>2
    <3>4. b * (v[x] + Sum(v, T)) = b * v[x] + b * Sum(v, T) /\ b * v[x] \in Int /\ b * Sum(v, T) \in Int
      BY <3>1, <3>2
    <3>5. b * (Cardinality(T) + 1) = b * Cardinality(T) + b /\ b * Cardinality(T) \in Int
      BY <3>1, <3>2
    <3> QED
      BY <3>3, <3>4, <3>5
  <2>5. /\ b * Sum(v, T) <= a * Sum(w, T) + b * Cardinality(T)
        /\ a * Sum(w, T) <= b * Sum(v, T) + b * Cardinality(T)
    BY <1>4
  <2>6. b * v[x] <= a * w[x] + b /\ a * w[x] <= b * v[x] + b
    BY <1>2
  <2>7. /\ b * v[x] + b * Sum(v, T) <= a * w[x] + a * Sum(w, T) + (b * Cardinality(T) + b)
        /\ a * w[x] + a * Sum(w, T) <= b * v[x] + b * Sum(v, T) + (b * Cardinality(T) + b)
    BY <1>1, <2>4, <2>5, <2>6
  <2> QED
    BY <2>1, <2>3, <2>4, <2>7
<1> HIDE DEF F
<1>5. DOMAIN w \in F
  BY <1>1, <1>3, <1>4, FiniteInduction
<1>6. SignedNet(v) = Sum(v, DOMAIN w) /\ SignedNet(w) = Sum(w, DOMAIN w)
  BY <1>1, ExposuresAreSums DEF Sum
<1> QED
  BY <1>5, <1>6 DEF F, v, a, b

(* The clamps leave the net within its limit, to a unit for each weight.   *)
LEMMA ClampsNearNet ==
  ASSUME NEW w, WeightMap(w), NEW policy, PolicySound(policy), NEW sectors
  PROVE  Abs(SignedNet(SafetyClamps(w, policy, sectors)))
           <= policy.maxNet + Cardinality(DOMAIN w)
<1> DEFINE c == CapSectors(CapPositions(NoShorting(w, policy), policy), policy, sectors)
           q == Factor(c, policy)
           d == SafetyClamps(w, policy, sectors)
<1>1. WeightMap(c) /\ DOMAIN c = DOMAIN w
  <2> DEFINE a == NoShorting(w, policy)
             b == CapPositions(a, policy)
  <2>1. WeightMap(a) /\ DOMAIN a = DOMAIN w
    BY NoShortingShrinks DEF Shrunk
  <2> HIDE DEF a
  <2>2. WeightMap(b) /\ DOMAIN b = DOMAIN w
    BY <2>1, CapPositionsShrinks DEF PolicySound, Shrunk
  <2> HIDE DEF b
  <2>3. c = CapSectors(b, policy, sectors)
    BY DEF a, b
  <2> HIDE DEF c
  <2> QED
    BY <2>2, <2>3, CapSectorsShrinks DEF PolicySound, Shrunk
<1>2. d = Scaled(c, q)
  BY CapExposureScales DEF SafetyClamps
<1> HIDE DEF c
<1>3. Ratio(q) /\ q[1] <= q[2] /\ Brings(q, Abs(SignedNet(c)), policy.maxNet)
  BY <1>1, FactorBrings
<1> HIDE DEF q
<1> DEFINE a == q[1]
           b == q[2]
           x == SignedNet(c)
           y == SignedNet(d)
           n == Cardinality(DOMAIN w)
<1>4. b * y <= a * x + b * n /\ a * x <= b * y + b * n
  BY <1>1, <1>2, <1>3, ScaledIsClose
<1>5. a * Abs(x) <= policy.maxNet * b
  BY <1>3 DEF Brings
<1>6. /\ a \in Nat /\ b \in Nat \ {0} /\ x \in Int /\ n \in Nat /\ policy.maxNet \in Nat
  BY <1>1, <1>3, ExposureTypes, FS_CardinalityType DEF Ratio, PolicySound, WeightMap
<1>7. y \in Int
  BY <1>1, <1>2, <1>3, ScaledShrinks, ExposureTypes DEF Shrunk
<1> HIDE DEF a, b, x, y, n, d
<1>8. a * x <= a * Abs(x) /\ -(a * x) <= a * Abs(x)
  <2>1. CASE x >= 0
    <3>1. Abs(x) = x /\ a * x \in Nat
      BY <1>6, <2>1 DEF Abs
    <3> QED
      BY <3>1
  <2>2. CASE x < 0
    <3>1. Abs(x) = -x /\ a * (-x) \in Nat /\ a * (-x) = -(a * x) /\ a * x \in Int
      BY <1>6, <2>2 DEF Abs
    <3> QED
      BY <3>1
  <2> QED
    BY <1>6, <2>1, <2>2
<1>9. b * y <= b * (policy.maxNet + n) /\ b * (-y) <= b * (policy.maxNet + n)
  <2>1. b * (policy.maxNet + n) = policy.maxNet * b + b * n /\ b * (-y) = -(b * y)
    BY <1>6, <1>7
  <2>2. /\ a * x \in Int /\ a * Abs(x) \in Int /\ b * y \in Int /\ b * n \in Int
        /\ policy.maxNet * b \in Int
    BY <1>6, <1>7 DEF Abs
  <2> QED
    BY <1>4, <1>5, <1>8, <2>1, <2>2
<1>10. y <= policy.maxNet + n /\ -y <= policy.maxNet + n
  BY <1>6, <1>7, <1>9, TimesCancel
<1>11. Abs(y) <= policy.maxNet + n
  BY <1>7, <1>10 DEF Abs
<1> QED
  BY <1>11 DEF y, n, d

(* So does the gate. *)
LEMMA EvaluateNearNet ==
  ASSUME NEW target, WeightMap(target), NEW current, WeightMap(current),
         NEW policy, PolicySound(policy), NEW sectors, NEW allocations
  PROVE  Abs(SignedNet(Evaluate(target, current, policy, sectors, allocations).weights))
           <= policy.maxNet + Cardinality(DOMAIN target \union DOMAIN current)
<1> DEFINE safe       == SafetyClamps(target, policy, sectors)
           limited    == Limited(safe, current, policy)
           restrained == Restrained(safe, current, policy, sectors)
           S          == DOMAIN target \union DOMAIN current
<1>1. /\ Shrunk(safe, target)
      /\ Abs(SignedNet(safe)) <= policy.maxNet + Cardinality(DOMAIN target)
  BY ClampsShrink, ClampsNearNet
<1>2. restrained = IF Moved(safe, current) > 2 * policy.maxTurnover
                   THEN SafetyClamps(limited, policy, sectors) ELSE safe
  BY DEF Restrained
<1>3. Evaluate(target, current, policy, sectors, allocations).weights = DropZeros(restrained)
  BY EvaluateParts
<1>4. WeightMap(restrained)
  BY RestrainedIsWithin
<1> HIDE DEF safe, restrained
<1>5. WeightMap(safe) /\ DOMAIN safe = DOMAIN target
  BY <1>1 DEF Shrunk
<1>6. /\ IsFiniteSet(S) /\ Cardinality(DOMAIN target) <= Cardinality(S)
      /\ Cardinality(S) \in Nat /\ Cardinality(DOMAIN target) \in Nat
  <2>1. IsFiniteSet(S) /\ DOMAIN target \in SUBSET S
    BY FS_Union DEF WeightMap
  <2> HIDE DEF S
  <2> QED
    BY <2>1, FS_Subset, FS_CardinalityType
<1> HIDE DEF S
<1>7. Abs(SignedNet(restrained)) <= policy.maxNet + Cardinality(S)
  <2>1. CASE Moved(safe, current) > 2 * policy.maxTurnover
    <3>1. WeightMap(limited) /\ DOMAIN limited = S
      BY <1>5, <2>1, LimitedIsABook DEF S
    <3> HIDE DEF limited
    <3> QED
      BY <1>2, <2>1, <3>1, ClampsNearNet
  <2>2. CASE ~(Moved(safe, current) > 2 * policy.maxTurnover)
    <3>1. restrained = safe /\ Abs(SignedNet(safe)) \in Nat /\ policy.maxNet \in Nat
      BY <1>2, <1>5, <2>2, AbsSignedNet DEF PolicySound
    <3> QED
      BY <1>1, <1>6, <3>1
  <2> QED
    BY <2>1, <2>2
<1>8. SignedNet(DropZeros(restrained)) = SignedNet(restrained)
  BY <1>4, DropZerosKeeps
<1> QED
  BY <1>3, <1>7, <1>8 DEF S
=============================================================================
