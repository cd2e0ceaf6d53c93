---------------------------- MODULE InductionLemmas ----------------------------
(***************************************************************************)
(* Induction for proofs about the data of the models.                      *)
(*                                                                         *)
(* The induction theorems of the library take the induction hypothesis as  *)
(* an operator, which no prover here can instantiate.  That a well-founded *)
(* relation has minimal elements is a statement about sets: the principles *)
(* below are drawn from it, and take the hypothesis as a set.              *)
(***************************************************************************)
EXTENDS Integers, FiniteSets, Functions, FiniteSetTheorems, WellFoundedInduction, TLAPS

(* A nonempty set of naturals has a least member.                          *)
LEMMA LeastNumber ==
  ASSUME NEW T \in SUBSET Nat, T # {}
  PROVE  \E n \in T : \A m \in T : n <= m
<1> DEFINE R == OpToRel(<, Nat)
<1>1. IsWellFoundedOn(R, Nat)
  BY NatLessThanWellFounded
<1> HIDE DEF R
<1>2. PICK n \in T : \A m \in T : ~(<<m, n>> \in R)
  BY <1>1, WFMin
<1>3. \A m \in T : ~(m < n)
  BY <1>2 DEF R, OpToRel
<1> QED
  BY <1>3

(* Induction over the naturals.                                            *)
LEMMA NaturalInduction ==
  ASSUME NEW S \in SUBSET Nat, 0 \in S, \A n \in S : n + 1 \in S
  PROVE  S = Nat
<1> SUFFICES ASSUME Nat \ S # {} PROVE FALSE
  OBVIOUS
<1>1. PICK n \in Nat \ S : \A m \in Nat \ S : n <= m
  BY LeastNumber
<1>2. n # 0 /\ n - 1 \in Nat
  BY <1>1
<1>3. n - 1 \in S
  BY <1>1, <1>2
<1> QED
  BY <1>1, <1>2, <1>3

(* Induction up to n, for what is known of the numbers up to n only.       *)
LEMMA PrefixInduction ==
  ASSUME NEW n \in Nat, NEW S, 0 \in S, \A k \in 1..n : k - 1 \in S => k \in S
  PROVE  \A k \in 0..n : k \in S
<1> DEFINE N == {k \in Nat : k <= n => k \in S}
<1>1. 0 \in N
  OBVIOUS
<1>2. ASSUME NEW k \in N PROVE k + 1 \in N
  <2>1. CASE k + 1 <= n
    <3>1. k + 1 \in 1..n /\ (k + 1) - 1 = k /\ k \in S
      BY <2>1
    <3>2. k + 1 \in S
      BY <3>1
    <3> QED
      BY <3>2
  <2>2. CASE ~(k + 1 <= n)
    BY <2>2
  <2> QED
    BY <2>1, <2>2
<1> HIDE DEF N
<1>3. N = Nat
  BY <1>1, <1>2, NaturalInduction DEF N
<1> QED
  BY <1>3 DEF N

(* Induction over a finite set: a family that has the empty set, and with  *)
(* any subset the one that has one member more, has the whole set.         *)
LEMMA FiniteInduction ==
  ASSUME NEW S, IsFiniteSet(S), NEW F, {} \in F,
         \A T \in SUBSET S : \A x \in S \ T : T \in F => T \union {x} \in F
  PROVE  S \in F
<1> DEFINE N == {n \in Nat : \A T \in SUBSET S : Cardinality(T) = n => T \in F}
<1>1. 0 \in N
  BY FS_Subset, FS_EmptySet
<1>2. ASSUME NEW n \in N PROVE n + 1 \in N
  <2> SUFFICES ASSUME NEW T \in SUBSET S, Cardinality(T) = n + 1 PROVE T \in F
    OBVIOUS
  <2>1. IsFiniteSet(T)
    BY FS_Subset
  <2>2. PICK x \in T : TRUE
    BY <2>1, FS_EmptySet
  <2>3. /\ T \ {x} \in SUBSET S
        /\ x \in S \ (T \ {x})
        /\ (T \ {x}) \union {x} = T
    OBVIOUS
  <2>4. Cardinality(T \ {x}) = n
    <3>1. Cardinality(T \ {x}) = Cardinality(T) - 1
      BY <2>1, FS_RemoveElement, Zenon
    <3>2. n \in Nat
      OBVIOUS
    <3> QED
      BY <3>1, <3>2
  <2>5. T \ {x} \in F
    BY <2>3, <2>4
  <2> QED
    BY <2>3, <2>5
<1> HIDE DEF N
<1>3. N = Nat
  BY <1>1, <1>2, NaturalInduction DEF N
<1>4. Cardinality(S) \in N
  BY <1>3, FS_CardinalityType
<1> QED
  BY <1>4 DEF N

(* The values of a function on a finite set are finitely many.             *)
LEMMA FiniteImage ==
  ASSUME NEW S, IsFiniteSet(S), NEW f
  PROVE  IsFiniteSet({f[x] : x \in S})
<1> DEFINE T == {f[x] : x \in S}
           g == [x \in S |-> f[x]]
<1>1. g \in Surjection(S, T)
  BY DEF Surjection
<1> QED
  BY <1>1, FS_Surjection, Zenon

(* A finite nonempty set of integers has a greatest member.                *)
LEMMA GreatestNumber ==
  ASSUME NEW S \in SUBSET Int, IsFiniteSet(S), S # {}
  PROVE  \E n \in S : \A m \in S : m <= n
<1> DEFINE F == {T \in SUBSET S : T # {} => \E n \in T : \A m \in T : m <= n}
<1>1. {} \in F
  OBVIOUS
<1>2. ASSUME NEW T \in SUBSET S, NEW x \in S \ T, T \in F
      PROVE  T \union {x} \in F
  <2>1. CASE T = {}
    BY <2>1
  <2>2. CASE T # {}
    <3>1. PICK n \in T : \A m \in T : m <= n
      BY <1>2, <2>2
    <3>2. CASE n < x
      BY <3>1, <3>2
    <3>3. CASE ~(n < x)
      BY <3>1, <3>3
    <3> QED
      BY <3>2, <3>3
  <2> QED
    BY <2>1, <2>2
<1> HIDE DEF F
<1>3. S \in F
  BY <1>1, <1>2, FiniteInduction
<1> QED
  BY <1>3 DEF F

-----------------------------------------------------------------------------
(* Arithmetic with products, which the provers know little about.          *)
LEMMA Quotient ==
  ASSUME NEW a \in Nat, NEW b \in Nat \ {0}
  PROVE  a \div b \in Nat /\ b * (a \div b) <= a
OBVIOUS

LEMMA QuotientBounds ==
  ASSUME NEW a \in Int, NEW b \in Nat \ {0}
  PROVE  /\ a \div b \in Int /\ b * (a \div b) \in Int
         /\ b * (a \div b) <= a /\ a < b * (a \div b) + b
<1>1. a \div b \in Int
  OBVIOUS
<1>2. b * (a \div b) \in Int
  BY <1>1
<1>3. b * (a \div b) <= a /\ a < b * (a \div b) + b
  OBVIOUS
<1> QED
  BY <1>1, <1>2, <1>3

LEMMA TimesMonotone ==
  ASSUME NEW a \in Int, NEW b \in Int, NEW c \in Nat, a <= b
  PROVE  c * a <= c * b /\ a * c <= b * c
OBVIOUS

LEMMA TimesCancel ==
  ASSUME NEW a \in Int, NEW b \in Int, NEW c \in Nat \ {0}, c * a <= c * b
  PROVE  a <= b
OBVIOUS

LEMMA TimesCancelStrictly ==
  ASSUME NEW a \in Int, NEW b \in Int, NEW c \in Nat \ {0}, c * a < c * b
  PROVE  a < b
OBVIOUS

(* The quotient is the only multiple that close below.                     *)
LEMMA QuotientUnique ==
  ASSUME NEW a \in Int, NEW b \in Nat \ {0}, NEW q \in Int, b * q <= a, a < b * q + b
  PROVE  a \div b = q
<1> DEFINE r == a \div b
<1>1. r \in Int /\ b * r \in Int /\ b * r <= a /\ a < b * r + b
  BY QuotientBounds
<1> HIDE DEF r
<1>2. b * q \in Int /\ b * (q + 1) = b * q + b /\ b * (r + 1) = b * r + b
  BY <1>1
<1>3. b * q < b * (r + 1) /\ b * r < b * (q + 1)
  BY <1>1, <1>2
<1>4. q < r + 1 /\ r < q + 1
  <2>1. q < r + 1
    BY <1>1, <1>3, TimesCancelStrictly
  <2>2. r < q + 1
    BY <1>1, <1>3, TimesCancelStrictly
  <2> QED
    BY <2>1, <2>2
<1>5. r = q
  BY <1>1, <1>4
<1> QED
  BY <1>5 DEF r

-----------------------------------------------------------------------------
(* A proper part of a finite set has fewer members: one less when one      *)
(* member is taken away.                                                   *)
LEMMA OneLess ==
  ASSUME NEW S, IsFiniteSet(S), NEW x \in S
  PROVE  /\ IsFiniteSet(S \ {x})
         /\ Cardinality(S) \in Nat \ {0}
         /\ Cardinality(S \ {x}) = Cardinality(S) - 1
<1>1. /\ IsFiniteSet(S \ {x})
      /\ Cardinality(S \ {x}) = Cardinality(S) - 1
  BY FS_RemoveElement, Zenon
<1>2. Cardinality(S) \in Nat /\ Cardinality(S \ {x}) \in Nat
  BY <1>1, FS_CardinalityType
<1> QED
  BY <1>1, <1>2

-----------------------------------------------------------------------------
(* SumFunctionOnSet is a fold: it picks the members one by one, and is     *)
(* given by the function SumTable on the subsets.                          *)
Pick(s) == CHOOSE x \in s : TRUE
SumTable(f, S) ==
  CHOOSE sum : sum = [s \in SUBSET S |->
    IF s = {} THEN 0 ELSE f[Pick(s)] + sum[s \ {Pick(s)}]]

LEMMA SumIsTable ==
  ASSUME NEW f, NEW S
  PROVE  SumFunctionOnSet(f, S) = SumTable(f, S)[S]
BY Zenon DEF SumFunctionOnSet, FoldFunctionOnSet, MapThenFoldSet, SumTable, Pick

LEMMA SumTableEquation ==
  ASSUME NEW f, NEW S, IsFiniteSet(S)
  PROVE  \A s \in SUBSET S : SumTable(f, S)[s] =
           IF s = {} THEN 0 ELSE f[Pick(s)] + SumTable(f, S)[s \ {Pick(s)}]
<1> DEFINE Upto(n) == {s \in SUBSET S : Cardinality(s) <= n}
           Next(sum, s) == IF s = {} THEN 0 ELSE f[Pick(s)] + sum[s \ {Pick(s)}]
           N == {n \in Nat : \E sum : \A s \in Upto(n) : sum[s] = Next(sum, s)}
<1>1. ASSUME NEW s \in SUBSET S
      PROVE  /\ IsFiniteSet(s) /\ Cardinality(s) \in Nat
             /\ s # {} => /\ Pick(s) \in s
                          /\ s \ {Pick(s)} \in SUBSET S
                          /\ Cardinality(s) # 0
                          /\ Cardinality(s \ {Pick(s)}) = Cardinality(s) - 1
  <2>1. IsFiniteSet(s) /\ Cardinality(s) \in Nat
    BY FS_Subset, FS_CardinalityType
  <2>2. s # {} => Pick(s) \in s
    BY DEF Pick
  <2> QED
    BY <2>1, <2>2, OneLess
<1>2. 0 \in N
  <2> DEFINE zero == [s \in Upto(0) |-> 0]
  <2>1. ASSUME NEW s \in Upto(0) PROVE s = {}
    <3>1. s \in SUBSET S /\ Cardinality(s) <= 0
      OBVIOUS
    <3>2. Cardinality(s) \in Nat
      BY <1>1, <3>1
    <3>3. Cardinality(s) = 0
      BY <3>1, <3>2
    <3> QED
      BY <1>1, <3>1, <3>3
  <2>2. \A s \in Upto(0) : zero[s] = Next(zero, s)
    BY <2>1
  <2> QED
    BY <2>2
<1>3. ASSUME NEW n \in N PROVE n + 1 \in N
  <2>1. PICK sum : \A s \in Upto(n) : sum[s] = Next(sum, s)
    OBVIOUS
  <2> DEFINE more == [s \in Upto(n + 1) |-> IF s \in Upto(n) THEN sum[s] ELSE Next(sum, s)]
  <2>2. ASSUME NEW s \in Upto(n + 1) PROVE more[s] = Next(more, s)
    <3>1. CASE s = {}
      <4>1. s \in Upto(n) 
        BY <1>1, <3>1, FS_EmptySet
      <4> QED
        BY <2>1, <3>1, <4>1
    <3>2. CASE s # {}
      <4>1. s \ {Pick(s)} \in Upto(n) /\ s \ {Pick(s)} \in Upto(n + 1)
        BY <1>1, <3>2
      <4>2. more[s \ {Pick(s)}] = sum[s \ {Pick(s)}]
        BY <4>1
      <4>3. more[s] = Next(sum, s)
        BY <2>1
      <4> QED
        BY <4>2, <4>3, <3>2
    <3> QED
      BY <3>1, <3>2
  <2> HIDE DEF more
  <2>3. \E t : \A s \in Upto(n + 1) : t[s] = Next(t, s)
    BY <2>2
  <2>4. n + 1 \in Nat
    OBVIOUS
  <2> HIDE DEF Upto, Next
  <2> QED
    BY <2>3, <2>4
<1> HIDE DEF N
<1>4. N = Nat
  BY <1>2, <1>3, NaturalInduction DEF N
<1>5. Cardinality(S) \in N
  BY <1>4, FS_CardinalityType
<1>6. PICK sum : \A s \in Upto(Cardinality(S)) : sum[s] = Next(sum, s)
  BY <1>5 DEF N
<1>7. \A s \in SUBSET S : s \in Upto(Cardinality(S))
  BY FS_Subset
<1> DEFINE table == [s \in SUBSET S |-> sum[s]]
<1>8. table = [s \in SUBSET S |-> Next(table, s)]
  <2>1. ASSUME NEW s \in SUBSET S PROVE sum[s] = Next(table, s)
    BY <1>1, <1>6, <1>7
  <2> QED
    BY <2>1
<1>9. \E t : t = [s \in SUBSET S |-> Next(t, s)]
  BY <1>8
<1>10. SumTable(f, S) = [s \in SUBSET S |-> Next(SumTable(f, S), s)]
  BY <1>9 DEF SumTable
<1> QED
  BY <1>10

(* The table of a part of S is a part of the table of S.                   *)
LEMMA SumTableRestricted ==
  ASSUME NEW f, NEW S, IsFiniteSet(S), NEW T \in SUBSET S
  PROVE  SumTable(f, T)[T] = SumTable(f, S)[T]
<1> DEFINE F == {s \in SUBSET T : SumTable(f, T)[s] = SumTable(f, S)[s]}
           N == {n \in Nat : \A s \in SUBSET T : Cardinality(s) = n => s \in F}
<1>1. IsFiniteSet(T) /\ SUBSET T \subseteq SUBSET S
  BY FS_Subset
<1>2. \A s \in SUBSET T : SumTable(f, T)[s] =
        IF s = {} THEN 0 ELSE f[Pick(s)] + SumTable(f, T)[s \ {Pick(s)}]
  BY <1>1, SumTableEquation
<1>3. \A s \in SUBSET T : SumTable(f, S)[s] =
        IF s = {} THEN 0 ELSE f[Pick(s)] + SumTable(f, S)[s \ {Pick(s)}]
  <2>1. \A s \in SUBSET S : SumTable(f, S)[s] =
          IF s = {} THEN 0 ELSE f[Pick(s)] + SumTable(f, S)[s \ {Pick(s)}]
    BY SumTableEquation
  <2> QED
    BY <2>1, <1>1
<1>4. 0 \in N
  <2> SUFFICES ASSUME NEW s \in SUBSET T, Cardinality(s) = 0 PROVE s \in F
    OBVIOUS
  <2>1. s = {}
    BY <1>1, FS_Subset, FS_EmptySet
  <2> QED
    BY <2>1, <1>2, <1>3
<1>5. ASSUME NEW n \in N PROVE n + 1 \in N
  <2> SUFFICES ASSUME NEW s \in SUBSET T, Cardinality(s) = n + 1 PROVE s \in F
    OBVIOUS
  <2>1. IsFiniteSet(s)
    BY <1>1, FS_Subset
  <2>2. s # {}
    BY FS_EmptySet
  <2>3. Pick(s) \in s
    BY <2>2 DEF Pick
  <2>4. Cardinality(s \ {Pick(s)}) = n
    BY <2>1, <2>3, OneLess
  <2>5. s \ {Pick(s)} \in F
    BY <2>4
  <2>6. SumTable(f, T)[s \ {Pick(s)}] = SumTable(f, S)[s \ {Pick(s)}]
    BY <2>5
  <2> HIDE DEF F
  <2>7. SumTable(f, T)[s] = SumTable(f, S)[s]
    BY <1>2, <1>3, <2>2, <2>6
  <2> QED
    BY <2>7 DEF F
<1> HIDE DEF F, N
<1>6. N = Nat
  BY <1>4, <1>5, NaturalInduction DEF N
<1>7. T \in F
  BY <1>1, <1>6, FS_CardinalityType DEF N
<1> QED
  BY <1>7 DEF F

(* The sum over the empty set, and over a set without the member that the  *)
(* fold picks first.                                                       *)
LEMMA SumUnfolds ==
  ASSUME NEW f, NEW S, IsFiniteSet(S)
  PROVE  SumFunctionOnSet(f, S) =
           IF S = {} THEN 0 ELSE f[Pick(S)] + SumFunctionOnSet(f, S \ {Pick(S)})
<1>1. SumFunctionOnSet(f, S) = SumTable(f, S)[S]
  BY SumIsTable
<1>2. SumFunctionOnSet(f, S \ {Pick(S)}) = SumTable(f, S)[S \ {Pick(S)}]
  <2>1. SumFunctionOnSet(f, S \ {Pick(S)}) = SumTable(f, S \ {Pick(S)})[S \ {Pick(S)}]
    BY SumIsTable
  <2>2. SumTable(f, S \ {Pick(S)})[S \ {Pick(S)}] = SumTable(f, S)[S \ {Pick(S)}]
    BY SumTableRestricted
  <2> QED
    BY <2>1, <2>2
<1>3. \A s \in SUBSET S : SumTable(f, S)[s] =
          IF s = {} THEN 0 ELSE f[Pick(s)] + SumTable(f, S)[s \ {Pick(s)}]
  BY SumTableEquation
<1> QED
  BY <1>1, <1>2, <1>3

(* Sums of integers are integers, and any member may be taken out first.   *)
LEMMA SumWithout ==
  ASSUME NEW f, NEW S, IsFiniteSet(S), \A s \in S : f[s] \in Int
  PROVE  /\ SumFunctionOnSet(f, S) \in Int
         /\ \A x \in S : SumFunctionOnSet(f, S) = f[x] + SumFunctionOnSet(f, S \ {x})
<1> DEFINE Sum(s) == SumFunctionOnSet(f, s)
           F == {s \in SUBSET S : Sum(s) \in Int /\ \A x \in s : Sum(s) = f[x] + Sum(s \ {x})}
           N == {n \in Nat : \A s \in SUBSET S : Cardinality(s) <= n => s \in F}
<1> HIDE DEF Sum
<1>1. \A s \in SUBSET S : Sum(s) = IF s = {} THEN 0 ELSE f[Pick(s)] + Sum(s \ {Pick(s)})
  BY SumUnfolds, FS_Subset DEF Sum
<1>2. 0 \in N
  <2> SUFFICES ASSUME NEW s \in SUBSET S, Cardinality(s) <= 0 PROVE s \in F
    OBVIOUS
  <2>1. IsFiniteSet(s) /\ Cardinality(s) \in Nat
    BY FS_Subset, FS_CardinalityType
  <2>2. s = {}
    BY <2>1, FS_EmptySet
  <2>3. Sum(s) = 0
    BY <2>2, <1>1
  <2> QED
    BY <2>2, <2>3
<1>3. ASSUME NEW n \in N PROVE n + 1 \in N
  <2>0. n \in Nat /\ \A s \in SUBSET S : Cardinality(s) <= n => s \in F
    OBVIOUS
  <2> SUFFICES ASSUME NEW s \in SUBSET S, Cardinality(s) <= n + 1, ~(Cardinality(s) <= n)
               PROVE s \in F
    BY <2>0
  <2>1. IsFiniteSet(s) /\ Cardinality(s) = n + 1
    BY <2>0, FS_Subset, FS_CardinalityType
  <2>2. s # {}
    BY <2>0, <2>1, FS_EmptySet
  <2> DEFINE p == Pick(s)
  <2>3. p \in s
    BY <2>2 DEF Pick
  <2> HIDE DEF p
  <2>4. Sum(s) = f[p] + Sum(s \ {p})
    BY <1>1, <2>2 DEF p
  <2>5. \A x \in s : Cardinality(s \ {x}) = n
    BY <2>0, <2>1, OneLess
  <2>6. \A x \in s : s \ {x} \in F
    BY <2>0, <2>5
  <2>7. \A x \in s : Sum(s \ {x}) \in Int
    BY <2>6
  <2>8. Sum(s) \in Int
    BY <2>3, <2>4, <2>7
  <2>9. ASSUME NEW x \in s, x # p PROVE Sum(s) = f[x] + Sum(s \ {x})
    <3>1. Sum(s \ {p}) = f[x] + Sum((s \ {p}) \ {x})
      BY <2>3, <2>6, <2>9
    <3>2. Sum(s \ {x}) = f[p] + Sum((s \ {x}) \ {p})
      BY <2>3, <2>6, <2>9
    <3>3. (s \ {p}) \ {x} = (s \ {x}) \ {p}
      OBVIOUS
    <3>4. Sum((s \ {p}) \ {x}) \in Int
      <4>1. /\ (s \ {p}) \ {x} \in SUBSET S
            /\ IsFiniteSet(s \ {p}) /\ x \in s \ {p}
        BY <2>1, <2>3, <2>9, OneLess
      <4>2. Cardinality((s \ {p}) \ {x}) = Cardinality(s \ {p}) - 1
        BY <4>1, OneLess
      <4>3. Cardinality((s \ {p}) \ {x}) <= n
        BY <4>2, <2>0, <2>3, <2>5
      <4>4. (s \ {p}) \ {x} \in F
        BY <4>1, <4>3, <2>0
      <4> QED
        BY <4>4
    <3> QED
      BY <3>1, <3>2, <3>3, <3>4, <2>3, <2>4
  <2> QED
    BY <2>4, <2>8, <2>9
<1> HIDE DEF F, N
<1>4. N = Nat
  BY <1>2, <1>3, NaturalInduction DEF N
<1>5. S \in F
  BY <1>4, FS_CardinalityType DEF N
<1> QED
  BY <1>5 DEF F, Sum

(* A sum over one member more. *)
LEMMA SumWith ==
  ASSUME NEW f, NEW S, IsFiniteSet(S), NEW x, x \notin S, \A s \in S \union {x} : f[s] \in Int
  PROVE  SumFunctionOnSet(f, S \union {x}) = f[x] + SumFunctionOnSet(f, S)
<1>1. IsFiniteSet(S \union {x}) /\ (S \union {x}) \ {x} = S
  BY FS_AddElement
<1> QED
  BY <1>1, SumWithout

LEMMA SumOfNothing == \A f : SumFunctionOnSet(f, {}) = 0
BY SumUnfolds, FS_EmptySet

(* The sum over a prefix, one term at a time.                              *)
LEMMA PrefixSum ==
  ASSUME NEW f, NEW n \in Nat, \A i \in 1..n : f[i] \in Int
  PROVE  /\ SumFunctionOnSet(f, 1..0) = 0
         /\ \A k \in 0..n : SumFunctionOnSet(f, 1..k) \in Int
         /\ \A k \in 1..n : SumFunctionOnSet(f, 1..k) = f[k] + SumFunctionOnSet(f, 1..(k - 1))
<1>1. 1..0 = {}
  OBVIOUS
<1>2. ASSUME NEW k \in 0..n
      PROVE  /\ SumFunctionOnSet(f, 1..k) \in Int
             /\ \A x \in 1..k :
                  SumFunctionOnSet(f, 1..k) = f[x] + SumFunctionOnSet(f, (1..k) \ {x})
  <2>1. IsFiniteSet(1..k) /\ \A i \in 1..k : f[i] \in Int
    BY FS_Interval
  <2> QED
    BY <2>1, SumWithout
<1>3. \A k \in 1..n : k \in 0..n /\ k \in 1..k /\ (1..k) \ {k} = 1..(k - 1)
  OBVIOUS
<1>4. ASSUME NEW k \in 1..n
      PROVE  SumFunctionOnSet(f, 1..k) = f[k] + SumFunctionOnSet(f, 1..(k - 1))
  <2>1. k \in 0..n /\ k \in 1..k
    BY <1>3
  <2>2. SumFunctionOnSet(f, 1..k) = f[k] + SumFunctionOnSet(f, (1..k) \ {k})
    BY <1>2, <2>1, Zenon
  <2>3. (1..k) \ {k} = 1..(k - 1)
    BY <1>3
  <2> QED
    BY <2>2, <2>3, Zenon
<1> QED
  BY <1>1, <1>2, <1>4, SumOfNothing

(* If terms exceed others by at most c, so do n of them by at most c * n;  *)
(* twice, because what is compared is rounded to the nearest.              *)
LEMMA PrefixSumExceeds ==
  ASSUME NEW f, NEW g, NEW n \in Nat, NEW c \in Int,
         \A i \in 1..n : f[i] \in Int /\ g[i] \in Int /\ 2 * f[i] <= 2 * g[i] + c
  PROVE  2 * SumFunctionOnSet(f, 1..n) <= 2 * SumFunctionOnSet(g, 1..n) + c * n
<1> DEFINE F(k) == SumFunctionOnSet(f, 1..k)
           G(k) == SumFunctionOnSet(g, 1..k)
           S == {k \in 0..n : 2 * F(k) <= 2 * G(k) + c * k}
<1>1. /\ F(0) = 0 /\ G(0) = 0 /\ \A k \in 0..n : F(k) \in Int /\ G(k) \in Int
      /\ \A k \in 1..n : F(k) = f[k] + F(k - 1) /\ G(k) = g[k] + G(k - 1)
  BY PrefixSum
<1> HIDE DEF F, G
<1>2. 0 \in S
  BY <1>1
<1>3. ASSUME NEW k \in 1..n, k - 1 \in S PROVE k \in S
  <2>1. /\ F(k) = f[k] + F(k - 1) /\ G(k) = g[k] + G(k - 1)
        /\ F(k - 1) \in Int /\ G(k - 1) \in Int /\ f[k] \in Int /\ g[k] \in Int
        /\ 2 * F(k - 1) <= 2 * G(k - 1) + c * (k - 1) /\ 2 * f[k] <= 2 * g[k] + c
    BY <1>1, <1>3
  <2>2. c * k = c * (k - 1) + c /\ c * (k - 1) \in Int
    OBVIOUS
  <2> DEFINE x == c * (k - 1)
             a == f[k]
             b == g[k]
             A == F(k - 1)
             B == G(k - 1)
  <2>3. /\ F(k) = a + A /\ G(k) = b + B /\ c * k = x + c
        /\ A \in Int /\ B \in Int /\ a \in Int /\ b \in Int /\ x \in Int
        /\ 2 * A <= 2 * B + x /\ 2 * a <= 2 * b + c
    BY <2>1, <2>2
  <2> HIDE DEF a, b, x, A, B
  <2>4. 2 * F(k) <= 2 * G(k) + c * k
    BY <2>3
  <2> QED
    BY <2>4
<1> HIDE DEF S
<1>4. n \in S
  BY <1>2, <1>3, PrefixInduction
<1> QED
  BY <1>4 DEF S, F, G

(* A bound that holds member by member holds of the sums.                  *)
LEMMA SumBounded ==
  ASSUME NEW f, NEW g, NEW S, IsFiniteSet(S), NEW a \in Int, NEW b \in Int,
         \A s \in S : f[s] \in Int /\ g[s] \in Int /\ a * f[s] <= b * g[s]
  PROVE  a * SumFunctionOnSet(f, S) <= b * SumFunctionOnSet(g, S)
<1> DEFINE Sum(h, T) == SumFunctionOnSet(h, T)
           F == {T \in SUBSET S : a * Sum(f, T) <= b * Sum(g, T)}
<1> HIDE DEF Sum
<1>1. {} \in F
  BY SumOfNothing DEF Sum
<1>2. ASSUME NEW T \in SUBSET S, NEW x \in S \ T, T \in F
      PROVE  T \union {x} \in F
  <2>1. Sum(f, T) \in Int /\ Sum(g, T) \in Int
    BY FS_Subset, SumWithout DEF Sum
  <2>2. Sum(f, T \union {x}) = f[x] + Sum(f, T)
    BY FS_Subset, SumWith DEF Sum
  <2>3. Sum(g, T \union {x}) = g[x] + Sum(g, T)
    BY FS_Subset, SumWith DEF Sum
  <2>4. a * Sum(f, T) <= b * Sum(g, T)
    BY <1>2
  <2>5. a * (f[x] + Sum(f, T)) = a * f[x] + a * Sum(f, T)
    BY <2>1
  <2>6. b * (g[x] + Sum(g, T)) = b * g[x] + b * Sum(g, T)
    BY <2>1
  <2>7. a * f[x] <= b * g[x]
    OBVIOUS
  <2>8. a * (f[x] + Sum(f, T)) <= b * (g[x] + Sum(g, T))
    BY <2>1, <2>4, <2>5, <2>6, <2>7
  <2> QED
    BY <2>2, <2>3, <2>8
<1> HIDE DEF F
<1>3. S \in F
  BY <1>1, <1>2, FiniteInduction
<1> QED
  BY <1>3 DEF F, Sum

LEMMA SumDominated ==
  ASSUME NEW f, NEW g, NEW S, IsFiniteSet(S),
         \A s \in S : f[s] \in Int /\ g[s] \in Int /\ f[s] <= g[s]
  PROVE  SumFunctionOnSet(f, S) <= SumFunctionOnSet(g, S)
<1>1. SumFunctionOnSet(f, S) \in Int /\ SumFunctionOnSet(g, S) \in Int
  BY SumWithout
<1>2. \A s \in S : f[s] \in Int /\ g[s] \in Int /\ 1 * f[s] <= 1 * g[s]
  OBVIOUS
<1>3. 1 * SumFunctionOnSet(f, S) <= 1 * SumFunctionOnSet(g, S)
  BY <1>2, SumBounded
<1> QED
  BY <1>1, <1>3

LEMMA SumOfEquals ==
  ASSUME NEW f, NEW g, NEW S, IsFiniteSet(S),
         \A s \in S : f[s] \in Int /\ f[s] = g[s]
  PROVE  SumFunctionOnSet(f, S) = SumFunctionOnSet(g, S)
<1>1. SumFunctionOnSet(f, S) \in Int /\ SumFunctionOnSet(g, S) \in Int
  BY SumWithout
<1>2. SumFunctionOnSet(f, S) <= SumFunctionOnSet(g, S)
  BY SumDominated
<1>3. SumFunctionOnSet(g, S) <= SumFunctionOnSet(f, S)
  BY SumDominated
<1> QED
  BY <1>1, <1>2, <1>3

(* What is zero, or not negative, may be left out of a sum.                *)
LEMMA SumOfPart ==
  ASSUME NEW f, NEW S, IsFiniteSet(S), NEW T \in SUBSET S, \A s \in S : f[s] \in Int
  PROVE  /\ (\A s \in S \ T : f[s] = 0) => SumFunctionOnSet(f, T) = SumFunctionOnSet(f, S)
         /\ (\A s \in S \ T : f[s] >= 0) => SumFunctionOnSet(f, T) <= SumFunctionOnSet(f, S)
<1> DEFINE Sum(R) == SumFunctionOnSet(f, R)
           F == {R \in SUBSET (S \ T) :
                   /\ (\A s \in R : f[s] = 0) => Sum(T) = Sum(T \union R)
                   /\ (\A s \in R : f[s] >= 0) => Sum(T) <= Sum(T \union R)}
<1> HIDE DEF Sum
<1>0. Sum(T) \in Int /\ IsFiniteSet(S \ T) /\ IsFiniteSet(T)
  BY FS_Subset, SumWithout DEF Sum
<1>1. {} \in F
  <2>1. T \union {} = T
    OBVIOUS
  <2> QED
    BY <1>0, <2>1
<1>2. ASSUME NEW R \in SUBSET (S \ T), NEW x \in (S \ T) \ R, R \in F
      PROVE  R \union {x} \in F
  <2>1. /\ IsFiniteSet(T \union R)
        /\ T \union (R \union {x}) = (T \union R) \union {x}
        /\ x \notin T \union R
        /\ T \union R \subseteq S
        /\ f[x] \in Int
    BY FS_Subset
  <2>2. Sum(T \union R) \in Int
    BY <2>1, SumWithout DEF Sum
  <2>3. Sum(T \union (R \union {x})) = f[x] + Sum(T \union R)
    BY <2>1, SumWith DEF Sum
  <2> QED
    BY <1>0, <1>2, <2>1, <2>2, <2>3
<1> HIDE DEF F
<1>3. S \ T \in F
  BY <1>0, <1>1, <1>2, FiniteInduction
<1>4. T \union (S \ T) = S
  OBVIOUS
<1> QED
  BY <1>3, <1>4 DEF F, Sum

(* A sum does not depend on how its terms are numbered.                    *)
LEMMA SumRenumbered ==
  ASSUME NEW S, IsFiniteSet(S), NEW T, NEW p \in [S -> T],
         \A x, y \in S : p[x] = p[y] => x = y,
         \A z \in T : \E x \in S : z = p[x],
         NEW f, NEW g, \A x \in S : f[p[x]] \in Int /\ g[x] = f[p[x]]
  PROVE  SumFunctionOnSet(g, S) = SumFunctionOnSet(f, T)
<1> DEFINE Sum(h, R) == SumFunctionOnSet(h, R)
           Image(R) == {p[x] : x \in R}
           F == {R \in SUBSET S : Sum(g, R) = Sum(f, Image(R))}
<1> HIDE DEF Sum
<1>1. {} \in F
  <2>1. Image({}) = {}
    OBVIOUS
  <2> HIDE DEF Image
  <2> QED
    BY <2>1, SumOfNothing DEF Sum
<1>2. ASSUME NEW R \in SUBSET S, NEW x \in S \ R, R \in F
      PROVE  R \union {x} \in F
  <2>1. Image(R \union {x}) = Image(R) \union {p[x]} /\ p[x] \notin Image(R)
    OBVIOUS
  <2>2. IsFiniteSet(R) /\ \A y \in R \union {x} : g[y] \in Int
    BY FS_Subset
  <2>3. IsFiniteSet(Image(R)) /\ \A z \in Image(R) \union {p[x]} : f[z] \in Int
    BY <2>2, FiniteImage
  <2> HIDE DEF Image
  <2>4. Sum(g, R \union {x}) = g[x] + Sum(g, R)
    BY <2>2, SumWith DEF Sum
  <2>5. Sum(f, Image(R) \union {p[x]}) = f[p[x]] + Sum(f, Image(R))
    BY <2>1, <2>3, SumWith DEF Sum
  <2>6. Sum(g, R) = Sum(f, Image(R)) /\ g[x] = f[p[x]]
    BY <1>2
  <2>7. Sum(g, R \union {x}) = Sum(f, Image(R \union {x}))
    BY <2>1, <2>4, <2>5, <2>6
  <2> QED
    BY <2>7
<1>3. Image(S) = T
  OBVIOUS
<1> HIDE DEF F
<1>4. S \in F
  BY <1>1, <1>2, FiniteInduction
<1> QED
  BY <1>3, <1>4 DEF F, Sum

(* SumFunction is the sum over the whole domain.                           *)
LEMMA SumOfFunction ==
  ASSUME NEW f
  PROVE  SumFunction(f) = SumFunctionOnSet(f, DOMAIN f)
BY DEF SumFunction

-----------------------------------------------------------------------------
(* Sums are linear, and a sum of sums may be taken in either order.        *)
LEMMA SumPlus ==
  ASSUME NEW f, NEW g, NEW h, NEW S, IsFiniteSet(S),
         \A s \in S : f[s] \in Int /\ g[s] \in Int /\ h[s] = f[s] + g[s]
  PROVE  SumFunctionOnSet(h, S) = SumFunctionOnSet(f, S) + SumFunctionOnSet(g, S)
<1> DEFINE Sum(k, T) == SumFunctionOnSet(k, T)
           F == {T \in SUBSET S : Sum(h, T) = Sum(f, T) + Sum(g, T)}
<1> HIDE DEF Sum
<1>1. {} \in F
  BY SumOfNothing DEF Sum
<1>2. ASSUME NEW T \in SUBSET S, NEW x \in S \ T, T \in F
      PROVE  T \union {x} \in F
  <2>1. IsFiniteSet(T) /\ x \notin T /\ T \union {x} \in SUBSET S
    BY FS_Subset
  <2>2. \A s \in T \union {x} : f[s] \in Int /\ g[s] \in Int /\ h[s] \in Int
    OBVIOUS
  <2>3. /\ Sum(f, T \union {x}) = f[x] + Sum(f, T)
        /\ Sum(g, T \union {x}) = g[x] + Sum(g, T)
        /\ Sum(h, T \union {x}) = h[x] + Sum(h, T)
    BY <2>1, <2>2, SumWith DEF Sum
  <2>4. Sum(f, T) \in Int /\ Sum(g, T) \in Int
    BY <2>1, <2>2, SumWithout DEF Sum
  <2> QED
    BY <1>2, <2>1, <2>2, <2>3, <2>4
<1> HIDE DEF F
<1>3. S \in F
  BY <1>1, <1>2, FiniteInduction
<1> QED
  BY <1>3 DEF F, Sum

LEMMA SumTimes ==
  ASSUME NEW f, NEW h, NEW S, IsFiniteSet(S), NEW a \in Int,
         \A s \in S : f[s] \in Int /\ h[s] = a * f[s]
  PROVE  SumFunctionOnSet(h, S) = a * SumFunctionOnSet(f, S)
<1>1. \A s \in S : h[s] \in Int /\ 1 * h[s] <= a * f[s] /\ a * f[s] <= 1 * h[s]
  OBVIOUS
<1>2. 1 * SumFunctionOnSet(h, S) <= a * SumFunctionOnSet(f, S)
  BY <1>1, SumBounded
<1>3. a * SumFunctionOnSet(f, S) <= 1 * SumFunctionOnSet(h, S)
  BY <1>1, SumBounded
<1>4. SumFunctionOnSet(h, S) \in Int /\ SumFunctionOnSet(f, S) \in Int
  BY <1>1, SumWithout
<1> DEFINE x == SumFunctionOnSet(h, S)
           y == a * SumFunctionOnSet(f, S)
<1>5. x \in Int /\ y \in Int /\ 1 * x <= y /\ y <= 1 * x
  BY <1>2, <1>3, <1>4
<1> HIDE DEF x, y
<1>6. x = y
  BY <1>5
<1> QED
  BY <1>6 DEF x, y

RowSums(m, S, P) == [s \in S |-> SumFunctionOnSet([p \in P |-> m[s][p]], P)]
ColumnSums(m, S, P) == [p \in P |-> SumFunctionOnSet([s \in S |-> m[s][p]], S)]

LEMMA SumExchange ==
  ASSUME NEW m, NEW S, IsFiniteSet(S), NEW P, IsFiniteSet(P),
         \A s \in S : \A p \in P : m[s][p] \in Int
  PROVE  SumFunctionOnSet(RowSums(m, S, P), S) = SumFunctionOnSet(ColumnSums(m, S, P), P)
<1> DEFINE Row(s) == SumFunctionOnSet([p \in P |-> m[s][p]], P)
           Column(p, T) == SumFunctionOnSet([s \in S |-> m[s][p]], T)
           rows == [s \in S |-> Row(s)]
           columns(T) == [p \in P |-> Column(p, T)]
           Sum(k, T) == SumFunctionOnSet(k, T)
           F == {T \in SUBSET S : Sum(rows, T) = Sum(columns(T), P)}
<1>1. \A s \in S : Row(s) \in Int /\ rows[s] = Row(s)
  <2> SUFFICES ASSUME NEW s \in S PROVE Row(s) \in Int
    OBVIOUS
  <2>1. \A p \in P : [q \in P |-> m[s][q]][p] \in Int
    OBVIOUS
  <2> QED
    BY <2>1, SumWithout
<1>2. \A T \in SUBSET S : IsFiniteSet(T)
  BY FS_Subset
<1>3. \A T \in SUBSET S : \A p \in P : Column(p, T) \in Int /\ columns(T)[p] = Column(p, T)
  <2> SUFFICES ASSUME NEW T \in SUBSET S, NEW p \in P PROVE Column(p, T) \in Int
    OBVIOUS
  <2>1. \A s \in T : [u \in S |-> m[u][p]][s] \in Int
    OBVIOUS
  <2> QED
    BY <1>2, <2>1, SumWithout
<1>4. {} \in F
  <2>1. \A p \in P : columns({})[p] = 0
    BY SumOfNothing
  <2> HIDE DEF columns
  <2>2. {} \in SUBSET P /\ (\A p \in P \ {} : columns({})[p] = 0)
        /\ \A p \in P : columns({})[p] \in Int
    BY <2>1
  <2>3. Sum(columns({}), P) = 0
    BY <2>2, SumOfPart, SumOfNothing
  <2> QED
    BY <2>3, SumOfNothing
<1>5. ASSUME NEW T \in SUBSET S, NEW x \in S \ T, T \in F
      PROVE  T \union {x} \in F
  <2> DEFINE U == T \union {x}
             row == [p \in P |-> m[x][p]]
  <2>1. IsFiniteSet(T) /\ x \notin T /\ U \in SUBSET S /\ \A s \in U : rows[s] \in Int
    BY <1>1, <1>2
  <2>2. Sum(rows, U) = Row(x) + Sum(rows, T)
    <3> HIDE DEF rows, Row
    <3>1. Sum(rows, U) = rows[x] + Sum(rows, T)
      BY <2>1, SumWith
    <3> QED
      BY <1>1, <3>1
  <2>3. \A p \in P : Column(p, U) = m[x][p] + Column(p, T)
    <3> SUFFICES ASSUME NEW p \in P PROVE Column(p, U) = m[x][p] + Column(p, T)
      OBVIOUS
    <3> DEFINE c == [s \in S |-> m[s][p]]
    <3>1. c[x] = m[x][p] /\ \A s \in U : c[s] \in Int
      BY <2>1
    <3> HIDE DEF c
    <3>2. SumFunctionOnSet(c, U) = c[x] + SumFunctionOnSet(c, T)
      BY <2>1, <3>1, SumWith
    <3> QED
      BY <3>1, <3>2 DEF c
  <2>4. \A p \in P : /\ row[p] \in Int /\ columns(T)[p] \in Int
                     /\ columns(U)[p] = row[p] + columns(T)[p]
    BY <1>3, <2>1, <2>3
  <2>5. Sum(columns(U), P) = Sum(row, P) + Sum(columns(T), P)
    <3> DEFINE before == columns(T)
               after == columns(U)
    <3>1. \A p \in P : row[p] \in Int /\ before[p] \in Int /\ after[p] = row[p] + before[p]
      BY <2>4
    <3> HIDE DEF before, after, row
    <3>2. SumFunctionOnSet(after, P) = SumFunctionOnSet(row, P) + SumFunctionOnSet(before, P)
      BY <3>1, SumPlus
    <3> QED
      BY <3>2 DEF before, after
  <2> HIDE DEF columns, rows, Row, Column
  <2>6. Sum(row, P) = Row(x)
    BY DEF Row
  <2> QED
    BY <1>5, <2>1, <2>2, <2>5, <2>6
<1>6. S \in F
  <2> HIDE DEF F
  <2> QED
    BY <1>4, <1>5, FiniteInduction
<1>7. rows = RowSums(m, S, P) /\ columns(S) = ColumnSums(m, S, P)
  BY DEF RowSums, ColumnSums
<1>8. Sum(rows, S) = Sum(columns(S), P)
  BY <1>6
<1> HIDE DEF rows, columns
<1> QED
  BY <1>7, <1>8

-----------------------------------------------------------------------------
(* In a finite set that is strictly and totally ordered there is, for      *)
(* every n, a member with n - 1 members before it.                         *)
LEMMA RankExists ==
  ASSUME NEW S, IsFiniteSet(S), NEW below \in [S -> SUBSET S],
         \A x \in S : x \notin below[x],
         \A x \in S : \A y \in below[x] : below[y] \subseteq below[x],
         \A x, y \in S : x # y => x \in below[y] \/ y \in below[x],
         NEW n \in 1..Cardinality(S)
  PROVE  \E x \in S : Cardinality(below[x]) = n - 1
<1> DEFINE N == Cardinality(S)
           rank == [x \in S |-> Cardinality(below[x]) + 1]
<1>1. N \in Nat
  BY FS_CardinalityType
<1>2. \A x \in S : IsFiniteSet(below[x]) /\ Cardinality(below[x]) \in Nat
                   /\ Cardinality(below[x]) < N
  <2> TAKE x \in S
  <2>1. below[x] \in SUBSET S /\ x \notin below[x]
    OBVIOUS
  <2>2. below[x] # S
    BY <2>1
  <2>3. /\ IsFiniteSet(below[x]) /\ Cardinality(below[x]) <= N
        /\ N = Cardinality(below[x]) => S = below[x]
    BY <2>1, FS_Subset
  <2>4. Cardinality(below[x]) \in Nat
    BY <2>3, FS_CardinalityType
  <2> HIDE DEF N
  <2> QED
    BY <1>1, <2>2, <2>3, <2>4
<1>3. ASSUME NEW x \in S, NEW y \in S, x \in below[y] PROVE rank[x] # rank[y]
  <2>1. below[x] \in SUBSET below[y] /\ x \in below[y] /\ x \notin below[x]
    BY <1>3
  <2>2. rank[x] = Cardinality(below[x]) + 1 /\ rank[y] = Cardinality(below[y]) + 1
    OBVIOUS
  <2> HIDE DEF rank
  <2>3. Cardinality(below[y]) # Cardinality(below[x])
    BY <1>2, <2>1, FS_Subset
  <2> QED
    BY <1>2, <2>2, <2>3
<1>4. rank \in [S -> 1..N]
  <2> HIDE DEF N
  <2> QED
    BY <1>1, <1>2
<1>5. rank \in Injection(S, 1..N)
  <2> HIDE DEF rank, N
  <2> QED
    BY <1>3, <1>4 DEF Injection, IsInjective
<1>6. IsFiniteSet(1..N) /\ Cardinality(1..N) = N
  BY <1>1, FS_Interval
<1>7. rank \in Surjection(S, 1..N)
  <2> HIDE DEF rank
  <2>1. Cardinality(S) = Cardinality(1..N)
    BY <1>6
  <2> QED
    BY <1>5, <1>6, <2>1, FS_Injection
<1>8. PICK x \in S : rank[x] = n
  <2> HIDE DEF rank
  <2> QED
    BY <1>7 DEF Surjection
<1>9. Cardinality(below[x]) = n - 1
  <2>1. rank[x] = Cardinality(below[x]) + 1 /\ Cardinality(below[x]) \in Nat
    BY <1>2
  <2> HIDE DEF rank, N
  <2> QED
    BY <1>1, <1>8, <2>1
<1> QED
  BY <1>9

-----------------------------------------------------------------------------
(***************************************************************************)
(* The union of sets has at most as many members as the sets together, and *)
(* if it has as many, the sets are disjoint.                               *)
(***************************************************************************)
LEMMA UnionIsSmall ==
  ASSUME NEW R, IsFiniteSet(R), NEW I, NEW n,
         \A r \in R : IsFiniteSet(I[r]) /\ n[r] \in Nat /\ Cardinality(I[r]) <= n[r],
         NEW T \in SUBSET R
  PROVE  /\ IsFiniteSet(UNION {I[r] : r \in T})
         /\ Cardinality(UNION {I[r] : r \in T}) <= SumFunctionOnSet(n, T)
<1> DEFINE U(S) == UNION {I[r] : r \in S}
           F == {S \in SUBSET R : IsFiniteSet(U(S)) /\ Cardinality(U(S)) <= SumFunctionOnSet(n, S)}
<1>1. {} \in F
  <2>1. U({}) = {}
    OBVIOUS
  <2> QED
    BY <2>1, FS_EmptySet, SumOfNothing
<1>2. ASSUME NEW S \in SUBSET R, NEW x \in R \ S, S \in F
      PROVE  S \union {x} \in F
  <2>1. U(S \union {x}) = U(S) \union I[x]
    OBVIOUS
  <2>2. /\ IsFiniteSet(U(S) \union I[x])
        /\ Cardinality(U(S) \union I[x]) <= Cardinality(U(S)) + Cardinality(I[x])
    <3>1. IsFiniteSet(U(S)) /\ IsFiniteSet(I[x])
      BY <1>2
    <3> HIDE DEF U
    <3>2. /\ IsFiniteSet(U(S) \union I[x]) /\ IsFiniteSet(U(S) \cap I[x])
          /\ Cardinality(U(S) \union I[x]) =
               Cardinality(U(S)) + Cardinality(I[x]) - Cardinality(U(S) \cap I[x])
      BY <3>1, FS_Union, FS_Intersection
    <3> QED
      BY <3>1, <3>2, FS_CardinalityType
  <2>3. SumFunctionOnSet(n, S \union {x}) = n[x] + SumFunctionOnSet(n, S)
    <3>1. IsFiniteSet(S) /\ \A s \in S \union {x} : n[s] \in Int
      BY FS_Subset
    <3> QED
      BY <3>1, SumWith
  <2>4. /\ SumFunctionOnSet(n, S) \in Int
        /\ Cardinality(U(S)) \in Nat /\ Cardinality(I[x]) \in Nat
    BY <1>2, FS_Subset, SumWithout, FS_CardinalityType
  <2>5. Cardinality(U(S)) <= SumFunctionOnSet(n, S) /\ Cardinality(I[x]) <= n[x] /\ n[x] \in Nat
    BY <1>2
  <2> HIDE DEF U
  <2>6. Cardinality(U(S \union {x})) <= SumFunctionOnSet(n, S \union {x})
    <3>1. Cardinality(U(S) \union I[x]) \in Nat
      BY <2>2, FS_CardinalityType
    <3>2. Cardinality(U(S) \union I[x]) <= n[x] + SumFunctionOnSet(n, S)
      BY <2>2, <2>4, <2>5, <3>1
    <3> QED
      BY <2>1, <2>3, <3>2
  <2> QED
    BY <2>1, <2>2, <2>6
<1> HIDE DEF F
<1>3. T \in F
  <2>1. IsFiniteSet(T)
    BY FS_Subset
  <2> DEFINE G == {S \in SUBSET T : S \in F}
  <2>2. \A S \in SUBSET T : \A x \in T \ S : S \in G => S \union {x} \in G
    BY <1>2
  <2>3. {} \in G
    BY <1>1
  <2> HIDE DEF G
  <2>4. T \in G
    BY <2>1, <2>2, <2>3, FiniteInduction
  <2> QED
    BY <2>4 DEF G
<1> QED
  BY <1>3 DEF F

LEMMA FullUnionIsDisjoint ==
  ASSUME NEW R, IsFiniteSet(R), NEW I, NEW n,
         \A r \in R : IsFiniteSet(I[r]) /\ n[r] \in Nat /\ Cardinality(I[r]) <= n[r],
         Cardinality(UNION {I[r] : r \in R}) = SumFunctionOnSet(n, R),
         NEW a \in R, NEW b \in R, a # b
  PROVE  I[a] \cap I[b] = {}
<1> DEFINE Rest == UNION {I[r] : r \in R \ {a}}
<1>1. /\ IsFiniteSet(Rest) /\ Cardinality(Rest) <= SumFunctionOnSet(n, R \ {a})
  <2>1. R \ {a} \in SUBSET R
    OBVIOUS
  <2> HIDE DEF Rest
  <2>2. \A T \in SUBSET R : /\ IsFiniteSet(UNION {I[r] : r \in T})
                            /\ Cardinality(UNION {I[r] : r \in T}) <= SumFunctionOnSet(n, T)
    BY UnionIsSmall
  <2> QED
    BY <2>1, <2>2, Zenon DEF Rest
<1>2. UNION {I[r] : r \in R} = Rest \union I[a] /\ I[b] \subseteq Rest
  OBVIOUS
<1>3. SumFunctionOnSet(n, R) = n[a] + SumFunctionOnSet(n, R \ {a})
      /\ SumFunctionOnSet(n, R \ {a}) \in Int
  <2>1. \A r \in R : n[r] \in Int
    OBVIOUS
  <2>2. IsFiniteSet(R \ {a}) /\ \A r \in R \ {a} : n[r] \in Int
    BY FS_Subset
  <2> QED
    BY <2>1, <2>2, SumWithout
<1> HIDE DEF Rest
<1>4. /\ IsFiniteSet(Rest \cap I[a])
      /\ Cardinality(Rest \union I[a]) =
           Cardinality(Rest) + Cardinality(I[a]) - Cardinality(Rest \cap I[a])
  BY <1>1, FS_Union, FS_Intersection
<1>5. /\ Cardinality(Rest) \in Nat /\ Cardinality(I[a]) \in Nat
      /\ Cardinality(Rest \cap I[a]) \in Nat /\ Cardinality(I[a]) <= n[a] /\ n[a] \in Nat
  BY <1>1, <1>4, FS_CardinalityType
<1>6. Cardinality(Rest \cap I[a]) = 0
  <2> DEFINE u == Cardinality(Rest \union I[a])
  <2>1. u = n[a] + SumFunctionOnSet(n, R \ {a})
    BY <1>2, <1>3
  <2>2. u = Cardinality(Rest) + Cardinality(I[a]) - Cardinality(Rest \cap I[a])
    BY <1>4
  <2> HIDE DEF u
  <2> QED
    BY <1>1, <1>3, <1>5, <2>1, <2>2
<1>7. Rest \cap I[a] = {}
  BY <1>4, <1>6, FS_EmptySet
<1> QED
  BY <1>2, <1>7
=============================================================================
