---------------------------- MODULE RunCycleProofs ----------------------------
(***************************************************************************)
(* The financial path: what one cycle makes of a book, for any sealed data *)
(* and any policy, and what the ledger therefore says, for any number of   *)
(* runs and any grid.                                                      *)
(***************************************************************************)
EXTENDS RunCycle, RiskGateProofs, BrokerProofs

-----------------------------------------------------------------------------
(* build_orders: a list of a set's members is a numbering of them.         *)
Numbers(list, S) ==
  /\ Cardinality(S) \in Nat
  /\ list \in [1..Cardinality(S) -> S]
  /\ \A i, j \in 1..Cardinality(S) : list[i] = list[j] => i = j
  /\ \A x \in S : \E i \in 1..Cardinality(S) : x = list[i]

LEMMA SetToSeqNumbers ==
  ASSUME NEW S, IsFiniteSet(S)
  PROVE  Numbers(SetToSeq(S), S)
<1> DEFINE n == Cardinality(S)
           list == SetToSeq(S)
<1>1. n \in Nat /\ ExistsBijection(1..n, S)
  BY FS_CardinalityType
<1>2. PICK f : f \in [1..n -> S] /\ IsInjective(f)
  BY <1>1 DEF ExistsBijection, Bijection, Injection
<1>3. list \in [1..n -> S] /\ IsInjective(list)
  BY <1>2 DEF SetToSeq
<1>4. list \in Injection(1..n, S) /\ DOMAIN list = 1..n
  BY <1>3 DEF Injection
<1>5. Cardinality(1..n) = n
  BY <1>1, FS_Interval
<1> HIDE DEF list, n
<1>6. list \in Surjection(1..n, S)
  BY <1>4, <1>5, FS_Injection DEF n
<1>7. \A x \in S : \E i \in 1..n : x = list[i]
  BY <1>6 DEF Surjection
<1>8. \A i, j \in 1..n : list[i] = list[j] => i = j
  BY <1>3, <1>4 DEF IsInjective
<1> QED
  BY <1>1, <1>3, <1>7, <1>8 DEF Numbers, n, list

(* The orders toward a book of weights, side by side.                      *)
Delta(b, marks, weights, t) == TargetShares(weights, marks, t) - b.shares[t]
ToSell(b, marks, weights) == {t \in Tickers : Delta(b, marks, weights, t) < 0}
ToBuy(b, marks, weights) == {t \in Tickers : Delta(b, marks, weights, t) > 0}
OrderFor(side, b, marks, weights, t) ==
  [id |-> t, ticker |-> t, side |-> side,
   quantity |-> Abs(Delta(b, marks, weights, t)), price |-> marks[t]]
SideOrders(side, list, b, marks, weights) ==
  [i \in DOMAIN list |-> OrderFor(side, b, marks, weights, list[i])]

LEMMA BuildOrdersIs ==
  \A b, marks, weights : BuildOrders(b, marks, weights) =
    SideOrders("sell", SetToSeq(ToSell(b, marks, weights)), b, marks, weights)
      \o SideOrders("buy", SetToSeq(ToBuy(b, marks, weights)), b, marks, weights)
BY DEF BuildOrders, SideOrders, OrderFor, ToSell, ToBuy, Delta

(* Orders that take the book to its target: one for every ticker that is   *)
(* not there yet, each at its mark, each ending at its target.             *)
Rebalances(list, n, b, marks, weights) ==
  /\ OrdersOK(list, n) /\ OnePerTicker(list, n)
  /\ \A i \in 1..n : /\ list[i].price = marks[list[i].ticker]
                     /\ Left(b.shares, list[i]) = TargetShares(weights, marks, list[i].ticker)
                     /\ b.shares[list[i].ticker] # TargetShares(weights, marks, list[i].ticker)
  /\ \A t \in Tickers : \/ TargetShares(weights, marks, t) = b.shares[t]
                        \/ \E i \in 1..n : list[i].ticker = t

(* Cutting a weight down to whole shares never exceeds it.                 *)
LEMMA TargetIsAffordable ==
  ASSUME NEW marks \in [Tickers -> Nat \ {0}], NEW weights, NEW t \in Tickers,
         Weight(weights, t) \in Nat
  PROVE  /\ TargetShares(weights, marks, t) \in Nat
         /\ TargetShares(weights, marks, t) * marks[t] <= Weight(weights, t)
<1> DEFINE x == Weight(weights, t)
           d == marks[t]
<1>1. x \in Nat /\ d \in Nat \ {0} /\ 1 \in Nat /\ 1 <= d
  OBVIOUS
<1> HIDE DEF x, d
<1>2. (x * 1) \div d \in 0..x /\ d * ((x * 1) \div d) <= 1 * x
  BY <1>1, ScaleOfNatural
<1>3. Scale(x, 1, d) = (x * 1) \div d
  BY <1>1 DEF Scale
<1>4. TargetShares(weights, marks, t) = (x * 1) \div d
  BY <1>3 DEF TargetShares, x, d
<1>5. ((x * 1) \div d) * d = d * ((x * 1) \div d) /\ 1 * x = x
  BY <1>1, <1>2
<1> QED
  BY <1>2, <1>4, <1>5 DEF x, d

LEMMA OrderForFacts ==
  ASSUME NEW b, BookOK(b), NEW marks \in [Tickers -> Nat \ {0}], NEW weights,
         NEW t \in Tickers, TargetShares(weights, marks, t) \in Nat
  PROVE  /\ t \in ToSell(b, marks, weights) =>
              LET o == OrderFor("sell", b, marks, weights, t)
              IN  OrderOK(o) /\ o.ticker = t /\ o.price = marks[t]
                    /\ Left(b.shares, o) = TargetShares(weights, marks, t)
         /\ t \in ToBuy(b, marks, weights) =>
              LET o == OrderFor("buy", b, marks, weights, t)
              IN  OrderOK(o) /\ o.ticker = t /\ o.price = marks[t]
                    /\ Left(b.shares, o) = TargetShares(weights, marks, t)
<1> DEFINE d == Delta(b, marks, weights, t)
<1>1. b.shares[t] \in Int /\ d \in Int /\ d = TargetShares(weights, marks, t) - b.shares[t]
  BY DEF BookOK, Delta
<1>2. t \in ToSell(b, marks, weights) => d < 0
  BY DEF ToSell
<1>3. t \in ToBuy(b, marks, weights) => d > 0
  BY DEF ToBuy
<1> HIDE DEF d
<1>4. d < 0 => Abs(d) \in Nat /\ b.shares[t] - Abs(d) = TargetShares(weights, marks, t)
  BY <1>1 DEF Abs
<1>5. d > 0 => Abs(d) \in Nat /\ b.shares[t] + Abs(d) = TargetShares(weights, marks, t)
  BY <1>1 DEF Abs
<1>6. CASE t \in ToSell(b, marks, weights)
  <2>1. d < 0 /\ ~(d > 0)
    BY <1>1, <1>2, <1>6
  <2> QED
    BY <1>3, <1>4, <2>1 DEF OrderFor, OrderOK, Left, d
<1>7. CASE t \in ToBuy(b, marks, weights)
  <2>1. d > 0 /\ ~(d < 0)
    BY <1>1, <1>3, <1>7
  <2> QED
    BY <1>2, <1>5, <2>1 DEF OrderFor, OrderOK, Left, d
<1> QED
  BY <1>6, <1>7

(* One side of the batch: an order for every member of the side, and no    *)
(* ticker twice.                                                           *)
OneSide(list, k, S, b, marks, weights) ==
  /\ k \in Nat /\ DOMAIN list = 1..k
  /\ \A i \in 1..k : /\ OrderOK(list[i]) /\ list[i].ticker \in S
                     /\ list[i].price = marks[list[i].ticker]
                     /\ Left(b.shares, list[i]) = TargetShares(weights, marks, list[i].ticker)
  /\ \A i, j \in 1..k : i # j => list[i].ticker # list[j].ticker
  /\ \A t \in S : \E i \in 1..k : list[i].ticker = t

LEMMA SideOrdersAreOneSide ==
  ASSUME NEW b, BookOK(b), NEW marks \in [Tickers -> Nat \ {0}], NEW weights,
         \A t \in Tickers : TargetShares(weights, marks, t) \in Nat
  PROVE  /\ LET S == ToSell(b, marks, weights)
            IN  OneSide(SideOrders("sell", SetToSeq(S), b, marks, weights), Cardinality(S), S,
                        b, marks, weights)
         /\ LET S == ToBuy(b, marks, weights)
            IN  OneSide(SideOrders("buy", SetToSeq(S), b, marks, weights), Cardinality(S), S,
                        b, marks, weights)
<1>1. ASSUME NEW side, NEW S \in SUBSET Tickers,
             \A t \in S : LET o == OrderFor(side, b, marks, weights, t)
                          IN  /\ OrderOK(o) /\ o.ticker = t /\ o.price = marks[t]
                              /\ Left(b.shares, o) = TargetShares(weights, marks, t)
      PROVE  OneSide(SideOrders(side, SetToSeq(S), b, marks, weights), Cardinality(S), S,
                     b, marks, weights)
  <2> DEFINE k == Cardinality(S)
             names == SetToSeq(S)
             list == SideOrders(side, names, b, marks, weights)
  <2>1. IsFiniteSet(S)
    BY TickersAssumption, FS_Subset
  <2>2. Numbers(names, S)
    BY <2>1, SetToSeqNumbers
  <2> HIDE DEF names
  <2>3. /\ k \in Nat /\ names \in [1..k -> S]
        /\ \A i, j \in 1..k : names[i] = names[j] => i = j
        /\ \A x \in S : \E i \in 1..k : x = names[i]
    BY <2>2 DEF Numbers
  <2> HIDE DEF k
  <2>4. DOMAIN list = 1..k /\ \A i \in 1..k : list[i] = OrderFor(side, b, marks, weights, names[i])
    BY <2>3 DEF SideOrders
  <2> HIDE DEF list
  <2>5. \A i \in 1..k : /\ names[i] \in S /\ OrderOK(list[i]) /\ list[i].ticker = names[i]
                        /\ list[i].price = marks[names[i]]
                        /\ Left(b.shares, list[i]) = TargetShares(weights, marks, names[i])
    BY <1>1, <2>3, <2>4
  <2>6. OneSide(list, k, S, b, marks, weights)
    BY <2>3, <2>4, <2>5 DEF OneSide
  <2> QED
    BY <2>6 DEF list, names, k
<1>2. ToSell(b, marks, weights) \in SUBSET Tickers /\ ToBuy(b, marks, weights) \in SUBSET Tickers
  BY DEF ToSell, ToBuy
<1>3. \A t \in ToSell(b, marks, weights) :
        LET o == OrderFor("sell", b, marks, weights, t)
        IN  /\ OrderOK(o) /\ o.ticker = t /\ o.price = marks[t]
            /\ Left(b.shares, o) = TargetShares(weights, marks, t)
  BY <1>2, OrderForFacts
<1>4. \A t \in ToBuy(b, marks, weights) :
        LET o == OrderFor("buy", b, marks, weights, t)
        IN  /\ OrderOK(o) /\ o.ticker = t /\ o.price = marks[t]
            /\ Left(b.shares, o) = TargetShares(weights, marks, t)
  BY <1>2, OrderForFacts
<1>5. LET S == ToSell(b, marks, weights)
      IN  OneSide(SideOrders("sell", SetToSeq(S), b, marks, weights), Cardinality(S), S,
                  b, marks, weights)
  BY <1>1, <1>2, <1>3
<1>6. LET S == ToBuy(b, marks, weights)
      IN  OneSide(SideOrders("buy", SetToSeq(S), b, marks, weights), Cardinality(S), S,
                  b, marks, weights)
  BY <1>1, <1>2, <1>4
<1> QED
  BY <1>5, <1>6

LEMMA BuildOrdersRebalances ==
  ASSUME NEW b, BookOK(b), NEW marks \in [Tickers -> Nat \ {0}], NEW weights,
         \A t \in Tickers : Weight(weights, t) \in Nat
  PROVE  \E n \in Nat : Rebalances(BuildOrders(b, marks, weights), n, b, marks, weights)
<1> DEFINE A == ToSell(b, marks, weights)
           B == ToBuy(b, marks, weights)
           sells == SideOrders("sell", SetToSeq(A), b, marks, weights)
           buys == SideOrders("buy", SetToSeq(B), b, marks, weights)
           k == Cardinality(A)
           m == Cardinality(B)
           list == sells \o buys
           goal(t) == TargetShares(weights, marks, t)
<1>1. \A t \in Tickers : goal(t) \in Nat /\ b.shares[t] \in Int
  BY TargetIsAffordable DEF BookOK
<1>2. OneSide(sells, k, A, b, marks, weights) /\ OneSide(buys, m, B, b, marks, weights)
  BY <1>1, SideOrdersAreOneSide
<1>3. /\ A \subseteq Tickers /\ B \subseteq Tickers /\ A \intersect B = {}
      /\ \A t \in Tickers : goal(t) = b.shares[t] \/ t \in A \union B
  BY <1>1 DEF ToSell, ToBuy, Delta
<1>3a. \A t \in A \union B : b.shares[t] # goal(t)
  BY <1>1 DEF ToSell, ToBuy, Delta
<1>4. BuildOrders(b, marks, weights) = list
  BY BuildOrdersIs
<1> HIDE DEF sells, buys, A, B, k, m
<1>5. k \in Nat /\ m \in Nat /\ DOMAIN sells = 1..k /\ DOMAIN buys = 1..m
  BY <1>2 DEF OneSide
<1> DEFINE all == {sells[i] : i \in 1..k} \union {buys[i] : i \in 1..m}
<1>6. sells \in Seq(all) /\ buys \in Seq(all) /\ Len(sells) = k /\ Len(buys) = m
  <2>1. sells = [i \in 1..k |-> sells[i]] /\ buys = [i \in 1..m |-> buys[i]]
    BY <1>5 DEF sells, buys, SideOrders
  <2>2. sells \in [1..k -> all] /\ buys \in [1..m -> all]
    BY <2>1
  <2> HIDE DEF all
  <2> QED
    BY <1>5, <2>2
<1> HIDE DEF all
<1>7. /\ list \in Seq(all) /\ Len(list) = k + m
      /\ \A i \in 1..(k + m) : list[i] = IF i <= k THEN sells[i] ELSE buys[i - k]
  <2>1. /\ list \in Seq(all) /\ Len(list) = Len(sells) + Len(buys)
        /\ \A i \in 1..(Len(sells) + Len(buys)) :
             list[i] = IF i <= Len(sells) THEN sells[i] ELSE buys[i - Len(sells)]
    BY <1>6, ConcatProperties
  <2> HIDE DEF list
  <2> QED
    BY <1>6, <2>1
<1> HIDE DEF list
<1> DEFINE n == k + m
<1>8. n \in Nat /\ DOMAIN list = 1..n
  BY <1>5, <1>7
<1>9. /\ \A i \in 1..k : i \in 1..n /\ list[i] = sells[i]
      /\ \A i \in 1..m : k + i \in 1..n /\ list[k + i] = buys[i]
      /\ \A i \in 1..n : \/ i \in 1..k /\ list[i] = sells[i]
                         \/ i - k \in 1..m /\ list[i] = buys[i - k]
  <2>1. \A i \in 1..k : i \in 1..n /\ list[i] = sells[i]
    BY <1>5, <1>7
  <2>2. \A i \in 1..m : k + i \in 1..n /\ list[k + i] = buys[i]
    <3> TAKE i \in 1..m
    <3>1. k + i \in 1..(k + m) /\ ~(k + i <= k) /\ (k + i) - k = i
      BY <1>5
    <3> QED
      BY <1>7, <3>1
  <2>3. \A i \in 1..n : \/ i \in 1..k /\ list[i] = sells[i]
                        \/ i - k \in 1..m /\ list[i] = buys[i - k]
    BY <1>5, <1>7
  <2> QED
    BY <2>1, <2>2, <2>3
<1>10. \A i \in 1..n : /\ OrderOK(list[i]) /\ list[i].price = marks[list[i].ticker]
                       /\ Left(b.shares, list[i]) = goal(list[i].ticker)
  <2> TAKE i \in 1..n
  <2>1. CASE i \in 1..k /\ list[i] = sells[i]
    BY <1>2, <2>1 DEF OneSide
  <2>2. CASE i - k \in 1..m /\ list[i] = buys[i - k]
    BY <1>2, <2>2 DEF OneSide
  <2> QED
    BY <1>9, <2>1, <2>2
<1>10a. \A i \in 1..n : b.shares[list[i].ticker] # goal(list[i].ticker)
  <2> TAKE i \in 1..n
  <2>1. list[i].ticker \in A \union B
    BY <1>2, <1>9 DEF OneSide
  <2> QED
    BY <1>3a, <2>1
<1>11. \A i, j \in 1..n : i # j => list[i].ticker # list[j].ticker
  <2> SUFFICES ASSUME NEW i \in 1..n, NEW j \in 1..n, i # j
               PROVE  list[i].ticker # list[j].ticker
    OBVIOUS
  <2>1. \/ i \in 1..k /\ list[i] = sells[i] /\ sells[i].ticker \in A
        \/ i - k \in 1..m /\ list[i] = buys[i - k] /\ buys[i - k].ticker \in B
    BY <1>2, <1>9 DEF OneSide
  <2>2. \/ j \in 1..k /\ list[j] = sells[j] /\ sells[j].ticker \in A
        \/ j - k \in 1..m /\ list[j] = buys[j - k] /\ buys[j - k].ticker \in B
    BY <1>2, <1>9 DEF OneSide
  <2>3. i - k # j - k
    BY <1>5
  <2>4. /\ \A x, y \in 1..k : x # y => sells[x].ticker # sells[y].ticker
        /\ \A x, y \in 1..m : x # y => buys[x].ticker # buys[y].ticker
    BY <1>2 DEF OneSide
  <2> QED
    BY <1>3, <2>1, <2>2, <2>3, <2>4
<1>12. \A t \in Tickers : goal(t) = b.shares[t] \/ \E i \in 1..n : list[i].ticker = t
  <2> SUFFICES ASSUME NEW t \in Tickers, goal(t) # b.shares[t]
               PROVE  \E i \in 1..n : list[i].ticker = t
    OBVIOUS
  <2>1. t \in A \/ t \in B
    BY <1>3
  <2>2. CASE t \in A
    <3>1. PICK i \in 1..k : sells[i].ticker = t
      BY <1>2, <2>2 DEF OneSide
    <3> QED
      BY <1>9, <3>1
  <2>3. CASE t \in B
    <3>1. PICK i \in 1..m : buys[i].ticker = t
      BY <1>2, <2>3 DEF OneSide
    <3> QED
      BY <1>9, <3>1
  <2> QED
    BY <2>1, <2>2, <2>3
<1> HIDE DEF n
<1>13. Rebalances(list, n, b, marks, weights)
  BY <1>8, <1>10, <1>11, <1>12, <1>10a DEF Rebalances, OrdersOK, OnePerTicker
<1> QED
  BY <1>4, <1>8, <1>13

-----------------------------------------------------------------------------
(* What one cycle decides.                                                 *)
SoundBook(b) == BookOK(b) /\ Rounded(b) /\ Long(b)

LEMMA PolicyAtIsSound ==
  ASSUME NEW equity \in Nat
  PROVE  PolicySound(PolicyAt(equity)) /\ ~PolicyAt(equity).allowShorting
<1>1. ASSUME NEW p \in Nat
      PROVE  Hundredths(p, equity) \in Nat /\ (p <= 100 => Hundredths(p, equity) <= equity)
  <2>1. p * equity \in Nat /\ p * equity = equity * p /\ 100 \in Nat \ {0}
    OBVIOUS
  <2>2. (p * equity) \div 100 \in Nat
    BY <2>1, Quotient
  <2>3. p <= 100 => (equity * p) \div 100 \in 0..equity
    BY <2>1, ScaleOfNatural
  <2> QED
    BY <2>1, <2>2, <2>3 DEF Hundredths
<1>2. /\ Percent.maxPosition \in Nat /\ Percent.maxNet \in Nat /\ Percent.maxTurnover \in Nat
      /\ Percent.maxSector \in Nat /\ Percent.maxStrategy \in Nat
      /\ Percent.maxGross \in Nat /\ Percent.maxGross <= 100
      /\ Percent.minCash \in Nat /\ Percent.minCash <= 100
  BY PercentAssumption
<1>3. /\ Hundredths(Percent.maxPosition, equity) \in Nat
      /\ Hundredths(Percent.maxNet, equity) \in Nat
      /\ Hundredths(Percent.maxTurnover, equity) \in Nat
      /\ Hundredths(Percent.maxSector, equity) \in Nat
      /\ Hundredths(Percent.maxGross, equity) \in Nat
      /\ Hundredths(Percent.maxGross, equity) <= equity
      /\ Hundredths(Percent.minCash, equity) \in 0..equity
  BY <1>1, <1>2
<1> QED
  BY <1>2, <1>3 DEF PolicyAt, PolicySound

(* Marks that can be read price every ticker.                              *)
LEMMA MarksPriceTickers ==
  ASSUME NEW w \in Worlds, NEW b, Readable(w, b)
  PROVE  /\ w.marks \in [Tickers -> Nat \ {0}]
         /\ w.marks \in [Tickers -> Int]
<1>1. DOMAIN w.marks = Tickers /\ w.marks \in [DOMAIN w.marks -> Nat \ {0}]
  BY WorldsAssumption DEF Readable
<1>2. \A t \in Tickers : w.marks[t] \in Int
  BY <1>1
<1> QED
  BY <1>1, <1>2

LEMMA EquityIsNatural ==
  ASSUME NEW b, SoundBook(b), NEW marks \in [Tickers -> Nat \ {0}]
  PROVE  Equity(b, marks) \in Nat
<1> DEFINE f == Values(b.shares, marks)
           total == b.cash + Holdings(b.shares, marks)
<1>1. BookOK(b) /\ b.cash \in Nat /\ \A t \in Tickers : b.shares[t] \in Nat /\ marks[t] \in Nat
  BY DEF SoundBook, BookOK, Rounded, Long
<1>2. marks \in [Tickers -> Int]
  <2>1. \A t \in Tickers : marks[t] \in Int
    OBVIOUS
  <2> QED
    BY <2>1
<1>3. \A t \in Tickers : f[t] \in Nat
  BY <1>1 DEF Values
<1> HIDE DEF f
<1>4. SumFunctionOnSet(f, Tickers) \in Nat
  BY <1>3, TickersAssumption, SumNatural
<1>5. total \in Nat
  BY <1>1, <1>4 DEF Holdings, f
<1>6. Equity(b, marks) = RoundHalfEven(total, Cent)
  BY <1>1, <1>2, TickersAssumption, EquityIsRounded
<1> HIDE DEF total
<1>7. RoundHalfEven(total, Cent) \in Int /\ RoundHalfEven(total, Cent) >= 0
  BY <1>5, CentAssumption, RoundHalfEvenIsClose
<1> QED
  BY <1>6, <1>7

LEMMA CurrentWeightsAreABook ==
  ASSUME NEW w \in Worlds, NEW b, SoundBook(b), w.marks \in [Tickers -> Nat \ {0}]
  PROVE  LET current == CurrentWeights(w, b)
         IN  /\ WeightMap(current) /\ DOMAIN current = Held(b) /\ Held(b) \subseteq Tickers
             /\ \A t \in DOMAIN current : current[t] >= 0
             /\ \A t \in Tickers : Weight(current, t) = b.shares[t] * w.marks[t]
<1> DEFINE current == CurrentWeights(w, b)
           marks == w.marks
<1>1. \A t \in Tickers : b.shares[t] \in Nat /\ marks[t] \in Nat
  BY DEF SoundBook, BookOK, Long
<1>2. /\ DOMAIN current = Held(b) /\ Held(b) \subseteq Tickers
      /\ \A t \in Held(b) : current[t] = b.shares[t] * marks[t]
      /\ current = [t \in DOMAIN current |-> current[t]]
  BY DEF CurrentWeights, Held
<1>3. \A t \in Tickers : t \notin Held(b) => b.shares[t] = 0
  BY DEF Held
<1> HIDE DEF current, marks
<1>4. \A t \in Tickers : b.shares[t] * marks[t] \in Nat
  BY <1>1
<1>5. \A t \in DOMAIN current : current[t] \in Nat
  BY <1>2, <1>4
<1>6. \A t \in Tickers : Weight(current, t) = b.shares[t] * marks[t]
  <2> TAKE t \in Tickers
  <2>1. CASE t \in Held(b)
    BY <1>2, <2>1 DEF Weight
  <2>2. CASE t \notin Held(b)
    BY <1>1, <1>2, <1>3, <2>2 DEF Weight
  <2> QED
    BY <2>1, <2>2
<1>7. IsFiniteSet(DOMAIN current)
  BY <1>2, TickersAssumption, FS_Subset
<1> QED
  BY <1>2, <1>5, <1>6, <1>7 DEF WeightMap, current, marks

LEMMA ProposalIsABook ==
  ASSUME NEW w \in Worlds, NEW current, WeightMap(current), DOMAIN current \subseteq Tickers,
         NEW equity \in Nat
  PROVE  LET target == Proposal(w, current, equity)
         IN  WeightMap(target) /\ DOMAIN target \subseteq Tickers
<1>1. CASE Eligible(w) = {}
  BY <1>1 DEF Proposal
<1>2. CASE Eligible(w) # {}
  <2> DEFINE S == Eligible(w)
             f == [t \in S |-> w.scores[t]]
             total == SumFunction(f)
             shares == [t \in S |-> (w.scores[t] * GrossTarget * equity) \div (100 * total)]
  <2>1. S \subseteq Tickers /\ \A t \in S : w.scores[t] \in Nat \ {0}
    BY WorldsAssumption DEF Eligible
  <2>2. IsFiniteSet(S)
    BY <2>1, TickersAssumption, FS_Subset
  <2>3. DOMAIN f = S /\ \A t \in S : f[t] \in Nat \ {0}
    BY <2>1
  <2>4. Proposal(w, current, equity) = DropZeros(shares)
    BY <1>2 DEF Proposal, SharesOfGross
  <2> HIDE DEF S, f
  <2>5. total = SumFunctionOnSet(f, S)
    BY <2>3, SumOfFunction
  <2>6. total \in Nat \ {0}
    <3>1. PICK t \in S : TRUE
      BY <1>2 DEF S
    <3>2. SumFunctionOnSet(f, S) = f[t] + SumFunctionOnSet(f, S \ {t})
      BY <2>2, <2>3, SumWithout
    <3>3. IsFiniteSet(S \ {t}) /\ \A s \in S \ {t} : f[s] \in Nat
      BY <2>2, <2>3, OneLess
    <3>4. SumFunctionOnSet(f, S \ {t}) \in Nat
      BY <3>3, SumNatural
    <3> QED
      BY <2>3, <2>5, <3>2, <3>4
  <2> HIDE DEF total
  <2>7. \A t \in S : (w.scores[t] * GrossTarget * equity) \div (100 * total) \in Nat
    <3> TAKE t \in S
    <3>1. w.scores[t] * GrossTarget \in Nat
      BY <2>1, CapitalAssumption
    <3>2. w.scores[t] * GrossTarget * equity \in Nat
      BY <3>1
    <3>3. 100 * total \in Nat \ {0}
      BY <2>6
    <3> QED
      BY <3>2, <3>3, Quotient
  <2>8. DOMAIN shares = S /\ \A t \in S : shares[t] \in Nat
    BY <2>7
  <2>9. shares = [t \in DOMAIN shares |-> shares[t]]
    OBVIOUS
  <2> HIDE DEF shares
  <2>10. WeightMap(shares)
    BY <2>2, <2>8, <2>9 DEF WeightMap
  <2>11. WeightMap(DropZeros(shares)) /\ DOMAIN DropZeros(shares) \subseteq DOMAIN shares
    BY <2>10, DropZerosKeeps
  <2> QED
    BY <2>1, <2>4, <2>8, <2>11
<1> QED
  BY <1>1, <1>2

(* The decision of the gate and the orders that follow from it.            *)
Decision(w, b) ==
  Evaluate(Proposal(w, CurrentWeights(w, b), Equity(b, w.marks)), CurrentWeights(w, b),
           PolicyAt(Equity(b, w.marks)), SectorOf, Allocations)
Holds(w, b) ==
  /\ Held(b) # {}
  /\ Proposal(w, CurrentWeights(w, b), Equity(b, w.marks)) = CurrentWeights(w, b)

LEMMA OrdersFollowTheDecision ==
  \A w, b : Orders(w, b) =
    IF Decision(w, b).approved /\ ~Holds(w, b)
    THEN BuildOrders(b, w.marks, Decision(w, b).weights) ELSE <<>>
BY DEF Orders, Decision, Holds

(* What the gate allows of any forecasts: a long book within the limits of *)
(* the equity it saw, reached within the turnover limit.                   *)
Limits(w, b, weights) ==
  LET policy == PolicyAt(Equity(b, w.marks))
  IN  /\ policy.maxPosition \in Nat /\ policy.maxGross \in Nat /\ policy.maxTurnover \in Nat
      /\ WeightMap(weights) /\ DOMAIN weights \subseteq Tickers
      /\ \A t \in Tickers : /\ Weight(weights, t) \in Nat
                            /\ Weight(weights, t) <= policy.maxPosition
      /\ Gross(weights) <= policy.maxGross
      /\ SumFunctionOnSet(Additions(weights, CurrentWeights(w, b), Tickers), Tickers)
           <= 2 * policy.maxTurnover

LEMMA DecisionIsLimited ==
  ASSUME NEW w \in Worlds, NEW b, SoundBook(b), Readable(w, b)
  PROVE  Limits(w, b, Decision(w, b).weights)
<1> DEFINE equity == Equity(b, w.marks)
           policy == PolicyAt(equity)
           current == CurrentWeights(w, b)
           target == Proposal(w, current, equity)
           v == Evaluate(target, current, policy, SectorOf, Allocations).weights
<1>1. w.marks \in [Tickers -> Nat \ {0}]
  BY MarksPriceTickers
<1>2. equity \in Nat
  BY <1>1, EquityIsNatural
<1>3. /\ WeightMap(current) /\ DOMAIN current \subseteq Tickers
      /\ \A t \in DOMAIN current : current[t] >= 0
  BY <1>1, CurrentWeightsAreABook
<1> HIDE DEF equity, current
<1>4. PolicySound(policy) /\ ~policy.allowShorting
  BY <1>2, PolicyAtIsSound
<1>5. WeightMap(target) /\ DOMAIN target \subseteq Tickers
  BY <1>2, <1>3, ProposalIsABook
<1>6. Decision(w, b).weights = v
  BY DEF Decision, equity, current
<1> HIDE DEF policy, target
<1>7. WeightMap(v) /\ DOMAIN v \subseteq DOMAIN target \union DOMAIN current
  BY <1>3, <1>4, <1>5, EvaluateIsABook
<1>8. (\A t \in DOMAIN v : Abs(v[t]) <= policy.maxPosition) /\ Gross(v) <= policy.maxGross
  BY <1>3, <1>4, <1>5, EvaluateIsWithin
<1>9. DOMAIN target \union DOMAIN current \subseteq Tickers
  BY <1>3, <1>5
<1>10. /\ \A t \in Tickers : Weight(v, t) \in Nat
       /\ SumFunctionOnSet(Additions(v, current, Tickers), Tickers) <= 2 * policy.maxTurnover
  BY <1>3, <1>4, <1>5, <1>9, TickersAssumption, EvaluateLimitsAdditions
<1> HIDE DEF v
<1>11. policy.maxPosition \in Nat /\ policy.maxGross \in Nat /\ policy.maxTurnover \in Nat
  BY <1>4 DEF PolicySound
<1>12. \A t \in Tickers : Weight(v, t) <= policy.maxPosition
  <2> TAKE t \in Tickers
  <2>1. CASE t \in DOMAIN v
    <3>1. Weight(v, t) = v[t] /\ Weight(v, t) \in Nat /\ Abs(v[t]) <= policy.maxPosition
      BY <1>8, <1>10, <2>1 DEF Weight
    <3> QED
      BY <3>1 DEF Abs
  <2>2. CASE t \notin DOMAIN v
    BY <1>11, <2>2 DEF Weight
  <2> QED
    BY <2>1, <2>2
<1>13. Limits(w, b, v)
  BY <1>7, <1>8, <1>9, <1>10, <1>11, <1>12 DEF Limits, policy, equity, current
<1> QED
  BY <1>6, <1>13

(* Whatever a cycle orders, it is a batch, and one toward the decision.    *)
LEMMA OrdersRebalance ==
  ASSUME NEW w \in Worlds, NEW b, SoundBook(b), Readable(w, b)
  PROVE  \/ Orders(w, b) = <<>> /\ OrdersOK(Orders(w, b), 0)
         \/ /\ ~Holds(w, b)
            /\ \E n \in Nat : Rebalances(Orders(w, b), n, b, w.marks, Decision(w, b).weights)
<1>1. CASE ~(Decision(w, b).approved /\ ~Holds(w, b))
  <2>1. Orders(w, b) = <<>>
    BY <1>1, OrdersFollowTheDecision
  <2>2. OrdersOK(<<>>, 0)
    BY DEF OrdersOK
  <2> QED
    BY <2>1, <2>2
<1>2. CASE Decision(w, b).approved /\ ~Holds(w, b)
  <2>1. Orders(w, b) = BuildOrders(b, w.marks, Decision(w, b).weights)
    BY <1>2, OrdersFollowTheDecision
  <2>2. w.marks \in [Tickers -> Nat \ {0}] /\ BookOK(b)
    BY MarksPriceTickers DEF SoundBook
  <2>3. \A t \in Tickers : Weight(Decision(w, b).weights, t) \in Nat
    BY DecisionIsLimited DEF Limits
  <2> QED
    BY <1>2, <2>1, <2>2, <2>3, BuildOrdersRebalances
<1> QED
  BY <1>1, <1>2

-----------------------------------------------------------------------------
(* What one cycle makes of a book.                                         *)
Made(w, b, a, f) ==
  /\ Readable(w, b)
  /\ LET result == ExecuteBatch(b, Orders(w, b), FALSE)
     IN  result.error = "none" /\ a = result.book /\ f = result.fills

LEMMA ExecuteKeepsSound ==
  ASSUME NEW b, SoundBook(b), NEW list, NEW n, OrdersOK(list, n),
         NEW allowShorting, ~allowShorting
  PROVE  SoundBook(ExecuteBatch(b, list, allowShorting).book)
<1>1. BookOK(b) /\ Rounded(b) /\ Long(b)
  BY DEF SoundBook
<1> QED
  BY <1>1, ExecuteBatchKeepsBooks DEF SoundBook

(* The books stay sound: whole cents, no debt, no short position, an       *)
(* average cost for every holding.                                         *)
LEMMA MadeIsSound ==
  ASSUME NEW w \in Worlds, NEW b, SoundBook(b), NEW a, NEW f, Made(w, b, a, f)
  PROVE  SoundBook(a)
<1>1. Readable(w, b) /\ a = ExecuteBatch(b, Orders(w, b), FALSE).book
  BY DEF Made
<1>2. \E n : OrdersOK(Orders(w, b), n)
  BY <1>1, OrdersRebalance DEF Rebalances
<1>3. SoundBook(ExecuteBatch(b, Orders(w, b), FALSE).book)
  BY <1>2, ExecuteKeepsSound
<1> QED
  BY <1>1, <1>3

(* A batch that brings the book to its target leaves every position there. *)
AtTarget(result, marks, weights) ==
  result.error = "none" =>
    \A t \in Tickers : result.book.shares[t] = TargetShares(weights, marks, t)

LEMMA RebalancedBook ==
  ASSUME NEW b, BookOK(b), NEW list, NEW n, NEW marks, NEW weights,
         Rebalances(list, n, b, marks, weights), NEW allowShorting
  PROVE  AtTarget(ExecuteBatch(b, list, allowShorting), marks, weights)
<1> DEFINE r == ExecuteBatch(b, list, allowShorting)
           c == BatchAfter(b, list, allowShorting, n)
<1>1. OrdersOK(list, n) /\ OnePerTicker(list, n) /\ n \in Nat
  BY DEF Rebalances, OrdersOK
<1>2. Executed(r, b, c)
  BY <1>1, ExecuteBatchIs
<1>3. c.error = "none" => MovedOnce(c, b, list, n)
  <2>1. n \in 0..n
    BY <1>1
  <2> QED
    BY <1>1, <2>1, DistinctBatch
<1> HIDE DEF r, c
<1>4. r.error = "none" => MovedOnce(c, b, list, n) /\ r.book.shares = c.shares
  BY <1>2, <1>3 DEF Executed, CommittedBook, r
<1>5. ASSUME r.error = "none", NEW t \in Tickers PROVE c.shares[t] = TargetShares(weights, marks, t)
  <2>1. CASE \E i \in 1..n : list[i].ticker = t
    <3>1. PICK i \in 1..n : list[i].ticker = t
      BY <2>1
    <3>2. c.shares[t] = Left(b.shares, list[i])
      BY <1>4, <1>5, <3>1 DEF MovedOnce
    <3>3. Left(b.shares, list[i]) = TargetShares(weights, marks, t)
      BY <3>1 DEF Rebalances
    <3> QED
      BY <3>2, <3>3
  <2>2. CASE ~\E i \in 1..n : list[i].ticker = t
    <3>1. c.shares[t] = b.shares[t]
      BY <1>4, <1>5, <2>2 DEF MovedOnce, Untouched
    <3>2. b.shares[t] = TargetShares(weights, marks, t)
      BY <2>2 DEF Rebalances
    <3> QED
      BY <3>1, <3>2
  <2> QED
    BY <2>1, <2>2
<1> QED
  BY <1>4, <1>5 DEF AtTarget, r

(* No orders, no fills; no change either.                                  *)
NothingDone(result, b) == result.error = "none" /\ result.book = b /\ result.fills = <<>>

LEMMA NothingOrdered ==
  ASSUME NEW b, SoundBook(b), NEW list, OrdersOK(list, 0), NEW allowShorting
  PROVE  NothingDone(ExecuteBatch(b, list, allowShorting), b)
<1> DEFINE r == ExecuteBatch(b, list, allowShorting)
           c == BatchAfter(b, list, allowShorting, 0)
<1>1. BookOK(b) /\ Rounded(b) /\ DOMAIN list = {}
  <2>1. 1..0 = {}
    OBVIOUS
  <2> QED
    BY <2>1 DEF SoundBook, OrdersOK
<1>2. r.error = "none" /\ r.book = b
  BY <1>1, NothingToExecute
<1>3. Executed(r, b, c)
  BY <1>1, ExecuteBatchIs
<1>4. c = Started(b)
  <2>1. 0 \in Nat /\ DOMAIN list = 1..0
    BY DEF OrdersOK
  <2> QED
    BY <2>1, BatchStepByStep
<1> HIDE DEF r, c
<1>5. r.fills = <<>>
  BY <1>2, <1>3, <1>4 DEF Executed, Started
<1> QED
  BY <1>2, <1>5 DEF NothingDone, r

(* A cycle in which every forecast abstains leaves the book alone: it      *)
(* holds what it has, or has nothing and is given nothing.                 *)
LEMMA AbstainingChangesNothing ==
  ASSUME NEW w \in Worlds, NEW b, SoundBook(b), NEW a, NEW f, Made(w, b, a, f),
         Eligible(w) = {}
  PROVE  a = b
<1> DEFINE equity == Equity(b, w.marks)
           current == CurrentWeights(w, b)
           weights == Decision(w, b).weights
<1>1. Readable(w, b) /\ a = ExecuteBatch(b, Orders(w, b), FALSE).book
  BY DEF Made
<1>2. Proposal(w, current, equity) = current
  BY DEF Proposal
<1>3. CASE Orders(w, b) = <<>> /\ OrdersOK(Orders(w, b), 0)
  BY <1>1, <1>3, NothingOrdered DEF NothingDone
<1>4. ASSUME ~Holds(w, b), NEW n \in Nat, Rebalances(Orders(w, b), n, b, w.marks, weights)
      PROVE  a = b
  <2>1. Held(b) = {}
    BY <1>2, <1>4 DEF Holds
  <2>2. w.marks \in [Tickers -> Nat \ {0}]
    BY <1>1, MarksPriceTickers
  <2>3. WeightMap(current) /\ DOMAIN current = {}
    BY <2>1, <2>2, CurrentWeightsAreABook
  <2>4. equity \in Nat
    BY <2>2, EquityIsNatural
  <2>5. PolicySound(PolicyAt(equity))
    BY <2>4, PolicyAtIsSound
  <2>6. weights = Evaluate(current, current, PolicyAt(equity), SectorOf, Allocations).weights
    BY <1>2 DEF Decision
  <2> HIDE DEF weights, current, equity
  <2>7. DOMAIN weights \subseteq {}
    BY <2>3, <2>5, <2>6, EvaluateIsABook
  <2>8. \A t \in Tickers : TargetShares(weights, w.marks, t) = 0 /\ b.shares[t] = 0
    <3> TAKE t \in Tickers
    <3>1. Weight(weights, t) = 0 /\ w.marks[t] \in Nat \ {0}
      BY <2>2, <2>7 DEF Weight
    <3>2. TargetShares(weights, w.marks, t) = 0
      BY <3>1 DEF TargetShares, Scale
    <3> QED
      BY <2>1, <3>2 DEF Held
  <2>9. n = 0
    <3>1. \A i \in 1..n : FALSE
      <4> TAKE i \in 1..n
      <4>1. Orders(w, b)[i].ticker \in Tickers
        BY <1>4 DEF Rebalances, OrdersOK, OrderOK
      <4> QED
        BY <1>4, <2>8, <4>1 DEF Rebalances
    <3> QED
      BY <3>1
  <2>10. OrdersOK(Orders(w, b), 0)
    BY <1>4, <2>9 DEF Rebalances
  <2> QED
    BY <1>1, <2>10, NothingOrdered DEF NothingDone
<1> QED
  BY <1>1, <1>3, <1>4, OrdersRebalance

(* A cycle that trades leaves every position at its target: at most its    *)
(* weight, so what held of the weights holds of the shares.                *)
TradeLimits(w, b, a) ==
  LET marks  == w.marks
      policy == PolicyAt(Equity(b, marks))
      value(c) == [t \in Tickers |-> c.shares[t] * marks[t]]
      bought == [t \in Tickers |-> Positive(value(a)[t] - value(b)[t])]
  IN  /\ \A t \in Tickers : value(a)[t] <= policy.maxPosition
      /\ SumFunction(value(a)) <= policy.maxGross
      /\ SumFunction(bought) <= 2 * policy.maxTurnover

LEMMA TradingIsWithinLimits ==
  ASSUME NEW w \in Worlds, NEW b, SoundBook(b), NEW a, NEW f, Made(w, b, a, f), f # <<>>
  PROVE  TradeLimits(w, b, a)
<1> DEFINE marks == w.marks
           policy == PolicyAt(Equity(b, marks))
           current == CurrentWeights(w, b)
           weights == Decision(w, b).weights
           goal(t) == TargetShares(weights, marks, t)
           after == Values(a.shares, marks)
           prior == Values(b.shares, marks)
           bought == [t \in Tickers |-> Positive(after[t] - prior[t])]
           added == Additions(weights, current, Tickers)
           sizes == Sizes(weights)
<1>1. /\ Readable(w, b) /\ ExecuteBatch(b, Orders(w, b), FALSE).error = "none"
      /\ a = ExecuteBatch(b, Orders(w, b), FALSE).book
      /\ f = ExecuteBatch(b, Orders(w, b), FALSE).fills
  BY DEF Made
<1>2. \A t \in Tickers : a.shares[t] = goal(t)
  <2> DEFINE list == Orders(w, b)
  <2>1. ~OrdersOK(list, 0)
    <3>1. OrdersOK(list, 0) => NothingDone(ExecuteBatch(b, list, FALSE), b)
      BY NothingOrdered
    <3> QED
      BY <1>1, <3>1 DEF NothingDone
  <2>2. PICK n \in Nat : Rebalances(list, n, b, marks, weights)
    BY <1>1, <2>1, OrdersRebalance
  <2>3. BookOK(b) /\ ExecuteBatch(b, list, FALSE).error = "none"
    BY <1>1 DEF SoundBook
  <2> HIDE DEF list, marks, weights
  <2>4. AtTarget(ExecuteBatch(b, list, FALSE), marks, weights)
    BY <2>2, <2>3, RebalancedBook
  <2> QED
    BY <1>1, <2>4 DEF AtTarget, list
<1>3. Limits(w, b, weights)
  BY <1>1, DecisionIsLimited
<1>4. marks \in [Tickers -> Nat \ {0}]
  BY <1>1, MarksPriceTickers
<1>5. \A t \in Tickers : Weight(current, t) = b.shares[t] * marks[t]
  BY <1>4, CurrentWeightsAreABook
<1>6. \A t \in Tickers : b.shares[t] \in Nat
  BY DEF SoundBook, BookOK, Long
<1> HIDE DEF marks, current, weights
<1>7. /\ policy.maxPosition \in Nat /\ policy.maxGross \in Nat /\ policy.maxTurnover \in Nat
      /\ WeightMap(weights) /\ DOMAIN weights \subseteq Tickers
      /\ \A t \in Tickers : Weight(weights, t) \in Nat /\ Weight(weights, t) <= policy.maxPosition
      /\ Gross(weights) <= policy.maxGross
      /\ SumFunctionOnSet(added, Tickers) <= 2 * policy.maxTurnover
  BY <1>3 DEF Limits, marks, current, weights
<1> HIDE DEF policy
<1>8. \A t \in Tickers : /\ after[t] \in Nat /\ after[t] <= Weight(weights, t)
                         /\ prior[t] \in Nat /\ prior[t] = Weight(current, t)
  <2> TAKE t \in Tickers
  <2>1. goal(t) \in Nat /\ goal(t) * marks[t] <= Weight(weights, t)
    BY <1>4, <1>7, TargetIsAffordable
  <2>2. after[t] = goal(t) * marks[t] /\ prior[t] = b.shares[t] * marks[t]
    BY <1>2 DEF Values
  <2>3. goal(t) * marks[t] \in Nat /\ b.shares[t] * marks[t] \in Nat
    <3>1. \A x, y \in Nat : x * y \in Nat
      OBVIOUS
    <3> QED
      BY <1>4, <1>6, <2>1, <3>1
  <2> QED
    BY <1>5, <2>1, <2>2, <2>3
<1> HIDE DEF goal, after, prior
<1>9. \A t \in Tickers : after[t] <= policy.maxPosition
  BY <1>7, <1>8
<1>10. SumFunctionOnSet(after, Tickers) <= policy.maxGross
  <2> DEFINE all == [t \in Tickers |-> Weight(weights, t)]
             D == DOMAIN weights
  <2>1. \A t \in Tickers : all[t] \in Nat /\ after[t] <= all[t]
    BY <1>7, <1>8
  <2>2. SumFunctionOnSet(after, Tickers) <= SumFunctionOnSet(all, Tickers)
    <3>1. \A t \in Tickers : after[t] \in Int /\ all[t] \in Int /\ after[t] <= all[t]
      BY <1>8, <2>1
    <3> HIDE DEF all
    <3> QED
      BY <3>1, TickersAssumption, SumDominated
  <2>3. \A t \in Tickers \ D : all[t] = 0
    BY DEF Weight
  <2>4. \A t \in D : t \in Tickers /\ all[t] = weights[t] /\ weights[t] \in Nat
    BY <1>7 DEF Weight
  <2>5. \A t \in D : sizes[t] = all[t] /\ sizes[t] \in Int
    <3>1. \A t \in D : sizes[t] = Abs(weights[t])
      BY DEF Sizes
    <3>2. \A x \in Nat : Abs(x) = x /\ x \in Int
      BY DEF Abs
    <3> HIDE DEF sizes, all
    <3> QED
      BY <2>4, <3>1, <3>2
  <2> HIDE DEF all
  <2>6. SumFunctionOnSet(all, D) = SumFunctionOnSet(all, Tickers)
    BY <1>7, <2>1, <2>3, TickersAssumption, SumOfPart
  <2>7. IsFiniteSet(D)
    BY <1>7 DEF WeightMap
  <2> HIDE DEF sizes, D
  <2>8. SumFunctionOnSet(sizes, D) = SumFunctionOnSet(all, D)
    BY <2>5, <2>7, SumOfEquals
  <2>9. Gross(weights) = SumFunctionOnSet(sizes, D)
    BY ExposuresAreSums DEF sizes, D
  <2>10. /\ SumFunctionOnSet(after, Tickers) \in Int /\ SumFunctionOnSet(all, Tickers) \in Int
    BY <1>8, <2>1, TickersAssumption, SumWithout
  <2> QED
    BY <1>7, <2>2, <2>6, <2>8, <2>9, <2>10
<1>11. SumFunctionOnSet(bought, Tickers) <= 2 * policy.maxTurnover
  <2>1. \A t \in Tickers : bought[t] \in Int /\ added[t] \in Int /\ bought[t] <= added[t]
    <3> TAKE t \in Tickers
    <3>1. /\ bought[t] = Positive(after[t] - prior[t])
          /\ added[t] = Positive(Weight(weights, t) - Weight(current, t))
      BY DEF Additions
    <3> QED
      BY <1>7, <1>8, <3>1 DEF Positive
  <2> HIDE DEF bought, added
  <2>2. SumFunctionOnSet(bought, Tickers) <= SumFunctionOnSet(added, Tickers)
    BY <2>1, TickersAssumption, SumDominated
  <2>3. SumFunctionOnSet(bought, Tickers) \in Int /\ SumFunctionOnSet(added, Tickers) \in Int
    BY <2>1, TickersAssumption, SumWithout
  <2> QED
    BY <1>7, <2>2, <2>3
<1>12. /\ SumFunction(after) = SumFunctionOnSet(after, Tickers)
       /\ SumFunction(bought) = SumFunctionOnSet(bought, Tickers)
  <2>1. DOMAIN after = Tickers /\ DOMAIN bought = Tickers
    BY DEF Values, after
  <2> HIDE DEF bought
  <2> QED
    BY <2>1, SumOfFunction
<1>13. /\ SumFunction(after) <= policy.maxGross
       /\ SumFunction(bought) <= 2 * policy.maxTurnover
  BY <1>10, <1>11, <1>12
<1> QED
  BY <1>9, <1>13 DEF TradeLimits, policy, marks, after, prior, Values

-----------------------------------------------------------------------------
(* Type correctness of a step, given that what is appended is a row.       *)
LEMMA TypesPreserved ==
  ASSUME TypeOK, [Next]_vars,
         \A r \in Runs : pc[r] = "append" => record[r].cycle \in Grid
  PROVE  TypeOK'
<1> USE DEF Goto, TypeOK, Locations, history
<1>1. ASSUME NEW r \in Runs, Research(r) PROVE TypeOK'
  BY <1>1 DEF Research
<1>2. ASSUME NEW r \in Runs, ResearchHalts(r) PROVE TypeOK'
  BY <1>2 DEF ResearchHalts
<1>3. ASSUME NEW r \in Runs, Execute(r) PROVE TypeOK'
  BY <1>3 DEF Execute
<1>4. ASSUME NEW r \in Runs, ExecuteRefused(r) PROVE TypeOK'
  BY <1>4 DEF ExecuteRefused
<1>5. ASSUME NEW r \in Runs, MakeRecord(r) PROVE TypeOK'
  BY <1>5 DEF MakeRecord
<1>6. ASSUME NEW r \in Runs, RecordFails(r) PROVE TypeOK'
  BY <1>6 DEF RecordFails
<1>7. ASSUME NEW r \in Runs, AppendStored(r) PROVE TypeOK'
  <2>1. pc' \in [Runs -> Locations] /\ cycle' \in [Runs -> Grid]
    <3>1. CASE cycle[r] < Cycles
      <4>1. cycle[r] + 1 \in Grid
        BY <3>1, CyclesAssumption DEF Grid
      <4> QED
        BY <1>7, <3>1, <4>1 DEF AppendStored
    <3>2. CASE ~(cycle[r] < Cycles)
      BY <1>7, <3>2 DEF AppendStored
    <3> QED
      BY <3>1, <3>2
  <2>2. \A row \in ledger' : row.cycle \in Grid
    BY <1>7 DEF AppendStored
  <2> QED
    BY <1>7, <2>1, <2>2 DEF AppendStored
<1>8. ASSUME NEW r \in Runs, AppendFails(r) PROVE TypeOK'
  BY <1>8 DEF AppendFails
<1>9. ASSUME NEW r \in Runs, CallAgain(r) PROVE TypeOK'
  BY <1>9 DEF CallAgain
<1>10. ASSUME NEW r \in Runs, Crash(r) PROVE TypeOK'
  <2>1. 1 \in Grid
    BY CyclesAssumption DEF Grid
  <2>2. pc' \in [Runs -> Locations] /\ cycle' \in [Runs -> Grid]
    BY <1>10, <2>1 DEF Crash
  <2> QED
    BY <1>10, <2>2 DEF Crash
<1>11. ASSUME NEW r \in Runs, Restart(r) PROVE TypeOK'
  BY <1>11 DEF Restart
<1>12. CASE Edit
  BY <1>12, BuildsAssumption DEF Edit
<1>13. CASE UNCHANGED vars
  BY <1>13 DEF vars
<1> QED
  BY <1>1, <1>2, <1>3, <1>4, <1>5, <1>6, <1>7, <1>8, <1>9, <1>10, <1>11, <1>12, <1>13
  DEF Next, Step

-----------------------------------------------------------------------------
(* What holds whatever fails: every book is sound, a run in the middle of  *)
(* a cycle has what the cycle makes of its opening book, and every row     *)
(* records exactly that.                                                   *)
RowOK(row) ==
  /\ row.cycle \in Grid
  /\ row = [cycle |-> row.cycle, build |-> row.build, before |-> row.before,
            after |-> row.after, fills |-> row.fills]
  /\ SoundBook(row.before)
  /\ Made(world[row.cycle], row.before, row.after, row.fills)

InProgress(r) ==
  /\ pc[r] = "execute" => /\ before[r] = book[r]
                          /\ Readable(world[cycle[r]], book[r])
                          /\ orders[r] = Orders(world[cycle[r]], book[r])
  /\ pc[r] = "record" => Made(world[cycle[r]], before[r], book[r], fills[r])
  /\ pc[r] = "append" => RowOK(record[r])

CycleInv ==
  /\ world \in [Grid -> Worlds]
  /\ TypeOK
  /\ \A r \in Runs : SoundBook(book[r]) /\ SoundBook(before[r]) /\ InProgress(r)
  /\ \A row \in ledger : RowOK(row)

LEMMA OpeningIsSound == SoundBook(Opening)
<1> DEFINE cash == RoundHalfEven(Capital, Cent)
<1>1. cash \in Int /\ cash >= 0 /\ cash % Cent = 0
  <2>1. Capital \in Int /\ Capital >= 0
    BY CapitalAssumption
  <2> QED
    BY <2>1, CentAssumption, RoundHalfEvenIsClose
<1>2. /\ Opening = [cash |-> cash, shares |-> [t \in Tickers |-> 0], costed |-> {}]
      /\ {} \in SUBSET Tickers
  BY DEF Opening, OpeningBook
<1> HIDE DEF cash
<1> QED
  BY <1>1, <1>2 DEF SoundBook, BookOK, Rounded, Long

LEMMA CycleInit == Init => CycleInv
<1> SUFFICES ASSUME Init PROVE CycleInv
  OBVIOUS
<1>1. TypeOK
  BY CyclesAssumption, BuildsAssumption DEF Init, TypeOK, Locations, Grid
<1>2. \A r \in Runs : SoundBook(book[r]) /\ SoundBook(before[r]) /\ InProgress(r)
  BY OpeningIsSound DEF Init, InProgress
<1> QED
  BY <1>1, <1>2 DEF Init, CycleInv

LEMMA LocalCycleStep ==
  ASSUME CycleInv, TypeOK', UNCHANGED world, NEW r \in Runs,
         \A s \in Runs \ {r} :
           /\ pc'[s] = pc[s] /\ cycle'[s] = cycle[s] /\ book'[s] = book[s]
           /\ before'[s] = before[s] /\ orders'[s] = orders[s] /\ fills'[s] = fills[s]
           /\ record'[s] = record[s],
         SoundBook(book'[r]), SoundBook(before'[r]), InProgress(r)',
         \A row \in ledger' : RowOK(row)
  PROVE  CycleInv'
<1>1. ASSUME NEW s \in Runs
      PROVE  SoundBook(book'[s]) /\ SoundBook(before'[s]) /\ InProgress(s)'
  <2>1. CASE s = r
    BY <2>1
  <2>2. CASE s # r
    <3>1. /\ pc'[s] = pc[s] /\ cycle'[s] = cycle[s] /\ book'[s] = book[s]
          /\ before'[s] = before[s] /\ orders'[s] = orders[s] /\ fills'[s] = fills[s]
          /\ record'[s] = record[s] /\ world' = world
      BY <2>2
    <3>2. SoundBook(book[s]) /\ SoundBook(before[s]) /\ InProgress(s)
      BY DEF CycleInv
    <3>3. InProgress(s)' <=> InProgress(s)
      BY <3>1 DEF InProgress, RowOK
    <3> QED
      BY <3>1, <3>2, <3>3
  <2> QED
    BY <2>1, <2>2
<1>2. (world \in [Grid -> Worlds])'
  BY DEF CycleInv
<1>3. (\A row \in ledger : RowOK(row))'
  BY DEF RowOK
<1> QED
  BY <1>1, <1>2, <1>3 DEF CycleInv

LEMMA CycleStep ==
  ASSUME CycleInv, [Next]_vars
  PROVE  CycleInv'
<1>1. TypeOK'
  BY TypesPreserved DEF CycleInv, InProgress, RowOK
<1>2. /\ TypeOK /\ world \in [Grid -> Worlds]
      /\ \A r \in Runs : SoundBook(book[r]) /\ SoundBook(before[r]) /\ InProgress(r)
      /\ \A row \in ledger : RowOK(row)
      /\ \A r \in Runs : cycle[r] \in Grid /\ world[cycle[r]] \in Worlds
  BY DEF CycleInv, TypeOK
<1> USE DEF Goto
<1>3. ASSUME NEW r \in Runs, Research(r) PROVE CycleInv'
  <2>1. InProgress(r)' /\ SoundBook(book'[r]) /\ SoundBook(before'[r])
    BY <1>2, <1>3 DEF Research, InProgress, TypeOK
  <2>2. \A row \in ledger' : RowOK(row)
    BY <1>2, <1>3 DEF Research
  <2> QED
    BY <1>1, <1>2, <1>3, <2>1, <2>2, LocalCycleStep DEF Research, TypeOK
<1>4. ASSUME NEW r \in Runs, ResearchHalts(r) PROVE CycleInv'
  <2>1. InProgress(r)' /\ SoundBook(book'[r]) /\ SoundBook(before'[r])
    BY <1>2, <1>4 DEF ResearchHalts, InProgress, TypeOK
  <2>2. \A row \in ledger' : RowOK(row)
    BY <1>2, <1>4 DEF ResearchHalts
  <2> QED
    BY <1>1, <1>2, <1>4, <2>1, <2>2, LocalCycleStep DEF ResearchHalts, TypeOK
<1>5. ASSUME NEW r \in Runs, Execute(r) PROVE CycleInv'
  <2> DEFINE w == world[cycle[r]]
             result == ExecuteBatch(book[r], orders[r], FALSE)
  <2>1. /\ pc[r] = "execute" /\ result.error = "none"
        /\ book'[r] = result.book /\ fills'[r] = result.fills /\ before'[r] = before[r]
        /\ pc'[r] = "record" /\ cycle'[r] = cycle[r] /\ world' = world /\ ledger' = ledger
    BY <1>2, <1>5 DEF Execute, TypeOK
  <2>2. before[r] = book[r] /\ Readable(w, book[r]) /\ orders[r] = Orders(w, book[r])
    BY <1>2, <2>1 DEF InProgress
  <2>3. Made(w, before'[r], book'[r], fills'[r])
    BY <2>1, <2>2 DEF Made
  <2>4. SoundBook(before'[r])
    BY <1>2, <2>1
  <2>5. w \in Worlds
    BY <1>2
  <2> HIDE DEF w
  <2>6. SoundBook(book'[r])
    BY <2>3, <2>4, <2>5, MadeIsSound
  <2>7. InProgress(r)'
    BY <2>1, <2>3 DEF InProgress, w
  <2>8. \A row \in ledger' : RowOK(row)
    BY <1>2, <2>1
  <2> QED
    BY <1>1, <1>2, <1>5, <2>4, <2>6, <2>7, <2>8, LocalCycleStep DEF Execute, TypeOK
<1>6. ASSUME NEW r \in Runs, ExecuteRefused(r) PROVE CycleInv'
  <2>1. InProgress(r)' /\ SoundBook(book'[r]) /\ SoundBook(before'[r])
    BY <1>2, <1>6 DEF ExecuteRefused, InProgress, TypeOK
  <2>2. \A row \in ledger' : RowOK(row)
    BY <1>2, <1>6 DEF ExecuteRefused
  <2> QED
    BY <1>1, <1>2, <1>6, <2>1, <2>2, LocalCycleStep DEF ExecuteRefused, TypeOK
<1>7. ASSUME NEW r \in Runs, MakeRecord(r) PROVE CycleInv'
  <2>1. SoundBook(book'[r]) /\ SoundBook(before'[r])
    BY <1>2, <1>7 DEF MakeRecord
  <2>2. /\ pc[r] = "record" /\ pc'[r] = "append" /\ world' = world
        /\ record'[r] = [cycle |-> cycle[r], build |-> build, before |-> before[r],
                         after |-> book[r], fills |-> fills[r]]
    BY <1>2, <1>7 DEF MakeRecord, TypeOK
  <2>3. Made(world[cycle[r]], before[r], book[r], fills[r])
    BY <1>2, <2>2 DEF InProgress
  <2>4. RowOK(record'[r])
    BY <1>2, <2>2, <2>3 DEF RowOK
  <2>5. InProgress(r)'
    BY <2>2, <2>4 DEF InProgress, RowOK
  <2>6. \A row \in ledger' : RowOK(row)
    BY <1>2, <1>7 DEF MakeRecord
  <2> QED
    BY <1>1, <1>2, <1>7, <2>1, <2>5, <2>6, LocalCycleStep DEF MakeRecord, TypeOK
<1>8. ASSUME NEW r \in Runs, RecordFails(r) PROVE CycleInv'
  <2>1. InProgress(r)' /\ SoundBook(book'[r]) /\ SoundBook(before'[r])
    BY <1>2, <1>8 DEF RecordFails, InProgress, TypeOK
  <2>2. \A row \in ledger' : RowOK(row)
    BY <1>2, <1>8 DEF RecordFails
  <2> QED
    BY <1>1, <1>2, <1>8, <2>1, <2>2, LocalCycleStep DEF RecordFails, TypeOK
<1>9. ASSUME NEW r \in Runs, AppendStored(r) PROVE CycleInv'
  <2>1. SoundBook(book'[r]) /\ SoundBook(before'[r])
    BY <1>2, <1>9 DEF AppendStored
  <2>2. pc'[r] \in {"start", "done"}
    BY <1>2, <1>9 DEF AppendStored, TypeOK
  <2>3. InProgress(r)'
    BY <2>2 DEF InProgress
  <2>4. RowOK(record[r])
    BY <1>2, <1>9 DEF AppendStored, InProgress
  <2>5. \A row \in ledger' : RowOK(row)
    BY <1>2, <1>9, <2>4 DEF AppendStored
  <2>6. \A s \in Runs \ {r} : pc'[s] = pc[s] /\ cycle'[s] = cycle[s]
    BY <1>2, <1>9 DEF AppendStored, TypeOK
  <2> QED
    BY <1>1, <1>2, <1>9, <2>1, <2>3, <2>5, <2>6, LocalCycleStep DEF AppendStored, TypeOK
<1>10. ASSUME NEW r \in Runs, AppendFails(r) PROVE CycleInv'
  <2>1. InProgress(r)' /\ SoundBook(book'[r]) /\ SoundBook(before'[r])
    BY <1>2, <1>10 DEF AppendFails, InProgress, TypeOK
  <2>2. \A row \in ledger' : RowOK(row)
    BY <1>2, <1>10 DEF AppendFails
  <2> QED
    BY <1>1, <1>2, <1>10, <2>1, <2>2, LocalCycleStep DEF AppendFails, TypeOK
<1>11. ASSUME NEW r \in Runs, CallAgain(r) PROVE CycleInv'
  <2>1. InProgress(r)' /\ SoundBook(book'[r]) /\ SoundBook(before'[r])
    BY <1>2, <1>11 DEF CallAgain, InProgress, TypeOK
  <2>2. \A row \in ledger' : RowOK(row)
    BY <1>2, <1>11 DEF CallAgain
  <2> QED
    BY <1>1, <1>2, <1>11, <2>1, <2>2, LocalCycleStep DEF CallAgain, TypeOK
<1>12. ASSUME NEW r \in Runs, Crash(r) PROVE CycleInv'
  <2>1. InProgress(r)' /\ SoundBook(book'[r]) /\ SoundBook(before'[r])
    BY <1>2, <1>12, OpeningIsSound DEF Crash, InProgress, TypeOK
  <2>2. \A row \in ledger' : RowOK(row)
    BY <1>2, <1>12 DEF Crash
  <2> QED
    BY <1>1, <1>2, <1>12, <2>1, <2>2, LocalCycleStep DEF Crash, TypeOK
<1>13. ASSUME NEW r \in Runs, Restart(r) PROVE CycleInv'
  <2>1. InProgress(r)' /\ SoundBook(book'[r]) /\ SoundBook(before'[r])
    BY <1>2, <1>13 DEF Restart, InProgress, TypeOK
  <2>2. \A row \in ledger' : RowOK(row)
    BY <1>2, <1>13 DEF Restart
  <2> QED
    BY <1>1, <1>2, <1>13, <2>1, <2>2, LocalCycleStep DEF Restart, TypeOK
<1>14. CASE Edit
  BY <1>1, <1>14 DEF Edit, CycleInv, InProgress, RowOK
<1>15. CASE UNCHANGED vars
  BY <1>1, <1>15 DEF vars, CycleInv, InProgress, RowOK
<1> QED
  BY <1>3, <1>4, <1>5, <1>6, <1>7, <1>8, <1>9, <1>10, <1>11, <1>12, <1>13, <1>14, <1>15
  DEF Next, Step

-----------------------------------------------------------------------------
(* What the invariant says of the runs and of the ledger.                  *)
LEMMA InvReconciles == CycleInv => ReconciliationPasses
<1> SUFFICES ASSUME CycleInv, NEW r \in Runs, pc[r] = "record"
             PROVE  LET marks == world[cycle[r]].marks
                        value == SumFunction([t \in Tickers |-> book[r].shares[t] * marks[t]])
                    IN  /\ Reportable(book[r])
                        /\ book[r].cash >= 0
                        /\ \A t \in Tickers : book[r].shares[t] >= 0
                        /\ Distance(book[r].cash + value, Equity(book[r], marks)) <= Cent
  BY DEF ReconciliationPasses
<1> DEFINE b == book[r]
           marks == world[cycle[r]].marks
           f == Values(b.shares, marks)
           total == b.cash + Holdings(b.shares, marks)
<1>1. SoundBook(b) /\ Readable(world[cycle[r]], before[r]) /\ world[cycle[r]] \in Worlds
  BY DEF CycleInv, InProgress, Made, TypeOK
<1>2. marks \in [Tickers -> Int]
  BY <1>1, MarksPriceTickers
<1> HIDE DEF b, marks
<1>3. Reportable(b) /\ b.cash >= 0 /\ \A t \in Tickers : b.shares[t] >= 0
  BY <1>1 DEF SoundBook, Rounded, Long, Reportable, Held
<1>4. BookOK(b) /\ b.cash \in Int
  BY <1>1 DEF SoundBook, BookOK
<1>5. Holdings(b.shares, marks) \in Int /\ Equity(b, marks) = RoundHalfEven(total, Cent)
  BY <1>2, <1>4, TickersAssumption, EquityIsRounded
<1>6. SumFunction(f) = Holdings(b.shares, marks)
  <2>1. DOMAIN f = Tickers
    BY DEF Values
  <2> QED
    BY <2>1, SumOfFunction DEF Holdings
<1>7. total \in Int /\ b.cash + SumFunction(f) = total
  BY <1>4, <1>5, <1>6
<1> HIDE DEF total
<1>8. LET y == RoundHalfEven(total, Cent)
      IN  y \in Int /\ 2 * y <= 2 * total + Cent /\ 2 * total <= 2 * y + Cent
  BY <1>7, CentAssumption, RoundHalfEvenIsClose
<1> HIDE DEF f
<1>9. Distance(b.cash + SumFunction(f), Equity(b, marks)) <= Cent
  BY <1>5, <1>7, <1>8, CentAssumption DEF Distance
<1> QED
  BY <1>3, <1>9 DEF f, Values, b, marks

LEMMA InvHolds == CycleInv => HoldOnAbstain
<1> SUFFICES ASSUME CycleInv, NEW row \in ledger, Eligible(world[row.cycle]) = {}
             PROVE  row.after = row.before
  BY DEF HoldOnAbstain
<1>1. /\ SoundBook(row.before) /\ Made(world[row.cycle], row.before, row.after, row.fills)
      /\ world[row.cycle] \in Worlds
  BY DEF CycleInv, RowOK
<1> QED
  BY <1>1, AbstainingChangesNothing

LEMMA InvTradesWithinLimits == CycleInv => TradesWithinLimits
<1>1. ASSUME CycleInv, NEW row \in ledger, row.fills # <<>>
      PROVE  TradeLimits(world[row.cycle], row.before, row.after)
  <2>1. /\ SoundBook(row.before) /\ Made(world[row.cycle], row.before, row.after, row.fills)
        /\ world[row.cycle] \in Worlds
    BY <1>1 DEF CycleInv, RowOK
  <2> QED
    BY <1>1, <2>1, TradingIsWithinLimits
<1> QED
  BY <1>1 DEF TradesWithinLimits, TradeLimits

(* A cycle is a function of the data and of the book it starts with.       *)
LEMMA InvReplays == CycleInv => ReplayNeverConflicts
<1> SUFFICES ASSUME CycleInv, NEW r \in Runs, pc[r] = "append",
                    NEW row \in ledger, RunId(row) = RunId(record[r])
             PROVE  row = record[r]
  BY DEF ReplayNeverConflicts, Conflicts
<1>1. RowOK(record[r]) /\ RowOK(row)
  BY DEF CycleInv, InProgress
<1> DEFINE entry == record[r]
<1>2. row.cycle = entry.cycle /\ row.build = entry.build /\ row.before = entry.before
  BY DEF RunId
<1> HIDE DEF entry
<1>3. row.after = entry.after /\ row.fills = entry.fills
  BY <1>1, <1>2 DEF RowOK, Made, entry
<1>4. /\ row = [cycle |-> row.cycle, build |-> row.build, before |-> row.before,
                after |-> row.after, fills |-> row.fills]
      /\ entry = [cycle |-> entry.cycle, build |-> entry.build, before |-> entry.before,
                  after |-> entry.after, fills |-> entry.fills]
  BY <1>1 DEF RowOK, entry
<1> QED
  BY <1>2, <1>3, <1>4, Zenon DEF entry

(* In every state, whatever has failed and whoever has crashed: the books  *)
(* are sound, and every row records what its cycle makes of its book.      *)
THEOREM BooksAreSound == Spec => []CycleInv
<1>1. CycleInv /\ [Next]_vars => CycleInv'
  BY CycleStep
<1> QED
  BY CycleInit, <1>1, PTL DEF Spec

(* The reconciliation after the fills never finds anything: cash and       *)
(* positions add up to the equity, no cash or position is negative.        *)
THEOREM FillsReconcile == Spec => []ReconciliationPasses
  BY BooksAreSound, InvReconciles, PTL

(* When every forecast abstains the book is held, over its limits or not.  *)
THEOREM AbstainingHolds == Spec => []HoldOnAbstain
  BY BooksAreSound, InvHolds, PTL

(* What is traded stays within the limits of the gate, in whole shares.    *)
THEOREM TradesAreWithinLimits == Spec => []TradesWithinLimits
  BY BooksAreSound, InvTradesWithinLimits, PTL

(* A run ID never comes back with another record, so that a replay is      *)
(* never taken for a conflict, even after a record that failed.            *)
THEOREM ReplaysAgree == Spec => []ReplayNeverConflicts
  BY BooksAreSound, InvReplays, PTL

-----------------------------------------------------------------------------
(* The ledger tells one story.  All that matters of a cycle here is that   *)
(* it is a function of the data and the book (After), that a failure gives *)
(* the book back unless it was the record that failed, and that a new run  *)
(* starts from the opening capital; the gate and the broker stay opaque.   *)

(* Two books that may start the same cycle are the same book.              *)
LEMMA BackingUnique ==
  ASSUME IInv, NEW a, NEW b, NEW c, Backed(trail, a, c), Backed(trail, b, c)
  PROVE  a = b
<1>1. \A x, y \in trail : x.cycle = y.cycle => x.after = y.after
  BY DEF IInv, OneTrajectory, TypeOK
<1> QED
  BY <1>1 DEF Backed

(* Every run starts with its opening capital and the ledger is empty.      *)
LEMMA InitEstablishes == Init => IInv
<1> SUFFICES ASSUME Init PROVE IInv
  OBVIOUS
<1>1. TypeOK
  BY CyclesAssumption, BuildsAssumption DEF Init, TypeOK, Locations, Grid
<1>2. BookBacked /\ \A r \in Runs : InFlight(r)
  BY DEF Init, BookBacked, InFlight, Backed
<1>3. RowsFollow /\ OneTrajectory
  BY DEF Init, RowsFollow, OneTrajectory
<1> QED
  BY <1>1, <1>2, <1>3 DEF IInv

(* A step of run r that leaves the data, the ledger and the other runs     *)
(* alone preserves the invariant if it does so for r.                      *)
LEMMA LocalStep ==
  ASSUME IInv, NEW r \in Runs, TypeOK',
         UNCHANGED <<world, ledger, trail>>,
         \A s \in Runs \ {r} :
           /\ pc'[s] = pc[s] /\ cycle'[s] = cycle[s] /\ book'[s] = book[s]
           /\ before'[s] = before[s] /\ orders'[s] = orders[s] /\ record'[s] = record[s]
           /\ lost'[s] = lost[s],
         pc'[r] \in {"start", "halted", "dead"} /\ ~Astray(r)' =>
           Backed(trail, book[r], cycle[r])',
         pc'[r] # "done",
         InFlight(r)'
  PROVE  IInv'
<1>1. BookBacked'
  BY DEF IInv, BookBacked, Backed, Opening, Astray
<1>2. ASSUME NEW s \in Runs PROVE InFlight(s)'
  <2>1. CASE s = r
    BY <2>1
  <2>2. CASE s # r
    <3>1. InFlight(s)
      BY DEF IInv
    <3>2. /\ pc'[s] = pc[s] /\ cycle'[s] = cycle[s] /\ book'[s] = book[s]
          /\ before'[s] = before[s] /\ orders'[s] = orders[s] /\ record'[s] = record[s]
          /\ world' = world /\ trail' = trail /\ lost'[s] = lost[s]
      BY <2>2
    <3>3. InFlight(s)' <=> InFlight(s)
      BY <3>2 DEF InFlight, Backed, After, Opening, Astray
    <3> QED
      BY <3>1, <3>3
  <2> QED
    BY <2>1, <2>2
<1>3. RowsFollow' /\ OneTrajectory'
  BY DEF IInv, RowsFollow, OneTrajectory, After, Backed, Opening
<1> QED
  BY <1>1, <1>2, <1>3 DEF IInv

(* A run that is to append has the row of its cycle.                       *)
LEMMA TypesOfStep ==
  ASSUME IInv, [Next]_vars
  PROVE  TypeOK'
<1>1. TypeOK /\ \A r \in Runs : pc[r] = "append" => record[r].cycle \in Grid
  BY DEF IInv, InFlight, TypeOK
<1> QED
  BY <1>1, TypesPreserved

(* Appending the row of a finished cycle: the only step that writes.       *)
LEMMA AppendPreserves ==
  ASSUME IInv, NEW r \in Runs, AppendStored(r)
  PROVE  IInv'
<1> DEFINE new == record[r]
<1> USE DEF Grid
<1>1. /\ new.cycle = cycle[r] /\ new.before = before[r] /\ new.after = book[r]
      /\ ~Astray(r) => Backed(trail, new.before, new.cycle)
      /\ new.after = After(new.cycle, new.before)
      /\ cycle[r] \in 1..Cycles
  BY DEF AppendStored, IInv, InFlight, TypeOK
<1>2. /\ ledger' = ledger \union {new}
      /\ trail' = IF Astray(r) THEN trail ELSE trail \union {new}
      /\ UNCHANGED <<world, build, book, before, orders, lost>>
  BY DEF AppendStored
<1>3. TypeOK'
  BY TypesOfStep DEF Next, Step
<1>4. RowsFollow'
  BY <1>1, <1>2 DEF IInv, RowsFollow, After
<1>5. \A b, c : Backed(trail, b, c) => Backed(trail, b, c)'
  BY <1>2 DEF Backed, Opening
<1>6. OneTrajectory'
  <2>1. \A row \in trail' : Backed(trail, row.before, row.cycle)'
    BY <1>1, <1>2, <1>5 DEF IInv, OneTrajectory
  <2>2. ~Astray(r) => \A x \in trail : x.cycle = new.cycle => x.before = new.before
    BY <1>1, BackingUnique DEF IInv, OneTrajectory
  <2>3. \A x, y \in trail' : x.cycle = y.cycle => x.before = y.before
    BY <1>2, <2>2 DEF IInv, OneTrajectory
  <2>4. \A x \in ledger : x.after = After(x.cycle, x.before)
    BY DEF IInv, RowsFollow
  <2>5. \A x, y \in ledger' :
          x.cycle = y.cycle /\ x.before = y.before => x.after = y.after
    BY <1>1, <1>2, <2>4
  <2> QED
    BY <2>1, <2>3, <2>5 DEF OneTrajectory
<1>7. BookBacked'
  <2> SUFFICES ASSUME NEW s \in Runs, ~Astray(s)'
               PROVE  /\ pc'[s] \in {"start", "halted", "dead"} =>
                            Backed(trail, book[s], cycle[s])'
                      /\ pc'[s] = "done" => Backed(trail, book[s], Cycles + 1)'
    BY DEF BookBacked
  <2>0. ~Astray(s)
    BY <1>2 DEF Astray
  <2>1. CASE s # r
    <3>1. pc'[s] = pc[s] /\ cycle'[s] = cycle[s] /\ book' = book
      BY <1>2, <2>1 DEF AppendStored, Goto, IInv, TypeOK
    <3>2. /\ pc[s] \in {"start", "halted", "dead"} => Backed(trail, book[s], cycle[s])
          /\ pc[s] = "done" => Backed(trail, book[s], Cycles + 1)
      BY <2>0 DEF IInv, BookBacked
    <3>3. /\ Backed(trail, book[s], cycle[s]) => Backed(trail, book[s], cycle[s])'
          /\ Backed(trail, book[s], Cycles + 1) => Backed(trail, book[s], Cycles + 1)'
      BY <1>2, <3>1 DEF Backed, Opening
    <3> QED
      BY <3>1, <3>2, <3>3
  <2>2. CASE s = r
    <3>1. \E row \in trail' : row.cycle = cycle[r] /\ row.after = book'[r]
      BY <1>1, <1>2, <2>0, <2>2
    <3>2. CASE cycle[r] < Cycles
      <4>1. pc'[r] = "start" /\ cycle'[r] = cycle[r] + 1
        BY <3>2 DEF AppendStored, Goto, IInv, TypeOK
      <4> QED
        BY <1>1, <2>2, <3>1, <4>1 DEF Backed
    <3>3. CASE ~(cycle[r] < Cycles)
      <4>1. pc'[r] = "done" /\ cycle[r] = Cycles
        BY <1>1, <3>3, CyclesAssumption DEF AppendStored, Goto, IInv, TypeOK
      <4> QED
        BY <1>1, <2>2, <3>1, <4>1, CyclesAssumption DEF Backed
    <3> QED
      BY <3>2, <3>3
  <2> QED
    BY <2>1, <2>2
<1>8. ASSUME NEW s \in Runs PROVE InFlight(s)'
  <2>1. CASE s = r
    BY <2>1, <1>3 DEF AppendStored, Goto, IInv, TypeOK, InFlight
  <2>2. CASE s # r
    <3>1. InFlight(s)
      BY DEF IInv
    <3>2. pc'[s] = pc[s] /\ cycle'[s] = cycle[s] /\ record'[s] = record[s]
      BY <2>2 DEF AppendStored, Goto, IInv, TypeOK
    <3>3. Backed(trail, before[s], cycle[s]) => Backed(trail, before[s], cycle[s])'
      BY <1>2, <3>2 DEF Backed, Opening
    <3>4. /\ After(cycle[s], before[s])' = After(cycle[s], before[s])
          /\ Orders(world[cycle[s]], book[s])' = Orders(world[cycle[s]], book[s])
      BY <1>2, <3>2 DEF After
    <3>5. Astray(s)' <=> Astray(s)
      BY <1>2 DEF Astray
    <3> QED
      BY <1>2, <3>1, <3>2, <3>3, <3>4, <3>5 DEF InFlight
  <2> QED
    BY <2>1, <2>2
<1> QED
  BY <1>3, <1>4, <1>6, <1>7, <1>8 DEF IInv

(* The invariant does not mention the fingerprint of the tree.             *)
LEMMA StutterPreserves ==
  ASSUME IInv, TypeOK',
         UNCHANGED <<world, pc, cycle, book, before, orders, record, ledger, history>>
  PROVE  IInv'
<1> USE DEF history
<1>1. /\ \A b, c : Backed(trail, b, c)' <=> Backed(trail, b, c)
      /\ \A r : Astray(r)' <=> Astray(r)
  BY DEF Backed, Opening, Astray
<1>2. BookBacked'
  BY <1>1 DEF IInv, BookBacked
<1>3. ASSUME NEW r \in Runs PROVE InFlight(r)'
  <2>1. InFlight(r)
    BY DEF IInv
  <2> QED
    BY <1>1, <2>1 DEF InFlight, After
<1>4. RowsFollow'
  BY DEF IInv, RowsFollow, After
<1>5. OneTrajectory'
  BY <1>1 DEF IInv, OneTrajectory
<1> QED
  BY <1>2, <1>3, <1>4, <1>5 DEF IInv

(* Every step preserves the invariant.                                     *)
LEMMA StepPreserves ==
  ASSUME IInv, [Next]_vars
  PROVE  IInv'
<1>0. TypeOK'
  BY TypesOfStep
<1> USE DEF Goto, IInv, TypeOK, Locations, history
<1>1. ASSUME NEW r \in Runs, Research(r) PROVE IInv'
  <2>1. InFlight(r)'
    BY <1>1 DEF Research, InFlight, BookBacked, Backed, Opening, Astray
  <2> QED
    BY <1>1, <1>0, <2>1, LocalStep DEF Research
<1>2. ASSUME NEW r \in Runs, ResearchHalts(r) PROVE IInv'
  <2>1. InFlight(r)' /\ (~Astray(r)' => Backed(trail, book[r], cycle[r])')
    BY <1>2 DEF ResearchHalts, InFlight, BookBacked, Backed, Opening, Astray
  <2> QED
    BY <1>2, <1>0, <2>1, LocalStep DEF ResearchHalts
<1>3. ASSUME NEW r \in Runs, Execute(r) PROVE IInv'
  <2>1. InFlight(r)'
    BY <1>3 DEF Execute, InFlight, After, Backed, Opening, Astray
  <2> QED
    BY <1>3, <1>0, <2>1, LocalStep DEF Execute
<1>4. ASSUME NEW r \in Runs, ExecuteRefused(r) PROVE IInv'
  <2>1. InFlight(r)' /\ (~Astray(r)' => Backed(trail, book[r], cycle[r])')
    BY <1>4 DEF ExecuteRefused, InFlight, Backed, Opening, Astray
  <2> QED
    BY <1>4, <1>0, <2>1, LocalStep DEF ExecuteRefused
<1>5. ASSUME NEW r \in Runs, MakeRecord(r) PROVE IInv'
  <2>1. InFlight(r)'
    BY <1>5 DEF MakeRecord, InFlight, After, Backed, Opening, Astray
  <2> QED
    BY <1>5, <1>0, <2>1, LocalStep DEF MakeRecord
<1>6. ASSUME NEW r \in Runs, RecordFails(r) PROVE IInv'
  <2>1. InFlight(r)' /\ pc'[r] = "halted"
    BY <1>6 DEF RecordFails, InFlight
  <2>2. ~Astray(r)' => book[r] = before[r] /\ ~Astray(r)
    BY <1>6 DEF RecordFails, Astray
  <2>3. ~Astray(r)' => Backed(trail, book[r], cycle[r])'
    BY <1>6, <2>2 DEF RecordFails, InFlight, Backed, Opening
  <2>4. \A s \in Runs \ {r} : lost'[s] = lost[s]
    BY <1>6 DEF RecordFails
  <2> QED
    BY <1>6, <1>0, <2>1, <2>3, <2>4, LocalStep DEF RecordFails
<1>7. ASSUME NEW r \in Runs, AppendStored(r) PROVE IInv'
  BY <1>7, AppendPreserves
<1>8. ASSUME NEW r \in Runs, AppendFails(r) PROVE IInv'
  <2>1. InFlight(r)' /\ (~Astray(r)' => Backed(trail, book[r], cycle[r])')
    BY <1>8 DEF AppendFails, InFlight, Backed, Opening, Astray
  <2> QED
    BY <1>8, <1>0, <2>1, LocalStep DEF AppendFails
<1>9. ASSUME NEW r \in Runs, CallAgain(r) PROVE IInv'
  <2>1. InFlight(r)' /\ (~Astray(r)' => Backed(trail, book[r], cycle[r])')
    BY <1>9 DEF CallAgain, InFlight, BookBacked, Backed, Opening, Astray
  <2> QED
    BY <1>9, <1>0, <2>1, LocalStep DEF CallAgain
<1>10. ASSUME NEW r \in Runs, Crash(r) PROVE IInv'
  <2>1. InFlight(r)' /\ Backed(trail, book[r], cycle[r])'
    BY <1>10 DEF Crash, InFlight, Backed, Opening
  <2> QED
    BY <1>10, <1>0, <2>1, LocalStep DEF Crash
<1>11. ASSUME NEW r \in Runs, Restart(r) PROVE IInv'
  <2>1. InFlight(r)' /\ (~Astray(r)' => Backed(trail, book[r], cycle[r])')
    BY <1>11 DEF Restart, InFlight, BookBacked, Backed, Opening, Astray
  <2> QED
    BY <1>11, <1>0, <2>1, LocalStep DEF Restart
<1>12. CASE Edit
  BY <1>0, <1>12, StutterPreserves DEF Edit
<1>13. CASE UNCHANGED vars
  BY <1>0, <1>13, StutterPreserves DEF vars
<1> QED
  BY <1>1, <1>2, <1>3, <1>4, <1>5, <1>6, <1>7, <1>8, <1>9, <1>10, <1>11, <1>12, <1>13
  DEF Next, Step

(* The inductive invariant holds of every run of the system.               *)
THEOREM Invariance == Spec => []IInv
<1>1. IInv /\ [Next]_vars => IInv'
  BY StepPreserves
<1> QED
  BY InitEstablishes, <1>1, PTL DEF Spec

(* No fill without a record: whatever else fails, a broker for which every *)
(* record could be built is left with the book its last recorded cycle     *)
(* ended with, and a run started over is such a one.                       *)
THEOREM BooksAreBacked == Spec => []BookBacked
<1>1. IInv => BookBacked
  BY DEF IInv
<1> QED
  BY Invariance, <1>1, PTL

(* The rows of all runs that lost no record are one trajectory of the      *)
(* fund, however many runs wrote it, died and started over, and whoever    *)
(* beside them went astray; every row repeats if its book does.            *)
THEOREM LedgerIsOneTrajectory == Spec => []OneTrajectory
<1>1. IInv => OneTrajectory
  BY DEF IInv
<1> QED
  BY Invariance, <1>1, PTL
=============================================================================
