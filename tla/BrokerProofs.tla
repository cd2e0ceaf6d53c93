---------------------------- MODULE BrokerProofs ----------------------------
(***************************************************************************)
(* What a batch of orders does to a book, for every book and every batch.  *)
(***************************************************************************)
EXTENDS SimBroker, InductionLemmas, SequenceTheorems

-----------------------------------------------------------------------------
(* Rounding is off by at most half a unit, and leaves multiples alone.     *)
LEMMA RoundHalfUpIsClose ==
  ASSUME NEW x \in Int, NEW unit \in Nat \ {0}
  PROVE  LET y == RoundHalfUp(x, unit)
         IN  /\ y \in Int /\ 2 * y <= 2 * x + unit /\ 2 * x <= 2 * y + unit
             /\ x >= 0 => y >= 0
             /\ y % unit = 0
<1> DEFINE q == (2 * x + unit) \div (2 * unit)
<1>0. 2 * x + unit \in Int /\ 2 * unit \in Nat \ {0}
  OBVIOUS
<1>1. /\ q \in Int /\ (2 * unit) * q \in Int
      /\ (2 * unit) * q <= 2 * x + unit /\ 2 * x + unit < (2 * unit) * q + 2 * unit
  BY <1>0, QuotientBounds
<1>2. RoundHalfUp(x, unit) = q * unit
  BY DEF RoundHalfUp
<1> HIDE DEF q
<1>3. q * unit \in Int /\ (2 * unit) * q = 2 * (q * unit)
  BY <1>1
<1>4. x >= 0 => q * unit >= 0
  <2>1. SUFFICES ASSUME x >= 0 PROVE q * unit >= 0
    OBVIOUS
  <2>2. (2 * unit) * 0 < (2 * unit) * (q + 1)
    <3>1. (2 * unit) * (q + 1) = (2 * unit) * q + 2 * unit
      BY <1>1
    <3> QED
      BY <1>1, <2>1, <3>1
  <2>3. 0 < q + 1
    BY <1>1, <2>2, TimesCancelStrictly
  <2>4. q \in Nat
    BY <1>1, <2>3
  <2> QED
    BY <2>4
<1>5. (q * unit) % unit = 0
  BY <1>1
<1> QED
  BY <1>1, <1>2, <1>3, <1>4, <1>5

LEMMA RoundHalfUpOfMultiple ==
  ASSUME NEW x \in Int, NEW unit \in Nat \ {0}, x % unit = 0
  PROVE  RoundHalfUp(x, unit) = x
<1> DEFINE m == x \div unit
<1>1. m \in Int /\ x = unit * m
  OBVIOUS
<1> HIDE DEF m
<1>2. (2 * unit) * m = 2 * x /\ 2 * unit \in Nat \ {0}
  BY <1>1
<1>3. (2 * x + unit) \div (2 * unit) = m
  BY <1>1, <1>2, QuotientUnique
<1>4. RoundHalfUp(x, unit) = m * unit
  BY <1>3 DEF RoundHalfUp
<1> QED
  BY <1>1, <1>4

LEMMA RoundHalfEvenIsClose ==
  ASSUME NEW x \in Int, NEW unit \in Nat \ {0}
  PROVE  LET y == RoundHalfEven(x, unit)
         IN  /\ y \in Int /\ 2 * y <= 2 * x + unit /\ 2 * x <= 2 * y + unit
             /\ x >= 0 => y >= 0
             /\ y % unit = 0
<1> DEFINE q == x \div unit
           r == x % unit
<1>1. /\ q \in Int /\ r \in Int /\ 0 <= r /\ r < unit /\ x = unit * q + r
      /\ unit * q \in Int
  <2>1. q \in Int /\ r \in Int /\ 0 <= r /\ r < unit /\ x = unit * q + r
    OBVIOUS
  <2> QED
    BY <2>1
<1>2. \/ RoundHalfEven(x, unit) = q * unit /\ 2 * r <= unit
      \/ RoundHalfEven(x, unit) = (q + 1) * unit /\ 2 * r >= unit
  BY <1>1 DEF RoundHalfEven
<1> HIDE DEF q, r
<1>3. /\ q * unit = unit * q /\ (q + 1) * unit = unit * q + unit
  BY <1>1
<1>4. x >= 0 => unit * q >= 0
  <2>1. SUFFICES ASSUME x >= 0 PROVE unit * q >= 0
    OBVIOUS
  <2>2. unit * 0 < unit * (q + 1)
    <3>1. unit * (q + 1) = unit * q + unit
      BY <1>1
    <3> QED
      BY <1>1, <2>1, <3>1
  <2>3. 0 < q + 1
    BY <1>1, <2>2, TimesCancelStrictly
  <2>4. q \in Nat
    BY <1>1, <2>3
  <2> QED
    BY <2>4
<1>5. (q * unit) % unit = 0 /\ ((q + 1) * unit) % unit = 0
  BY <1>1
<1>6. CASE RoundHalfEven(x, unit) = q * unit /\ 2 * r <= unit
  BY <1>1, <1>3, <1>4, <1>5, <1>6
<1>7. CASE RoundHalfEven(x, unit) = (q + 1) * unit /\ 2 * r >= unit
  BY <1>1, <1>3, <1>4, <1>5, <1>7
<1> QED
  BY <1>2, <1>6, <1>7

(* Slippage is never in the fund's favour, a price never negative.         *)
LEMMA FillPriceIsWorse ==
  ASSUME NEW reference \in Nat \ {0}
  PROVE  /\ FillPrice("buy", reference) \in Nat
         /\ FillPrice("buy", reference) >= reference
         /\ \A side : side # "buy" => /\ FillPrice(side, reference) \in Nat
                                      /\ FillPrice(side, reference) <= reference
<1> DEFINE price(rate) == RoundHalfUp(reference * rate, Bps) \div Bps
           slip == reference * SlippageBps
<1>0. SlippageBps \in Nat /\ 1 <= SlippageBps /\ SlippageBps <= 9999
  BY RatesAssumption
<1>1. slip \in Nat /\ slip >= 1 /\ slip <= 9999 * reference
  <2>1. reference * 1 <= slip /\ slip <= reference * 9999
    BY <1>0, TimesMonotone
  <2>2. slip \in Nat
    BY <1>0
  <2> QED
    BY <2>1, <2>2
<1>2. /\ reference * (Bps + SlippageBps) = 10000 * reference + slip
      /\ reference * (Bps - SlippageBps) = 10000 * reference - slip
  BY RatesAssumption DEF Bps
<1> HIDE DEF slip
<1>3. ASSUME NEW y \in Nat
      PROVE  (RoundHalfUp(y, Bps) \div Bps) = (2 * y + 10000) \div 20000
  BY DEF RoundHalfUp, Bps
<1>4. FillPrice("buy", reference) = (2 * (10000 * reference + slip) + 10000) \div 20000
  BY <1>1, <1>2, <1>3 DEF FillPrice
<1>5. ASSUME NEW side, side # "buy"
      PROVE  FillPrice(side, reference) = (2 * (10000 * reference - slip) + 10000) \div 20000
  <2>1. FillPrice(side, reference) = RoundHalfUp(reference * (Bps - SlippageBps), Bps) \div Bps
    BY <1>5 DEF FillPrice
  <2>2. 10000 * reference - slip \in Nat
    BY <1>1
  <2> QED
    BY <1>2, <1>3, <2>1, <2>2
<1>6. /\ (2 * (10000 * reference + slip) + 10000) \div 20000 \in Nat
      /\ (2 * (10000 * reference + slip) + 10000) \div 20000 >= reference
  BY <1>1
<1>7. /\ (2 * (10000 * reference - slip) + 10000) \div 20000 \in Nat
      /\ (2 * (10000 * reference - slip) + 10000) \div 20000 <= reference
  BY <1>1
<1> QED
  BY <1>4, <1>5, <1>6, <1>7

LEMMA FeeIsNatural ==
  ASSUME NEW notional \in Nat
  PROVE  Fee(notional) \in Nat
<1>1. CommissionBps \in Nat /\ Bps * Cent \in Nat \ {0} /\ Bps = 10000
  BY RatesAssumption, CentAssumption DEF Bps
<1>2. notional * CommissionBps \in Nat
  BY <1>1
<1> DEFINE y == RoundHalfUp(notional * CommissionBps, Bps * Cent)
<1>3. y \in Int /\ (notional * CommissionBps >= 0 => y >= 0)
  <2> DEFINE x == notional * CommissionBps
             unit == Bps * Cent
  <2>1. x \in Int /\ unit \in Nat \ {0}
    BY <1>1, <1>2
  <2> HIDE DEF x, unit
  <2>2. RoundHalfUp(x, unit) \in Int /\ (x >= 0 => RoundHalfUp(x, unit) >= 0)
    BY <2>1, RoundHalfUpIsClose
  <2> QED
    BY <2>2 DEF x, unit
<1>4. Fee(notional) = y \div 10000
  BY <1>1 DEF Fee
<1> HIDE DEF y
<1> QED
  BY <1>2, <1>3, <1>4

-----------------------------------------------------------------------------
(* RunBatch is a fold: it is given by a function on the sets of positions, *)
(* of which those of the prefixes of the batch matter.                     *)
BatchTable(book, orders, allowShorting) ==
  CHOOSE batch : batch = [s \in SUBSET DOMAIN orders |->
    IF s = {} THEN Started(book)
    ELSE FillOrder(batch[s \ {Max(s)}], orders[Max(s)], allowShorting)]

LEMMA RunBatchIsTable ==
  ASSUME NEW book, NEW orders, NEW allowShorting
  PROVE  RunBatch(book, orders, allowShorting)
           = BatchTable(book, orders, allowShorting)[DOMAIN orders]
BY Zenon DEF RunBatch, FoldLeft, MapThenFoldSet, BatchTable

LEMMA MaxIsGreatest ==
  ASSUME NEW s \in SUBSET Nat, IsFiniteSet(s), s # {}
  PROVE  Max(s) \in s /\ \A x \in s : Max(s) >= x
<1>1. \E n \in s : \A m \in s : m <= n
  BY GreatestNumber
<1>2. \E n \in s : \A m \in s : n >= m
  BY <1>1
<1> QED
  BY <1>2 DEF Max

LEMMA MaxOfPrefix ==
  ASSUME NEW k \in Nat \ {0}
  PROVE  Max(1..k) = k /\ (1..k) \ {k} = 1..(k - 1) /\ 1..k # {}
<1>1. IsFiniteSet(1..k) /\ 1..k \in SUBSET Nat /\ k \in 1..k
  BY FS_Interval
<1>2. Max(1..k) \in 1..k /\ \A x \in 1..k : Max(1..k) >= x
  BY <1>1, MaxIsGreatest
<1> QED
  BY <1>1, <1>2

LEMMA BatchTableEquation ==
  ASSUME NEW book, NEW orders, NEW allowShorting, NEW n \in Nat, DOMAIN orders = 1..n
  PROVE  \A s \in SUBSET (1..n) : BatchTable(book, orders, allowShorting)[s] =
           IF s = {} THEN Started(book)
           ELSE FillOrder(BatchTable(book, orders, allowShorting)[s \ {Max(s)}],
                          orders[Max(s)], allowShorting)
<1> DEFINE S == 1..n
           Upto(k) == {s \in SUBSET S : Cardinality(s) <= k}
           Next(batch, s) == IF s = {} THEN Started(book)
                             ELSE FillOrder(batch[s \ {Max(s)}], orders[Max(s)], allowShorting)
           N == {k \in Nat : \E batch : \A s \in Upto(k) : batch[s] = Next(batch, s)}
<1>0. IsFiniteSet(S) /\ S \in SUBSET Nat
  BY FS_Interval
<1>1. ASSUME NEW s \in SUBSET S
      PROVE  /\ IsFiniteSet(s) /\ Cardinality(s) \in Nat
             /\ s # {} => /\ Max(s) \in s
                          /\ s \ {Max(s)} \in SUBSET S
                          /\ Cardinality(s) # 0
                          /\ Cardinality(s \ {Max(s)}) = Cardinality(s) - 1
  <2> HIDE DEF S
  <2>1. IsFiniteSet(s) /\ Cardinality(s) \in Nat /\ s \in SUBSET Nat
    BY <1>0, FS_Subset, FS_CardinalityType
  <2>2. s # {} => Max(s) \in s
    BY <2>1, MaxIsGreatest
  <2> QED
    BY <2>1, <2>2, OneLess
<1> HIDE DEF S
<1>2. 0 \in N
  <2> DEFINE start == [s \in Upto(0) |-> Started(book)]
  <2>1. ASSUME NEW s \in Upto(0) PROVE s = {}
    <3>1. s \in SUBSET S /\ Cardinality(s) <= 0
      OBVIOUS
    <3>2. Cardinality(s) \in Nat
      BY <1>1, <3>1
    <3>3. Cardinality(s) = 0
      BY <3>1, <3>2
    <3> QED
      BY <1>1, <3>1, <3>3
  <2>2. \A s \in Upto(0) : start[s] = Next(start, s)
    BY <2>1
  <2> QED
    BY <2>2
<1>3. ASSUME NEW k \in N PROVE k + 1 \in N
  <2>1. PICK batch : \A s \in Upto(k) : batch[s] = Next(batch, s)
    OBVIOUS
  <2> DEFINE more == [s \in Upto(k + 1) |-> IF s \in Upto(k) THEN batch[s] ELSE Next(batch, s)]
  <2>2. ASSUME NEW s \in Upto(k + 1) PROVE more[s] = Next(more, s)
    <3>1. CASE s = {}
      <4>1. s \in Upto(k)
        BY <1>1, <3>1, FS_EmptySet
      <4> QED
        BY <2>1, <3>1, <4>1
    <3>2. CASE s # {}
      <4>1. s \ {Max(s)} \in Upto(k) /\ s \ {Max(s)} \in Upto(k + 1)
        <5> DEFINE rest == s \ {Max(s)}
        <5>1. s \in SUBSET S /\ Cardinality(s) <= k + 1
          BY <2>2
        <5>2. /\ rest \in SUBSET S /\ Cardinality(s) \in Nat
              /\ Cardinality(rest) = Cardinality(s) - 1
          BY <1>1, <3>2, <5>1
        <5> HIDE DEF rest
        <5>3. Cardinality(rest) <= k /\ Cardinality(rest) <= k + 1
          BY <5>1, <5>2
        <5>4. rest \in Upto(k) /\ rest \in Upto(k + 1)
          BY <5>2, <5>3
        <5> QED
          BY <5>4 DEF rest
      <4>2. more[s \ {Max(s)}] = batch[s \ {Max(s)}]
        BY <4>1
      <4>3. more[s] = Next(batch, s)
        BY <2>1
      <4> QED
        BY <4>2, <4>3, <3>2
    <3> QED
      BY <3>1, <3>2
  <2> HIDE DEF more
  <2>3. \E t : \A s \in Upto(k + 1) : t[s] = Next(t, s)
    BY <2>2
  <2>4. k + 1 \in Nat
    OBVIOUS
  <2> HIDE DEF Upto, Next
  <2> QED
    BY <2>3, <2>4
<1> HIDE DEF N
<1>4. N = Nat
  BY <1>2, <1>3, NaturalInduction DEF N
<1>5. Cardinality(S) \in N
  BY <1>0, <1>4, FS_CardinalityType
<1>6. PICK batch : \A s \in Upto(Cardinality(S)) : batch[s] = Next(batch, s)
  BY <1>5 DEF N
<1>7. \A s \in SUBSET S : s \in Upto(Cardinality(S))
  BY <1>0, FS_Subset
<1> DEFINE table == [s \in SUBSET S |-> batch[s]]
<1>8. table = [s \in SUBSET S |-> Next(table, s)]
  <2>1. ASSUME NEW s \in SUBSET S PROVE batch[s] = Next(table, s)
    BY <1>1, <1>6, <1>7
  <2> QED
    BY <2>1
<1>9. \E t : t = [s \in SUBSET S |-> Next(t, s)]
  BY <1>8
<1>10. DOMAIN orders = S
  BY DEF S
<1>11. BatchTable(book, orders, allowShorting)
         = [s \in SUBSET S |-> Next(BatchTable(book, orders, allowShorting), s)]
  BY <1>9, <1>10 DEF BatchTable
<1> QED
  BY <1>11 DEF S

(* The batch after its first k orders. *)
BatchAfter(book, orders, allowShorting, k) == BatchTable(book, orders, allowShorting)[1..k]

StepByStep(book, orders, allowShorting, n) ==
  \A k \in 1..n : BatchAfter(book, orders, allowShorting, k) =
    FillOrder(BatchAfter(book, orders, allowShorting, k - 1), orders[k], allowShorting)

LEMMA BatchStepByStep ==
  ASSUME NEW book, NEW orders, NEW allowShorting, NEW n \in Nat, DOMAIN orders = 1..n
  PROVE  /\ BatchAfter(book, orders, allowShorting, 0) = Started(book)
         /\ StepByStep(book, orders, allowShorting, n)
         /\ RunBatch(book, orders, allowShorting) = BatchAfter(book, orders, allowShorting, n)
<1> DEFINE T == BatchTable(book, orders, allowShorting)
<1>1. \A s \in SUBSET (1..n) : T[s] = IF s = {} THEN Started(book)
                                      ELSE FillOrder(T[s \ {Max(s)}], orders[Max(s)], allowShorting)
  BY BatchTableEquation
<1>2. RunBatch(book, orders, allowShorting) = T[1..n]
  BY RunBatchIsTable
<1> HIDE DEF T
<1>3. T[1..0] = Started(book)
  <2>1. 1..0 = {} /\ {} \in SUBSET (1..n)
    OBVIOUS
  <2> QED
    BY <1>1, <2>1
<1>4. ASSUME NEW k \in 1..n
      PROVE  T[1..k] = FillOrder(T[1..(k - 1)], orders[k], allowShorting)
  <2>1. 1..k \in SUBSET (1..n) /\ k \in Nat \ {0}
    OBVIOUS
  <2>2. Max(1..k) = k /\ (1..k) \ {k} = 1..(k - 1) /\ 1..k # {}
    BY <2>1, MaxOfPrefix
  <2>3. T[1..k] = FillOrder(T[(1..k) \ {Max(1..k)}], orders[Max(1..k)], allowShorting)
    BY <1>1, <2>1, <2>2
  <2> QED
    BY <2>2, <2>3
<1> QED
  BY <1>2, <1>3, <1>4 DEF BatchAfter, StepByStep, T
-----------------------------------------------------------------------------
(* One order.                                                              *)
OrderOK(o) ==
  /\ o.ticker \in Tickers /\ o.side \in {"buy", "sell"}
  /\ o.quantity \in Nat /\ o.price \in Nat \ {0}

Value(o) == FillPrice(o.side, o.price) * o.quantity
Amount(o) == IF o.side = "buy" THEN -(Value(o) + Fee(Value(o))) ELSE Value(o) - Fee(Value(o))
Left(shares, o) ==
  IF o.side = "buy" THEN shares[o.ticker] + o.quantity ELSE shares[o.ticker] - o.quantity
CostedAfter(costed, shares, o) ==
  IF o.side = "buy" THEN costed \union {o.ticker}
  ELSE IF Left(shares, o) = 0 THEN costed \ {o.ticker} ELSE costed
FillOf(o) ==
  [id |-> o.id, ticker |-> o.ticker, side |-> o.side, quantity |-> o.quantity,
   price |-> FillPrice(o.side, o.price), fee |-> Fee(Value(o)),
   slippage |-> Slippage(FillPrice(o.side, o.price), o.price, o.quantity)]

(* What an order needs to be filled, apart from an ID of its own.          *)
Fillable(shares, o, allowShorting) ==
  /\ o.quantity # 0
  /\ o.side = "buy" => Left(shares, o) # 0
  /\ o.side = "sell" /\ ~allowShorting => Left(shares, o) >= 0

(* A batch in progress, with or without an error. *)
Batch(b) ==
  /\ b = [cash |-> b.cash, shares |-> b.shares, costed |-> b.costed,
          seen |-> b.seen, fills |-> b.fills, error |-> b.error]
  /\ b.cash \in Int /\ b.shares \in [Tickers -> Int] /\ b.costed \in SUBSET Tickers

LEMMA OrderTypes ==
  ASSUME NEW o, OrderOK(o)
  PROVE  /\ FillPrice(o.side, o.price) \in Nat
         /\ Value(o) \in Nat /\ Fee(Value(o)) \in Nat /\ Amount(o) \in Int
         /\ o.side = "buy" => FillPrice(o.side, o.price) >= o.price
         /\ o.side # "buy" => FillPrice(o.side, o.price) <= o.price
         /\ \A shares \in [Tickers -> Int] : Left(shares, o) \in Int
<1>1. /\ FillPrice(o.side, o.price) \in Nat
      /\ o.side = "buy" => FillPrice(o.side, o.price) >= o.price
      /\ o.side # "buy" => FillPrice(o.side, o.price) <= o.price
  BY FillPriceIsWorse DEF OrderOK
<1>2. Value(o) \in Nat
  BY <1>1 DEF Value, OrderOK
<1>3. Fee(Value(o)) \in Nat
  BY <1>2, FeeIsNatural
<1>4. Amount(o) \in Int
  BY <1>2, <1>3 DEF Amount
<1>5. \A shares \in [Tickers -> Int] : Left(shares, o) \in Int
  BY DEF Left, OrderOK
<1> QED
  BY <1>1, <1>2, <1>3, <1>4, <1>5

(* What filling the order o makes of the batch b. *)
Filled(c, b, o) ==
  /\ c.cash = b.cash + Amount(o)
  /\ c.shares = [b.shares EXCEPT ![o.ticker] = Left(b.shares, o)]
  /\ c.costed = CostedAfter(b.costed, b.shares, o)
  /\ c.seen = b.seen \union {o.id}
  /\ c.fills = Append(b.fills, FillOf(o))

LEMMA OrderFills ==
  ASSUME NEW b, Batch(b), NEW o, OrderOK(o), NEW allowShorting
  PROVE  LET c == FillOrder(b, o, allowShorting)
         IN  /\ Batch(c)
             /\ b.error # "none" => c = b
             /\ c.error = "none" <=> /\ b.error = "none"
                                     /\ o.id \notin b.seen
                                     /\ Fillable(b.shares, o, allowShorting)
             /\ c.error = "none" => Filled(c, b, o)
<1> DEFINE c == FillOrder(b, o, allowShorting)
           left == Left(b.shares, o)
           fillable == o.id \notin b.seen /\ Fillable(b.shares, o, allowShorting)
           problem == CASE o.id \in b.seen -> "duplicate order"
                        [] o.quantity = 0 -> "fractional quantity"
                        [] o.side = "buy" /\ left = 0 -> "division by zero"
                        [] o.side = "sell" /\ ~allowShorting /\ left < 0 -> "short sale"
                        [] OTHER -> "none"
           filled == [cash   |-> b.cash + Amount(o),
                      shares |-> [b.shares EXCEPT ![o.ticker] = left],
                      costed |-> CostedAfter(b.costed, b.shares, o),
                      seen   |-> b.seen \union {o.id},
                      fills  |-> Append(b.fills, FillOf(o)),
                      error  |-> "none"]
<1>1. left \in Int /\ Amount(o) \in Int /\ b.cash \in Int
  BY OrderTypes DEF Batch
<1>2. problem = "none" <=> fillable
  <2>1. left < 0 <=> ~(left >= 0)
    BY <1>1
  <2> HIDE DEF left
  <2> QED
    BY <2>1 DEF Fillable, left
<1>3. c = IF b.error # "none" THEN b
          ELSE IF problem # "none" THEN [b EXCEPT !.error = problem]
          ELSE filled
  BY Zenon DEF FillOrder, FillOf, Value, Amount, Left, CostedAfter
<1> HIDE DEF c, problem
<1>4. CASE b.error # "none"
  BY <1>3, <1>4 DEF c
<1>5. CASE b.error = "none" /\ problem # "none"
  <2>1. c = [b EXCEPT !.error = problem]
    BY <1>3, <1>5
  <2>2. c = [cash |-> b.cash, shares |-> b.shares, costed |-> b.costed,
             seen |-> b.seen, fills |-> b.fills, error |-> problem]
    BY <2>1 DEF Batch
  <2>3. Batch(c) /\ c.error = problem
    BY <2>2 DEF Batch
  <2> QED
    BY <1>2, <1>5, <2>3 DEF c
<1>6. CASE b.error = "none" /\ problem = "none"
  <2>1. c = filled
    BY <1>3, <1>6
  <2>2. /\ filled.cash \in Int /\ filled.shares \in [Tickers -> Int]
        /\ filled.costed \in SUBSET Tickers
    BY <1>1 DEF CostedAfter, Batch, OrderOK
  <2>3. Batch(c) /\ c.error = "none"
    BY <2>1, <2>2 DEF Batch
  <2> QED
    BY <1>2, <1>6, <2>1, <2>3 DEF c, Filled
<1> QED
  BY <1>4, <1>5, <1>6

-----------------------------------------------------------------------------
(* A whole batch.                                                          *)
BookOK(b) == b \in [cash : Int, shares : [Tickers -> Int], costed : SUBSET Tickers]

OrdersOK(orders, n) ==
  n \in Nat /\ DOMAIN orders = 1..n /\ \A i \in 1..n : OrderOK(orders[i])

Amounts(orders) == [i \in DOMAIN orders |-> Amount(orders[i])]
IdsOf(orders, k) == {orders[i].id : i \in 1..k}

LEMMA StartedIsABatch ==
  ASSUME NEW book, BookOK(book)
  PROVE  Batch(Started(book))
BY DEF BookOK, Started, Batch

(* What a batch has done by order k, if no order has failed.               *)
FilledUpTo(b, book, orders, n, k) ==
  /\ b.cash = book.cash + SumFunctionOnSet(Amounts(orders), 1..k)
  /\ b.seen = IdsOf(orders, k)
  /\ b.fills \in Seq({FillOf(orders[i]) : i \in 1..n})
  /\ Len(b.fills) = k
  /\ \A i \in 1..k : b.fills[i] = FillOf(orders[i])

LEMMA BatchFacts ==
  ASSUME NEW book, BookOK(book), NEW orders, NEW n, OrdersOK(orders, n), NEW allowShorting
  PROVE  \A k \in 0..n :
           LET b == BatchAfter(book, orders, allowShorting, k)
           IN  /\ Batch(b)
               /\ b.error = "none" => FilledUpTo(b, book, orders, n, k)
<1> DEFINE A(k) == BatchAfter(book, orders, allowShorting, k)
           F == {FillOf(orders[i]) : i \in 1..n}
           Sum(k) == SumFunctionOnSet(Amounts(orders), 1..k)
           Done(k) == /\ A(k).cash = book.cash + Sum(k)
                      /\ A(k).seen = IdsOf(orders, k)
                      /\ A(k).fills \in Seq(F)
                      /\ Len(A(k).fills) = k
                      /\ \A i \in 1..k : A(k).fills[i] = FillOf(orders[i])
           S == {k \in 0..n : Batch(A(k)) /\ (A(k).error = "none" => Done(k))}
<1>0. n \in Nat /\ DOMAIN orders = 1..n /\ \A i \in 1..n : OrderOK(orders[i])
  BY DEF OrdersOK
<1>1. /\ A(0) = Started(book)
      /\ \A k \in 1..n : A(k) = FillOrder(A(k - 1), orders[k], allowShorting)
  <2>1. n \in Nat /\ DOMAIN orders = 1..n
    BY <1>0
  <2>2. BatchAfter(book, orders, allowShorting, 0) = Started(book)
    BY <2>1, BatchStepByStep
  <2>3. StepByStep(book, orders, allowShorting, n)
    BY <2>1, BatchStepByStep
  <2> QED
    BY <2>2, <2>3 DEF StepByStep
<1>2. /\ Sum(0) = 0 /\ \A k \in 0..n : Sum(k) \in Int
      /\ \A k \in 1..n : Sum(k) = Amount(orders[k]) + Sum(k - 1)
  <2> DEFINE f == Amounts(orders)
  <2>1. \A i \in 1..n : f[i] = Amount(orders[i]) /\ f[i] \in Int
    BY <1>0, OrderTypes DEF Amounts
  <2> HIDE DEF f
  <2>2. /\ SumFunctionOnSet(f, 1..0) = 0
        /\ \A k \in 0..n : SumFunctionOnSet(f, 1..k) \in Int
        /\ \A k \in 1..n : SumFunctionOnSet(f, 1..k) = f[k] + SumFunctionOnSet(f, 1..(k - 1))
    BY <1>0, <2>1, PrefixSum
  <2> QED
    BY <2>1, <2>2 DEF f
<1>3. 0 \in S
  <2>1. Batch(A(0))
    BY <1>1, StartedIsABatch
  <2>3. Done(0)
    <3>1. book.cash \in Int /\ A(0).cash = book.cash /\ A(0).seen = {} /\ A(0).fills = <<>>
      BY <1>1 DEF Started, BookOK
    <3>2. IdsOf(orders, 0) = {}
      BY DEF IdsOf
    <3>3. <<>> \in Seq(F) /\ Len(<<>>) = 0
      BY EmptySeq
    <3>4. book.cash = book.cash + Sum(0)
      BY <1>2, <3>1
    <3>5. \A i \in 1..0 : FALSE
      OBVIOUS
    <3> HIDE DEF A, Sum, F
    <3> QED
      BY <3>1, <3>2, <3>3, <3>4, <3>5
  <2> QED
    BY <2>1, <2>3, <1>0
<1>4. ASSUME NEW k \in 1..n, k - 1 \in S PROVE k \in S
  <2> DEFINE a == A(k - 1)
             o == orders[k]
             c == A(k)
  <2>1. Batch(a) /\ (a.error = "none" => Done(k - 1)) /\ OrderOK(o)
    BY <1>0, <1>4
  <2>2. c = FillOrder(a, o, allowShorting)
    BY <1>1
  <2>3. /\ Batch(c)
        /\ c.error = "none" => a.error = "none"
        /\ c.error = "none" => Filled(c, a, o)
    <3>1. Batch(a) /\ OrderOK(o)
      BY <2>1
    <3> HIDE DEF a, o, c
    <3> DEFINE d == FillOrder(a, o, allowShorting)
    <3>2. /\ Batch(d)
          /\ d.error = "none" => a.error = "none"
          /\ d.error = "none" => Filled(d, a, o)
      BY <3>1, OrderFills
    <3> QED
      BY <2>2, <3>2
  <2>4. ASSUME c.error = "none" PROVE Done(k)
    <3>1. Done(k - 1)
      BY <2>1, <2>3, <2>4
    <3>2. c.cash = book.cash + Sum(k)
      <4>1. a.cash = book.cash + Sum(k - 1) /\ c.cash = a.cash + Amount(o)
        BY <2>3, <2>4, <3>1 DEF Filled
      <4>2. Sum(k) = Amount(o) + Sum(k - 1) /\ Sum(k - 1) \in Int
        <5>1. k - 1 \in 0..n
          BY <1>0
        <5> HIDE DEF Sum
        <5> QED
          BY <1>2, <5>1
      <4>3. Amount(o) \in Int /\ book.cash \in Int
        BY <2>1, OrderTypes DEF BookOK
      <4> HIDE DEF a, c, o, Sum
      <4> QED
        BY <4>1, <4>2, <4>3
    <3>3. c.seen = IdsOf(orders, k)
      <4>1. 1..k = (1..(k - 1)) \union {k}
        OBVIOUS
      <4>2. IdsOf(orders, k) = IdsOf(orders, k - 1) \union {o.id}
        BY <4>1 DEF IdsOf
      <4> QED
        BY <2>3, <2>4, <3>1, <4>2 DEF Filled
    <3>4. /\ c.fills \in Seq(F) /\ Len(c.fills) = k
          /\ \A i \in 1..k : c.fills[i] = FillOf(orders[i])
      <4>1. /\ a.fills \in Seq(F) /\ Len(a.fills) = k - 1
            /\ \A i \in 1..(k - 1) : a.fills[i] = FillOf(orders[i])
        BY <3>1
      <4>2. FillOf(o) \in F /\ c.fills = Append(a.fills, FillOf(o))
        BY <2>3, <2>4 DEF Filled
      <4> HIDE DEF a, c, F, Done
      <4>3. /\ Append(a.fills, FillOf(o)) \in Seq(F)
            /\ Len(Append(a.fills, FillOf(o))) = Len(a.fills) + 1
            /\ \A i \in 1..Len(a.fills) : Append(a.fills, FillOf(o))[i] = a.fills[i]
            /\ Append(a.fills, FillOf(o))[Len(a.fills) + 1] = FillOf(o)
        BY <4>1, <4>2, AppendProperties
      <4> QED
        BY <4>1, <4>2, <4>3 DEF o
    <3> QED
      BY <3>2, <3>3, <3>4
  <2> QED
    BY <2>3, <2>4, <1>4
<1> HIDE DEF S
<1>5. \A k \in 0..n : k \in S
  BY <1>0, <1>3, <1>4, PrefixInduction
<1> QED
  BY <1>5 DEF S, FilledUpTo

(* One step of a batch, from a to c by the order o.                        *)
Stepped(c, a, o, allowShorting) ==
  /\ Batch(a) /\ Batch(c) /\ OrderOK(o)
  /\ c.error # "none" => c.shares = a.shares /\ c.costed = a.costed
  /\ a.error # "none" => c.error # "none"
  /\ c.error = "none" <=> /\ a.error = "none"
                          /\ o.id \notin a.seen
                          /\ Fillable(a.shares, o, allowShorting)
  /\ c.error = "none" => Filled(c, a, o)

LEMMA BatchStep ==
  ASSUME NEW book, BookOK(book), NEW orders, NEW n, OrdersOK(orders, n), NEW allowShorting,
         NEW k \in 1..n
  PROVE  Stepped(BatchAfter(book, orders, allowShorting, k),
                 BatchAfter(book, orders, allowShorting, k - 1), orders[k], allowShorting)
<1> DEFINE a == BatchAfter(book, orders, allowShorting, k - 1)
           c == BatchAfter(book, orders, allowShorting, k)
           d == FillOrder(a, orders[k], allowShorting)
           o == orders[k]
<1>1. n \in Nat /\ DOMAIN orders = 1..n /\ OrderOK(orders[k]) /\ k - 1 \in 0..n /\ k \in 0..n
  BY DEF OrdersOK
<1>2. StepByStep(book, orders, allowShorting, n)
  BY <1>1, BatchStepByStep
<1>3. c = d
  BY <1>2 DEF StepByStep
<1>4. Batch(a) /\ Batch(c)
  BY <1>1, BatchFacts
<1> HIDE DEF a, c
<1>5. /\ Batch(d)
      /\ a.error # "none" => d = a
      /\ d.error = "none" <=> /\ a.error = "none"
                              /\ o.id \notin a.seen
                              /\ Fillable(a.shares, o, allowShorting)
      /\ d.error = "none" => Filled(d, a, o)
  BY <1>1, <1>4, OrderFills
<1>6. d.error # "none" => d.shares = a.shares /\ d.costed = a.costed
  BY <1>4 DEF FillOrder, Batch
<1> HIDE DEF d
<1>7. Stepped(d, a, o, allowShorting)
  BY <1>1, <1>3, <1>4, <1>5, <1>6 DEF Stepped
<1> QED
  BY <1>3, <1>7 DEF a, c

-----------------------------------------------------------------------------
(* Without short sales a long book stays long, and what it holds has a     *)
(* cost.                                                                   *)
Long(b) == \A t \in Tickers : b.shares[t] >= 0 /\ (b.shares[t] # 0 => t \in b.costed)

LEMMA LongStaysLong ==
  ASSUME NEW book, BookOK(book), Long(book), NEW orders, NEW n, OrdersOK(orders, n),
         NEW allowShorting, ~allowShorting
  PROVE  \A k \in 0..n : Long(BatchAfter(book, orders, allowShorting, k))
<1> DEFINE A(k) == BatchAfter(book, orders, allowShorting, k)
           S == {k \in 0..n : Long(A(k))}
<1>0. n \in Nat /\ DOMAIN orders = 1..n
  BY DEF OrdersOK
<1>1. 0 \in S
  <2>1. A(0) = Started(book)
    BY <1>0, BatchStepByStep
  <2>2. Long(Started(book))
    BY DEF Started, Long
  <2> QED
    BY <1>0, <2>1, <2>2
<1>2. ASSUME NEW k \in 1..n, k - 1 \in S PROVE k \in S
  <2> DEFINE a == A(k - 1)
             c == A(k)
             o == orders[k]
  <2>1. Stepped(c, a, o, allowShorting)
    BY BatchStep
  <2>2. Long(a)
    BY <1>2
  <2>3. a.shares \in [Tickers -> Int] /\ o.quantity \in Nat /\ o.ticker \in Tickers
        /\ o.side \in {"buy", "sell"}
    BY <2>1 DEF Stepped, Batch, OrderOK
  <2> SUFFICES Long(c)
    BY <1>0
  <2> HIDE DEF a, c, o
  <2>4. CASE c.error # "none"
    BY <2>1, <2>2, <2>4 DEF Long, Stepped
  <2>5. CASE c.error = "none"
    <3>1. /\ c.shares = [a.shares EXCEPT ![o.ticker] = Left(a.shares, o)]
          /\ c.costed = CostedAfter(a.costed, a.shares, o)
          /\ Fillable(a.shares, o, allowShorting)
      BY <2>1, <2>5 DEF Filled, Stepped
    <3>2. /\ a.shares[o.ticker] >= 0 /\ a.shares[o.ticker] \in Int
          /\ a.shares[o.ticker] # 0 => o.ticker \in a.costed
      BY <2>2, <2>3 DEF Long
    <3>3. /\ Left(a.shares, o) >= 0
          /\ Left(a.shares, o) # 0 => o.ticker \in c.costed
      <4>1. CASE o.side = "buy"
        BY <2>3, <3>1, <3>2, <4>1 DEF Left, CostedAfter
      <4>2. CASE o.side = "sell"
        <5>1. Left(a.shares, o) = a.shares[o.ticker] - o.quantity /\ Left(a.shares, o) >= 0
          BY <3>1, <4>2 DEF Left, Fillable
        <5>2. Left(a.shares, o) # 0 => a.shares[o.ticker] # 0
          BY <2>3, <3>2, <5>1
        <5>3. Left(a.shares, o) # 0 => c.costed = a.costed
          BY <3>1, <4>2 DEF CostedAfter
        <5> QED
          BY <3>2, <5>1, <5>2, <5>3
      <4> QED
        BY <2>3, <4>1, <4>2
    <3>4. ASSUME NEW t \in Tickers, t # o.ticker
          PROVE  /\ c.shares[t] = a.shares[t]
                 /\ t \in a.costed => t \in c.costed
      BY <2>3, <3>1, <3>4 DEF CostedAfter
    <3>5. c.shares[o.ticker] = Left(a.shares, o)
      BY <2>3, <3>1
    <3> QED
      BY <2>2, <3>3, <3>4, <3>5 DEF Long
  <2> QED
    BY <2>4, <2>5
<1> HIDE DEF S
<1>3. \A k \in 0..n : k \in S
  BY <1>0, <1>1, <1>2, PrefixInduction
<1> QED
  BY <1>3 DEF S

-----------------------------------------------------------------------------
(* The result of execute_batch.                                            *)
CommittedBook(b) == [cash |-> RoundHalfUp(b.cash, Cent), shares |-> b.shares, costed |-> b.costed]

Executed(r, book, b) ==
  /\ r.error = "none" <=> b.error = "none" /\ b.cash >= 0
  /\ r.error = "none" => r.book = CommittedBook(b) /\ r.fills = b.fills
  /\ r.error # "none" => r.book = book /\ r.fills = <<>>

LEMMA ExecuteBatchIs ==
  ASSUME NEW book, BookOK(book), NEW orders, NEW n, OrdersOK(orders, n), NEW allowShorting
  PROVE  Executed(ExecuteBatch(book, orders, allowShorting), book,
                  BatchAfter(book, orders, allowShorting, n))
<1> DEFINE b == BatchAfter(book, orders, allowShorting, n)
           r == ExecuteBatch(book, orders, allowShorting)
<1>0. n \in Nat /\ DOMAIN orders = 1..n /\ n \in 0..n
  BY DEF OrdersOK
<1>1. RunBatch(book, orders, allowShorting) = b
  BY <1>0, BatchStepByStep
<1>2. Batch(b)
  BY <1>0, BatchFacts
<1>3. r = [book |-> Committed(book, b),
           fills |-> IF Failure(b) = "none" THEN b.fills ELSE <<>>,
           error |-> Failure(b)]
  BY <1>1 DEF ExecuteBatch
<1> HIDE DEF b, r
<1>4. /\ r.book = Committed(book, b) /\ r.error = Failure(b)
      /\ r.fills = IF Failure(b) = "none" THEN b.fills ELSE <<>>
  BY <1>3
<1>5. Failure(b) = "none" <=> b.error = "none" /\ b.cash >= 0
  <2>1. b.cash < 0 <=> ~(b.cash >= 0)
    BY <1>2 DEF Batch
  <2> QED
    BY <2>1 DEF Failure
<1>6. Executed(r, book, b)
  BY <1>4, <1>5 DEF Executed, Committed, CommittedBook
<1> QED
  BY <1>6 DEF r, b

(* A book after a batch is a book, rounded to the cent and not in debt.    *)
Rounded(b) == b.cash >= 0 /\ b.cash % Cent = 0

LEMMA ExecuteBatchKeepsBooks ==
  ASSUME NEW book, BookOK(book), NEW orders, NEW n, OrdersOK(orders, n), NEW allowShorting
  PROVE  LET r == ExecuteBatch(book, orders, allowShorting)
         IN  /\ BookOK(r.book)
             /\ Rounded(book) => Rounded(r.book)
             /\ Long(book) /\ ~allowShorting => Long(r.book)
<1> DEFINE b == BatchAfter(book, orders, allowShorting, n)
           r == ExecuteBatch(book, orders, allowShorting)
<1>0. n \in Nat /\ DOMAIN orders = 1..n /\ n \in 0..n
  BY DEF OrdersOK
<1>1. Executed(r, book, b)
  BY ExecuteBatchIs
<1>2. Batch(b)
  BY <1>0, BatchFacts
<1>3. Long(book) /\ ~allowShorting => Long(b)
  BY <1>0, LongStaysLong
<1> HIDE DEF b, r
<1>4. CASE r.error # "none"
  BY <1>1, <1>4 DEF r, Executed
<1>5. CASE r.error = "none"
  <2>1. /\ r.book = CommittedBook(b) /\ b.cash \in Int /\ b.cash >= 0
        /\ b.shares \in [Tickers -> Int] /\ b.costed \in SUBSET Tickers
    BY <1>1, <1>2, <1>5 DEF Executed, Batch
  <2>2. LET y == RoundHalfUp(b.cash, Cent) IN y \in Int /\ y >= 0 /\ y % Cent = 0
    BY <2>1, CentAssumption, RoundHalfUpIsClose
  <2>3. BookOK(r.book) /\ Rounded(r.book)
    BY <2>1, <2>2 DEF CommittedBook, BookOK, Rounded
  <2>4. Long(b) => Long(r.book)
    BY <2>1 DEF Long, CommittedBook
  <2> QED
    BY <1>3, <2>3, <2>4 DEF r
<1> QED
  BY <1>4, <1>5

(* No orders, no change. *)
LEMMA NothingToExecute ==
  ASSUME NEW book, BookOK(book), Rounded(book), NEW orders, DOMAIN orders = {},
         NEW allowShorting
  PROVE  LET r == ExecuteBatch(book, orders, allowShorting)
         IN  r.error = "none" /\ r.book = book
<1> DEFINE b == BatchAfter(book, orders, allowShorting, 0)
           r == ExecuteBatch(book, orders, allowShorting)
<1>1. OrdersOK(orders, 0) /\ DOMAIN orders = 1..0
  BY DEF OrdersOK
<1>2. Executed(r, book, b)
  BY <1>1, ExecuteBatchIs
<1>3. b = Started(book)
  BY <1>1, BatchStepByStep
<1> HIDE DEF b, r
<1>4. /\ b.error = "none" /\ b.cash = book.cash /\ b.shares = book.shares
      /\ b.costed = book.costed
  BY <1>3 DEF Started
<1>5. book.cash \in Int /\ book.cash >= 0
  BY DEF BookOK, Rounded
<1>6. RoundHalfUp(book.cash, Cent) = book.cash
  BY <1>5, CentAssumption, RoundHalfUpOfMultiple DEF Rounded
<1>7. CommittedBook(b) = book
  BY <1>4, <1>6 DEF CommittedBook, BookOK
<1>8. r.error = "none" /\ r.book = book
  BY <1>2, <1>4, <1>5, <1>7 DEF Executed
<1> QED
  BY <1>8 DEF r

-----------------------------------------------------------------------------
(* The value of what is held.                                              *)
Values(shares, marks) == [t \in Tickers |-> shares[t] * marks[t]]
Holdings(shares, marks) == SumFunctionOnSet(Values(shares, marks), Tickers)

LEMMA HoldingsMove ==
  ASSUME IsFiniteSet(Tickers), NEW shares \in [Tickers -> Int], NEW marks \in [Tickers -> Int],
         NEW t \in Tickers, NEW x \in Int
  PROVE  /\ Holdings(shares, marks) \in Int
         /\ Holdings([shares EXCEPT ![t] = x], marks)
              = Holdings(shares, marks) + x * marks[t] - shares[t] * marks[t]
<1> DEFINE after == [shares EXCEPT ![t] = x]
           f == Values(shares, marks)
           g == Values(after, marks)
           T == Tickers \ {t}
<1>1. /\ \A u \in Tickers : f[u] \in Int /\ g[u] \in Int
      /\ \A u \in T : g[u] = f[u]
      /\ f[t] = shares[t] * marks[t] /\ g[t] = x * marks[t]
  <2>1. \A u \in Tickers : after[u] \in Int /\ after[u] = IF u = t THEN x ELSE shares[u]
    OBVIOUS
  <2> HIDE DEF after
  <2> QED
    BY <2>1 DEF Values
<1> HIDE DEF after, f, g
<1>2. IsFiniteSet(T)
  BY FS_RemoveElement
<1>3. /\ SumFunctionOnSet(f, Tickers) \in Int /\ SumFunctionOnSet(g, Tickers) \in Int
      /\ SumFunctionOnSet(f, Tickers) = f[t] + SumFunctionOnSet(f, T)
      /\ SumFunctionOnSet(g, Tickers) = g[t] + SumFunctionOnSet(g, T)
  BY <1>1, SumWithout
<1>4. SumFunctionOnSet(f, T) = SumFunctionOnSet(g, T) /\ SumFunctionOnSet(f, T) \in Int
  BY <1>1, <1>2, SumOfEquals, SumWithout
<1>5. SumFunctionOnSet(g, Tickers) = SumFunctionOnSet(f, Tickers) + g[t] - f[t]
  <2> DEFINE a == SumFunctionOnSet(f, Tickers)
             b == SumFunctionOnSet(g, Tickers)
             c == SumFunctionOnSet(f, T)
             p == f[t]
             q == g[t]
  <2>1. a = p + c /\ b = q + c /\ p \in Int /\ q \in Int /\ c \in Int
    BY <1>1, <1>3, <1>4
  <2> HIDE DEF a, b, c, p, q
  <2>2. b = a + q - p
    BY <2>1
  <2> QED
    BY <2>2 DEF a, b, p, q
<1> QED
  BY <1>1, <1>3, <1>5 DEF Holdings, f, g, after

(* What a fill at the mark costs: the commission, and the slippage before  *)
(* it is rounded.                                                          *)
ExactSlippage(o) == Distance(FillPrice(o.side, o.price), o.price) * o.quantity
Loss(o) == Fee(Value(o)) + ExactSlippage(o)

LEMMA FillCostsItsLoss ==
  ASSUME IsFiniteSet(Tickers), NEW marks \in [Tickers -> Int],
         NEW a, Batch(a), NEW o, OrderOK(o), o.price = marks[o.ticker],
         NEW c, Filled(c, a, o)
  PROVE  /\ Loss(o) \in Int /\ ExactSlippage(o) \in Nat
         /\ c.cash + Holdings(c.shares, marks) = (a.cash + Holdings(a.shares, marks)) - Loss(o)
<1> DEFINE p == FillPrice(o.side, o.price)
           m == o.price
           q == o.quantity
           f == Fee(Value(o))
           H == Holdings(a.shares, marks)
           s == a.shares[o.ticker]
           l == Left(a.shares, o)
<1>1. /\ p \in Nat /\ m \in Nat /\ q \in Nat /\ f \in Nat /\ s \in Int /\ l \in Int
      /\ o.side = "buy" => p >= m
      /\ o.side # "buy" => p <= m
      /\ o.ticker \in Tickers /\ a.shares \in [Tickers -> Int] /\ a.cash \in Int
      /\ m = marks[o.ticker]
  BY OrderTypes DEF OrderOK, Batch
<1>2. /\ Holdings([a.shares EXCEPT ![o.ticker] = l], marks) = H + l * m - s * m
      /\ H \in Int
  <2> DEFINE t == o.ticker
             shares == a.shares
  <2>1. t \in Tickers /\ shares \in [Tickers -> Int] /\ l \in Int
    BY <1>1
  <2> HIDE DEF t, shares, l
  <2>2. /\ Holdings([shares EXCEPT ![t] = l], marks)
             = Holdings(shares, marks) + l * marks[t] - shares[t] * marks[t]
        /\ Holdings(shares, marks) \in Int
    BY <2>1, HoldingsMove
  <2> QED
    BY <1>1, <2>2 DEF t, shares
<1>3. /\ c.cash = a.cash + Amount(o)
      /\ c.shares = [a.shares EXCEPT ![o.ticker] = l]
      /\ Amount(o) = IF o.side = "buy" THEN -(p * q + f) ELSE p * q - f
      /\ l = IF o.side = "buy" THEN s + q ELSE s - q
      /\ Loss(o) = f + Distance(p, m) * q /\ ExactSlippage(o) = Distance(p, m) * q
  BY DEF Filled, Amount, Value, Left, Loss, ExactSlippage
<1>4. Holdings(c.shares, marks) = H + l * m - s * m
  BY <1>2, <1>3
<1> HIDE DEF p, m, q, f, H, s, l
<1>5. /\ p * q \in Int /\ m * q \in Int /\ s * m \in Int /\ l * m \in Int
      /\ (p - m) * q = p * q - m * q /\ (m - p) * q = m * q - p * q
  BY <1>1
<1>6. ASSUME NEW P \in Int, NEW M \in Int, NEW S \in Int, NEW L \in Int,
             \/ L = S + M /\ Distance(p, m) * q = P - M /\ P - M \in Nat /\ c.cash = a.cash - P - f
             \/ L = S - M /\ Distance(p, m) * q = M - P /\ M - P \in Nat /\ c.cash = a.cash + P - f,
             L = l * m, S = s * m
      PROVE  /\ Loss(o) \in Int /\ ExactSlippage(o) \in Nat
             /\ c.cash + Holdings(c.shares, marks) = (a.cash + Holdings(a.shares, marks)) - Loss(o)
  <2> DEFINE d == Distance(p, m) * q
             lost == Loss(o)
             h == Holdings(c.shares, marks)
             before == a.cash
             after == c.cash
  <2>1. /\ lost = f + d /\ ExactSlippage(o) = d /\ h = H + L - S
        /\ f \in Nat /\ H \in Int /\ before \in Int
    BY <1>1, <1>2, <1>3, <1>4, <1>6
  <2>2. \/ L = S + M /\ d = P - M /\ P - M \in Nat /\ after = before - P - f
        \/ L = S - M /\ d = M - P /\ M - P \in Nat /\ after = before + P - f
    BY <1>6
  <2> HIDE DEF d, lost, h, before, after
  <2>3. lost \in Int /\ d \in Nat /\ after + h = (before + H) - lost
    BY <2>1, <2>2
  <2> QED
    BY <2>1, <2>3 DEF lost, h, before, after, H
<1>7. CASE o.side = "buy"
  <2>1. Distance(p, m) = p - m /\ p - m \in Nat
    BY <1>1, <1>7 DEF Distance
  <2>2. l * m = s * m + m * q
    BY <1>1, <1>3, <1>7
  <2>3. Distance(p, m) * q = p * q - m * q /\ Distance(p, m) * q \in Nat
    BY <1>1, <1>5, <2>1
  <2>4. c.cash = a.cash - p * q - f
    BY <1>1, <1>3, <1>5, <1>7
  <2>5. p * q \in Int /\ m * q \in Int /\ s * m \in Int /\ l * m \in Int /\ p * q - m * q \in Nat
    BY <1>5, <2>3
  <2> QED
    BY <1>6, <2>2, <2>3, <2>4, <2>5
<1>8. CASE o.side # "buy"
  <2>1. Distance(p, m) = m - p /\ m - p \in Nat
    BY <1>1, <1>8 DEF Distance
  <2>2. l * m = s * m - m * q
    BY <1>1, <1>3, <1>8
  <2>3. Distance(p, m) * q = m * q - p * q /\ Distance(p, m) * q \in Nat
    BY <1>1, <1>5, <2>1
  <2>4. c.cash = a.cash + p * q - f
    BY <1>1, <1>3, <1>5, <1>8
  <2>5. p * q \in Int /\ m * q \in Int /\ s * m \in Int /\ l * m \in Int /\ m * q - p * q \in Nat
    BY <1>5, <2>3
  <2> QED
    BY <1>6, <2>2, <2>3, <2>4, <2>5
<1> QED
  BY <1>7, <1>8

Losses(orders) == [i \in DOMAIN orders |-> Loss(orders[i])]
PricedAt(orders, n, marks) == \A i \in 1..n : orders[i].price = marks[orders[i].ticker]

LEMMA BatchCostsItsLosses ==
  ASSUME IsFiniteSet(Tickers), NEW marks \in [Tickers -> Int], NEW book, BookOK(book),
         NEW orders, NEW n, OrdersOK(orders, n), PricedAt(orders, n, marks), NEW allowShorting
  PROVE  LET b == BatchAfter(book, orders, allowShorting, n)
         IN  b.error = "none" =>
               /\ SumFunctionOnSet(Losses(orders), 1..n) \in Int
               /\ b.cash + Holdings(b.shares, marks)
                    = (book.cash + Holdings(book.shares, marks))
                        - SumFunctionOnSet(Losses(orders), 1..n)
<1> DEFINE A(k) == BatchAfter(book, orders, allowShorting, k)
           L(k) == SumFunctionOnSet(Losses(orders), 1..k)
           nav == book.cash + Holdings(book.shares, marks)
           N(k) == A(k).cash + Holdings(A(k).shares, marks)
           S == {k \in 0..n : A(k).error = "none" => N(k) = nav - L(k)}
<1>0. n \in Nat /\ DOMAIN orders = 1..n /\ \A i \in 1..n : OrderOK(orders[i])
  BY DEF OrdersOK
<1>1. \A k \in 1..n : A(k).error = "none" =>
        /\ A(k - 1).error = "none"
        /\ Loss(orders[k]) \in Int
        /\ N(k) = N(k - 1) - Loss(orders[k])
  <2> SUFFICES ASSUME NEW k \in 1..n, A(k).error = "none"
               PROVE  /\ A(k - 1).error = "none"
                      /\ Loss(orders[k]) \in Int
                      /\ N(k) = N(k - 1) - Loss(orders[k])
    OBVIOUS
  <2> DEFINE a == A(k - 1)
             c == A(k)
             o == orders[k]
  <2>1. Stepped(c, a, o, allowShorting)
    BY BatchStep
  <2>2. o.price = marks[o.ticker]
    BY DEF PricedAt
  <2>3. c.error = "none"
    OBVIOUS
  <2> HIDE DEF a, c, o
  <2>4. Batch(a) /\ OrderOK(o) /\ Filled(c, a, o) /\ a.error = "none"
    BY <2>1, <2>3 DEF Stepped
  <2>5. /\ Loss(o) \in Int
        /\ c.cash + Holdings(c.shares, marks) = (a.cash + Holdings(a.shares, marks)) - Loss(o)
    BY <2>2, <2>4, FillCostsItsLoss
  <2> QED
    BY <2>4, <2>5, Zenon DEF a, c, o
<1>2. \A i \in 1..n : Loss(orders[i]) \in Int
  <2> TAKE i \in 1..n
  <2>1. OrderOK(orders[i])
    BY <1>0
  <2> DEFINE o == orders[i]
             p == FillPrice(o.side, o.price)
  <2>2. Fee(Value(o)) \in Nat /\ p \in Nat /\ o.price \in Nat /\ o.quantity \in Nat
    BY <2>1, OrderTypes DEF OrderOK
  <2>3. Loss(o) = Fee(Value(o)) + Distance(p, o.price) * o.quantity
    BY DEF Loss, ExactSlippage
  <2> HIDE DEF p
  <2>4. Distance(p, o.price) \in Int
    BY <2>2 DEF Distance
  <2>5. Distance(p, o.price) * o.quantity \in Int
    BY <2>2, <2>4
  <2> QED
    BY <2>2, <2>3, <2>5
<1>3. /\ L(0) = 0 /\ \A k \in 0..n : L(k) \in Int
      /\ \A k \in 1..n : L(k) = Loss(orders[k]) + L(k - 1)
  <2> DEFINE f == Losses(orders)
  <2>1. \A i \in 1..n : f[i] = Loss(orders[i]) /\ f[i] \in Int
    BY <1>0, <1>2 DEF Losses
  <2> HIDE DEF f
  <2>2. /\ SumFunctionOnSet(f, 1..0) = 0
        /\ \A k \in 0..n : SumFunctionOnSet(f, 1..k) \in Int
        /\ \A k \in 1..n : SumFunctionOnSet(f, 1..k) = f[k] + SumFunctionOnSet(f, 1..(k - 1))
    BY <1>0, <2>1, PrefixSum
  <2> QED
    BY <2>1, <2>2 DEF f
<1>4. nav \in Int
  <2>1. book.cash \in Int /\ book.shares \in [Tickers -> Int]
    BY DEF BookOK
  <2>2. Holdings(book.shares, marks) \in Int
    <3> DEFINE f == Values(book.shares, marks)
    <3>1. \A t \in Tickers : f[t] \in Int
      BY <2>1 DEF Values
    <3> HIDE DEF f
    <3>2. SumFunctionOnSet(f, Tickers) \in Int
      BY <3>1, SumWithout
    <3> QED
      BY <3>2 DEF f, Holdings
  <2> QED
    BY <2>1, <2>2
<1>5. N(0) = nav
  <2>1. A(0) = Started(book)
    BY <1>0, BatchStepByStep
  <2> QED
    BY <2>1 DEF Started
<1> HIDE DEF A, L, N, nav
<1>6. 0 \in S
  BY <1>0, <1>3, <1>4, <1>5
<1>7. ASSUME NEW k \in 1..n, k - 1 \in S PROVE k \in S
  <2>1. SUFFICES ASSUME A(k).error = "none" PROVE N(k) = nav - L(k)
    BY <1>0
  <2>2. /\ N(k - 1) = nav - L(k - 1) /\ N(k) = N(k - 1) - Loss(orders[k])
        /\ Loss(orders[k]) \in Int
    BY <1>1, <1>7, <2>1
  <2>3. L(k) = Loss(orders[k]) + L(k - 1) /\ L(k - 1) \in Int
    <3>1. k - 1 \in 0..n
      BY <1>0
    <3> QED
      BY <1>3, <3>1
  <2> DEFINE l == Loss(orders[k])
             m == L(k - 1)
  <2>4. N(k) = (nav - m) - l /\ L(k) = l + m /\ l \in Int /\ m \in Int
    BY <2>2, <2>3
  <2> HIDE DEF l, m
  <2> QED
    BY <1>4, <2>4
<1> HIDE DEF S
<1>8. \A k \in 0..n : k \in S
  BY <1>0, <1>6, <1>7, PrefixInduction
<1>9. A(n).error = "none" => N(n) = nav - L(n) /\ L(n) \in Int
  BY <1>0, <1>3, <1>8 DEF S
<1> QED
  BY <1>9, Zenon DEF A, L, N, nav

(* The costs that the fills report: those amounts, each rounded.           *)
Costs(orders) == [i \in DOMAIN orders |-> FillOf(orders[i]).fee + FillOf(orders[i]).slippage]

LEMMA CostIsCloseToLoss ==
  ASSUME NEW o, OrderOK(o)
  PROVE  LET cost == FillOf(o).fee + FillOf(o).slippage
         IN  /\ cost \in Int /\ Loss(o) \in Int
             /\ 2 * cost <= 2 * Loss(o) + Cent /\ 2 * Loss(o) <= 2 * cost + Cent
<1> DEFINE p == FillPrice(o.side, o.price)
           x == ExactSlippage(o)
           y == RoundHalfUp(x, Cent)
           f == Fee(Value(o))
<1>1. f \in Nat /\ p \in Nat /\ o.price \in Nat /\ o.quantity \in Nat
  BY OrderTypes DEF OrderOK
<1>2. x \in Int
  <2>1. x = Distance(p, o.price) * o.quantity
    BY DEF ExactSlippage
  <2>2. Distance(p, o.price) \in Int
    BY <1>1 DEF Distance
  <2> HIDE DEF p
  <2> QED
    BY <1>1, <2>1, <2>2
<1>3. FillOf(o).fee = f /\ FillOf(o).slippage = y /\ Loss(o) = f + x
  BY DEF FillOf, Slippage, ExactSlippage, Loss
<1> HIDE DEF f, x
<1>4. y \in Int /\ 2 * y <= 2 * x + Cent /\ 2 * x <= 2 * y + Cent
  BY <1>2, CentAssumption, RoundHalfUpIsClose
<1> HIDE DEF y
<1> QED
  BY <1>1, <1>2, <1>3, <1>4, CentAssumption

LEMMA CostsAreReported ==
  ASSUME NEW book, BookOK(book), NEW orders, NEW n, OrdersOK(orders, n), NEW allowShorting
  PROVE  LET b == BatchAfter(book, orders, allowShorting, n)
             costs == SumFunction([i \in DOMAIN b.fills |-> b.fills[i].fee + b.fills[i].slippage])
             lost == SumFunctionOnSet(Losses(orders), 1..n)
         IN  b.error = "none" =>
               /\ costs \in Int /\ lost \in Int /\ Len(b.fills) = n
               /\ 2 * costs <= 2 * lost + Cent * n
               /\ 2 * lost <= 2 * costs + Cent * n
<1> DEFINE b == BatchAfter(book, orders, allowShorting, n)
           reported == [i \in DOMAIN b.fills |-> b.fills[i].fee + b.fills[i].slippage]
<1>0. n \in Nat /\ DOMAIN orders = 1..n /\ \A i \in 1..n : OrderOK(orders[i])
  BY DEF OrdersOK
<1>1. SUFFICES ASSUME b.error = "none"
               PROVE  LET costs == SumFunction(reported)
                          lost == SumFunctionOnSet(Losses(orders), 1..n)
                      IN  /\ costs \in Int /\ lost \in Int /\ Len(b.fills) = n
                          /\ 2 * costs <= 2 * lost + Cent * n
                          /\ 2 * lost <= 2 * costs + Cent * n
  BY Zenon
<1>2. /\ b.fills \in Seq({FillOf(orders[i]) : i \in 1..n}) /\ Len(b.fills) = n
      /\ \A i \in 1..n : b.fills[i] = FillOf(orders[i])
  <2>1. n \in 0..n
    BY <1>0
  <2>2. b.error = "none" => FilledUpTo(b, book, orders, n, n)
    BY <2>1, BatchFacts
  <2> QED
    BY <1>1, <2>2 DEF FilledUpTo
<1>3. DOMAIN b.fills = 1..n
  BY <1>2
<1> HIDE DEF b
<1>4. reported = Costs(orders)
  BY <1>0, <1>2, <1>3 DEF Costs
<1>5. SumFunction(reported) = SumFunctionOnSet(Costs(orders), 1..n)
  <2>1. DOMAIN reported = 1..n
    BY <1>3
  <2> HIDE DEF reported
  <2> QED
    BY <1>4, <2>1, SumOfFunction
<1> HIDE DEF reported
<1> DEFINE f == Costs(orders)
           g == Losses(orders)
<1>6. \A i \in 1..n : /\ f[i] \in Int /\ g[i] \in Int
                      /\ 2 * f[i] <= 2 * g[i] + Cent /\ 2 * g[i] <= 2 * f[i] + Cent
  <2> TAKE i \in 1..n
  <2>1. f[i] = FillOf(orders[i]).fee + FillOf(orders[i]).slippage /\ g[i] = Loss(orders[i])
    BY <1>0 DEF Costs, Losses
  <2>2. OrderOK(orders[i])
    BY <1>0
  <2> DEFINE o == orders[i]
             cost == FillOf(o).fee + FillOf(o).slippage
  <2>3. /\ cost \in Int /\ Loss(o) \in Int
        /\ 2 * cost <= 2 * Loss(o) + Cent /\ 2 * Loss(o) <= 2 * cost + Cent
    BY <2>2, CostIsCloseToLoss
  <2> HIDE DEF f, g
  <2> QED
    BY <2>1, <2>3
<1> HIDE DEF f, g
<1>7. Cent \in Int
  BY CentAssumption
<1>8. /\ 2 * SumFunctionOnSet(f, 1..n) <= 2 * SumFunctionOnSet(g, 1..n) + Cent * n
      /\ 2 * SumFunctionOnSet(g, 1..n) <= 2 * SumFunctionOnSet(f, 1..n) + Cent * n
  BY <1>0, <1>6, <1>7, PrefixSumExceeds
<1>9. SumFunctionOnSet(f, 1..n) \in Int /\ SumFunctionOnSet(g, 1..n) \in Int
  <2>1. IsFiniteSet(1..n)
    BY <1>0, FS_Interval
  <2> QED
    BY <1>6, <2>1, SumWithout
<1> QED
  BY <1>2, <1>5, <1>8, <1>9 DEF f, g

LEMMA EquityIsRounded ==
  ASSUME IsFiniteSet(Tickers), NEW book, BookOK(book), NEW marks \in [Tickers -> Int]
  PROVE  /\ Holdings(book.shares, marks) \in Int
         /\ Equity(book, marks) = RoundHalfEven(book.cash + Holdings(book.shares, marks), Cent)
         /\ Equity(book, marks) \in Int
<1> DEFINE f == Values(book.shares, marks)
           total == book.cash + Holdings(book.shares, marks)
<1>1. book.cash \in Int /\ book.shares \in [Tickers -> Int]
  BY DEF BookOK
<1>2. DOMAIN f = Tickers /\ \A t \in Tickers : f[t] \in Int
  BY <1>1 DEF Values
<1>3. Equity(book, marks) = RoundHalfEven(book.cash + SumFunction(f), Cent)
  BY DEF Equity, Values
<1> HIDE DEF f
<1>4. SumFunction(f) = SumFunctionOnSet(f, Tickers) /\ SumFunctionOnSet(f, Tickers) \in Int
  BY <1>2, SumOfFunction, SumWithout
<1>5. Holdings(book.shares, marks) = SumFunctionOnSet(f, Tickers)
  BY DEF Holdings, f
<1>6. total \in Int
  BY <1>1, <1>4, <1>5
<1>7. Equity(book, marks) = RoundHalfEven(total, Cent)
  BY <1>3, <1>4, <1>5
<1> HIDE DEF total
<1>8. RoundHalfEven(total, Cent) \in Int
  BY <1>6, CentAssumption, RoundHalfEvenIsClose
<1> QED
  BY <1>4, <1>5, <1>7, <1>8 DEF total

(* CostsExplainNav of a batch.                                             *)
LEMMA BatchExplainsNav ==
  ASSUME IsFiniteSet(Tickers), NEW marks \in [Tickers -> Int], NEW book, BookOK(book),
         NEW orders, NEW n, OrdersOK(orders, n), PricedAt(orders, n, marks), NEW allowShorting
  PROVE  LET r == ExecuteBatch(book, orders, allowShorting)
             costs == SumFunction([i \in DOMAIN r.fills |-> r.fills[i].fee + r.fills[i].slippage])
         IN  r.error = "none" =>
               2 * Distance(Equity(book, marks) - Equity(r.book, marks), costs)
                 <= Cent * (Len(r.fills) + 3)
<1> DEFINE r == ExecuteBatch(book, orders, allowShorting)
           b == BatchAfter(book, orders, allowShorting, n)
           costs(fills) == SumFunction([i \in DOMAIN fills |-> fills[i].fee + fills[i].slippage])
           lost == SumFunctionOnSet(Losses(orders), 1..n)
<1>0. n \in Nat /\ DOMAIN orders = 1..n /\ n \in 0..n /\ Cent \in Nat \ {0}
  BY CentAssumption DEF OrdersOK
<1>1. SUFFICES ASSUME r.error = "none"
               PROVE  2 * Distance(Equity(book, marks) - Equity(r.book, marks), costs(r.fills))
                        <= Cent * (Len(r.fills) + 3)
  BY Zenon
<1>2. Executed(r, book, b) /\ Batch(b)
  BY <1>0, ExecuteBatchIs, BatchFacts
<1>3. b.error = "none" /\ r.book = CommittedBook(b) /\ r.fills = b.fills
  BY <1>1, <1>2 DEF Executed
<1>4. /\ costs(b.fills) \in Int /\ lost \in Int /\ Len(b.fills) = n
      /\ 2 * costs(b.fills) <= 2 * lost + Cent * n
      /\ 2 * lost <= 2 * costs(b.fills) + Cent * n
  BY <1>3, CostsAreReported
<1>5. b.cash + Holdings(b.shares, marks) = (book.cash + Holdings(book.shares, marks)) - lost
  BY <1>3, BatchCostsItsLosses
<1>6. BookOK(r.book)
  BY ExecuteBatchKeepsBooks
<1>7. ASSUME NEW c, BookOK(c)
      PROVE  /\ Holdings(c.shares, marks) \in Int
             /\ Equity(c, marks) = RoundHalfEven(c.cash + Holdings(c.shares, marks), Cent)
  BY <1>7, EquityIsRounded
<1> DEFINE H0 == Holdings(book.shares, marks)
           H1 == Holdings(b.shares, marks)
           c0 == book.cash
           c1 == b.cash
           c2 == RoundHalfUp(c1, Cent)
           C == costs(b.fills)
           E0 == RoundHalfEven(c0 + H0, Cent)
           E1 == RoundHalfEven(c2 + H1, Cent)
<1>8. /\ Equity(book, marks) = E0 /\ Equity(r.book, marks) = E1 /\ costs(r.fills) = C
      /\ Len(r.fills) = n
  <2>1. r.book.cash = c2 /\ r.book.shares = b.shares
    BY <1>3 DEF CommittedBook
  <2>2. Equity(r.book, marks) = RoundHalfEven(r.book.cash + Holdings(r.book.shares, marks), Cent)
    BY <1>6, <1>7
  <2>3. Equity(book, marks) = E0
    BY <1>7
  <2> HIDE DEF r, b
  <2> QED
    BY <1>3, <1>4, <2>1, <2>2, <2>3, Zenon
<1>9. /\ H0 \in Int /\ H1 \in Int /\ c0 \in Int /\ c1 \in Int /\ C \in Int /\ lost \in Int
      /\ 2 * C <= 2 * lost + Cent * n /\ 2 * lost <= 2 * C + Cent * n
      /\ c1 + H1 = (c0 + H0) - lost
  <2>1. r.book.shares = b.shares
    BY <1>3 DEF CommittedBook
  <2>2. H0 \in Int /\ H1 \in Int
    BY <1>6, <1>7, <2>1
  <2>3. c0 \in Int /\ c1 \in Int
    BY <1>2 DEF BookOK, Batch
  <2> QED
    BY <1>4, <1>5, <2>2, <2>3
<1> HIDE DEF r, b, costs, lost, H0, H1, c0, c1, C
<1>10. c2 \in Int /\ 2 * c2 <= 2 * c1 + Cent /\ 2 * c1 <= 2 * c2 + Cent
  BY <1>0, <1>9, RoundHalfUpIsClose
<1> HIDE DEF c2
<1>11. /\ E0 \in Int /\ 2 * E0 <= 2 * (c0 + H0) + Cent /\ 2 * (c0 + H0) <= 2 * E0 + Cent
  <2>1. c0 + H0 \in Int
    BY <1>9
  <2> QED
    BY <1>0, <2>1, RoundHalfEvenIsClose
<1>12. /\ E1 \in Int /\ 2 * E1 <= 2 * (c2 + H1) + Cent /\ 2 * (c2 + H1) <= 2 * E1 + Cent
  <2>1. c2 + H1 \in Int
    BY <1>9, <1>10
  <2> QED
    BY <1>0, <2>1, RoundHalfEvenIsClose
<1> HIDE DEF E0, E1
<1>13. Cent * n \in Int /\ Cent * (n + 3) = Cent * n + 3 * Cent
  BY <1>0
<1> DEFINE w == Cent * n
<1>14. 2 * Distance(E0 - E1, C) <= w + 3 * Cent
  <2>1. /\ w \in Int /\ 2 * C <= 2 * lost + w /\ 2 * lost <= 2 * C + w
    BY <1>9, <1>13
  <2> HIDE DEF w
  <2> QED
    BY <1>0, <1>9, <1>10, <1>11, <1>12, <2>1 DEF Distance
<1> QED
  BY <1>8, <1>13, <1>14

-----------------------------------------------------------------------------
(* A batch with at most one order per ticker: every order meets the        *)
(* position the book had, whichever orders came before it.                 *)
OnePerTicker(orders, n) ==
  \A i, j \in 1..n : i # j => orders[i].ticker # orders[j].ticker

AllFillable(book, orders, k, allowShorting) ==
  \A i \in 1..k : /\ Fillable(book.shares, orders[i], allowShorting)
                  /\ \A j \in 1..k : i # j => orders[i].id # orders[j].id

Untouched(orders, k, t) == \A i \in 1..k : orders[i].ticker # t

(* The positions of the batch b are those of the book, moved by its first  *)
(* k orders.                                                               *)
MovedOnce(b, book, orders, k) ==
  /\ \A i \in 1..k :
       LET o == orders[i]
       IN  /\ b.shares[o.ticker] = Left(book.shares, o)
           /\ o.ticker \in b.costed <=> o.ticker \in CostedAfter(book.costed, book.shares, o)
  /\ \A t \in Tickers : Untouched(orders, k, t) =>
       b.shares[t] = book.shares[t] /\ (t \in b.costed <=> t \in book.costed)

LEMMA DistinctBatch ==
  ASSUME NEW book, BookOK(book), NEW orders, NEW n, OrdersOK(orders, n),
         OnePerTicker(orders, n), NEW allowShorting
  PROVE  \A k \in 0..n :
           LET b == BatchAfter(book, orders, allowShorting, k)
           IN  /\ b.error = "none" <=> AllFillable(book, orders, k, allowShorting)
               /\ b.error = "none" => MovedOnce(b, book, orders, k)
<1> DEFINE A(k) == BatchAfter(book, orders, allowShorting, k)
           S == {k \in 0..n : /\ A(k).error = "none" <=> AllFillable(book, orders, k, allowShorting)
                              /\ A(k).error = "none" => MovedOnce(A(k), book, orders, k)}
<1>0. n \in Nat /\ DOMAIN orders = 1..n /\ \A i \in 1..n : OrderOK(orders[i])
  BY DEF OrdersOK
<1>1. 0 \in S
  <2>1. A(0) = Started(book)
    BY <1>0, BatchStepByStep
  <2>2. AllFillable(book, orders, 0, allowShorting)
    BY DEF AllFillable
  <2>3. Started(book).error = "none" /\ MovedOnce(Started(book), book, orders, 0)
    BY DEF Started, MovedOnce
  <2> QED
    BY <1>0, <2>1, <2>2, <2>3
<1>2. ASSUME NEW k \in 1..n, k - 1 \in S PROVE k \in S
  <2> DEFINE a == A(k - 1)
             c == A(k)
             o == orders[k]
             filled(j) == AllFillable(book, orders, j, allowShorting)
  <2>1. Stepped(c, a, o, allowShorting)
    BY BatchStep
  <2>2. /\ a.error = "none" <=> filled(k - 1)
        /\ a.error = "none" => MovedOnce(a, book, orders, k - 1)
    BY <1>2
  <2>3. a.error = "none" => a.seen = IdsOf(orders, k - 1)
    <3>1. k - 1 \in 0..n
      BY <1>0
    <3>2. a.error = "none" => FilledUpTo(a, book, orders, n, k - 1)
      BY <3>1, BatchFacts
    <3> QED
      BY <3>2 DEF FilledUpTo
  <2>4. /\ 1..k = (1..(k - 1)) \union {k} /\ k \notin 1..(k - 1) /\ k \in 0..n
        /\ \A i \in 1..(k - 1) : i \in 1..n /\ i # k
    BY <1>0
  <2>5. Untouched(orders, k - 1, o.ticker) /\ o.ticker \in Tickers
    BY <1>0, <2>4 DEF Untouched, OnePerTicker, OrderOK
  <2>6. a.error = "none" => /\ a.shares[o.ticker] = book.shares[o.ticker]
                            /\ o.ticker \in a.costed <=> o.ticker \in book.costed
    BY <2>2, <2>5 DEF MovedOnce
  <2>7. a.error = "none" => /\ Left(a.shares, o) = Left(book.shares, o)
                            /\ Fillable(a.shares, o, allowShorting)
                                 <=> Fillable(book.shares, o, allowShorting)
    <3> HIDE DEF a, o
    <3>1. a.error = "none" => Left(a.shares, o) = Left(book.shares, o)
      BY <2>6 DEF Left
    <3> QED
      BY <3>1 DEF Fillable
  <2>8. o.id \notin IdsOf(orders, k - 1) <=> \A i \in 1..(k - 1) : orders[i].id # o.id
    BY DEF IdsOf
  <2>9. filled(k) <=> /\ filled(k - 1) /\ Fillable(book.shares, o, allowShorting)
                      /\ \A i \in 1..(k - 1) : orders[i].id # o.id
    BY <2>4 DEF AllFillable
  <2>10. c.error = "none" <=> filled(k)
    <3> HIDE DEF a, c, o, filled
    <3>1. c.error = "none" <=> /\ a.error = "none" /\ o.id \notin a.seen
                               /\ Fillable(a.shares, o, allowShorting)
      BY <2>1 DEF Stepped
    <3> QED
      BY <2>2, <2>3, <2>7, <2>8, <2>9, <3>1
  <2>11. ASSUME c.error = "none" PROVE MovedOnce(c, book, orders, k)
    <3>1. a.error = "none" /\ Batch(a) /\ OrderOK(o)
      BY <2>1, <2>11 DEF Stepped
    <3>2. /\ c.shares = [a.shares EXCEPT ![o.ticker] = Left(book.shares, o)]
          /\ c.costed = CostedAfter(a.costed, a.shares, o)
          /\ a.shares \in [Tickers -> Int]
      BY <2>1, <2>7, <2>11, <3>1 DEF Stepped, Filled, Batch
    <3>3. ASSUME NEW t \in Tickers, t # o.ticker
          PROVE  c.shares[t] = a.shares[t] /\ (t \in c.costed <=> t \in a.costed)
      <4> HIDE DEF a, c, o
      <4> QED
        BY <3>2, <3>3 DEF CostedAfter
    <3>4. /\ c.shares[o.ticker] = Left(book.shares, o)
          /\ o.ticker \in c.costed <=> o.ticker \in CostedAfter(book.costed, book.shares, o)
      <4> HIDE DEF a, c, o
      <4>1. c.shares[o.ticker] = Left(book.shares, o)
        BY <2>5, <3>2
      <4> QED
        BY <2>6, <2>7, <3>1, <3>2, <4>1 DEF CostedAfter
    <3>5. ASSUME NEW i \in 1..(k - 1)
          PROVE  LET p == orders[i]
                 IN  /\ c.shares[p.ticker] = Left(book.shares, p)
                     /\ p.ticker \in c.costed
                          <=> p.ticker \in CostedAfter(book.costed, book.shares, p)
      <4> DEFINE p == orders[i]
      <4>1. p.ticker \in Tickers /\ p.ticker # o.ticker
        BY <1>0, <2>4, <3>5 DEF OnePerTicker, OrderOK
      <4>2. /\ a.shares[p.ticker] = Left(book.shares, p)
            /\ p.ticker \in a.costed <=> p.ticker \in CostedAfter(book.costed, book.shares, p)
        BY <2>2, <3>1 DEF MovedOnce
      <4> HIDE DEF a, c, o
      <4> QED
        BY <3>3, <4>1, <4>2
    <3>6. ASSUME NEW t \in Tickers, Untouched(orders, k, t)
          PROVE  c.shares[t] = book.shares[t] /\ (t \in c.costed <=> t \in book.costed)
      <4>1. t # o.ticker /\ Untouched(orders, k - 1, t)
        BY <2>4, <3>6 DEF Untouched
      <4>2. a.shares[t] = book.shares[t] /\ (t \in a.costed <=> t \in book.costed)
        BY <2>2, <3>1, <4>1 DEF MovedOnce
      <4> HIDE DEF a, c, o
      <4> QED
        BY <3>3, <4>1, <4>2
    <3>7. ASSUME NEW i \in 1..k
          PROVE  LET p == orders[i]
                 IN  /\ c.shares[p.ticker] = Left(book.shares, p)
                     /\ p.ticker \in c.costed
                          <=> p.ticker \in CostedAfter(book.costed, book.shares, p)
      <4>1. CASE i = k
        BY <3>4, <4>1
      <4>2. CASE i # k
        <5>1. i \in 1..(k - 1)
          BY <4>2
        <5> QED
          BY <3>5, <5>1
      <4> QED
        BY <4>1, <4>2
    <3> HIDE DEF c
    <3> QED
      BY <3>6, <3>7 DEF MovedOnce
  <2> QED
    BY <2>4, <2>10, <2>11
<1> HIDE DEF S
<1>3. \A k \in 0..n : k \in S
  BY <1>0, <1>1, <1>2, PrefixInduction
<1> QED
  BY <1>3 DEF S

(* Such a batch gives the same result in every order of its orders.        *)
Renumbered(other, orders, n, p) ==
  /\ p \in [1..n -> 1..n]
  /\ \A i, j \in 1..n : p[i] = p[j] => i = j
  /\ \A j \in 1..n : \E i \in 1..n : j = p[i]
  /\ DOMAIN other = 1..n
  /\ \A i \in 1..n : other[i] = orders[p[i]]

LEMMA BatchInAnyOrder ==
  ASSUME NEW book, BookOK(book), NEW orders, NEW n, OrdersOK(orders, n),
         OnePerTicker(orders, n), NEW allowShorting,
         NEW other, NEW p, Renumbered(other, orders, n, p)
  PROVE  LET r == ExecuteBatch(book, orders, allowShorting)
             q == ExecuteBatch(book, other, allowShorting)
         IN  /\ (q.error = "none") = (r.error = "none")
             /\ r.error = "none" => q.book = r.book
<1> DEFINE b == BatchAfter(book, orders, allowShorting, n)
           c == BatchAfter(book, other, allowShorting, n)
           r == ExecuteBatch(book, orders, allowShorting)
           q == ExecuteBatch(book, other, allowShorting)
           filled(l) == AllFillable(book, l, n, allowShorting)
<1>0. /\ n \in Nat /\ DOMAIN orders = 1..n /\ n \in 0..n
      /\ \A i \in 1..n : OrderOK(orders[i])
  BY DEF OrdersOK
<1>1. /\ p \in [1..n -> 1..n] /\ \A i, j \in 1..n : p[i] = p[j] => i = j
      /\ \A j \in 1..n : \E i \in 1..n : j = p[i]
      /\ DOMAIN other = 1..n /\ \A i \in 1..n : p[i] \in 1..n /\ other[i] = orders[p[i]]
  BY DEF Renumbered
<1>2. OrdersOK(other, n)
  BY <1>0, <1>1 DEF OrdersOK
<1>3. OnePerTicker(other, n)
  <2>1. ASSUME NEW i \in 1..n, NEW j \in 1..n, i # j PROVE other[i].ticker # other[j].ticker
    <3>1. p[i] \in 1..n /\ p[j] \in 1..n /\ p[i] # p[j]
      BY <1>1, <2>1
    <3>2. orders[p[i]].ticker # orders[p[j]].ticker
      BY <3>1 DEF OnePerTicker
    <3> QED
      BY <1>1, <3>2
  <2> QED
    BY <2>1 DEF OnePerTicker
<1>4. filled(other) <=> filled(orders)
  <2>1. ASSUME filled(orders) PROVE filled(other)
    <3>1. ASSUME NEW i \in 1..n PROVE Fillable(book.shares, other[i], allowShorting)
      <4>1. p[i] \in 1..n /\ other[i] = orders[p[i]]
        BY <1>1
      <4>2. Fillable(book.shares, orders[p[i]], allowShorting)
        BY <2>1, <4>1 DEF AllFillable
      <4> QED
        BY <4>1, <4>2
    <3>2. ASSUME NEW i \in 1..n, NEW j \in 1..n, i # j PROVE other[i].id # other[j].id
      <4>1. p[i] \in 1..n /\ p[j] \in 1..n /\ p[i] # p[j]
        BY <1>1, <3>2
      <4>2. orders[p[i]].id # orders[p[j]].id
        BY <2>1, <4>1 DEF AllFillable
      <4> QED
        BY <1>1, <4>2
    <3> QED
      BY <3>1, <3>2 DEF AllFillable
  <2>2. ASSUME filled(other) PROVE filled(orders)
    <3>1. ASSUME NEW j \in 1..n PROVE Fillable(book.shares, orders[j], allowShorting)
      <4>1. PICK i \in 1..n : j = p[i]
        BY <1>1
      <4>2. Fillable(book.shares, other[i], allowShorting)
        BY <2>2, <4>1 DEF AllFillable
      <4> QED
        BY <1>1, <4>1, <4>2
    <3>2. ASSUME NEW j \in 1..n, NEW l \in 1..n, j # l PROVE orders[j].id # orders[l].id
      <4>1. PICK i \in 1..n : j = p[i]
        BY <1>1
      <4>2. PICK k \in 1..n : l = p[k]
        BY <1>1
      <4>3. i # k /\ other[i] = orders[j] /\ other[k] = orders[l]
        BY <1>1, <3>2, <4>1, <4>2
      <4>4. other[i].id # other[k].id
        BY <2>2, <4>3 DEF AllFillable
      <4> QED
        BY <4>3, <4>4
    <3> QED
      BY <3>1, <3>2 DEF AllFillable
  <2> QED
    BY <2>1, <2>2
<1>5. /\ Batch(b) /\ Batch(c)
      /\ b.error = "none" <=> filled(orders)
      /\ c.error = "none" <=> filled(other)
      /\ b.error = "none" => MovedOnce(b, book, orders, n) /\ FilledUpTo(b, book, orders, n, n)
      /\ c.error = "none" => MovedOnce(c, book, other, n) /\ FilledUpTo(c, book, other, n, n)
  <2>1. /\ Batch(b) /\ b.error = "none" => FilledUpTo(b, book, orders, n, n)
        /\ Batch(c) /\ c.error = "none" => FilledUpTo(c, book, other, n, n)
    BY <1>0, <1>2, BatchFacts
  <2>2. Batch(b) /\ Batch(c)
    BY <1>0, <1>2, BatchFacts
  <2>3. /\ b.error = "none" <=> filled(orders)
        /\ b.error = "none" => MovedOnce(b, book, orders, n)
    BY <1>0, DistinctBatch
  <2>4. /\ c.error = "none" <=> filled(other)
        /\ c.error = "none" => MovedOnce(c, book, other, n)
    BY <1>0, <1>2, <1>3, DistinctBatch
  <2> HIDE DEF b, c
  <2> QED
    BY <2>1, <2>2, <2>3, <2>4
<1>6. Executed(r, book, b) /\ Executed(q, book, c)
  BY <1>2, ExecuteBatchIs
<1>7. SumFunctionOnSet(Amounts(other), 1..n) = SumFunctionOnSet(Amounts(orders), 1..n)
  <2> DEFINE f == Amounts(orders)
             g == Amounts(other)
  <2>1. \A i \in 1..n : f[p[i]] \in Int /\ g[i] = f[p[i]]
    BY <1>0, <1>1, OrderTypes DEF Amounts
  <2>2. IsFiniteSet(1..n)
    BY <1>0, FS_Interval
  <2> HIDE DEF f, g
  <2> DEFINE S == 1..n
  <2>3. /\ IsFiniteSet(S) /\ p \in [S -> S] /\ \A x, y \in S : p[x] = p[y] => x = y
        /\ \A z \in S : \E x \in S : z = p[x]
        /\ \A x \in S : f[p[x]] \in Int /\ g[x] = f[p[x]]
    BY <1>1, <2>1, <2>2
  <2> HIDE DEF S
  <2>4. SumFunctionOnSet(g, S) = SumFunctionOnSet(f, S)
    BY <2>3, SumRenumbered
  <2> QED
    BY <2>4 DEF f, g, S
<1> HIDE DEF b, c, r, q, filled
<1>8. ASSUME b.error = "none" PROVE c.error = "none" /\ CommittedBook(c) = CommittedBook(b)
                                    /\ c.cash = b.cash
  <2>1. c.error = "none"
    BY <1>4, <1>5, <1>8
  <2>2. c.cash = b.cash
    BY <1>5, <1>7, <1>8, <2>1 DEF FilledUpTo
  <2>3. ASSUME NEW t \in Tickers
        PROVE  c.shares[t] = b.shares[t] /\ (t \in c.costed <=> t \in b.costed)
    <3>1. MovedOnce(b, book, orders, n) /\ MovedOnce(c, book, other, n)
      BY <1>5, <1>8, <2>1
    <3>2. CASE Untouched(orders, n, t)
      <4>1. Untouched(other, n, t)
        BY <1>1, <3>2 DEF Untouched
      <4> QED
        BY <3>1, <3>2, <4>1 DEF MovedOnce
    <3>3. CASE ~Untouched(orders, n, t)
      <4>1. PICK j \in 1..n : orders[j].ticker = t
        BY <3>3 DEF Untouched
      <4>2. PICK i \in 1..n : j = p[i]
        BY <1>1
      <4>3. other[i] = orders[j]
        BY <1>1, <4>2
      <4>4. /\ b.shares[t] = Left(book.shares, orders[j])
            /\ t \in b.costed <=> t \in CostedAfter(book.costed, book.shares, orders[j])
        BY <3>1, <4>1 DEF MovedOnce
      <4>5. /\ c.shares[t] = Left(book.shares, orders[j])
            /\ t \in c.costed <=> t \in CostedAfter(book.costed, book.shares, orders[j])
        BY <3>1, <4>1, <4>3 DEF MovedOnce
      <4> QED
        BY <4>4, <4>5
    <3> QED
      BY <3>2, <3>3
  <2>4. c.shares = b.shares /\ c.costed = b.costed
    <3>1. /\ b.shares \in [Tickers -> Int] /\ c.shares \in [Tickers -> Int]
          /\ b.costed \in SUBSET Tickers /\ c.costed \in SUBSET Tickers
      BY <1>5 DEF Batch
    <3> QED
      BY <2>3, <3>1
  <2> QED
    BY <2>1, <2>2, <2>4 DEF CommittedBook
<1>9. c.error = "none" => b.error = "none"
  BY <1>4, <1>5
<1>10. (q.error = "none" <=> r.error = "none") /\ (r.error = "none" => q.book = r.book)
  BY <1>6, <1>8, <1>9 DEF Executed
<1> QED
  BY <1>10 DEF r, q

LEMMA ReverseRenumbers ==
  ASSUME NEW orders, NEW n, OrdersOK(orders, n), Len(orders) = n
  PROVE  Renumbered(Reverse(orders), orders, n, [i \in 1..n |-> (n - i) + 1])
<1> DEFINE p == [i \in 1..n |-> (n - i) + 1]
<1>1. n \in Nat
  BY DEF OrdersOK
<1>2. \A i \in 1..n : p[i] = (n - i) + 1 /\ p[i] \in 1..n
  BY <1>1
<1>3. \A j \in 1..n : (n - j) + 1 \in 1..n /\ j = p[(n - j) + 1]
  BY <1>1
<1>4. Reverse(orders) = [i \in 1..n |-> orders[(n - i) + 1]]
  BY DEF Reverse
<1>5. \A i, j \in 1..n : p[i] = p[j] => i = j
  BY <1>1
<1>6. DOMAIN Reverse(orders) = 1..n /\ \A i \in 1..n : Reverse(orders)[i] = orders[p[i]]
  BY <1>2, <1>4
<1>7. p \in [1..n -> 1..n]
  BY <1>2
<1> HIDE DEF p
<1>8. Renumbered(Reverse(orders), orders, n, p)
  BY <1>2, <1>3, <1>5, <1>6, <1>7 DEF Renumbered
<1> QED
  BY <1>8 DEF p

-----------------------------------------------------------------------------
(* SimBroker.  Accounts are rounded and never in debt, and the last batch  *)
(* is what execute_batch makes of the saved account.                       *)
AccountsOK ==
  /\ BookOK(account) /\ Rounded(account)
  /\ BookOK(saved) /\ Rounded(saved)
  /\ prices \in [Tickers -> Prices]

ExecutedFrom(book, orders) ==
  LET r == ExecuteBatch(book, orders, AllowShorting)
  IN  account = r.book /\ last.fills = r.fills /\ last.error = r.error

Explained ==
  \/ last = Idle /\ saved = account
  \/ last.orders \in OrderLists /\ ExecutedFrom(saved, last.orders)

SimInv == AccountsOK /\ Explained

LEMMA PricesAreNumbers ==
  ASSUME prices \in [Tickers -> Prices]
  PROVE  prices \in [Tickers -> Int] /\ \A t \in Tickers : prices[t] \in Nat \ {0}
<1>1. \A t \in Tickers : prices[t] \in Nat \ {0}
  BY PricesAssumption
<1> QED
  BY <1>1

LEMMA OrderListsAreOK ==
  ASSUME prices \in [Tickers -> Prices], NEW orders \in OrderLists
  PROVE  /\ OrdersOK(orders, Len(orders)) /\ PricedAt(orders, Len(orders), prices)
         /\ prices \in [Tickers -> Int]
<1>1. PICK n \in 1..MaxOrders :
        orders \in [1..n -> {[id |-> i, ticker |-> t, side |-> s, quantity |-> q,
                             price |-> prices[t]] :
                            i \in OrderIds, t \in Tickers, s \in {"buy", "sell"}, q \in Quantities}]
  BY DEF OrderLists
<1>2. n \in Nat /\ DOMAIN orders = 1..n
  BY <1>1, QuantitiesAssumption
<1>3. Len(orders) = n
  BY <1>1, <1>2
<1>4. prices \in [Tickers -> Int] /\ \A t \in Tickers : prices[t] \in Nat \ {0}
  BY PricesAreNumbers
<1>5. ASSUME NEW i \in 1..n
      PROVE  OrderOK(orders[i]) /\ orders[i].price = prices[orders[i].ticker]
  <2>1. PICK id \in OrderIds, t \in Tickers, s \in {"buy", "sell"}, q \in Quantities :
          orders[i] = [id |-> id, ticker |-> t, side |-> s, quantity |-> q, price |-> prices[t]]
    BY <1>1
  <2>2. q \in Nat
    BY QuantitiesAssumption
  <2> DEFINE o == orders[i]
  <2>3. o.ticker = t /\ o.side = s /\ o.quantity = q /\ o.price = prices[t]
    BY <2>1
  <2> HIDE DEF o
  <2> QED
    BY <1>4, <2>2, <2>3 DEF OrderOK, o
<1> QED
  BY <1>2, <1>3, <1>4, <1>5 DEF OrdersOK, PricedAt

LEMMA SimInitEstablishes == SimInit => SimInv
<1> SUFFICES ASSUME SimInit PROVE SimInv
  OBVIOUS
<1> DEFINE cash == RoundHalfEven(OpeningCash, Cent)
           shares == [t \in Tickers |-> 0]
<1>1. cash \in Int /\ cash >= 0 /\ cash % Cent = 0
  BY OpeningCashAssumption, CentAssumption, RoundHalfEvenIsClose
<1>2. shares \in [Tickers -> Int] /\ {} \in SUBSET Tickers
  OBVIOUS
<1>3. account = [cash |-> cash, shares |-> shares, costed |-> {}]
  BY DEF SimInit, OpeningBook
<1> HIDE DEF cash, shares
<1>4. BookOK(account) /\ Rounded(account)
  BY <1>1, <1>2, <1>3 DEF BookOK, Rounded
<1> QED
  BY <1>4 DEF SimInit, SimInv, AccountsOK, Explained

LEMMA SimStep == SimInv /\ [SimNext]_simVars => SimInv'
<1> SUFFICES ASSUME SimInv, [SimNext]_simVars PROVE SimInv'
  OBVIOUS
<1>0. /\ BookOK(account) /\ Rounded(account) /\ BookOK(saved) /\ Rounded(saved)
      /\ prices \in [Tickers -> Prices]
  BY DEF SimInv, AccountsOK
<1>1. ASSUME NEW orders \in OrderLists, ExecuteOrders(orders) PROVE SimInv'
  <2> DEFINE r == ExecuteBatch(account, orders, AllowShorting)
  <2>1. /\ saved' = account /\ account' = r.book /\ prices' = prices
        /\ last' = [orders |-> orders, fills |-> r.fills, error |-> r.error]
    BY <1>1 DEF ExecuteOrders
  <2>2. OrdersOK(orders, Len(orders))
    BY <1>0, OrderListsAreOK
  <2>3. BookOK(r.book) /\ (Rounded(account) => Rounded(r.book))
    BY <1>0, <2>2, ExecuteBatchKeepsBooks
  <2>4. AccountsOK'
    <3> HIDE DEF r
    <3>1. BookOK(account)' /\ Rounded(account)'
      BY <1>0, <2>1, <2>3 DEF BookOK, Rounded
    <3>2. BookOK(saved)' /\ Rounded(saved)'
      BY <1>0, <2>1 DEF BookOK, Rounded
    <3> QED
      BY <1>0, <2>1, <3>1, <3>2 DEF AccountsOK
  <2>5. last'.orders = orders /\ last'.fills = r.fills /\ last'.error = r.error
    <3> HIDE DEF r
    <3> QED
      BY <2>1
  <2>6. OrderLists' = OrderLists
    BY <2>1 DEF OrderLists
  <2>7. ExecutedFrom(saved, last.orders)'
    <3>1. ExecuteBatch(saved', last'.orders, AllowShorting) = r
      BY <2>1, <2>5
    <3> HIDE DEF r
    <3> QED
      BY <2>1, <2>5, <3>1 DEF ExecutedFrom
  <2> QED
    BY <2>4, <2>5, <2>6, <2>7 DEF SimInv, Explained
<1>2. ASSUME NextCycle PROVE SimInv'
  BY <1>0, <1>2 DEF NextCycle, SimInv, AccountsOK, Explained, BookOK, Rounded, Idle
<1>3. ASSUME Restore PROVE SimInv'
  BY <1>0, <1>3 DEF Restore, SimInv, AccountsOK, Explained, BookOK, Rounded, Idle
<1>4. ASSUME UNCHANGED simVars PROVE SimInv'
  BY <1>4 DEF simVars, SimInv, AccountsOK, Explained, BookOK, Rounded, Idle, ExecutedFrom,
              OrderLists
<1> QED
  BY <1>1, <1>2, <1>3, <1>4 DEF SimNext

LEMMA LastBatch ==
  ASSUME SimInv, ~(last = Idle /\ saved = account)
  PROVE  /\ ExecutedFrom(saved, last.orders) /\ OrdersOK(last.orders, Len(last.orders))
         /\ PricedAt(last.orders, Len(last.orders), prices)
         /\ prices \in [Tickers -> Int]
BY OrderListsAreOK DEF SimInv, Explained, AccountsOK

(* A batch that is refused leaves the account as it was.                   *)
LEMMA InvIsAtomic == SimInv => Atomic
<1> SUFFICES ASSUME SimInv, last.error # "none" PROVE account = saved
  BY DEF Atomic
<1>1. last # Idle
  BY DEF Idle
<1> DEFINE n == Len(last.orders)
           r == ExecuteBatch(saved, last.orders, AllowShorting)
<1>2. OrdersOK(last.orders, n) /\ BookOK(saved)
  BY <1>1, LastBatch DEF SimInv, AccountsOK
<1>3. Executed(r, saved, BatchAfter(saved, last.orders, AllowShorting, n))
  BY <1>2, ExecuteBatchIs
<1>4. account = r.book /\ last.error = r.error
  BY <1>1, LastBatch DEF ExecutedFrom
<1> HIDE DEF r
<1> QED
  BY <1>3, <1>4 DEF Executed

(* CostsExplainNav; an idle account is the saved one, and costs nothing.   *)
LEMMA InvExplainsNav == SimInv => CostsExplainNav
<1> SUFFICES ASSUME SimInv PROVE CostsExplainNav
  OBVIOUS
<1>0. BookOK(saved) /\ IsFiniteSet(Tickers) /\ Cent \in Nat \ {0}
  BY TickersAssumption, CentAssumption DEF SimInv, AccountsOK
<1>1. CASE last = Idle /\ saved = account
  <2> DEFINE f == [i \in DOMAIN last.fills |-> last.fills[i].fee + last.fills[i].slippage]
             e == Equity(saved, prices)
  <2>1. last.fills = <<>> /\ Len(last.fills) = 0
    BY <1>1 DEF Idle
  <2>2. DOMAIN f = {}
    BY <2>1
  <2> HIDE DEF f
  <2>3. SumFunction(f) = 0
    BY <2>2, SumOfFunction, SumOfNothing
  <2>4. e \in Int
    <3>1. prices \in [Tickers -> Int]
      BY PricesAreNumbers DEF SimInv, AccountsOK
    <3> QED
      BY <1>0, <3>1, EquityIsRounded
  <2> HIDE DEF e
  <2>5. 2 * Distance(e - e, 0) <= Cent * (0 + 3)
    BY <1>0, <2>4 DEF Distance
  <2> QED
    BY <1>1, <2>1, <2>3, <2>5, Zenon DEF CostsExplainNav, f, e
<1>2. CASE ~(last = Idle /\ saved = account)
  <2> DEFINE orders == last.orders
             n == Len(orders)
             r == ExecuteBatch(saved, orders, AllowShorting)
             costs(fills) == SumFunction([i \in DOMAIN fills |-> fills[i].fee + fills[i].slippage])
  <2>1. /\ OrdersOK(orders, n) /\ PricedAt(orders, n, prices) /\ prices \in [Tickers -> Int]
        /\ account = r.book /\ last.fills = r.fills /\ last.error = r.error
    BY <1>2, LastBatch DEF ExecutedFrom
  <2>2. r.error = "none" =>
          2 * Distance(Equity(saved, prices) - Equity(r.book, prices), costs(r.fills))
            <= Cent * (Len(r.fills) + 3)
    BY <1>0, <2>1, BatchExplainsNav
  <2> HIDE DEF r
  <2> QED
    BY <2>1, <2>2, Zenon DEF CostsExplainNav
<1> QED
  BY <1>1, <1>2

LEMMA InvOrderIrrelevant == SimInv => BatchOrderIrrelevant
<1> SUFFICES ASSUME SimInv PROVE BatchOrderIrrelevant
  OBVIOUS
<1> DEFINE orders == last.orders
           n == Len(orders)
           r == ExecuteBatch(saved, orders, AllowShorting)
           q == ExecuteBatch(saved, Reverse(orders), AllowShorting)
<1>0. BookOK(saved) /\ Rounded(saved)
  BY DEF SimInv, AccountsOK
<1>1. SUFFICES ASSUME OnePerTicker(orders, n)
               PROVE  /\ (q.error = "none") = (last.error = "none")
                      /\ last.error = "none" => q.book = account
  BY Zenon DEF BatchOrderIrrelevant, OnePerTicker
<1>2. CASE last = Idle /\ saved = account
  <2>1. last.error = "none" /\ orders = <<>>
    BY <1>2 DEF Idle
  <2>2. DOMAIN Reverse(orders) = {}
    BY <2>1 DEF Reverse
  <2>3. q.error = "none" /\ q.book = saved
    BY <1>0, <2>2, NothingToExecute
  <2> HIDE DEF q, orders
  <2> QED
    BY <1>2, <2>1, <2>3
<1>3. CASE ~(last = Idle /\ saved = account)
  <2>1. OrdersOK(orders, n) /\ account = r.book /\ last.error = r.error
    BY <1>3, LastBatch DEF ExecutedFrom
  <2> DEFINE p == [i \in 1..n |-> (n - i) + 1]
  <2>2. Renumbered(Reverse(orders), orders, n, p)
    BY <2>1, ReverseRenumbers
  <2> HIDE DEF p, n
  <2>3. (q.error = "none") = (r.error = "none") /\ (r.error = "none" => q.book = r.book)
    BY <1>0, <1>1, <2>1, <2>2, BatchInAnyOrder
  <2> HIDE DEF q, r
  <2> QED
    BY <2>1, <2>3
<1> QED
  BY <1>2, <1>3

(* Every account that batches, refusals and restores lead to is sound.     *)
THEOREM AccountsAreSound == SimSpec => []SimInv
BY SimInitEstablishes, SimStep, PTL DEF SimSpec

(* A refused batch changes nothing (execute_batch works on copies).        *)
THEOREM BatchesAreAtomic == SimSpec => []Atomic
BY AccountsAreSound, InvIsAtomic, PTL

(* Fees and slippage explain what a batch does to the equity, up to half a *)
(* cent for every rounding.                                                *)
THEOREM CostsReconcile == SimSpec => []CostsExplainNav
BY AccountsAreSound, InvExplainsNav, PTL

(* With one order per ticker the order of a batch decides nothing.         *)
THEOREM OrderIsAConvention == SimSpec => []BatchOrderIrrelevant
BY AccountsAreSound, InvOrderIrrelevant, PTL

=============================================================================
