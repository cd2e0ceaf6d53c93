------------------------------ MODULE BrokerBook ------------------------------
(***************************************************************************)
(* The arithmetic of SimBroker (aegis/brokers/simulated.py): what a batch  *)
(* of orders does to a book, as operators.  SimBroker is the state machine *)
(* on top of them.                                                         *)
(*                                                                         *)
(* Money is counted in quanta, the 0.000001 the fill price is rounded to;  *)
(* Cent is the number of quanta in 0.01.  A book is a record of the cash,  *)
(* the shares of every ticker (0: no entry in the dict) and the tickers    *)
(* with an entry in the average-cost dict; the average itself enters no    *)
(* decision and is left out.                                               *)
(***************************************************************************)
EXTENDS Integers, SequencesExt

CONSTANTS
  Tickers,
  Cent,            \* quanta in a cent
  CommissionBps,   \* RiskPolicy.commission_bps
  SlippageBps      \* RiskPolicy.slippage_bps

ASSUME TickersAssumption == IsFiniteSet(Tickers)
ASSUME CentAssumption == Cent \in Nat \ {0}
ASSUME RatesAssumption == CommissionBps \in Nat \ {0} /\ SlippageBps \in 1..9999

Bps == 10000

Distance(x, y) == IF x < y THEN y - x ELSE x - y

(* Decimal.quantize to a multiple of unit.  ROUND_HALF_UP is used on       *)
(* amounts that are not negative, ROUND_HALF_EVEN is the default.          *)
RoundHalfUp(x, unit) == ((2 * x + unit) \div (2 * unit)) * unit
RoundHalfEven(x, unit) ==
  LET q == x \div unit
      r == x % unit
  IN  IF 2 * r < unit \/ (2 * r = unit /\ q % 2 = 0) THEN q * unit ELSE (q + 1) * unit

FillPrice(side, reference) ==
  LET rate == IF side = "buy" THEN Bps + SlippageBps ELSE Bps - SlippageBps
  IN  RoundHalfUp(reference * rate, Bps) \div Bps

Fee(notional) == RoundHalfUp(notional * CommissionBps, Bps * Cent) \div Bps

Slippage(price, reference, quantity) ==
  RoundHalfUp(Distance(price, reference) * quantity, Cent)

-----------------------------------------------------------------------------
(* The loop of execute_batch works on copies: a batch in progress.         *)
Started(book) ==
  [cash |-> book.cash, shares |-> book.shares, costed |-> book.costed,
   seen |-> {}, fills |-> <<>>, error |-> "none"]

(* One order.  Order.quantity is a positive number; 0 stands for one that  *)
(* is not whole.  Buying a short position back to exactly zero divides by  *)
(* the new quantity; selling leaves the average cost alone unless the      *)
(* position closes.                                                        *)
FillOrder(batch, order, allowShorting) ==
  LET current == batch.shares[order.ticker]
      price   == FillPrice(order.side, order.price)
      value   == price * order.quantity
      fee     == Fee(value)
      left    == IF order.side = "buy" THEN current + order.quantity ELSE current - order.quantity
      problem == CASE order.id \in batch.seen -> "duplicate order"
                   [] order.quantity = 0 -> "fractional quantity"
                   [] order.side = "buy" /\ left = 0 -> "division by zero"
                   [] order.side = "sell" /\ ~allowShorting /\ left < 0 -> "short sale"
                   [] OTHER -> "none"
  IN  IF batch.error # "none" THEN batch
      ELSE IF problem # "none" THEN [batch EXCEPT !.error = problem]
      ELSE [cash   |-> batch.cash + (IF order.side = "buy" THEN -(value + fee) ELSE value - fee),
            shares |-> [batch.shares EXCEPT ![order.ticker] = left],
            costed |-> IF order.side = "buy" THEN batch.costed \union {order.ticker}
                       ELSE IF left = 0 THEN batch.costed \ {order.ticker}
                       ELSE batch.costed,
            seen   |-> batch.seen \union {order.id},
            fills  |-> Append(batch.fills,
                         [id |-> order.id, ticker |-> order.ticker, side |-> order.side,
                          quantity |-> order.quantity, price |-> price, fee |-> fee,
                          slippage |-> Slippage(price, order.price, order.quantity)]),
            error  |-> "none"]

(* Mutants of the loop.  The commission is reported but not charged.       *)
RunBatchFree(book, orders, allowShorting) ==
  FoldLeft(LAMBDA batch, order :
             LET next == FillOrder(batch, order, allowShorting)
             IN  [next EXCEPT !.cash =
                    IF next.error = "none" THEN @ + Last(next.fills).fee ELSE @],
           Started(book), orders)

(* Cash is checked after every order.                                      *)
RunBatchStrict(book, orders, allowShorting) ==
  FoldLeft(LAMBDA batch, order :
             LET next == FillOrder(batch, order, allowShorting)
             IN  IF next.error = "none" /\ next.cash < 0
                 THEN [next EXCEPT !.error = "negative cash"] ELSE next,
           Started(book), orders)

RunBatch(book, orders, allowShorting) ==
  FoldLeft(LAMBDA batch, order : FillOrder(batch, order, allowShorting), Started(book), orders)

(* The cash is checked exact and rounded when it is committed.             *)
Failure(batch) ==
  IF batch.error = "none" /\ batch.cash < 0 THEN "negative cash" ELSE batch.error

(* Mutant: the orders before the failing one are kept.                     *)
CommittedPartially(book, batch) ==
  IF batch.cash < 0 THEN book
  ELSE [cash |-> RoundHalfUp(batch.cash, Cent), shares |-> batch.shares,
        costed |-> batch.costed]

Committed(book, batch) ==
  IF Failure(batch) # "none" THEN book
  ELSE [cash |-> RoundHalfUp(batch.cash, Cent), shares |-> batch.shares,
        costed |-> batch.costed]

(* execute_batch: the book afterwards, the fills, and the exception.       *)
ExecuteBatch(book, orders, allowShorting) ==
  LET batch == RunBatch(book, orders, allowShorting)
  IN  [book  |-> Committed(book, batch),
       fills |-> IF Failure(batch) = "none" THEN batch.fills ELSE <<>>,
       error |-> Failure(batch)]

-----------------------------------------------------------------------------
Held(book) == {t \in Tickers : book.shares[t] # 0}

(* equity: rounded to cents.                                               *)
Equity(book, marks) ==
  RoundHalfEven(book.cash + SumFunction([t \in Tickers |-> book.shares[t] * marks[t]]), Cent)

(* positions reads the average cost of every holding.                      *)
Reportable(book) == Held(book) \subseteq book.costed

(* SimBroker.__init__                                                      *)
OpeningBook(capital) ==
  [cash |-> RoundHalfEven(capital, Cent), shares |-> [t \in Tickers |-> 0], costed |-> {}]
=============================================================================
