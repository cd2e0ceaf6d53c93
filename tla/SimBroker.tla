------------------------------- MODULE SimBroker -------------------------------
(***************************************************************************)
(* SimBroker (aegis/brokers/simulated.py) under any sequence of batches:   *)
(* prices move, batches of orders priced at the marks are executed or      *)
(* refused, and a caller that failed afterwards restores an earlier state. *)
(***************************************************************************)
EXTENDS BrokerBook

CONSTANTS
  OpeningCash,     \* the fund's opening cash, in quanta
  AllowShorting,   \* RiskPolicy.allow_shorting
  Prices,          \* prices a ticker may have
  OrderIds,
  Quantities,      \* shares per order; 0 is a quantity that is not whole
  MaxOrders,       \* bound: orders in a batch
  MaxBatches       \* bound: batches in a behaviour

ASSUME OpeningCashAssumption == OpeningCash \in Nat \ {0}
ASSUME PricesAssumption == Prices \subseteq Nat \ {0}
ASSUME QuantitiesAssumption == Quantities \subseteq Nat /\ MaxOrders \in Nat
ASSUME ShortingAssumption == AllowShorting \in BOOLEAN

VARIABLES
  account,   \* _cash, _shares, _average_costs
  prices,    \* the marks of the current cycle
  saved,     \* the BrokerState the caller took before the batch
  last,      \* the last batch: its orders and its result
  batches    \* how many batches were executed

simVars == <<account, prices, saved, last, batches>>

Idle == [orders |-> <<>>, fills |-> <<>>, error |-> "none"]

(* Orders carry the marks as reference prices, as build_orders makes them. *)
OrderLists ==
  UNION {[1..n -> {[id |-> i, ticker |-> t, side |-> s, quantity |-> q, price |-> prices[t]] :
                    i \in OrderIds, t \in Tickers, s \in {"buy", "sell"}, q \in Quantities}]
         : n \in 1..MaxOrders}

SimInit ==
  /\ account = OpeningBook(OpeningCash)
  /\ prices \in [Tickers -> Prices]
  /\ saved = account
  /\ last = Idle
  /\ batches = 0

ExecuteOrders(orders) ==
  LET result == ExecuteBatch(account, orders, AllowShorting)
  IN  /\ batches < MaxBatches
      /\ last = Idle
      /\ saved' = account
      /\ account' = result.book
      /\ last' = [orders |-> orders, fills |-> result.fills, error |-> result.error]
      /\ batches' = batches + 1
      /\ UNCHANGED prices

(* The caller keeps the account and goes on to the next cycle's marks.     *)
NextCycle ==
  /\ prices' \in [Tickers -> Prices]
  /\ saved' = account
  /\ last' = Idle
  /\ UNCHANGED <<account, batches>>

(* The caller fails after a successful batch and restores the state.       *)
Restore ==
  /\ last # Idle
  /\ last.error = "none"
  /\ account' = saved
  /\ last' = Idle
  /\ UNCHANGED <<prices, saved, batches>>

SimNext == NextCycle \/ Restore \/ \E orders \in OrderLists : ExecuteOrders(orders)

SimSpec == SimInit /\ [][SimNext]_simVars

-----------------------------------------------------------------------------
(* "atomic batches": a batch that raises changes nothing, however many of  *)
(* its orders had been filled on the copies.                               *)
Atomic == last.error # "none" => account = saved

(* "Simulated orders reconcile to cash, positions, and NAV": at unchanged  *)
(* marks a batch costs its fees and its slippage and nothing else.  What   *)
(* is not exact is half a cent for each rounding: of every slippage, of    *)
(* the committed cash and of the two equities.                             *)
CostsExplainNav ==
  LET costs == SumFunction([i \in DOMAIN last.fills |->
                             last.fills[i].fee + last.fills[i].slippage])
  IN  last.error = "none" =>
        2 * Distance(Equity(saved, prices) - Equity(account, prices), costs)
          <= Cent * (Len(last.fills) + 3)

(* A batch with one order per ticker gives the same account and the same   *)
(* verdict from its last order to its first: sells first (build_orders) is *)
(* a convention and not what makes a batch affordable.                     *)
BatchOrderIrrelevant ==
  LET orders == last.orders
      n == Len(orders)
  IN  (\A i, j \in 1..n : i # j => orders[i].ticker # orders[j].ticker)
      => LET reversed == ExecuteBatch(saved, Reverse(orders), AllowShorting)
         IN  /\ (reversed.error = "none") = (last.error = "none")
             /\ last.error = "none" => reversed.book = account
=============================================================================
