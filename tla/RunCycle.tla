------------------------------- MODULE RunCycle -------------------------------
(***************************************************************************)
(* The financial path of AegisQuant: run_cycle (aegis/fund/run_cycle.py)   *)
(* as backtest_fund (aegis/fund/backtest.py) drives it.  A run owns one    *)
(* in-memory SimBroker and takes it through the cycles of the grid: marks  *)
(* -> research -> proposal -> risk gate -> orders -> simulated fills ->    *)
(* reconciliation -> record -> ledger.  Several runs of the same fund may  *)
(* share the ledger file, a run may die and be started again from its      *)
(* opening capital, and a caller that kept the broker may call run_cycle   *)
(* again for the cycle that failed.                                        *)
(*                                                                         *)
(* Data is sealed: what a cycle reads is fixed by "world".  The ledger is  *)
(* taken at the word of OnceStore, which LedgerStore keeps.  The weight    *)
(* 1.0 of the risk gate is the equity of the cycle, so that the weight of  *)
(* a holding is its value and no conversion loses anything.                *)
(***************************************************************************)
EXTENDS BrokerBook, RiskGate

CONSTANTS
  Runs,          \* concurrent runs of the same fund and command
  Cycles,        \* number of cycles in the grid
  Worlds,        \* what one cycle may read: [marks, stale, scores]
  Capital,
  Percent,       \* the caps of the risk policy, in hundredths
  GrossTarget,   \* PortfolioPolicy.gross_target, in hundredths
  SectorOf,      \* sector_map(case.tickers)
  Allocations,   \* strategy allocations, in hundredths
  MaxBuild,      \* bound: fingerprints the working tree goes through
  MaxLost        \* bound: records that the brokers in use have lost

ASSUME CyclesAssumption == Cycles \in Nat \ {0}
ASSUME BuildsAssumption == MaxBuild \in Nat \ {0}

(* Prices are positive, and nothing is quoted that the case does not name. *)
ASSUME WorldsAssumption == \A w \in Worlds :
  /\ DOMAIN w.marks \subseteq Tickers
  /\ w.marks \in [DOMAIN w.marks -> Nat \ {0}]
  /\ w.scores \in [Tickers -> Int]

(* RiskPolicy without leverage, FundSpec and PortfolioPolicy.              *)
ASSUME PercentAssumption ==
  /\ Percent.maxPosition \in Nat /\ Percent.maxNet \in Nat /\ Percent.maxTurnover \in Nat
  /\ Percent.maxSector \in Nat /\ Percent.maxStrategy \in Nat
  /\ Percent.maxGross \in 0..100 /\ Percent.minCash \in 0..100
ASSUME CapitalAssumption == Capital \in Nat /\ GrossTarget \in Nat

VARIABLES
  world,     \* the sealed data of every cycle
  build,     \* local_build_fingerprint of the tree now
  pc,        \* where each run is
  cycle,     \* the grid cycle each run is in
  book,      \* each run's SimBroker
  before,    \* before_execution of the cycle in progress
  orders,    \* orders of the cycle in progress
  fills,     \* fills of the cycle in progress
  record,    \* the CycleRecord about to be appended
  ledger,    \* rows of the run ledger
  lost,      \* how many records could not be built after the fills that
             \* each run's broker has (history)
  trail      \* rows of the ledger whose run had lost no record (history)

history == <<lost, trail>>
vars == <<world, build, pc, cycle, book, before, orders, fills, record, ledger, history>>

Grid == 1..Cycles
Locations == {"start", "execute", "record", "append", "halted", "dead", "done"}
Opening == OpeningBook(Capital)
Astray(r) == lost[r] > 0
NoRecord == [cycle |-> 0, build |-> 0, before |-> Opening, after |-> Opening, fills |-> <<>>]

Goto(r, loc) == pc' = [pc EXCEPT ![r] = loc]

-----------------------------------------------------------------------------
(* What one cycle decides, as a function of the data and the book.         *)

(* A mark for every ticker asked for or held, fresh for every one held.    *)
Readable(w, b) ==
  /\ Tickers \subseteq DOMAIN w.marks
  /\ Held(b) \intersect w.stale = {}
  /\ Held(b) # {} => Equity(b, w.marks) > 0

CurrentWeights(w, b) == [t \in Held(b) |-> b.shares[t] * w.marks[t]]

(* construct_portfolio, long-only: the forecasts that did not abstain and  *)
(* have enough confidence and a positive score share the gross target; no  *)
(* such forecast means that the book is held.                              *)
Eligible(w) == {t \in Tickers : w.scores[t] > 0}

SharesOfGross(w, equity) ==
  LET total == SumFunction([t \in Eligible(w) |-> w.scores[t]])
  IN  DropZeros([t \in Eligible(w) |-> (w.scores[t] * GrossTarget * equity) \div (100 * total)])

(* Mutant: no forecast means no position.                                  *)
ProposalLiquidating(w, current, equity) == SharesOfGross(w, equity)
Proposal(w, current, equity) ==
  IF Eligible(w) = {} THEN current ELSE SharesOfGross(w, equity)

Hundredths(pct, equity) == (pct * equity) \div 100

PolicyAt(equity) ==
  [one |-> equity,
   maxPosition |-> Hundredths(Percent.maxPosition, equity),
   maxGross    |-> Hundredths(Percent.maxGross, equity),
   maxNet      |-> Hundredths(Percent.maxNet, equity),
   maxTurnover |-> Hundredths(Percent.maxTurnover, equity),
   minCash     |-> Hundredths(Percent.minCash, equity),
   maxSector   |-> Hundredths(Percent.maxSector, equity),
   maxStrategy |-> Percent.maxStrategy,
   allowShorting |-> FALSE, allowLeverage |-> FALSE]

(* build_orders: whole-share deltas toward the final weights, sells first. *)
(* Mutant: the target quantity is rounded up.                              *)
TargetSharesUp(weights, marks, t) == (Weight(weights, t) + marks[t] - 1) \div marks[t]
TargetShares(weights, marks, t) == Scale(Weight(weights, t), 1, marks[t])

BuildOrders(b, marks, weights) ==
  LET delta(t) == TargetShares(weights, marks, t) - b.shares[t]
      priced(side, wanted) ==
        [i \in DOMAIN wanted |->
          [id |-> wanted[i], ticker |-> wanted[i], side |-> side,
           quantity |-> Abs(delta(wanted[i])), price |-> marks[wanted[i]]]]
  IN  priced("sell", SetToSeq({t \in Tickers : delta(t) < 0}))
        \o priced("buy", SetToSeq({t \in Tickers : delta(t) > 0}))

(* An approved proposal is executed unless it is to hold the book.         *)
Orders(w, b) ==
  LET equity   == Equity(b, w.marks)
      current  == CurrentWeights(w, b)
      proposal == Proposal(w, current, equity)
      decision == Evaluate(proposal, current, PolicyAt(equity), SectorOf, Allocations)
      hold     == Held(b) # {} /\ proposal = current
  IN  IF decision.approved /\ ~hold THEN BuildOrders(b, w.marks, decision.weights) ELSE <<>>

-----------------------------------------------------------------------------
Init ==
  /\ world \in [Grid -> Worlds]
  /\ build = 1
  /\ pc     = [r \in Runs |-> "start"]
  /\ cycle  = [r \in Runs |-> 1]
  /\ book   = [r \in Runs |-> Opening]
  /\ before = [r \in Runs |-> Opening]
  /\ orders = [r \in Runs |-> <<>>]
  /\ fills  = [r \in Runs |-> <<>>]
  /\ record = [r \in Runs |-> NoRecord]
  /\ ledger = {}
  /\ lost = [r \in Runs |-> 0] /\ trail = {}

(* Marks are read and checked before any research; the forecast provider   *)
(* and the pure steps up to the orders follow.                             *)
Research(r) ==
  /\ pc[r] = "start"
  /\ Readable(world[cycle[r]], book[r])
  /\ before' = [before EXCEPT ![r] = book[r]]
  /\ orders' = [orders EXCEPT ![r] = Orders(world[cycle[r]], book[r])]
  /\ Goto(r, "execute")
  /\ UNCHANGED <<world, build, cycle, book, fills, record, ledger, history>>

(* Missing or stale marks halt the cycle; so does a provider that raises.  *)
ResearchHalts(r) ==
  /\ pc[r] = "start"
  /\ Goto(r, "halted")
  /\ UNCHANGED <<world, build, cycle, book, before, orders, fills, record, ledger, history>>

(* execute_batch commits the fills.  The reconciliation that follows it    *)
(* restores the broker and raises when the book does not add up:           *)
(* ReconciliationPasses says that it never does (FillsReconcile proves it). *)
Execute(r) ==
  LET result == ExecuteBatch(book[r], orders[r], FALSE)
  IN  /\ pc[r] = "execute"
      /\ result.error = "none"
      /\ book' = [book EXCEPT ![r] = result.book]
      /\ fills' = [fills EXCEPT ![r] = result.fills]
      /\ orders' = [orders EXCEPT ![r] = <<>>]
      /\ Goto(r, "record")
      /\ UNCHANGED <<world, build, cycle, before, record, ledger, history>>

(* A refused batch raises BrokerError with the book as it was.             *)
(* Mutant: the cycle is tried again.                                       *)
ExecuteRefusedRetrying(r) ==
  /\ pc[r] = "execute"
  /\ ExecuteBatch(book[r], orders[r], FALSE).error # "none"
  /\ Goto(r, "start")
  /\ orders' = [orders EXCEPT ![r] = <<>>]
  /\ UNCHANGED <<world, build, cycle, book, before, fills, record, ledger, history>>

ExecuteRefused(r) ==
  /\ pc[r] = "execute"
  /\ ExecuteBatch(book[r], orders[r], FALSE).error # "none"
  /\ Goto(r, "halted")
  /\ orders' = [orders EXCEPT ![r] = <<>>]
  /\ UNCHANGED <<world, build, cycle, book, before, fills, record, ledger, history>>

(* The fingerprint of the tree is taken and the record is built.           *)
MakeRecord(r) ==
  /\ pc[r] = "record"
  /\ record' = [record EXCEPT ![r] =
       [cycle |-> cycle[r], build |-> build, before |-> before[r],
        after |-> book[r], fills |-> fills[r]]]
  /\ Goto(r, "append")
  /\ UNCHANGED <<world, build, cycle, book, before, orders, fills, ledger, history>>

(* A file vanishes while the tree is hashed, or the record does not        *)
(* validate: the exception leaves run_cycle with the fills in the broker.  *)
RecordFails(r) ==
  /\ pc[r] = "record"
  /\ Goto(r, "halted")
  /\ IF book[r] = before[r] THEN UNCHANGED lost
     ELSE /\ lost' = [lost EXCEPT ![r] = @ + 1]
          /\ SumFunction(lost) < MaxLost
  /\ UNCHANGED <<world, build, cycle, book, before, orders, fills, record, ledger, trail>>

(* run_id hashes the case, the data, the build and the broker's state.     *)
(* Mutant: the broker's state is left out of the run ID.                   *)
RunIdBare(entry) == <<entry.cycle, entry.build>>
RunId(entry) == <<entry.cycle, entry.build, entry.before>>
Conflicts(entry) == \E row \in ledger : RunId(row) = RunId(entry) /\ row # entry

(* The ledger stores the row, or has it already; the loop goes on.         *)
AppendStored(r) ==
  /\ pc[r] = "append"
  /\ ~Conflicts(record[r])
  /\ ledger' = ledger \union {record[r]}
  /\ trail' = IF Astray(r) THEN trail ELSE trail \union {record[r]}
  /\ record' = [record EXCEPT ![r] = NoRecord]
  /\ fills' = [fills EXCEPT ![r] = <<>>]
  /\ IF cycle[r] < Cycles
     THEN Goto(r, "start") /\ cycle' = [cycle EXCEPT ![r] = @ + 1]
     ELSE Goto(r, "done") /\ UNCHANGED cycle
  /\ UNCHANGED <<world, build, book, before, orders, lost>>

(* Mutant: the broker keeps the fills of a record that was not stored.     *)
AppendFailsKeeping(r) ==
  /\ pc[r] = "append"
  /\ record' = [record EXCEPT ![r] = NoRecord]
  /\ fills' = [fills EXCEPT ![r] = <<>>]
  /\ Goto(r, "halted")
  /\ UNCHANGED <<world, build, cycle, book, before, orders, ledger, history>>

(* append raises (a conflict, a lost race, a locked or full database): the *)
(* broker is restored and the exception goes on to the caller.             *)
AppendFails(r) ==
  /\ pc[r] = "append"
  /\ book' = [book EXCEPT ![r] = before[r]]
  /\ record' = [record EXCEPT ![r] = NoRecord]
  /\ fills' = [fills EXCEPT ![r] = <<>>]
  /\ Goto(r, "halted")
  /\ UNCHANGED <<world, build, cycle, before, orders, ledger, history>>

(* The caller calls run_cycle again with the broker it has.                *)
CallAgain(r) ==
  /\ pc[r] = "halted"
  /\ fills' = [fills EXCEPT ![r] = <<>>]
  /\ Goto(r, "start")
  /\ UNCHANGED <<world, build, cycle, book, before, orders, record, ledger, history>>

(* The process dies, and its broker with it.                               *)
Crash(r) ==
  /\ pc[r] \notin {"dead", "done"}
  /\ Goto(r, "dead")
  /\ book' = [book EXCEPT ![r] = Opening]
  /\ before' = [before EXCEPT ![r] = Opening]
  /\ fills' = [fills EXCEPT ![r] = <<>>]
  /\ record' = [record EXCEPT ![r] = NoRecord]
  /\ cycle' = [cycle EXCEPT ![r] = 1]
  /\ orders' = [orders EXCEPT ![r] = <<>>]
  /\ lost' = [lost EXCEPT ![r] = 0]
  /\ UNCHANGED <<world, build, ledger, trail>>

(* Mutant: the run is resumed where the ledger ends, with a new broker.    *)
RestartResuming(r) ==
  /\ pc[r] = "dead"
  /\ Goto(r, "start")
  /\ cycle' = [cycle EXCEPT ![r] = IF \E row \in ledger : row.cycle < Cycles THEN 2 ELSE 1]
  /\ UNCHANGED <<world, build, book, before, orders, fills, record, ledger, history>>

(* The command is run again: backtest_fund starts over with a new broker.  *)
Restart(r) ==
  /\ pc[r] = "dead"
  /\ Goto(r, "start")
  /\ UNCHANGED <<world, build, cycle, book, before, orders, fills, record, ledger, history>>

(* Somebody edits the working tree while runs are in progress.             *)
Edit ==
  /\ build < MaxBuild
  /\ build' = build + 1
  /\ UNCHANGED <<world, pc, cycle, book, before, orders, fills, record, ledger, history>>

Step(r) ==
  \/ ResearchHalts(r) \/ Research(r)
  \/ Execute(r) \/ ExecuteRefused(r)
  \/ MakeRecord(r) \/ RecordFails(r)
  \/ AppendStored(r) \/ AppendFails(r)

Next ==
  \/ \E r \in Runs : Step(r) \/ CallAgain(r) \/ Crash(r) \/ Restart(r)
  \/ Edit

Spec == Init /\ [][Next]_vars

(* run_cycle is straight-line code and every wait in it has a timeout.     *)
(* Nobody is obliged to call again or to restart a run.                    *)
FairSpec == Spec /\ \A r \in Runs : WF_vars(Step(r))

-----------------------------------------------------------------------------
TypeOK ==
  /\ build \in 1..MaxBuild
  /\ pc \in [Runs -> Locations]
  /\ cycle \in [Runs -> Grid]
  /\ book = [r \in Runs |-> book[r]] /\ before = [r \in Runs |-> before[r]]
  /\ orders = [r \in Runs |-> orders[r]] /\ fills = [r \in Runs |-> fills[r]]
  /\ record = [r \in Runs |-> record[r]]
  /\ \A row \in ledger : row.cycle \in Grid
  /\ lost \in [Runs -> Nat] /\ trail \subseteq ledger

(* The book an account may have at the start of a cycle: the opening       *)
(* capital, or what a recorded cycle before it ended with.                 *)
Backed(rows, b, c) ==
  IF c = 1 THEN b = Opening ELSE \E row \in rows : row.cycle = c - 1 /\ row.after = b

(* No fill without a record, unless it was the record that could not be    *)
(* built: between cycles, and after every failure, each broker holds the   *)
(* book its last recorded cycle ended with.  Failures of data, of          *)
(* execution and of the ledger undo themselves; a record that fails leads  *)
(* its own run astray until the run is started over, and no other run.     *)
BookBacked ==
  \A r \in Runs : ~Astray(r) =>
    /\ pc[r] \in {"start", "halted", "dead"} => Backed(trail, book[r], cycle[r])
    /\ pc[r] = "done" => Backed(trail, book[r], Cycles + 1)

(* One trajectory: however many runs share the ledger, whoever dies and    *)
(* starts over, whichever append is lost, the rows of one cycle all go     *)
(* from the same book to the same book, and each starts where a row of the *)
(* cycle before it ended.  Rows of runs that are astray are beside the     *)
(* trajectory; of them too, those that start from one book end with one.   *)
OneTrajectory ==
  /\ \A row \in trail : Backed(trail, row.before, row.cycle)
  /\ \A x, y \in trail : x.cycle = y.cycle => x.before = y.before
  /\ \A x, y \in ledger : x.cycle = y.cycle /\ x.before = y.before => x.after = y.after

(* "broker ledger mismatch" is among the circuit breakers: "execution must *)
(* halt on market-data or ledger integrity failure" (docs/BUILD_SPEC.md,   *)
(* 2030 and 2032).  A cycle trades from a book that the ledger has.        *)
MismatchHalts ==
  \A r \in Runs : pc[r] = "execute" => Backed(ledger, book[r], cycle[r])

(* What cycle c makes of a book: the data is sealed, so nothing else.      *)
After(c, b) == ExecuteBatch(b, Orders(world[c], b), FALSE).book

(* The inductive invariant behind BookBacked and OneTrajectory: each run   *)
(* is between the book its cycle started with and what the cycle makes of  *)
(* it, and so is every row; that book is backed if the run is not astray.  *)
InFlight(r) ==
  /\ pc[r] = "execute" =>
       /\ before[r] = book[r]
       /\ orders[r] = Orders(world[cycle[r]], book[r])
  /\ pc[r] \in {"record", "append"} => book[r] = After(cycle[r], before[r])
  /\ pc[r] \in {"execute", "record", "append"} /\ ~Astray(r) =>
       Backed(trail, before[r], cycle[r])
  /\ pc[r] = "append" =>
       /\ record[r].cycle = cycle[r]
       /\ record[r].before = before[r]
       /\ record[r].after = book[r]
  /\ pc[r] = "dead" => cycle[r] = 1

RowsFollow == \A row \in ledger : row.after = After(row.cycle, row.before)

IInv ==
  /\ TypeOK
  /\ BookBacked
  /\ \A r \in Runs : InFlight(r)
  /\ RowsFollow
  /\ OneTrajectory

(* A rerun is idempotent: a run ID never comes back with another record,   *)
(* not even after a failure that left fills in the broker.                 *)
ReplayNeverConflicts ==
  \A r \in Runs : pc[r] = "append" => ~Conflicts(record[r])

(* What the reconciliation after the fills looks for never happens.        *)
ReconciliationPasses ==
  \A r \in Runs :
    pc[r] = "record" =>
      LET marks == world[cycle[r]].marks
          value == SumFunction([t \in Tickers |-> book[r].shares[t] * marks[t]])
      IN  /\ Reportable(book[r])
          /\ book[r].cash >= 0
          /\ \A t \in Tickers : book[r].shares[t] >= 0
          /\ Distance(book[r].cash + value, Equity(book[r], marks)) <= Cent

(* The record of a cycle in which every forecast abstained shows the book  *)
(* untouched, over whatever limits prices may have carried it.             *)
HoldOnAbstain ==
  \A row \in ledger : Eligible(world[row.cycle]) = {} => row.after = row.before

(* The gate's limits survive the conversion to whole shares: after a trade *)
(* no position, and not their sum, is over its cap of the equity the gate  *)
(* saw, and the value bought is within the turnover limit.                 *)
TradesWithinLimits ==
  \A row \in ledger :
    row.fills # <<>> =>
      LET marks  == world[row.cycle].marks
          policy == PolicyAt(Equity(row.before, marks))
          value(b) == [t \in Tickers |-> b.shares[t] * marks[t]]
          bought == [t \in Tickers |-> Positive(value(row.after)[t] - value(row.before)[t])]
      IN  /\ \A t \in Tickers : value(row.after)[t] <= policy.maxPosition
          /\ SumFunction(value(row.after)) <= policy.maxGross
          /\ SumFunction(bought) <= 2 * policy.maxTurnover
=============================================================================
