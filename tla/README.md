# AegisQuant: TLA+ models and proofs

AegisQuant is a research-to-simulated-trading program: sealed point-in-time data
goes through research roles to forecasts, a deterministic portfolio, a hard risk
gate, a simulated broker and an append-only ledger. This directory holds TLA+
modules translated from its Python source (`aegis/`), TLC configurations that
check them on small instances, and TLAPS proofs of what matters most for every
size of the system.

- [1. Inventory](#1-inventory)
- [2. Modules and how they correspond to the code](#2-modules-and-how-they-correspond-to-the-code)
- [3. What the runs check, with their bounds](#3-what-the-runs-check-with-their-bounds)
- [4. Fairness](#4-fairness)
- [5. What is proved](#5-what-is-proved)
- [6. Where code and claim disagree](#6-where-code-and-claim-disagree)
- [7. What is left out](#7-what-is-left-out)
- [8. Plan](#8-plan)

## 1. Inventory

The parts with behaviour worth modelling, what each remembers and who calls it:

| Part | State it keeps | Operations | Talks to |
|---|---|---|---|
| Cycle engine (`fund/run_cycle.py`, `fund/execution.py`, `quant/portfolio.py`) | none of its own; the broker and the ledger it is given | `run_cycle` | data client, forecast provider, risk gate, broker, run ledger |
| Backtest (`fund/backtest.py`) | one broker for the whole grid | `backtest_fund` | cycle engine |
| Risk gate (`risk/checks.py`, `contracts/risk.py`) | none | `evaluate_risk` | called by the cycle engine |
| Simulated broker (`brokers/simulated.py`) | cash, shares, average costs | `execute_batch`, `restore`, `equity`, `weights`, `positions` | called by the cycle engine |
| Run ledger (`fund/ledger.py`) | SQLite table `cycles` | `append`, `get`, `list_run_ids` | shared by processes |
| Research desk (`harness/graph.py`, `harness/state.py`) | one `DeskState` per case: artifacts, failed roles, approved evidence, forecasts | `research`: ten nodes in supersteps | model provider, memory reader, evidence audit; called by the cycle engine |
| Capability broker, budgets, router (`harness/`) | budgets by role and skill | `register`, `decide`, `authorize`, `charge_*` | research desk |
| Experiment ledger (`research_lab/experiments.py`) | SQLite tables `experiments`, `experiment_commitments` | migration on open, `append`, `get` | shared by processes; strategy evaluation appends to it |
| Memory store (`memory/`) | SQLite tables of candidates, decisions, item versions; relations | `stage`, `decide`, `search`, `snapshot` | evidence ledger; read by the research desk |
| Evidence ledger (`evidence/`) | SQLite table `evidence_cases` | `append`, `get`, `approved_ids_for_cases`, `audit_evidence` | memory store, research desk |
| Source gateway (`sources/`) | content-addressed files: bodies and retrievals | `acquire`, `commit`, `normalize`, `changed_event` | live connectors |
| Point-in-time lake (`pit_data/`) | three append-only JSONL files, raw store, immutable snapshots | `ingest_sec`, `normalize_nport`, `write_snapshot`, `load_snapshot`, `*_as_of` | SEC client, raw store |
| Validation and receipts (`research_lab/validation.py`, `receipt_series.py`, `strategy_evaluation.py`) | none; read run ledger, write experiment ledger | split algorithms, `derive_receipt_*`, `evaluate_*` | both ledgers |
| Promotion gates (`research_lab/promotion.py`, `boundaries.py`, `outcomes.py`) | SQLite tables of outcomes and postmortems | `authorize_promotion`, `append_outcome`, `append_postmortem` | build fingerprint |
| Strategy engine (`strategy/`, `fund/strategy_inputs.py`) | none | `build_model_batches`, `blend_pod_forecasts`, `build_master_portfolio` | cycle engine of a master fund |
| Fundamental research (`fundamentals/`) | SQLite table `thesis_versions` | graph of nine specialists, thesis ledger, valuation | CLI |
| Quantitative research (`quant_research/`), causal and world models | none | pure functions | strategy inputs, CLI |
| Contracts (`contracts/`), data clients (`data/`), reporting, CLI, dashboard | none | validation, reading, display | all |

**How they interact.** A cycle is one synchronous call chain: marks are read and
checked, the forecast provider is asked (for a replay, the research desk with
its ten model calls), a portfolio is proposed, the gate reviews it, orders are
built, the broker fills the batch, the book is reconciled, the tree is
fingerprinted into a run ID, a record is built and appended. Only the last step
is durable. A backtest repeats the cycle over a grid with one broker in memory.
Ledgers are SQLite files that any number of processes may open.

**What is hard in it.**

- *Concurrency* is between processes, at the ledgers. Python's `sqlite3` opens a
  transaction at the first INSERT: every SELECT before it reads a committed
  state that may be gone when the INSERT gets the write lock. A lock is waited
  for five seconds. Inside a process only the desk's supersteps are parallel.
- *Failure* strikes between the fills of a batch, which exist in memory, and the
  record, which is durable; between the statements of a transaction; in any of
  ten model calls. A process may die and be started again on the same ledger.
- *Ordering*: clamps of the gate undo each other's work and run twice; order IDs
  sort sells before buys; reviewers must not see each other.
- *Limits*: integer cents and basis points round in every step; tolerances,
  zero quantities, empty cases; deadlines compared with `<` here and `<=` there.

**What makes each part correct** is in section 3 for the parts that are
modelled, in section 8 for those that are planned. What in this code is hard to
reach with a test is listed with its line under `hazards` in `PROJECT.json`,
with the properties that watch it. Smaller ones that no property watches: a share
lost to truncating a quotient of doubles (`fund/execution.py:28`); an SEC
request that failed does not count for the request rate (`pit_data/sec.py:164`); index-only
splits may have folds without training rows (`research_lab/validation.py:134`);
two sources with one text give a bundle with a repeated evidence ID
(`sources/pipeline.py:109`); the desk registers budgets it never charges
(`harness/graph.py:679`).

## 2. Modules and how they correspond to the code

    OnceStore  <--refines--  LedgerStore                              StoresProofs
    RiskGate                                                          RiskGateProofs
    RiskGate   <--  RiskReview, StrategyPods  <--  MasterFund         MCMasterFund          MasterFundProofs
    BrokerBook <--  SimBroker                                         BrokerProofs
    RiskGate, BrokerBook  <--  RunCycle         MCRunCycle            RunCycleProofs
    ExperimentChain, ValidationSplits  <--  StrategyComparison        MCStrategyComparison  ExperimentChainProofs
    AtomicLedger  <--refines--  ExperimentChain                       ExperimentChainProofs
    RunCycle, SimBroker, LedgerStore            MCExecution
    ExperimentChain, ThesisLedger, MemoryGovernance, PitLake          MCStores              StoresProofs
    ResearchDesk                                MCResearchDesk        ResearchProofs
    FilingStatements <- CompanyValuation <- CalculationGraph <- CompanyResearch
                                                MCCompanyResearch     ResearchProofs
    ResearchDesk, CompanyResearch               MCResearch
    InductionLemmas  <--  every module of proofs

`<--` is EXTENDS. MCExecution, MCStores and MCResearch put components that do not
meet into one run: a behaviour chooses one of them in its initial state and leaves
the others alone.

Data is abstracted to what the properties tell apart: a record, an ID or a
content hash is a model value, hashes are injective, money is an integer number
of quanta. The control is kept: every early return, error path, restore and
order of writes. `PROJECT.json` maps every definition to its lines.

**LedgerStore** (`SQLiteRunLedger`). A process calls `append(key, payload)` and
goes through the statements of the code, one action each: `Lookup` (the SELECT,
outside any transaction), `Insert` (takes the write lock, or times out, or hits
the primary key), `Commit`, which may fail, and the return of the digest or of an error.
`Crash` kills a process anywhere; its open transaction is undone.
**OnceStore** is what the class promises, three actions over a function from
IDs to records: a record is written at most once, by one atomic step, and a call
is answered only with what the table holds.

**RiskGate** holds the gate as operators on integer weights (hundredths or
tenths of the capital): the clamps in the order of the code (position, sector,
gross, net), the de-risking exception to the turnover limit, the interpolation
it uses otherwise, the second pass of the clamps, the list of violations and the
decision. **RiskReview** is one review: a held book that may have drifted out of
its limits, a proposal, the decision.

**StrategyPods** is the way from a sealed provider's dossier to the target of a
multi-strategy mandate: which forecasts and batches are accepted, which of them a
pod may use, the overlap discount, what the portfolio models may return, the
removal of the market from a neutral pod and the scaling to its budget, the two
allocators, netting. The size of a blended score and the choice among portfolios
are real numbers: any vector that the model's projection may return is possible.
**MasterFund** is the fund of either kind: RiskReview's proposal or the netted
target goes through the gate, is traded, and the book drifts with prices.

**BrokerBook** holds the broker's book and its arithmetic as operators: prices
with slippage rounded to the quantum, commissions rounded half up, one order at
a time on a copy of the book, the refusal of a batch as a whole, equity.
**SimBroker** is an account under a history of batches: accepted, refused, or
executed and undone by `restore`.

**RunCycle** composes gate and broker (it EXTENDS both) with the ledger: runs of one backtest, each with
its own broker, over a grid of cycles whose data is sealed. The actions of a run
are the points between which something can fail: `Research` (all pure steps up
to the orders), `Execute`, building the record and its run ID, the ledger's
append with its conflicts and its failures, the restore of the broker, the
next cycle, a crash and a new start, a retry of a failed cycle by the caller.
A record that cannot be built leaves its fills in the broker (`RecordFails`):
such a run is astray until it is started over (`lost` counts them), and `trail` is
the history of the rows that runs wrote before they went astray. The environment may edit the source tree, which changes the run IDs. The
append is atomic here: that is what `StoresProofs!Implements` permits.

**ExperimentChain** (`ExperimentLedger`). Each process opens the ledger (create
tables, find records without a commitment, commit to them one by one) and then
appends or reads: verify the chain, look the record up, read the previous hash,
read the highest sequence number, insert two rows, commit. Every statement is an
action; every one may meet a locked database, an exception with its rollback, or
the death of the process. **AtomicLedger** is what the class promises, with two
actions: the records of an old file are committed to all at once, before anything
is appended, and each append adds a record and its commitment in one step.
ExperimentChain refines it (`order` is the experiments in the order of their
commitments); the hash of the previous commitment is not part of the promise, since
with several processes it is not kept (section 6).

**ThesisLedger** (`ThesisLedger.append`), **MemoryGovernance**
(`LocalMemoryBackend`, `EvidenceLedger`, `GBrainMemoryAdapter`) and **PitLake**
(`ingest_sec`, `write_snapshot`, `load_snapshot`) are shared files like it, one
action a statement. A thesis is checked against the latest of its company that a
SELECT saw. A memory's decision reads the candidate, the evidence of its cases as
of the decision's own date, whether there is a decision, and the highest version,
and then inserts item and decision in one transaction; a search filters by time
and a foreign client may rank the result, with any list of names. The lake's
files are read whole and appended without a lock: a process that dies may leave
half a row behind (`Torn`), which nothing can read past; a snapshot is built in a
temporary directory and renamed. An ingest asks for the filings of some tickers, of
given forms and filed within given dates, one ticker after the other, while EDGAR
lists more (`Pass`); a filing is listed at one time and counts as available from
another.

**ValidationSplits** holds the four split algorithms as operators on the indices of a
sample. **StrategyComparison** is `evaluate_*` on them: receipts are aligned into
rows, predictions and labels, folds are drawn and checked, each trial is appended
to the ExperimentChain, and only then is the comparison judged. It EXTENDS the
chain, so that every append of the comparison runs through the statements of
the ledger, with its crashes.

**ResearchDesk** (`LangGraphForecastProvider`). LangGraph runs the nodes whose
edges are satisfied in parallel on the state as the superstep found it, and
merges their updates when all are done: `tasks` and `updates` are the superstep,
`Work`, `Audit`, `Synthesize` and `Verify` are nodes, in any order within it,
`Barrier` is the merge with the reducers of `state.py`, `Assemble` is what
`research` does with the final state. A model raises or answers; an answer may
cite what it must not, which is an integrity error that ends the case.

**CompanyResearch** (`run_fundamental_graph`) is the other graph: one bundle is
audited and computed, nine specialists interpret one calculation each, in
parallel, their artifacts are audited when all are there, and a dossier is
released. A specialist is not trusted: its artifact may be another role's, cite
foreign evidence, name a foreign request, contradict the calculation, repeat a
claim ID. What is computed is in three modules of operators. **FilingStatements**:
which facts are selected, how statements are completed and reconciled, the
adjustments, which metrics have a value. **CompanyValuation**: the contracts of
the inputs, the management record, the operating cases, the sensitivity grid, the
comparables. **CalculationGraph**: which calculation rests on which facts,
assumptions and calculations, and what of it a specialist sees. What a number
says under its role's thresholds is left open (`reading`); which calculation a role
must cite comes from the computed lineage (`matching`).

## 3. What the runs check, with their bounds

| Run | Configuration | Bounds | Properties |
|---|---|---|---|
| `execution` | MCExecution | one part in a behaviour: 1 run, 2 cycles, 5 worlds, 2 builds, 2 lost records; an account with 2 tickers, 2 prices, orders of 0 to 2 shares, 2 orders a batch, 3 batches; a run ledger with 2 processes, 2 IDs, 2 bodies | `ReplayNeverConflicts` `RunEnds`; `Atomic` `CostsExplainNav` `BatchOrderIrrelevant`; `AckedDurable` `AppendReturns` `PromiseSpec` |
| `fund` | MCMasterFund | 4 funds, 3 tickers in 2 sectors, cases of 2 or 3, 3 to 4 levels for each weight, dossiers that break one rule | `ClampsSuffice` `DeRiskHonoured` `NewRiskDelayed` `ApprovedIsStable` `PodBudgetsHold` `BudgetsStayCash` `TargetIsSupported` |
| `run_cycle` | MCRunCycle | 2 runs, 2 cycles, 5 worlds, 2 builds, 2 lost records | `BookBacked` `OneTrajectory` `HoldOnAbstain` `TradesWithinLimits` |
| `lab` | MCStrategyComparison | 1 process, 2 experiments, 5 bodies, comparisons of two strategies over receipts that break one rule each | `Intact` `NeverLocksOut` `TrialsRetained` `OutOfSample` `EqualTerms` |
| `stores` | MCStores | 2 processes at each store; 3 experiments; 9 theses of 2 companies; 3 candidates, 2 cases, 8 decisions, 4 instants; 2 ingests of 3 requests, 5 filings, 2 times, 1 builder, 3 tickers of 2 companies | `Paired` `NoneUnchained` `Acknowledged` `ActsAtOnce` `OneLineOfHistory` `DecidedOnce` `NoFutureMemory` `VerifiedSnapshotComplete` |
| `research` | MCResearch | desk: 10 roles, 2 tickers, 2 pieces of evidence, 8 syntheses; company: 21 bundles, 3 specialists | `FailClosed` `OnlyApprovedDownstream` `StableBasis` `ResearchEnds` `ReleasedAsAudited` `NoHindsight` `LineageGrounded` `RestatementsFollowed` |

Six more runs expect a violation: `risk_reduction`, `unrecorded_fills`,
`experiment_chain_broken`, `shared_company`, `amended_one_time` and
`future_guidance` (section 6).

**Run ledger.** *AckedDurable*: what a caller was told is stored stays stored.
*PromiseSpec*: the
protocol refines OnceStore. Two processes are enough for every race of the
primary key, of the lock and of the crash, since a third can only repeat what
the second does to the first; the theorem holds for any number.

**Risk gate.** *ClampsSuffice*: two passes are enough, the executed weights keep
every cap. *DeRiskHonoured*: a reduction is never slowed by the turnover limit.
*NewRiskDelayed*: what the positions that grow trade together is within the turnover
limit: no new risk rides on the override for reductions. *ApprovedIsStable*: a second
review of an approved book changes nothing. The levels are chosen so that every cap, every sign and a
ticker without a sector occur; `MCTargets` and `MCDrifts` differ for the
long-only and the long-short fund to keep the product small.

**Strategy engine.** *PodBudgetsHold*: hedging the market out of a pod raises its
gross exposure, which must still be within the pod's budget. *BudgetsStayCash*:
capital that a pod does not use is not handed to another, whoever abstains.
*TargetIsSupported*: every position of the fund's target rests on a forecast that
was declared, bound, current, eligible and cites published evidence. Two pods, one
with two models and one neutral, are the least with an overlap and an abstention
that changes another pod's allocation; every rule of the dossier is broken once.

**Simulated broker.** *Atomic*: a refused batch changes nothing.
*CostsExplainNav*: the change of equity is what the fills say it cost, up to half
a cent a rounding. *BatchOrderIrrelevant*: with one
order a ticker, the order in which the caller lists them changes neither the
verdict nor the book. Two quanta to
the cent and odd prices make every rounding round something.

**Cycle engine and backtest.** *BookBacked*: whenever a run that has lost no
record is between cycles, its broker holds the book its last recorded cycle ended
with. *OneTrajectory*: the rows such runs wrote tell one history, even when two
runs and a restarted one wrote it, beside a run that went astray. What a run that
has lost a record does is run `unrecorded_fills` (section 6).
*ReplayNeverConflicts*: the same cycle of the same build gets the same run ID
and the same record, also after a lost record. *HoldOnAbstain*: a cycle in which every
forecast abstained leaves the book as it was, over whatever limit prices may
have carried it. *TradesWithinLimits*: what the
rounded orders produce still keeps the gate's limits. Worlds are the
situations a cycle tells apart (both tickers wanted, one, a rally over the cap,
a slump, all abstaining, missing and stale marks, a costly share); two cycles let a
run hold a book, fail on it, and build on the result. The funds hold no cash back,
so that some batches cost more than there is, are refused and halt the cycle
(*RunEnds* in `execution`).

**Experiment ledger.** *Paired*: every commitment has its record, no record has two. *NoneUnchained*: after a migration
and with appends running, no record is without a commitment. *Acknowledged*: what `append` returned
is in both tables. *ActsAtOnce*: the ledger implements AtomicLedger, from which
follows that committed rows never change. *Intact* (the
hashes chain) and *NeverLocksOut* (the ledger can always be opened) hold for
one process at a time (run `lab`, where the comparisons append). Three experiments let a migration be in the
middle of its work while another process appends.

**Thesis ledger.** *OneLineOfHistory*: the theses of a company are one line of
versions, each superseding the one before, later in time and by a legal
transition, although two processes check against the same latest version. The
nine theses are a line, rivals for two of its versions, one that runs backwards
and one that revives a closed thesis.

**Memory.** *DecidedOnce*: one decision a candidate, exactly one item for each
decision that writes one, versions without gaps, whoever decides at once.
*NoFutureMemory*: what a search as of some time returns was approved by then by
somebody other than its proposer, has not expired, and rests on evidence of
approved cases that was available by then, whatever the client ranks, fails or
repeats. Decisions may be dated before or after others and cases may hold later
evidence.

**Point-in-time lake.** *VerifiedSnapshotComplete*: a snapshot that loads has,
for each company with one ticker, every filing available by its cutoff that an
ingest which had returned when the builder began was asked for (forms and dates)
and that was listed when it began (`Owed`); it never has a filing available later,
or of another company. Filings that no such ingest asked for, or that EDGAR listed
after it had asked, may be missing: the code promises no more. A snapshot that does
not load lacks a mapping. Two ingests that overlap, die at any
point and are repeated, with one builder, reach each state between the files; of
the requests one has an earlier end date, one two tickers, one dates that run
backwards; of the filings one is listed late, one filed late, one of a form that
nobody asks for. `MaxRows` stops new ingests when a file has that many rows, which
a further append of the same rows would not change; `LastTime` stops the clock once
everything is listed.

**Comparison of strategies.** *TrialsRetained*: what was judged is in the ledger
and committed to. *OutOfSample*: before a trial is even appended for a comparison of
receipts, every observation it will measure was tested by a fold whose training
labels ended before, and no locked row is used. *EqualTerms*: from the same moment,
strategies are compared run by run on the same data, constraints and costs, and no
run counts twice.

**Research desk.** *FailClosed*: a forecast that can be traded on means that the
models of all ten roles answered, the verifier passed it, exactly the tickers of
the case are covered and every citation was approved by the auditor.
*OnlyApprovedDownstream*: no reviewer, CIO or verifier cites anything the
auditor did not approve. *StableBasis*: what an artifact is based on does not
depend on which role finished first. *ResearchEnds*: every case ends, in a
dossier or in an integrity error. The CIO's answers in the run include
none at all, a missing and a foreign ticker, a wrong date, an invented
number, and two forecasts with one ID.

**Company research.** *ReleasedAsAudited*: an active forecast was vouched for by
each role's own specialist, whose claims say what its one calculation says from
evidence known at the cutoff. *NoHindsight*: apart from the later results that
guidance records carry and the names of later actions (run `future_guidance`,
section 6), research that passed the audits is the same when everything that
became known after the cutoff is removed from its inputs: the two are compared
record by record (`Researched`), guidance and the inputs of each calculation
included. *LineageGrounded*: every published calculation rests, without a circle,
on filed facts and assumptions. *RestatementsFollowed*: the statements rest on the
latest revision of each fact, in whatever order revisions were accepted, unless a
one-time item is restated. Five bundles can be
computed (plain, with one-time items, restated, restated out of order, amended);
sixteen break one rule each. Three specialists are enough for a swap of roles with a third that answers.

`CHECK_DEADLOCK FALSE` appears where the system stops by design: a backtest that
is finished or halted (`run_cycle`, `unrecorded_fills`, `execution`), a case that is researched (`research`), and
a lake whose file ends in half a row (`stores`).

## 4. Fairness

- `LedgerStore!LedgerFair` (and `MCExecution!ExecutionSpec`): weak fairness of each process's own steps. A process
  in `append` runs straight through its statements; SQLite's busy timeout makes
  waiting for the lock finite. No fairness of crashes or of new calls.
- `RunCycle!FairSpec` (and `MCExecution!ExecutionSpec`): weak fairness of the steps of a started run. Each is
  synchronous Python without a wait; a failing append or record is followed by the
  exception that ends the cycle. Retries by a caller are not fair, and none is
  needed: `RunEnds` says that each started cycle ends, not that it succeeds.
- `MCResearch!ResearchSpec`: weak fairness of the desk's next step. Nodes call a
  replay provider that answers or raises at once.

Everything else is checked without fairness.

## 5. What is proved

Every safety property that a passing run checks is a theorem, checked by TLAPS
for every value of the constants under the named assumptions of the modules.
A few state a further hypothesis: that the net limit is implied
(`ClampsAreSufficient`), or that there is one process (`SerialChainIsIntact`,
`SerialUseIsNeverLockedOut`, `JudgedTrialsAreRetained`). They are named again below.
Each proof rests on an inductive invariant, since next to none of the properties
is inductive as it stands.

**InductionLemmas** is what the other modules share. The induction theorems of
the library take an operator, which no prover here can instantiate. That a
nonempty set of naturals has a least member is a statement about sets, and gives
induction with the hypothesis as a set: over numbers, over finite sets, over a
list's prefixes. From it follow what `SumFunctionOnSet` computes (one element at a
time, dominated, scaled, exchanged between rows and columns), that a finite table
can be built step by step, that a finite order has a numbering (sorting), and that
a union with as many members as its parts has disjoint parts.

**StoresProofs**, the stores that processes share. They all decide on what
they have read and write later; each invariant says what a stale reading is still
worth when it is used.

- *Run ledger.* Durability alone is not inductive: only the holder of the lock
  has staged rows, staged rows are new, and a process past its commit finds its
  row in the table. `Durability`, `AppendOnly`, `TypeCorrect`; `Implements` shows
  each step to be a step of OnceStore or a stutter.
- *Thesis ledger* (`ThesesAreChecked`, `HistoryIsOneLine`). The latest version a
  SELECT saw may be superseded before the INSERT, but the predecessor is still
  there, theses never disappear, and the two keys of the table admit only one
  successor: who passes them extends the line.
- *Memory* (`DecisionsAreChecked`, `CandidatesAreDecidedOnce`,
  `SearchesSeeNoFuture`). The decision was admissible on the candidate and cases
  when it was checked, and stays so, since both only grow; the version it computed
  may be taken by the time of the insert, and then the key refuses it. Each item
  is explained by its one committed decision, from which what a search returns was approved, unexpired
  and evidenced, whatever the client ranks.
- *Lake* (`LakeIsSound`, `SnapshotsAreComplete`). What an ingest has read may be stale when it appends,
  but the file only grows, so that what it read and what it appended have all that
  it was asked for and that was listed when it began; half a row makes the file unreadable, so that whoever reads
  successfully reads all. A builder's copy has every ingest that ended
  before it began, and so has the snapshot it publishes.

**RiskGateProofs** and **MasterFundProofs**, the gate and the strategy engine for
any policy, proposal, book, mandate and dossier. The clamps scale by fractions and
truncate: each only takes exposure away, keeps signs, and brings its own sum below
its limit without raising another's (`EvaluateClamps`); an allowed book passes
them unchanged (`EvaluateStable`). `FundInv` says that the book is a dict of
weights, that a review holds the gate's own decision, and that a built master
portfolio comes from accepted inputs and the pods' models (`FundInvariance`).
`ReductionsAreHonoured`, `NewRiskIsDelayed` (each grown position is at most its share
of the limit away from the old one, and the second clamp pass only takes away),
`ApprovedBooksAreStable`, `PodBudgetsAreKept` (the hedge is at
most as large as what it hedges), `BudgetsStayInCash` (the netted gross is at most the
sum of the pods'), `TargetsAreSupported`. `ClampsAreSufficient` has the
hypothesis `NetIsCapped`: no shorting, or a gross limit within the net limit.
Otherwise truncating integer weights of both signs can leave the net a unit
above its limit, which the code's doubles do not do; `OnlyTheNetIsRefused` states
without the hypothesis that no other limit is ever broken, and `NetIsNearItsLimit`
that the net is above its limit by at most one unit for each weight: `ScaleIsClose`
bounds what truncating a sum of scaled weights can lose. TLC checks
`ClampsSuffice` itself on the levels of the run.

**BrokerProofs**, one account under any batches at any positive prices. `SimInv`:
accounts are books of whole numbers with cash of whole cents that is not negative,
and the last execution is what `execute_batch` makes of the book before it at
prices as declared (`AccountsAreSound`). `BatchesAreAtomic`; `CostsReconcile`: by induction over the
batch, each fill loses its fee and slippage up to its roundings;
`OrderIsAConvention`: with one order a ticker, each position moves once and the
cash by the sum of the orders' amounts, in whatever order they are listed.

**RunCycleProofs**. `CycleInv` composes the two: each book of a run is sound, each
row of the ledger is what its cycle makes of the book before it, whatever has
failed or crashed since (`BooksAreSound`). From it `FillsReconcile` (the
engine's own check of the book never fires, which is why the model has no branch for
it; this one is proved and not a property of a run),
`AbstainingHolds`, `TradesAreWithinLimits` (truncation to whole shares only moves
a position towards the old one), `ReplaysAgree`. `Invariance`, `BooksAreBacked` and
`LedgerIsOneTrajectory` are about histories, for any number of runs, cycles and
builds: every row of the trail is backed by a chain of rows back to the opening
book; an append by a run that has lost no record adds the one row that continues a
chain and leaves the backing of others alone (`BackedMonotone`, `BackingUnique`);
every other failure path restores the book of the last backed row. Rows of runs
that went astray are in the ledger and not in the trail; a run that starts over is
back on it. TLC checks `BookBacked` and `OneTrajectory` on the small instance; the
strengthening is too costly for that run and was checked on smaller ones.

**ExperimentChainProofs.** `IInv`, of both tables, for any number of processes,
with rollbacks and crashes at any statement: sequence numbers have no gaps,
committed and staged rows are paired, only the lock's holder has staged anything,
and what each process may rely on at each statement. The delicate step is the
insert: the number read before the lock was taken may be used by now, and then
the uniqueness of the sequence refuses it; if it is not used it is still the next.
`ChainIsContiguous`, `ChainIsPaired`, `ChainIsAppendOnly` follow. `UseInv` adds what a
process knows once its migration is over and once its append is done, whence
`NothingIsUnchained` and `AppendsAreAcknowledged`. `AtOnceInv` says that an open
transaction is either a migration of a file that has no commitment yet or an
append with both its rows: two migrations race for the same bare records, and the
one that is late finds each of them committed to and is refused. So each commit is
one action of AtomicLedger and every other step a stutter (`LedgerActsAtOnce`). With a single process the
hashes chain (`SerialChainIsIntact`) and the ledger can always be opened
(`SerialUseIsNeverLockedOut`: what was read before the lock is still fresh). The
comparison of strategies uses the ledger as any process does
(`ComparisonUsesTheLedger`), so all of this holds of it too: `JudgedTrialsAreRetained` (by one
process, `LabInv`). `EvidenceIsOutOfSample` and `StrategiesAreOnEqualTerms`: a governed
comparison has passed the binding, whose folds are walk-forward splits of the rows
(`WalkForwardIsHonest`, `BlockInSample`) and whose rows are aligned run by run.

The splits have theorems of their own, for samples of any size: every observation
after the first training block is tested exactly once (`TestedExactlyOnce`); purge
and embargo lie between what a fold trains on and what it tests (`GapIsKept`), and
larger ones only take training observations away (`BuffersOnlyRemove`); with label
intervals, no training interval overlaps a tested one, and no locked observation is
used (`IntervalFoldsDoNotOverlap`, `IntervalCombinationsDoNotOverlap`); combinations
train on no group that they test or that is embargoed after one
(`CombinationsAreApart`).

**ResearchProofs**, the two graphs of agents. Of the desk: `DeskFailsClosed`,
`DownstreamIsApproved`, `BasisIsStable`, for any tickers and evidence, whatever
models cite or forecast. `IInv` says that the finished roles form one of seven stages
and the superstep is what its stage triggers (`NextStage`: auditor, CIO and
verifier are alone in theirs); that an abstained role is among the failed
ones, the verifier excepted; that what is approved is what the auditor cited; that
forecasts stand only while nobody has failed; and that each pending update keeps
these facts when it is merged. `BarrierPreserves` is the heart: a promise the CIO
or verifier made on the state before the superstep holds after it, since no
failure can be merged beside it.

Of company research, for any bundles, specialists and answers: `CompanyInv` says
that there is no dossier before the release, that claims are finite, and that at
the join the calculations a role must cite are those of a bundle that could be
computed.

- `ForecastsAreVouchedFor`: the audit at the join covers every role once, and
  claims as many as their IDs belong to disjoint artifacts.
- `ResearchHasNoHindsight`: of an accepted bundle the cutoff removes no fact and no
  evidence; guidance and actions it forgets are the ones that `evaluate_management`
  passes over in its numbers. Its sums run over records of which the forgotten fields
  are gone, one to one with the records before. What it does publish of them are
  whole guidance records and names, which the two sides of the theorem state.
- `RestatementsAreFollowed`: a fact that is restated is not selected, since what
  restates it has the same scope and a higher revision, and it is no adjustment;
  so nothing is computed from it.
- `CalculationsAreGrounded`: the layers of `Founded` grow until they are closed
  under what rests on them; every closed set has the statements and metrics, each
  year's forecast after the last one's, then values, scores and the forecast
  of return, that is everything. Named facts are facts of the snapshot.

**Assumptions on the constants** (TLC evaluates each in a run), and why the
code justifies them:

| Assumption | Where from |
|---|---|
| `PoliciesAssumption`, `PercentAssumption`, `CapitalAssumption` | `RiskPolicy`: limits are fractions in 0..1, the gross at most 1 without leverage; `FundSpec.capital` and `PortfolioPolicy.gross_target` are positive |
| `UniverseAssumption`, `TickersAssumption`, `MandatesAssumption`, `DossiersAssumption`, `StrategiesAssumption` | finite universes and mandates, mandates whose validators passed, volatilities not negative |
| `CentAssumption`, `RatesAssumption`, `OpeningCashAssumption`, `PricesAssumption`, `QuantitiesAssumption`, `WorldsAssumption` | `RiskPolicy`: commission and slippage above zero; the model takes them in whole basis points and the slippage below 10000 of them, which no policy of the repository comes near but no validator says: from there on the price of a sale is not positive and no `Fill`. The broker's constructor: opening cash above zero. The market data contracts: positive prices |
| `ThesesAssumption`, `FilingsAssumption`, `InstantsAssumption`, `RankingsAssumption`, `ReceiptAssumption`, `ComparisonsAssumption` | pydantic types; a first thesis supersedes nothing; accession numbers identify filings; a ranking is a list |
| `FactsAssumption`, `BundleAssumption`, `RoleAssumption`, `SynthesesAssumption`, `CitationsAssumption` | pydantic types; roles and their rules are fixed tables. `BundleAssumption` lets IDs tell guidance and actions apart: no contract checks this, in the model an ID stands for the place in its list |
| `NoRowAssumption` and the like | special values differ from data |

**Only model-checked:** liveness (`AppendReturns`, `RunEnds`, `ResearchEnds`), which
needs ENABLED. `SelectSeq`, `SortSeq` and `FlattenSeq` cannot be expanded by the
prover; where a model needed them (the memory's search, the lake's rows) it says
the same with sets and functions. `SetToSortSeq`, which sorts the multiples of
peers, is only used as a function of its arguments.

## 6. Where code and claim disagree

| Run | What the code does | What is claimed |
|---|---|---|
| `risk_reduction` | A proposal that only sells can be refused: the turnover interpolation brings sold tickers back with weight zero, and one without a sector is a violation (`risk/checks.py:234`) | "may not undo an explicit reduction" (`risk/checks.py:214`) |
| `experiment_chain_broken` | A commit between the SELECT of the previous hash and the SELECT of the next number breaks the chain for good (`research_lab/experiments.py:147`) | "a verified, append-only hash chain" (`research_lab/experiments.py:16`) |
| `shared_company` | New rows are compared with the file and not with each other: one ingest of two tickers with one CIK, or two that overlap, writes an ID twice, and the file is refused from then on (`pit_data/builder.py:44`) | "PIT artifact identifiers must be unique" (`pit_data/ledger.py:27`) |
| `unrecorded_fills` | A record that cannot be built (the fingerprint of the tree raises, the record does not validate) leaves its fills in the broker; a reconciliation or an append that fails restores it. A caller that goes on trades from a book that the ledger does not have (`fund/run_cycle.py:171`) | "execution must halt on market-data or ledger integrity failure", with "broker ledger mismatch" among the circuit breakers (`docs/BUILD_SPEC.md:2030`) |
| `future_guidance` | Guidance issued by the cutoff is published with its result, also one of a later date (`fundamentals/management.py:85`); the calculations on actions name the later ones among their inputs (`fundamentals/service.py:773`) | "Every filing and non-filing input must satisfy available_at <= as_of" (`policies/POINT_IN_TIME.md:3`) |
| `amended_one_time` | Adjustments are detected in all facts, superseded revisions included: a one-time item of 50 that is restated to 60 is taken out twice (`fundamentals/normalization.py:333`) | "use the latest eligible revision" (`policies/POINT_IN_TIME.md:3`) |

Each of these claims does hold under a condition, which says what the finding
needs. The theorems are for every value of the constants:

- `ClassifiedReductionsExecute`: a proposal that only sells whole positions is
  never refused if each held ticker has a sector in the case and `NetIsCapped`.
- `SerialChainIsIntact`: the chain verifies for a file that one process opens at a
  time.
- `IdentifiersStayUnique`: no ID is written twice if each company has one ticker and
  ingests take turns (`TurnByTurn`), wherever they die and are repeated.
- `RestatementsAreFollowed`: statements and adjustments rest on the latest revisions
  of every bundle in which no one-time item is restated and no restatement changes a
  fact's scope (`OnceStated`).
- `BooksAreBacked` and `LedgerIsOneTrajectory`: books and rows follow the recorded
  trajectory for every run that has lost no record, beside any that have.
- `ResearchHasNoHindsight`: later results in published guidance and names of later
  actions are all that a dossier owes to what was unknown at its cutoff.

Seen while modelling and not given a run of their own:

- Two processes that append the identical record at once: the loser gets sqlite's
  `IntegrityError` and not its digest (`fund/ledger.py:147`), although the
  docstring at line 109 calls the append idempotent. In the model this is an
  error outcome.
- The experiment ledger compares two tables that it reads one after the other
  (`experiments.py:120`): a commit between them raises a false alarm.
- A fund with one strategy has an allocation of 1.0, above
  `maximum_single_strategy_pct` of every shipped policy; a held position outside
  the case's universe blocks trading; costs can push an affordable batch below
  zero cash and halt the cycle.
- The build fingerprint is taken in every cycle, after the fills: a source
  file edited in the middle of a backtest changes the run IDs of its second half.
- With shorting allowed, a sale from no position leaves shares without an average
  cost, and `positions()` raises (`brokers/simulated.py:119`, line 160), although
  "Simulated orders reconcile to cash, positions, and NAV." (`docs/BUILD_SPEC.md:2294`).
- A memory's decision may be dated in the past (`memory/local_backend.py:146`): a
  search or a snapshot as of one time may answer differently later, after its
  hash went into a case. A newer quarantined version hides no older one.
- Of a ranked memory with several eligible versions the adapter keeps the oldest
  (`memory/gbrain_adapter.py:36`), while the local search puts the newest first.
- The history of theses as of a time compares ISO strings
  (`fundamentals/thesis.py:92`): times with different offsets are out of order.
- Two tickers of one company and a crash between them leave a snapshot that
  verifies and has the filings under one ticker only; `VerifiedSnapshotComplete`
  is stated for companies with one ticker.
- A company without capital employed or EBITDA raises a `KeyError` in the
  scorecard's dependencies (`fundamentals/service.py:611`) where the policy asks for
  an abstention.
- The blank forecasts of a case whose model failed carry a model name that no
  mandate declares (`fund/strategy_inputs.py:73`): a master fund halts where a
  simple fund abstains.

## 7. What is left out

- Floating point. Weights, prices and money are integers; the tolerance of 1e-12
  is dropped, quantities are truncated as in the code. That a weight turned into
  a quantity and back may differ in the last bit is not modelled.
- Average costs are reduced to which tickers have one.
- The mode and sealed-provider guards at the top of `run_cycle`. Drawdown stops
  and the sizes of blended scores. `allow_leverage` never has an effect in the gate,
  since the gross cap is the smaller of the maximum and one minus minimum cash.
- The hash that names a dossier's inputs, which covers later results too. IDs of facts
  are numbers; an adjustment that a metric rests on is a calculation in the model and
  among the fact IDs of the metric in the code (`fundamentals/metrics.py:94`).
- Security IDs of the lake, the universes that name them, and contents of filings.
- Tampering with a ledger file. Hash checks on reading are kept where a legal
  behaviour can trip them.
- The memory lookup, the capability registration and all texts of the desk; the
  claim graph is reduced to "can be built".
- Statistics (Sharpe ratios, overfitting), discounted values, scores and the
  bisection of the reverse DCF: real numbers that are left open or out.
- The lake's file of fact versions and the fund holdings; filters of a memory
  query, relations and the dream cycle.
- Capability broker and budgets, source gateway and raw store, promotion and
  outcomes, quantitative features, causal and world models: not modelled yet, or
  pure functions on floats.
- Text processing, HTTP, HTML and file parsing.

The components with the reason for each are listed in `PROJECT.json`.

## 8. Plan

Done, most important behaviour first: run ledger and its promise, risk gate,
broker, cycle engine and backtest over them, experiment ledger, research desk,
the strategy engine and master funds, validation splits and the comparison of
strategies, fundamental research, thesis ledger, memory and evidence, the
point-in-time lake; proofs of every safety property that a passing run checks, of
the split algorithms, and of the conditions under which the disputed claims hold.

Next:

1. **Promotion**: the independence of proposer, evaluator and approver over the
   life of a candidate; the outcome ledger as another OnceStore.
2. **CapabilityBudget** and **RawStore**: charges and retries of a role; a body
   and its receipt under crashes.
3. **PointInTime**: selection of revisions (`pit_data/fundamentals.py`,
   `quant_research/factors.py`) as operators against a definition of "known at".
