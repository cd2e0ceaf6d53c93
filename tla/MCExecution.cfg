\* A run that is done and an account after its last batch may stop.
SPECIFICATION ExecutionSpec
CONSTANTS
  t1 = t1
  t2 = t2
  Tickers = {t1, t2}
  Cent = 2
  CommissionBps = 700
  SlippageBps = 900
  Runs = {r1}
  Cycles = 2
  Worlds <- CostlyWorlds
  Capital = 200
  Percent <- FullyInvested
  GrossTarget = 92
  SectorOf <- MCSectorOf
  Allocations <- MCAllocations
  MaxBuild = 2
  MaxLost = 2
  OpeningCash = 40
  AllowShorting = FALSE
  Prices = {7, 12}
  OrderIds = {1, 2}
  Quantities = {0, 1, 2}
  MaxOrders = 2
  MaxBatches = 3
  Procs = {p1, p2}
  Keys = {k1, k2}
  Payloads = {v1, v2}
  NoRow = NoRow
  NoProc = NoProc
INVARIANTS
  ReplayNeverConflicts
  Atomic
  CostsExplainNav
  BatchOrderIrrelevant
  AckedDurable
PROPERTIES
  RunEnds
  AppendReturns
  PromiseSpec
CHECK_DEADLOCK FALSE
