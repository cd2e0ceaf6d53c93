\* A record that cannot be built, and a caller that goes on with the broker.
SPECIFICATION Spec
CONSTANTS
  t1 = t1
  t2 = t2
  Tickers = {t1, t2}
  Cent = 1
  CommissionBps = 500
  SlippageBps = 900
  Runs = {r1}
  Cycles = 2
  Worlds <- MCWorlds
  Capital = 200
  Percent <- MCPercent
  GrossTarget = 100
  SectorOf <- MCSectorOf
  Allocations <- MCAllocations
  MaxBuild = 1
  MaxLost = 1
INVARIANT MismatchHalts
CHECK_DEADLOCK FALSE
