SPECIFICATION Spec
CONSTANTS
  t1 = t1
  t2 = t2
  Tickers = {t1, t2}
  Cent = 1
  CommissionBps = 500
  SlippageBps = 900
  Runs = {r1, r2}
  Cycles = 2
  Worlds <- MCWorlds
  Capital = 200
  Percent <- MCPercent
  GrossTarget = 100
  SectorOf <- MCSectorOf
  Allocations <- MCAllocations
  MaxBuild = 2
  MaxLost = 2
INVARIANTS
  BookBacked
  OneTrajectory
  HoldOnAbstain
  TradesWithinLimits
SYMMETRY RunsAlike
CHECK_DEADLOCK FALSE
