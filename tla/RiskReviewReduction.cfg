SPECIFICATION SpecFund
CONSTANTS
  t1 = t1
  t2 = t2
  t3 = t3
  Tickers = {t1, t2, t3}
  Policies <- MCPolicies
  Cases <- MCCases
  SectorOf <- MCSectorOf
  TargetLevels <- MCTargets
  DriftLevels <- MCDrifts
  Allocations <- MCAllocations
  Mandates <- MCMandates
  Dossiers <- MCDossiers
INVARIANT PureReductionExecutes
