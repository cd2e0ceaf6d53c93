SPECIFICATION LabSpec
CONSTANTS
  Procs = {p1}
  Ids = {e1, e2}
  Bodies = {"combined", "equal", "equal_late", "combined_odd", "equal_odd"}
  NoRow = NoRow
  NoProc = NoProc
  Genesis = Genesis
  Strategies = {"combined", "equal"}
  MinMetrics = 4
  Receipt <- MCReceipt
  Terms <- MCTerms
  Comparisons <- MCComparisons
  Made <- MCMade
INVARIANTS
  Intact
  NeverLocksOut
  TrialsRetained
  OutOfSample
  EqualTerms
