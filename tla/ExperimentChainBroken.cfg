SPECIFICATION Spec
CONSTANTS
  Procs = {p1, p2}
  Ids = {e1, e2}
  Bodies = {b1}
  NoRow = NoRow
  NoProc = NoProc
  Genesis = Genesis
INVARIANT Intact
