\* Each store shared by two processes.  A lake whose file ends in half a
\* line refuses every later use.
SPECIFICATION StoresSpec
CONSTANTS
  none = none
  torn = torn
  Procs = {p1, p2}
  Ids = {e1, e2, e3}
  Bodies = {b1}
  NoRow = NoRow
  NoProc = NoProc
  Genesis = Genesis
  Authors = {a1, a2}
  Theses <- MCTheses
  NoThesis = none
  Evaluators = {v1, v2}
  Candidates <- MCCandidates
  Cases <- MCCases
  Decisions <- MCDecisions
  Times = {1, 2, 3, 4}
  Rankings <- MCRankings
  NoRanking = none
  NoDecision = none
  Ingesters = {i1, i2}
  Builders = {s1}
  Company <- MCCompany
  Filings <- MCFilings
  IngestRequests <- MCRequests
  Universes <- MCUniverses
  Cutoffs = {2}
  MaxRows = 2
  LastTime = 2
  Torn = torn
  NoSnapshot = none
SYMMETRY MCAlike
INVARIANTS
  Paired
  NoneUnchained
  Acknowledged
  OneLineOfHistory
  DecidedOnce
  NoFutureMemory
  VerifiedSnapshotComplete
PROPERTY ActsAtOnce
CHECK_DEADLOCK FALSE
