\* The desk's case has two tickers and two pieces of evidence; the company
\* has three specialists.  A graph that is done stops.
SPECIFICATION ResearchSpec
CONSTANTS
  Tickers = {"A", "B"}
  Evidence <- MCEvidence
  Citations <- MCCitations
  Syntheses <- MCSyntheses
  none = none
  pending = pending
  Line <- MCLine
  NoFact = none
  NoValue = none
  Bundle <- MCBundle
  Role = {"financial_quality", "management_guidance", "valuation"}
  Reading = {"supportive", "neutral", "cautionary"}
  Foreign = "foreign"
  Pending = pending
INVARIANTS
  FailClosed
  OnlyApprovedDownstream
  StableBasis
  ReleasedAsAudited
  NoHindsight
  LineageGrounded
  RestatementsFollowed
PROPERTY ResearchEnds
CHECK_DEADLOCK FALSE
