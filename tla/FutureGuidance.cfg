\* The same bundles; some know a result and an action of a later date.
SPECIFICATION ResearchSpec
CONSTANTS
  Tickers = {"A", "B"}
  Evidence <- MCEvidence
  Citations <- MCCitations
  Syntheses <- MCSyntheses
  none = none
  pending = pending
  Line <- MCLine
  NoFact = none
  NoValue = none
  Bundle <- MCBundle
  Role = {"financial_quality", "management_guidance", "valuation"}
  Reading = {"supportive", "neutral", "cautionary"}
  Foreign = "foreign"
  Pending = pending
CHECK_DEADLOCK FALSE
INVARIANT OnlyKnownInputs
