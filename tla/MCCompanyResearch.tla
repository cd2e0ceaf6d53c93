-------------------------- MODULE MCCompanyResearch --------------------------
(***************************************************************************)
(* Bundles for CompanyResearch: one complete company with two fiscal       *)
(* years, its variants, and three of the nine specialists.                 *)
(***************************************************************************)
EXTENDS CompanyResearch

CONSTANTS none, pending

MCLine ==
  [concept \in Required \union {"operating_income", "working_capital", "ShareBasedCompensation"} |->
     IF concept = "ShareBasedCompensation" THEN "stock_based_compensation" ELSE concept]

LineOrder ==
  <<"revenue", "cost_of_revenue", "operating_expenses", "interest_expense", "tax_expense",
    "net_income", "diluted_shares", "cash", "current_assets", "current_liabilities",
    "total_assets", "total_liabilities", "total_debt", "total_equity", "cash_from_operations",
    "cash_flow_working_capital_change", "other_operating_cash_adjustments",
    "capital_expenditure", "depreciation_amortization", "stock_based_compensation",
    "acquisitions", "dividends", "share_repurchases", "share_issuance">>
LineNumber(line) == CHOOSE i \in DOMAIN LineOrder : LineOrder[i] = line

Figures ==
  [revenue |-> 200, cost_of_revenue |-> 80, operating_expenses |-> 60, interest_expense |-> 5,
   tax_expense |-> 10, net_income |-> 40, diluted_shares |-> 10, cash |-> 20,
   current_assets |-> 60, current_liabilities |-> 30, total_assets |-> 200,
   total_liabilities |-> 80, total_debt |-> 40, total_equity |-> 120,
   cash_from_operations |-> 50, cash_flow_working_capital_change |-> -5,
   other_operating_cash_adjustments |-> 0, capital_expenditure |-> 15,
   depreciation_amortization |-> 12, stock_based_compensation |-> 3, acquisitions |-> 4,
   dividends |-> 2, share_repurchases |-> 1, share_issuance |-> 0]

Fact(id, concept, period, value) ==
  [id |-> id, ticker |-> "ACME", concept |-> concept, period |-> period, revision |-> 0, supersedes |-> NoFact,
   accepted |-> 2, available |-> 2, value |-> value,
   unit |-> IF concept = "diluted_shares" THEN "shares" ELSE "USD",
   annual |-> TRUE, days |-> IF concept \in Instant THEN 0 ELSE 365,
   scope |-> "continuing_operations", oneTime |-> FALSE]

Filed(period, figures) ==
  {Fact(100 * period + LineNumber(line), line, period, figures[line]) : line \in DOMAIN figures}

Company == Filed(1, Figures) \union Filed(2, [Figures EXCEPT !["revenue"] = 220,
  !["cost_of_revenue"] = 90, !["operating_expenses"] = 65])

OneTimeIn(facts, lines) ==
  {[f EXCEPT !.oneTime = @ \/ (f.concept \in lines /\ f.period = 2)] : f \in facts}

Restated(facts, line, id, value) ==
  facts \union
    {[f EXCEPT !.id = id, !.revision = 1, !.supersedes = f.id, !.accepted = 3,
               !.available = 3, !.value = value] :
       f \in {g \in facts : g.concept = line /\ g.period = 2}}

FiledEvidence == {[id |-> "filing", available |-> 3, entities |-> {"ACME"}, flagged |-> FALSE,
              confident |-> TRUE, safe |-> TRUE],
             [id |-> "peers", available |-> 3, entities |-> {"PEER1", "PEER2"},
              flagged |-> FALSE, confident |-> TRUE, safe |-> TRUE]}

Driver(scenario, year, name, value) ==
  [id |-> <<scenario, year, name>>, scenario |-> scenario, year |-> year, name |-> name,
   value |-> value, evidence |-> {"filing"}]
Case(scenario, growth, margin) ==
  UNION {{Driver(scenario, y, "revenue_growth", growth), Driver(scenario, y, "tax_rate", 2),
          Driver(scenario, y, "operating_margin", margin),
          Driver(scenario, y, "reinvestment_rate", 3),
          Driver(scenario, y, "share_dilution", 0)} : y \in {1, 2}}

Peer(id, ticker, multiple) ==
  [id |-> id, ticker |-> ticker, evidence |-> {"peers"},
   multiples |-> [method \in Method |-> IF method = "price_fcf" THEN NoValue ELSE multiple]]

EarningsOnly(peer) ==
  [peer EXCEPT !.multiples =
     [method \in Method |-> IF method = "price_earnings" THEN @[method] ELSE NoValue]]

Guidance(id, issued, actual, actualAt) ==
  [id |-> id, lower |-> 4, upper |-> 6, issued |-> issued, actual |-> actual,
   actualAt |-> actualAt, revises |-> FALSE, evidence |-> {"filing"}]

Action(id, kind, available) ==
  [id |-> id, kind |-> kind, announced |-> 1, available |-> available,
   completedAt |-> NoValue, completionKnown |-> NoValue, outcomeAt |-> NoValue,
   outcomeKnown |-> NoValue, outcome |-> NoValue, evidence |-> {"filing"}]

Inputs ==
  [request |-> "request", ticker |-> "ACME", available |-> 4,
   evidence |-> [request |-> "request", asOf |-> 5, mode |-> "replay", records |-> FiledEvidence],
   fields |-> [field \in Field |-> IF field = "peers" THEN {"peers"} ELSE {"filing"}],
   sector |-> "other", subscription |-> 2, profitable |-> TRUE,
   discount |-> 90, growth |-> [s \in Scenario |-> 20], roic |-> [s \in Scenario |-> 120],
   probabilities |-> [s \in Scenario |-> IF s = "base" THEN 4 ELSE 3],
   drivers |-> Case("bear", 0, 2) \union Case("base", 1, 3) \union Case("bull", 2, 4),
   peers |-> {Peer(1, "PEER1", 8), Peer(2, "PEER2", 10)},
   guidance |-> {Guidance("met", 2, 5, 3), Guidance("unknown", 2, 9, 6),
                 Guidance("later", 6, NoValue, NoValue)},
   actions |-> {[Action("deal", "acquisition", 2) EXCEPT !.completedAt = 2,
                   !.completionKnown = 3, !.outcomeAt = 3, !.outcomeKnown = 4, !.outcome = 1],
                Action("promise", "capital_allocation_promise", 3),
                Action("rumour", "buyback", 7)},
   calibration |-> [available |-> 4, min |-> 30, max |-> 365]]

Plain ==
  [request  |-> [id |-> "request", ticker |-> "ACME", asOf |-> 5, horizon |-> 90,
                 mode |-> "replay"],
   snapshot |-> [ticker |-> "ACME", asOf |-> 5, facts |-> Company],
   inputs   |-> Inputs]

With(facts) == [Plain EXCEPT !.snapshot.facts = facts]

MCBundle ==
  [plain        |-> Plain,
   one_time     |-> With(OneTimeIn(Company, {"operating_expenses", "stock_based_compensation"})),
   restated     |-> With(Restated(Company, "dividends", 300, 1)),
   amended      |-> With(Restated(OneTimeIn(Company, {"acquisitions"}), "acquisitions", 300, 6)),
   reordered    |-> With({[f EXCEPT !.accepted = IF @ = 3 THEN 1 ELSE @] :
                            f \in Restated(Company, "dividends", 300, 1)}),
   other_filer  |-> With({[f EXCEPT !.ticker = IF f.id = 102 THEN "PEER1" ELSE @] : f \in Company}),
   bank         |-> [Plain EXCEPT !.inputs.sector = "financial"],
   start_up     |-> [Plain EXCEPT !.inputs.profitable = FALSE],
   saas         |-> [Plain EXCEPT !.inputs.subscription = 8],
   late         |-> [Plain EXCEPT !.inputs.evidence.records = {[r EXCEPT !.available = 6] : r \in @}],
   injected     |-> [Plain EXCEPT !.inputs.evidence.records = {[r EXCEPT !.flagged = TRUE] : r \in @}],
   unbacked     |-> [Plain EXCEPT !.inputs.fields["drivers"] = {"peers"}],
   early_action |-> [Plain EXCEPT !.inputs.available = 3],
   other_mode   |-> [Plain EXCEPT !.request.mode = "historical"],
   long         |-> [Plain EXCEPT !.request.horizon = 400],
   incomplete   |-> With({f \in Company : f.concept # "dividends"}),
   unreconciled |-> With(Restated(Company, "cash_from_operations", 300, 60)),
   no_earnings  |-> With(OneTimeIn(Company, {"net_income"})),
   overlapping  |-> [Plain EXCEPT !.inputs.drivers =
                       Case("bear", 1, 3) \union Case("base", 0, 3) \union Case("bull", 2, 4)],
   thin_returns |-> [Plain EXCEPT !.inputs.roic = [s \in Scenario |-> 24]],
   cash_burn    |-> [With(Restated(Restated(Company, "net_income", 300, -60),
                                   "cash_from_operations", 301, -50))
                       EXCEPT !.inputs.peers = {EarningsOnly(p) : p \in @}]]
=============================================================================
