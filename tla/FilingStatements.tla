--------------------------- MODULE FilingStatements ---------------------------
(***************************************************************************)
(* Filing facts, the annual statements normalised from them                *)
(* (aegis/fundamentals/normalization.py) and the metrics that can be       *)
(* computed on the statements (metrics.py).                                *)
(*                                                                         *)
(* A snapshot is a set of facts, a company and a cutoff.  Amounts are      *)
(* whole and below 10^8, so that the tolerance of the reconciliations is   *)
(* zero.  Hashes and the forms of dates and units are left out: a fact is  *)
(* "annual" or not, in its unit or not, and spans 0 days or a number.      *)
(* The adjustments a caller may supply are left out, nothing in aegis does.*)
(***************************************************************************)
EXTENDS Integers, FiniteSets, Sequences, FiniteSetsExt, Functions

CONSTANTS
  Line,     \* XBRL concept -> line item, for the concepts in _CONCEPTS
  NoFact    \* no superseded fact

Required ==
  {"revenue", "cost_of_revenue", "operating_expenses", "interest_expense", "tax_expense",
   "net_income", "diluted_shares", "cash", "current_assets", "current_liabilities",
   "total_assets", "total_liabilities", "total_debt", "total_equity", "cash_from_operations",
   "cash_flow_working_capital_change", "other_operating_cash_adjustments",
   "capital_expenditure", "depreciation_amortization", "stock_based_compensation",
   "acquisitions", "dividends", "share_repurchases", "share_issuance"}

Instant ==
  {"cash", "current_assets", "current_liabilities", "total_assets", "total_liabilities",
   "total_debt", "total_equity", "working_capital"}

Adjustable ==
  {"cost_of_revenue", "operating_expenses", "interest_expense", "tax_expense", "net_income",
   "cash_from_operations", "cash_flow_working_capital_change",
   "other_operating_cash_adjustments", "capital_expenditure", "stock_based_compensation",
   "acquisitions"}

Signed ==
  {"tax_expense", "net_income", "total_equity", "cash_from_operations",
   "cash_flow_working_capital_change", "other_operating_cash_adjustments"}

-----------------------------------------------------------------------------
(* FilingFact and RawFilingSnapshot *)
WellFormedFact(f) ==
  /\ f.accepted <= f.available
  /\ (f.revision = 0) = (f.supersedes = NoFact)

Restates(f, g) ==
  /\ g.id = f.supersedes
  /\ g.ticker = f.ticker /\ g.concept = f.concept /\ g.period = f.period
  /\ g.revision < f.revision /\ g.available < f.available

SnapshotAccepted(s) ==
  /\ s.facts # {}
  /\ \A f \in s.facts : WellFormedFact(f) /\ f.ticker = s.ticker /\ f.available <= s.asOf
  /\ \A f, g \in s.facts : f.id = g.id => f = g
  /\ \A f \in s.facts : f.revision # 0 => \E g \in s.facts : Restates(f, g)

-----------------------------------------------------------------------------
(* _select *)
Continuing(s) ==
  {f \in s.facts : f.scope = "continuing_operations" /\ f.concept \in DOMAIN Line}

(* Mutant: the time of acceptance is compared before the revision.         *)
AcceptedLater(f, g) ==
  \/ f.accepted > g.accepted
  \/ f.accepted = g.accepted /\ f.revision > g.revision
  \/ f.accepted = g.accepted /\ f.revision = g.revision /\ f.id > g.id
Newer(f, g) ==
  \/ f.revision > g.revision
  \/ f.revision = g.revision /\ f.accepted > g.accepted
  \/ f.revision = g.revision /\ f.accepted = g.accepted /\ f.id > g.id

Lines(s, period) == {Line[f.concept] : f \in {g \in Continuing(s) : g.period = period}}
Periods(s) == {f.period : f \in Continuing(s)}

Selected(s, period, line) ==
  LET candidates == {f \in Continuing(s) : f.period = period /\ Line[f.concept] = line}
  IN  CHOOSE f \in candidates : \A g \in candidates : g = f \/ Newer(f, g)

(* _validate_dimensions *)
Dimensioned(f, line) ==
  /\ f.unit = IF line = "diluted_shares" THEN "shares" ELSE "USD"
  /\ f.annual
  /\ IF line \in Instant THEN f.days = 0 ELSE f.days \in 300..370

OperatingIncome(v) == v["revenue"] - v["cost_of_revenue"] - v["operating_expenses"]
WorkingCapital(v) == v["current_assets"] - v["current_liabilities"]

(* What is left of the operating cash flow after the items that are named. *)
CashAdjustments(v) ==
  v["cash_from_operations"] - v["net_income"] - v["depreciation_amortization"]
    - v["stock_based_compensation"] - v["cash_flow_working_capital_change"]

(* FinancialPeriod.statements_reconcile, and the ranges of its fields.     *)
StatementsReconcile(v) ==
  /\ \A line \in Required \ Signed : v[line] >= 0
  /\ v["diluted_shares"] > 0
  /\ v["operating_income"] = OperatingIncome(v)
  /\ v["current_assets"] <= v["total_assets"]
  /\ v["total_assets"] = v["total_liabilities"] + v["total_equity"]
  /\ v["other_operating_cash_adjustments"] = CashAdjustments(v)

WithDerived(v) ==
  [line \in Required \union {"operating_income", "working_capital"} |->
     CASE line = "operating_income" -> OperatingIncome(v)
       [] line = "working_capital"  -> WorkingCapital(v)
       [] OTHER                     -> v[line]]

Stated(s, period) == [line \in Lines(s, period) |-> Selected(s, period, line).value]
Reported(s, period) == WithDerived(Stated(s, period))

(* _period *)
Complete(s, period) ==
  /\ \A line \in Lines(s, period) : Dimensioned(Selected(s, period, line), line)
  /\ Required \subseteq Lines(s, period)
Reconciled(s, period) ==
  /\ \A line \in {"operating_income", "working_capital"} \intersect Lines(s, period) :
       Stated(s, period)[line] = Reported(s, period)[line]
  /\ StatementsReconcile(Reported(s, period))

Normalizable(s) ==
  /\ Cardinality(Periods(s)) >= 2
  /\ \A period \in Periods(s) : Complete(s, period) /\ Reconciled(s, period)

(* The adjustments detected in normalize_statements, one for each fact,    *)
(* whether or not it was selected.                                         *)
OneTime(s) == {f \in Continuing(s) : f.oneTime /\ Line[f.concept] \in Adjustable}
Total(table) == SumFunctionOnSet(table, DOMAIN table)
Removed(s, period, line) ==
  Total([f \in {g \in OneTime(s) : g.period = period /\ Line[g.concept] = line} |-> f.value])

(* _adjust_period: nothing validates the result. *)
Adjusted(s, period) ==
  LET reported == Reported(s, period)
      v == [line \in DOMAIN reported |-> reported[line] - Removed(s, period, line)]
  IN  [v EXCEPT !["operating_income"] = OperatingIncome(v),
                !["other_operating_cash_adjustments"] = CashAdjustments(v)]

-----------------------------------------------------------------------------
(* metrics.py: the two last periods, and the first.                        *)
Current(s) == Max(Periods(s))
Previous(s) == Max(Periods(s) \ {Current(s)})
Earlier(s) == Periods(s) \ {Current(s), Previous(s)}

FreeCash(v) == v["cash_from_operations"] - v["capital_expenditure"]
Ebitda(v) == v["operating_income"] + v["depreciation_amortization"]
Pretax(v) == v["net_income"] + v["tax_expense"]
Invested(v) == v["total_debt"] + v["total_equity"] - v["cash"]
NetDebt(v) == v["total_debt"] - v["cash"]

(* The operating income after tax, times the income before tax if that is  *)
(* not zero; the tax rate is clipped to [0, 1].                            *)
TaxedIncome(v) ==
  LET pretax == Pretax(v)
      kept == IF pretax = 0 THEN 1
              ELSE IF pretax * v["tax_expense"] <= 0 THEN pretax
              ELSE IF pretax * pretax <= pretax * v["tax_expense"] THEN 0
              ELSE pretax - v["tax_expense"]
  IN  v["operating_income"] * kept

(* What the metrics that may be undefined divide by. *)
Denominator(now, old) ==
  [eps_growth         |-> old["net_income"],
   fcf_growth         |-> FreeCash(old),
   operating_leverage |-> now["revenue"] - old["revenue"],
   roic               |-> Invested(now),
   incremental_roic   |-> Invested(now) - Invested(old),
   roe                |-> now["total_equity"] + old["total_equity"],
   asset_turns        |-> now["total_assets"] + old["total_assets"],
   reinvestment_rate  |-> TaxedIncome(now),
   cash_conversion    |-> now["net_income"],
   cfo_to_net_income  |-> now["net_income"],
   accrual_ratio      |-> now["total_assets"] + old["total_assets"],
   cash_tax_rate      |-> Pretax(now),
   debt_to_ebitda     |-> Ebitda(now),
   interest_coverage  |-> now["interest_expense"],
   current_ratio      |-> now["current_liabilities"],
   liquidity_runway_years |-> Max({0, -now["cash_from_operations"]}),
   dividend_payout    |-> now["net_income"]]

AlwaysDefined ==
  {"revenue_growth", "revenue_cagr", "gross_margin", "operating_margin", "ebitda_margin",
   "margin_change", "working_capital_to_revenue", "working_capital_change", "sbc_dilution",
   "capex_intensity", "net_debt", "debt_change", "net_buyback_yield", "dividend_yield",
   "acquisition_intensity", "fcf_per_share"}

(* The metrics with a value, which are the ones with a lineage. *)
Metrics(s) ==
  LET denominator == Denominator(Adjusted(s, Current(s)), Adjusted(s, Previous(s)))
  IN  AlwaysDefined \union {m \in DOMAIN denominator : denominator[m] # 0}
        \union IF Earlier(s) = {} THEN {} ELSE {"growth_acceleration"}

(* calculate_metrics divides by the revenue of these periods. *)
Measurable(s) ==
  \A p \in {Current(s), Previous(s), Min(Periods(s))}
             \union (IF Earlier(s) = {} THEN {} ELSE {Max(Earlier(s))}) :
    Adjusted(s, p)["revenue"] > 0
=============================================================================
