--------------------------- MODULE CalculationGraph ---------------------------
(***************************************************************************)
(* Which calculation of a company's research rests on which facts,         *)
(* calculations and assumptions: the lineage records made in               *)
(* normalization.py, metrics.py, forecasting.py, valuation.py and          *)
(* service.py (aegis/fundamentals), and the part of them each specialist   *)
(* is shown (graph.py).  Guidance and actions are named one by one, other  *)
(* assumptions by their kind.                                              *)
(*                                                                         *)
(* A calculation is named <<calculator, case, number, output>>; the number *)
(* is a period, a year, a fact or a point of the sensitivity grid.  Left   *)
(* out: values, formulas, and the mark of an equation without a solution.  *)
(***************************************************************************)
EXTENDS CompanyValuation

Calculation(id, output, facts, calculations, assumptions) ==
  [id |-> id, output |-> output, facts |-> facts, calculations |-> calculations,
   assumptions |-> assumptions]

Ids(calculations) == {c.id : c \in calculations}

-----------------------------------------------------------------------------
(* The lineage of the statements (_period, normalize_statements). *)
FactIds(s, period, lines) == {Selected(s, period, line).id : line \in lines}
GroundOf(s, period, line, parts) ==
  FactIds(s, period, IF line \in Lines(s, period) THEN {line} ELSE parts)

DerivedLineage(s) ==
  UNION {{Calculation(<<"normalize", "", p, "operating_income">>, "operating_income",
            GroundOf(s, p, "operating_income",
                     {"revenue", "cost_of_revenue", "operating_expenses"}), {}, {}),
          Calculation(<<"normalize", "", p, "working_capital">>, "working_capital",
            GroundOf(s, p, "working_capital", {"current_assets", "current_liabilities"}),
            {}, {})} : p \in Periods(s)}

AdjustmentId(f) == <<"normalize-adjustment", "", f.id, Line[f.concept]>>
OperatingAdjustments(s, period) ==
  {f \in OneTime(s) : f.period = period
                      /\ Line[f.concept] \in {"cost_of_revenue", "operating_expenses"}}

AdjustmentLineage(s) ==
  {Calculation(AdjustmentId(f), Line[f.concept], {f.id}, {}, {"normalization_adjustment"}) :
     f \in OneTime(s)}
  \union
  {Calculation(<<"normalize-adjusted", "", p, "operating_income">>, "operating_income", {},
     {<<"normalize", "", p, "operating_income">>}
       \union {AdjustmentId(f) : f \in OperatingAdjustments(s, p)}, {}) :
     p \in {q \in Periods(s) : OperatingAdjustments(s, q) # {}}}

StatementLineage(s) == DerivedLineage(s) \union AdjustmentLineage(s)

(* Every metric names all the lines of all the periods, and with them the  *)
(* adjustments, which stand among the facts as "calculation:..." there.    *)
MetricId(s, name) == <<"fundamental-metrics", "", Current(s), name>>
MetricIds(s) == {MetricId(s, name) : name \in Metrics(s)}
MetricLineage(s) ==
  LET filed == UNION {FactIds(s, p, Lines(s, p)) : p \in Periods(s)}
      adjustments == {AdjustmentId(f) : f \in OneTime(s)}
  IN  {Calculation(MetricId(s, name), name, filed, adjustments,
         IF name \in {"net_buyback_yield", "dividend_yield"} THEN {"market_price"} ELSE {}) :
         name \in Metrics(s)}

-----------------------------------------------------------------------------
(* The lineage of the operating cases and of their valuations. *)
ForecastOutput ==
  {"revenue", "operating_income", "nopat", "reinvestment", "fcff", "diluted_shares"}
ForecastIds(scenario, years) ==
  {<<"operating-forecast", scenario, year, output>> : year \in years, output \in ForecastOutput}

ForecastLineage(b, scenario) ==
  {Calculation(id, id[4], {},
     LET before == {y \in Years(b, scenario) : y < id[3]}
     IN  IF before = {} THEN Ids(StatementLineage(b.snapshot))
         ELSE ForecastIds(scenario, {Max(before)}), {"drivers"}) :
     id \in ForecastIds(scenario, Years(b, scenario))}

DcfOutput ==
  {"explicit_present_value", "terminal_value", "terminal_present_value", "enterprise_value",
   "equity_value", "value_per_share"}
DcfIds(scenario, outputs) == {<<"dcf", scenario, 0, output>> : output \in outputs}
PointId(scenario, p, name) == <<"dcf-sensitivity", scenario, 10000 * p[1] + p[2], name>>

PointLineage(scenario, years, p) ==
  LET rate == PointId(scenario, p, "discount_rate")
      growth == PointId(scenario, p, "terminal_growth")
      value == PointId(scenario, p, "enterprise_value")
  IN  {Calculation(rate, "point", {}, {}, {"discount_rate"}),
       Calculation(growth, "point", {}, {}, {"terminal_assumptions"}),
       Calculation(value, "point", {},
         ForecastIds(scenario, years) \union {rate, growth},
         {"terminal_assumptions"}),
       Calculation(PointId(scenario, p, "equity_value_per_share"), "point", {}, {value},
         {"net_debt", "diluted_shares"})}

DcfLineage(b, scenario) ==
  {Calculation(id, id[4], {}, ForecastIds(scenario, Years(b, scenario)),
     {"discount_rate", "terminal_assumptions", "net_debt", "diluted_shares"}) :
     id \in DcfIds(scenario, DcfOutput)}
  \union UNION {PointLineage(scenario, Years(b, scenario), p) : p \in Grid(b, scenario)}

ComparableIds == {<<"comparables", "", 0, label>> : label \in {"low", "mid", "high"}}
ReverseId(variable) == <<"reverse-dcf", "", 0, variable>>
ReverseIds == {ReverseId(v) : v \in {"revenue_growth", "growth_duration", "operating_margin"}}
ScenarioId(output) == <<"scenario-valuation", "", 0, output>>
ScenarioIds == {ScenarioId("probability_weighted_value"), ScenarioId("implied_return")}

ValuationLineage(b) ==
  {Calculation(id, "comparable_value", {}, MetricIds(b.snapshot), {"peers"}) :
     id \in ComparableIds}
  \union
  {Calculation(id, id[4], {}, DcfIds("base", DcfOutput),
     {"discount_rate", "terminal_assumptions", "net_debt", "diluted_shares"}) :
     id \in ReverseIds}
  \union
  {Calculation(ScenarioId("probability_weighted_value"), "probability_weighted_value", {},
     UNION {DcfIds(scenario, {"value_per_share"}) : scenario \in Scenario},
     {"scenario_probabilities"}),
   Calculation(ScenarioId("implied_return"), "scenario_implied_return", {},
     {ScenarioId("probability_weighted_value")}, {"market_price"})}

-----------------------------------------------------------------------------
(* The lineage of the management record, by what there is to record. *)
ManagementId(name) == <<"management-track", "", 0, name>>
ManagementIds(b) ==
  {ManagementId(name) :
     name \in {"dilution", "disclosure_quality", "guidance_revision_count"}
       \union (IF Matured(b) = {} THEN {}
               ELSE {"guidance_hit_rate", "guidance_bias", "guidance_error"})
       \union {n \in {"acquisition", "buyback"} : Outcomes(b, n) # {}}
       \union {n \in {"capital_allocation_promise"} : Announced(b, n) # {}}}

(* guidance_assumptions and action_assumptions: the guidance that is out at *)
(* the cutoff, but all the actions of the inputs, the later ones too.       *)
OnActions == {"acquisition", "buyback", "capital_allocation_promise"}
GuidanceAssumptions(b) ==
  IF Issued(b) = {} THEN {"none-eligible"} ELSE {g.id : g \in Issued(b)}
ActionAssumptions(b) == {a.id : a \in b.inputs.actions}

ManagementLineage(b) ==
  {IF id[4] = "dilution"
   THEN Calculation(id, id[4], {}, MetricIds(b.snapshot), {})
   ELSE Calculation(id, id[4], {}, {},
          IF id[4] \in OnActions THEN ActionAssumptions(b) ELSE GuidanceAssumptions(b)) :
     id \in ManagementIds(b)}

(* scorecard_dependency_ids: the metrics among them must have a value. *)
ScoredMetric ==
  [quality            |-> {"roic", "operating_margin"},
   growth             |-> {"revenue_growth", "margin_change"},
   profitability      |-> {"operating_margin"},
   accounting         |-> {"accrual_ratio", "sbc_dilution", "acquisition_intensity"},
   balance_sheet      |-> {"debt_to_ebitda"},
   cash_conversion    |-> {"cash_conversion"},
   capital_allocation |-> {"net_buyback_yield", "acquisition_intensity"},
   management         |-> {},
   valuation          |-> {},
   expectations_gap   |-> {},
   catalyst           |-> {},
   uncertainty        |-> {"accrual_ratio", "sbc_dilution", "acquisition_intensity"}]

Score(name) == <<"scorecard", "", 0, name>>
ScoreIds == {Score(name) : name \in DOMAIN ScoredMetric}
Scorable(s) == UNION {ScoredMetric[name] : name \in DOMAIN ScoredMetric} \subseteq Metrics(s)

(* Mutant: the uncertainty also weighs the confidence drawn from it. *)
CircularScoreInputs(b, name) ==
  {MetricId(b.snapshot, metric) : metric \in ScoredMetric[name]}
  \union (IF name = "uncertainty" THEN {<<"alpha", "", 0, "confidence">>} ELSE {})
ScoreInputs(b, name) ==
  {MetricId(b.snapshot, metric) : metric \in ScoredMetric[name]}
  \union CASE name = "management"       -> ManagementIds(b)
           [] name = "valuation"        -> {ScenarioId("implied_return")}
           [] name = "expectations_gap" -> {ReverseId("revenue_growth")}
           [] OTHER                     -> {}

ScoreLineage(b) ==
  {Calculation(Score(name), name, {}, ScoreInputs(b, name), {"inputs"}) :
     name \in DOMAIN ScoredMetric}
  \union {Calculation(Score("composite"), "fundamental_composite", {}, ScoreIds, {"inputs"})}

AlphaLineage(b) ==
  {Calculation(<<"alpha", "", 0, "expected_return">>, "expected_excess_return", {},
     {ScenarioId("implied_return"), MetricId(b.snapshot, "dividend_yield")}, {"calibration"}),
   Calculation(<<"alpha", "", 0, "probability">>, "probability_positive", {},
     UNION {DcfIds(scenario, {"value_per_share"}) : scenario \in Scenario}, {"calibration"}),
   Calculation(<<"alpha", "", 0, "confidence">>, "confidence", {},
     {Score("uncertainty")}, {"calibration"})}

(* All but the management record's. *)
AnalysisLineage(b) ==
  (UNION {StatementLineage(b.snapshot), MetricLineage(b.snapshot), ValuationLineage(b),
          ScoreLineage(b), AlphaLineage(b)})
  \union (UNION {ForecastLineage(b, scenario) \union DcfLineage(b, scenario) :
                   scenario \in Scenario})

Lineage(b) == ManagementLineage(b) \union AnalysisLineage(b)

(* The last checks of a dossier that is not abstained. *)
Closed(lineage) ==
  LET ids == Ids(lineage)
  IN  /\ Cardinality(ids) = Cardinality(lineage)
      /\ \A c \in lineage : c.calculations \subseteq ids

-----------------------------------------------------------------------------
(* _role_calculation_ids and _ROLE_SEMANTICS *)
RoleOutput ==
  [business_industry   |-> "revenue_cagr",
   financial_quality   |-> "cash_conversion",
   growth_drivers      |-> "growth",
   accounting_quality  |-> "accounting",
   balance_sheet       |-> "balance_sheet",
   capital_allocation  |-> "capital_allocation",
   management_guidance |-> "management",
   valuation           |-> "valuation",
   catalysts_risks     |-> "catalyst"]

RoleIds(b, metrics, role) ==
  LET scores == metrics \union ScoreIds \union {Score("composite")}
  IN  CASE role \in {"business_industry", "financial_quality"} -> metrics
        [] role = "growth_drivers" ->
             scores \union UNION {ForecastIds(s, Years(b, s)) : s \in Scenario}
        [] role = "management_guidance" -> scores \union ManagementIds(b)
        [] role = "valuation" ->
             scores \union ComparableIds \union ScenarioIds \union ReverseIds
               \union UNION {Ids(DcfLineage(b, s)) : s \in Scenario}
        [] role = "catalysts_risks" -> scores \union ScenarioIds
        [] OTHER -> scores

(* The calculations _semantic_interpretation finds; it wants exactly one.  *)
Matching(lineage, shown, role) ==
  {c.id : c \in {d \in lineage : d.id \in shown /\ d.output = RoleOutput[role]}}
=============================================================================
