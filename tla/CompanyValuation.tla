--------------------------- MODULE CompanyValuation ---------------------------
(***************************************************************************)
(* The deterministic half of company research (aegis/fundamentals): what   *)
(* the inputs must satisfy, the management record, the operating cases,    *)
(* which valuations exist, and which calculation rests on which.           *)
(*                                                                         *)
(* A bundle is a request, a filing snapshot and the other inputs.  Driver  *)
(* values and probabilities are in tenths, rates in thousandths, multiples *)
(* whole.  Left out: discounted values and the scores, which are real      *)
(* numbers (CompanyResearch leaves open what they say), hashes and texts.  *)
(***************************************************************************)
EXTENDS FilingStatements, SequencesExt

CONSTANT NoValue   \* an optional field that is None

Scenario == {"bear", "base", "bull"}
DriverName ==
  {"revenue_growth", "operating_margin", "tax_rate", "reinvestment_rate", "share_dilution"}
IssuerField ==
  {"market_price", "drivers", "guidance", "management_actions", "business_industry",
   "catalysts_risks", "expected_volatility"}
Field == IssuerField \union
  {"discount_rate", "terminal_assumptions", "scenario_probabilities", "peers", "calibration"}
Method == {"ev_revenue", "ev_ebitda", "ev_ebit", "price_earnings", "price_fcf"}

Known(time, asOf) == time # NoValue /\ time <= asOf

-----------------------------------------------------------------------------
(* The contracts of the inputs. *)
EvidenceAccepted(e) ==
  /\ \A r, q \in e.records : r.id = q.id => r = q
  /\ \A r \in e.records : r.available <= e.asOf /\ (e.mode # "live_research" => r.safe)

WellFormedGuidance(g) ==
  /\ g.lower <= g.upper
  /\ (g.actual = NoValue) = (g.actualAt = NoValue)
  /\ g.actual # NoValue => g.issued < g.actualAt

WellFormedAction(a) ==
  /\ a.announced <= a.available
  /\ (a.completedAt = NoValue) = (a.completionKnown = NoValue)
  /\ a.completedAt # NoValue =>
       a.announced <= a.completedAt /\ a.completedAt <= a.completionKnown
  /\ (a.outcome = NoValue) = (a.outcomeAt = NoValue)
  /\ (a.outcome = NoValue) = (a.outcomeKnown = NoValue)
  /\ a.outcome # NoValue =>
       /\ a.completedAt # NoValue
       /\ a.completedAt <= a.outcomeAt /\ a.outcomeAt <= a.outcomeKnown
       /\ a.completionKnown <= a.outcomeKnown

(* FundamentalResearchInputs: every input is backed by evidence that names *)
(* its entity, and nothing in it was completed after it was available.     *)
Cited(i, field) == {r \in i.evidence.records : r.id \in i.fields[field]}
FieldsBacked(i) ==
  /\ DOMAIN i.fields = Field
  /\ \A field \in Field :
       /\ i.fields[field] # {}
       /\ i.fields[field] \subseteq {r.id : r \in i.evidence.records}
  /\ \A field \in IssuerField : \A r \in Cited(i, field) : i.ticker \in r.entities
  /\ \A item \in i.drivers : item.evidence \subseteq i.fields["drivers"]
  /\ \A item \in i.guidance : item.evidence \subseteq i.fields["guidance"]
  /\ \A item \in i.actions : item.evidence \subseteq i.fields["management_actions"]
  /\ \A peer \in i.peers :
       /\ peer.evidence \subseteq i.fields["peers"]
       /\ \E r \in Cited(i, "peers") : r.id \in peer.evidence /\ peer.ticker \in r.entities

InputsAccepted(i) ==
  /\ EvidenceAccepted(i.evidence)
  /\ \E r \in i.evidence.records : i.ticker \in r.entities
  /\ \A r \in i.evidence.records : ~r.flagged /\ r.confident
  /\ FieldsBacked(i)
  /\ i.available <= i.evidence.asOf
  /\ i.calibration.available <= i.available
  /\ \A g \in i.guidance : WellFormedGuidance(g)
  /\ \A a \in i.actions :
       /\ WellFormedAction(a)
       /\ a.completionKnown = NoValue \/ a.completionKnown <= i.available
       /\ a.outcomeKnown = NoValue \/ a.outcomeKnown <= i.available

(* The first checks of _compute_preliminary_research. *)
EvidenceMode(mode) == IF mode = "current_research" THEN "live_research" ELSE mode
Eligible(b) ==
  /\ b.inputs.request = b.request.id /\ b.inputs.evidence.request = b.request.id
  /\ b.inputs.ticker = b.request.ticker
  /\ b.inputs.evidence.mode = EvidenceMode(b.request.mode)
  /\ b.inputs.available <= b.request.asOf /\ b.inputs.evidence.asOf = b.request.asOf
  /\ b.request.horizon \in b.inputs.calibration.min .. b.inputs.calibration.max

(* route_archetype *)
Archetype(i) ==
  CASE i.sector = "financial"   -> "bank_financial"
    [] i.sector = "real_estate" -> "reit"
    [] i.sector = "commodity"   -> "cyclical_commodity"
    [] i.sector = "other" /\ ~i.profitable -> "pre_profit"
    [] i.sector = "other" /\ i.profitable /\ i.subscription >= 7 -> "saas_subscription"
    [] OTHER -> "general_operating_company"
Supported(i) == Archetype(i) = "general_operating_company"

-----------------------------------------------------------------------------
(* evaluate_management; a mean is a sum and a count. *)
Issued(b) == {g \in b.inputs.guidance : g.issued <= b.snapshot.asOf}

(* Mutant: a result counts as soon as it is in the record. *)
MaturedOnArrival(b) == {g \in Issued(b) : g.actual # NoValue}
Matured(b) ==
  {g \in Issued(b) : g.actual # NoValue /\ Known(g.actualAt, b.snapshot.asOf)}

Announced(b, kind) ==
  {a \in b.inputs.actions : a.kind = kind /\ a.available <= b.snapshot.asOf}
Followed(b) ==
  {a \in Announced(b, "capital_allocation_promise") :
     Known(a.completionKnown, b.snapshot.asOf)}
Outcomes(b, kind) ==
  {a \in Announced(b, kind) : a.outcome # NoValue /\ Known(a.outcomeKnown, b.snapshot.asOf)}

TwiceBias(g) == 2 * g.actual - g.lower - g.upper
Deviation(n) == IF n < 0 THEN -n ELSE n

Track(b) ==
  [guidance  |-> Issued(b),
   hits      |-> Cardinality({g \in Matured(b) : g.actual \in g.lower .. g.upper}),
   matured   |-> Cardinality(Matured(b)),
   bias      |-> Total([g \in Matured(b) |-> TwiceBias(g)]),
   error     |-> Total([g \in Matured(b) |-> Deviation(TwiceBias(g))]),
   dilution  |-> <<Adjusted(b.snapshot, Current(b.snapshot))["diluted_shares"],
                   Adjusted(b.snapshot, Previous(b.snapshot))["diluted_shares"]>>,
   outcomes  |-> [kind \in {"acquisition", "buyback"} |->
                    <<Total([a \in Outcomes(b, kind) |-> a.outcome]),
                      Cardinality(Outcomes(b, kind))>>],
   promises  |-> Cardinality(Announced(b, "capital_allocation_promise")),
   kept      |-> Cardinality(Followed(b)),
   revisions |-> Cardinality({g \in Issued(b) : g.revises}),
   evidence  |-> UNION {x.evidence : x \in Issued(b) \union
                          {a \in b.inputs.actions : a.available <= b.snapshot.asOf}}]

-----------------------------------------------------------------------------
(* forecast_operating_case and validate_scenario_ordering *)
Drivers(b, scenario) == {d \in b.inputs.drivers : d.scenario = scenario}
Years(b, scenario) == {d.year : d \in Drivers(b, scenario)}
Assumed(b, scenario, year, name) ==
  (CHOOSE d \in Drivers(b, scenario) : d.year = year /\ d.name = name).value

WithinBounds(d) ==
  CASE d.name = "revenue_growth"    -> d.value > -10
    [] d.name = "operating_margin"  -> d.value \in -10..10
    [] d.name = "tax_rate"          -> d.value \in 0..10
    [] d.name = "reinvestment_rate" -> d.value \in -20..20
    [] d.name = "share_dilution"    -> d.value \in -9..10

Forecastable(b, scenario) ==
  /\ \A d, e \in Drivers(b, scenario) : d.year = e.year /\ d.name = e.name => d = e
  /\ Cardinality(Years(b, scenario)) >= 2
  /\ \A year \in Years(b, scenario) :
       {d.name : d \in {e \in Drivers(b, scenario) : e.year = year}} = DriverName
  /\ \A d \in Drivers(b, scenario) : WithinBounds(d)
  /\ b.inputs.growth[scenario] \in -999..999
  /\ b.inputs.roic[scenario] > 0

(* Each year multiplies by tenths, so equal years are in equal units. *)
Compounded(b, scenario, name, start) ==
  LET at[year \in Years(b, scenario)] ==
        LET before == {y \in Years(b, scenario) : y < year}
        IN  (10 + Assumed(b, scenario, year, name))
              * IF before = {} THEN start ELSE at[Max(before)]
  IN  at

Revenue(b, scenario) ==
  Compounded(b, scenario, "revenue_growth",
             Adjusted(b.snapshot, Current(b.snapshot))["revenue"])
Margin(b, scenario, year) == Assumed(b, scenario, year, "operating_margin")
FreeCashToFirm(b, scenario, year) ==
  Revenue(b, scenario)[year] * Margin(b, scenario, year)
    * (10 - Assumed(b, scenario, year, "tax_rate"))
    * (10 - Assumed(b, scenario, year, "reinvestment_rate"))

ScenariosOrdered(b) ==
  /\ \A scenario \in Scenario : Years(b, scenario) = Years(b, "base")
  /\ \A pair \in {<<"bear", "base">>, <<"base", "bull">>} : \A year \in Years(b, "base") :
       /\ Revenue(b, pair[1])[year] <= Revenue(b, pair[2])[year]
       /\ Margin(b, pair[1], year) <= Margin(b, pair[2], year)
       /\ FreeCashToFirm(b, pair[1], year) <= FreeCashToFirm(b, pair[2], year)

-----------------------------------------------------------------------------
(* _enterprise_value, and the grid of calculate_dcf: a point is skipped    *)
(* only for its rate and for a growth that reaches it.                     *)
Discountable(rate, growth, roic) ==
  /\ rate \in 1..999
  /\ -1000 < growth /\ growth < rate
  /\ growth > 0 => roic > growth

Points(rate, growth) ==
  {p \in {<<rate + r, growth + g>> : r \in {-10, 0, 10}, g \in {-5, 0, 5}} :
     p[1] > 0 /\ p[2] < p[1]}
Grid(b, scenario) == Points(b.inputs.discount, b.inputs.growth[scenario])

Discounted(b, scenario) ==
  /\ Discountable(b.inputs.discount, b.inputs.growth[scenario], b.inputs.roic[scenario])
  /\ \A p \in Grid(b, scenario) : Discountable(p[1], p[2], b.inputs.roic[scenario])

(* combine_scenarios, but for the order of the values. *)
ProbabilitiesSumToOne(b) ==
  /\ \A scenario \in Scenario : b.inputs.probabilities[scenario] >= 0
  /\ Total([scenario \in Scenario |-> b.inputs.probabilities[scenario]]) = 10

-----------------------------------------------------------------------------
(* calculate_comparables: equity values, times 4 and the number of shares. *)
Multiples(peers, method) ==
  LET sorted == SetToSortSeq({p \in peers : p.multiples[method] # NoValue},
                  LAMBDA p, q : \/ p.multiples[method] < q.multiples[method]
                                \/ p.multiples[method] = q.multiples[method] /\ p.id < q.id)
  IN  [i \in DOMAIN sorted |-> sorted[i].multiples[method]]
Usable(peers) == {method \in Method : Len(Multiples(peers, method)) >= 2}

TwiceMedian(s) == s[(Len(s) + 1) \div 2] + s[Len(s) \div 2 + 1]

Target(v, method) ==
  CASE method = "ev_revenue"     -> v["revenue"]
    [] method = "ev_ebitda"      -> Ebitda(v)
    [] method = "ev_ebit"        -> v["operating_income"]
    [] method = "price_earnings" -> v["net_income"]
    [] method = "price_fcf"      -> FreeCash(v)

Implied(v, method, twice) ==
  twice * Target(v, method) -
    IF method \in {"ev_revenue", "ev_ebitda", "ev_ebit"} THEN 2 * NetDebt(v) ELSE 0

MethodRange(v, method, multiples) ==
  [low  |-> Implied(v, method, 2 * multiples[1]),
   mid  |-> Implied(v, method, TwiceMedian(multiples)),
   high |-> Implied(v, method, 2 * Last(multiples))]

MethodRanges(peers, v) ==
  [method \in Usable(peers) |-> MethodRange(v, method, Multiples(peers, method))]

RangeOver(ranges) ==
  LET mids == SetToSortSeq(DOMAIN ranges, LAMBDA x, y : ranges[x].mid < ranges[y].mid)
  IN  [low  |-> 2 * Min({ranges[method].low : method \in DOMAIN ranges}),
       mid  |-> TwiceMedian([i \in DOMAIN mids |-> ranges[mids[i]].mid]),
       high |-> 2 * Max({ranges[method].high : method \in DOMAIN ranges})]
ComparableRange(b) ==
  RangeOver(MethodRanges(b.inputs.peers, Adjusted(b.snapshot, Current(b.snapshot))))

InOrder(range) == range.low <= range.mid /\ range.mid <= range.high
Comparable(b) == Usable(b.inputs.peers) # {} /\ InOrder(ComparableRange(b))
=============================================================================
