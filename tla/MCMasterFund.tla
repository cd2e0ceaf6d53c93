----------------------------- MODULE MCMasterFund -----------------------------
(* Four funds over three tickers in two sectors.  Two are single-strategy,  *)
(* one long-only and one long-short, with caps in tenths near those of the  *)
(* policy files.  Two have a mandate of a trend pod with two models and a   *)
(* market-neutral pod with one: static with partial overlap discount, and   *)
(* inverse-volatility with a full one.  A third mandate declares a model in *)
(* two pods.  A weight of 1.0 is 4 in a pod and 16 in the fund.             *)
EXTENDS MasterFund, TLC

CONSTANTS t1, t2, t3

LongOnly ==
  [one |-> 10, maxPosition |-> 4, maxGross |-> 9, maxNet |-> 9, maxTurnover |-> 3,
   minCash |-> 1, maxSector |-> 6, maxStrategy |-> 6,
   allowShorting |-> FALSE, allowLeverage |-> FALSE]

LongShort ==
  [one |-> 10, maxPosition |-> 5, maxGross |-> 9, maxNet |-> 3, maxTurnover |-> 2,
   minCash |-> 1, maxSector |-> 4, maxStrategy |-> 6,
   allowShorting |-> TRUE, allowLeverage |-> FALSE]

Institutional ==
  [one |-> 16, maxPosition |-> 5, maxGross |-> 14, maxNet |-> 9, maxTurnover |-> 6,
   minCash |-> 1, maxSector |-> 8, maxStrategy |-> 3,
   allowShorting |-> TRUE, allowLeverage |-> FALSE]

MCPolicies == {LongOnly, LongShort, Institutional}

MCSectorOf == [t \in {t1, t2, t3} |-> IF t = t3 THEN "energy" ELSE "technology"]
MCCases == {{t1, t2, t3}, {t1, t3}}
MCAllocations == {[s \in {"only"} |-> 5], [s \in {"only"} |-> 10]}

MCTargets == (LongOnly :> {-2, 0, 3, 8}) @@ (LongShort :> {-6, 4, 7}) @@ (Institutional :> {})
MCDrifts  == (LongOnly :> {1, 3, 7}) @@ (LongShort :> {-7, -2, 2, 5}) @@ (Institutional :> {-3, 7})

-----------------------------------------------------------------------------
TrendPod ==
  [capital |-> 3, models |-> ("slow" :> {"price"}) @@ ("fast" :> {"price"}),
   minCalibration |-> 1, minQuality |-> 1, overlap |-> "partial",
   method |-> "forecast_weighted", grossTarget |-> 4, neutral |-> FALSE,
   maxGross |-> 3, maxPosition |-> 2]

HedgePod ==
  [capital |-> 1, models |-> "spread" :> {},
   minCalibration |-> 1, minQuality |-> 1, overlap |-> "partial",
   method |-> "maximum_diversification", grossTarget |-> 4, neutral |-> TRUE,
   maxGross |-> 3, maxPosition |-> 3]

StaticMandate ==
  [one |-> 4, maxPod |-> 4, allocator |-> "static", policy |-> Institutional,
   pods |-> ("trend" :> TrendPod) @@ ("hedge" :> HedgePod)]

VolatilityMandate ==
  [StaticMandate EXCEPT !.allocator = "inverse_volatility",
     !.pods = ("trend" :> [TrendPod EXCEPT !.overlap = "full"])
           @@ ("hedge" :> [HedgePod EXCEPT !.neutral = FALSE, !.method = "equal_weight"])]

SharedModelMandate ==
  [StaticMandate EXCEPT !.pods =
     ("trend" :> TrendPod) @@ ("hedge" :> [HedgePod EXCEPT !.models = "slow" :> {"price"}])]

MCMandates ==
  [static |-> StaticMandate, volatility |-> VolatilityMandate, shared_model |-> SharedModelMandate]

-----------------------------------------------------------------------------
(* Every model has a view of t1 and t2, the spread model also of t3; the    *)
(* other dossiers change one thing, and one also how the pods' volatilities *)
(* compare.                                                                 *)
Good == [calibration |-> 2, regime |-> 1, quality |-> 2]

Abstain(f) == [f EXCEPT !.abstained = TRUE, !.bound = FALSE, !.cites = {}]

View(m, t) ==
  LET opinion == [model |-> m, ticker |-> t, abstained |-> FALSE, current |-> TRUE, bound |-> TRUE,
                  features |-> IF m = "spread" THEN {} ELSE {"price"}, scores |-> Good,
                  cites |-> {"filing"}, risky |-> TRUE]
  IN  IF m # "spread" /\ t = t3 THEN Abstain(opinion) ELSE opinion

Plain ==
  [forecasts |-> {View(m, t) : m \in {"slow", "fast", "spread"}, t \in {t1, t2, t3}},
   evidence |-> ("filing" :> -1) @@ ("late" :> 1),
   bundle |-> [current |-> TRUE, eligible |-> {t1, t2, t3}],
   bars |-> (t1 :> 1..5) @@ (t2 :> {1, 2, 4, 5}) @@ (t3 :> 1..5),
   vol |-> (t1 :> 1) @@ (t2 :> 2) @@ (t3 :> 1)]

Change(d, g(_)) == [d EXCEPT !.forecasts = {g(f) : f \in d.forecasts}]

TrendAbstains(f) == IF f.model # "spread" THEN Abstain(f) ELSE f
HedgeAbstains(f) == IF f.model = "spread" THEN Abstain(f) ELSE f
AllAbstain(f) == Abstain(f)
(* The model that has a view of t2 alone is poorly calibrated.              *)
Uncalibrated(f) ==
  IF f.model = "fast" THEN [f EXCEPT !.scores.calibration = 0]
  ELSE IF f.ticker = t2 THEN Abstain(f) ELSE f
ScoresDiffer(f) == IF f.model = "fast" /\ f.ticker = t1 THEN [f EXCEPT !.scores.regime = 0] ELSE f
OldBundle(f) == IF f.model = "slow" THEN [f EXCEPT !.bound = FALSE] ELSE f
CitesLate(f) == IF f.model = "slow" /\ f.ticker = t1 THEN [f EXCEPT !.cites = {"late"}] ELSE f
NoVolatility(f) == IF f.model = "spread" THEN [f EXCEPT !.risky = FALSE] ELSE f
OtherFeatures(f) == IF f.model = "slow" THEN [f EXCEPT !.features = {"volume"}] ELSE f
OtherHorizon(f) == IF f.ticker = t2 THEN [f EXCEPT !.current = FALSE] ELSE f
Undeclared(f) == IF f.model = "fast" THEN [f EXCEPT !.model = "rumour"] ELSE f

MCDossiers ==
  [plain |-> Plain, trend_abstains |-> Change(Plain, TrendAbstains),
   hedge_abstains |-> Change(Plain, HedgeAbstains), all_abstain |-> Change(Plain, AllAbstain),
   uncalibrated |-> Change(Plain, Uncalibrated), scores_differ |-> Change(Plain, ScoresDiffer),
   old_bundle |-> Change(Plain, OldBundle), cites_late |-> Change(Plain, CitesLate),
   no_volatility |-> Change(Plain, NoVolatility), other_features |-> Change(Plain, OtherFeatures),
   other_horizon |-> Change(Plain, OtherHorizon), undeclared |-> Change(Plain, Undeclared),
   stormy |-> [Change(Plain, Uncalibrated) EXCEPT !.vol[t3] = 4],
   flat |-> [Plain EXCEPT !.vol = (t1 :> 0) @@ (t2 :> 0) @@ (t3 :> 1)],
   short_history |-> [Plain EXCEPT !.bars[t2] = 3..5],
   misaligned |-> [Plain EXCEPT !.bars[t2] = {1, 2, 6, 7}],
   no_bundle |-> [Plain EXCEPT !.bundle.current = FALSE],
   ineligible |-> [Plain EXCEPT !.bundle.eligible = {t1, t3}]]
=============================================================================
