------------------------------ MODULE StrategyPods ------------------------------
(***************************************************************************)
(* The multi-strategy proposal: forecasts of the models a mandate declares *)
(* (aegis/fund/strategy_inputs.py) are blended within each pod             *)
(* (aegis/strategy/blending.py), made into a target for each pod and       *)
(* netted into one for the fund (aegis/strategy/engine.py).                *)
(*                                                                         *)
(* A dossier is what one research call returned, with the price histories  *)
(* the cycle reads afterwards:                                             *)
(*   forecasts  a set of [model, ticker, abstained, current, bound,        *)
(*              features, scores, cites, risky]; "current" says that its   *)
(*              cutoff and horizon are the case's, "bound" that it names   *)
(*              the bundle's hash, "risky" that its volatility is positive *)
(*   evidence   the publication time of each record, 0 at the cutoff       *)
(*   bundle     [current, eligible], the sealed quant research             *)
(*   bars       the dates with a price of each ticker                      *)
(*   vol        the volatility of each ticker, 0 when its price is flat    *)
(* A pod's weight of 1.0 is mandate.one, an allocator's is too, so that a  *)
(* weight of the fund is in units of mandate.one squared.                  *)
(***************************************************************************)
EXTENDS RiskGate, FiniteSetsExt

(* FundMandate, StrategyPod, PodRiskBudget: what their validators ask.     *)
MandateCoherent(mandate) ==
  /\ mandate.allocator \in {"static", "inverse_volatility"}
  /\ IsFiniteSet(DOMAIN mandate.pods)
  /\ SumFunction([p \in DOMAIN mandate.pods |-> mandate.pods[p].capital]) <= mandate.one
  /\ \A p \in DOMAIN mandate.pods :
       LET pod == mandate.pods[p]
       IN  /\ pod.capital \in Nat /\ pod.grossTarget \in Nat
           /\ pod.maxGross \in Nat /\ pod.maxPosition \in Nat
           /\ pod.capital <= mandate.maxPod
           /\ pod.maxPosition <= pod.maxGross
           /\ DOMAIN pod.models # {}

-----------------------------------------------------------------------------
(* What a sealed provider hands over (aegis/fund/models.py).               *)

(* The forecasts of the tickers asked for, each of them forecast by some   *)
(* model, once by each, citing evidence of the dossier only.               *)
ForTickers(dossier, asked) == {f \in dossier.forecasts : f.ticker \in asked}
Identity(f) == <<f.model, f.ticker>>

ProviderAnswers(dossier, asked) ==
  LET given == ForTickers(dossier, asked)
  IN  /\ dossier.bundle.current
      /\ asked \subseteq dossier.bundle.eligible
      /\ asked \subseteq DOMAIN dossier.bars
      /\ \A f, g \in dossier.forecasts : Identity(f) = Identity(g) => f = g
      /\ {f.ticker : f \in given} = asked
      /\ \A f \in given : f.current /\ f.cites \subseteq DOMAIN dossier.evidence
      /\ \A f \in given : f.abstained \/ f.bound

-----------------------------------------------------------------------------
(* build_model_batches: bind the flat forecasts to the declared models.    *)

Models(mandate) == UNION {DOMAIN mandate.pods[p].models : p \in DOMAIN mandate.pods}

(* Nothing in FundMandate asks that two pods declare different models.     *)
ModelsUnambiguous(mandate) ==
  \A p, q \in DOMAIN mandate.pods :
    p # q => DOMAIN mandate.pods[p].models \intersect DOMAIN mandate.pods[q].models = {}

PodOf(mandate, m) == CHOOSE p \in DOMAIN mandate.pods : m \in DOMAIN mandate.pods[p].models

(* Mutant: only the forecasts that abstain are checked.                    *)
ForecastUnchecked(mandate, bundle, f) == f.abstained => f.current

ForecastAccepted(mandate, bundle, f) ==
  LET declared == mandate.pods[PodOf(mandate, f.model)].models[f.model]
  IN  /\ f.current
      /\ f.abstained \/ (f.ticker \in bundle.eligible /\ f.bound)
      /\ declared # {} => f.features = declared

(* One batch: nonempty, a ticker once, scores and features agreed on, and  *)
(* nothing cited that was published after the cutoff.                      *)
BatchAccepted(batch, evidence) ==
  LET cited == UNION {f.cites : f \in batch}
  IN  /\ batch # {}
      /\ \A f, g \in batch : f.ticker = g.ticker => f = g
      /\ \A f, g \in batch : f.scores = g.scores /\ f.features = g.features
      /\ cited \subseteq DOMAIN evidence
      /\ \A e \in cited : evidence[e] <= 0

Batch(forecasts, m) == {f \in forecasts : f.model = m}

BatchesAccepted(mandate, dossier, forecasts) ==
  /\ dossier.bundle.current
  /\ ModelsUnambiguous(mandate)
  /\ {f.model : f \in forecasts} \subseteq Models(mandate)
  /\ \A f \in forecasts : ForecastAccepted(mandate, dossier.bundle, f)
  /\ \A m \in Models(mandate) : BatchAccepted(Batch(forecasts, m), dossier.evidence)

-----------------------------------------------------------------------------
(* build_pod_contexts: a covariance for every ticker any model of the pod  *)
(* has an opinion on, the models the blend will leave out included.        *)

PodForecasts(pod, forecasts) == {f \in forecasts : f.model \in DOMAIN pod.models}
Opinions(pod, forecasts) == {f \in PodForecasts(pod, forecasts) : ~f.abstained}

(* A return belongs to a date and spans the time since the ticker's own    *)
(* previous price.                                                         *)
ReturnDates(dates) == dates \ {Min(dates)}

ContextAvailable(pod, forecasts, bars) ==
  LET tickers == {f.ticker : f \in Opinions(pod, forecasts)}
  IN  tickers # {} =>
        /\ \A t \in tickers : Cardinality(bars[t]) >= 4
        /\ Cardinality({d \in UNION {bars[t] : t \in tickers} :
                         \A t \in tickers : d \in ReturnDates(bars[t])}) >= 3

-----------------------------------------------------------------------------
(* blend_pod_forecasts: which forecasts carry weight in a ticker's blend.  *)

(* A batch below the policy's calibration or evidence quality is left out. *)
BatchEligible(pod, f) ==
  /\ f.scores.calibration >= pod.minCalibration
  /\ f.scores.quality >= pod.minQuality

EligibleFor(pod, forecasts, t) ==
  {f \in Opinions(pod, forecasts) : f.ticker = t /\ BatchEligible(pod, f)}

(* 1 - penalty is zero exactly when the policy discounts overlap fully and *)
(* every peer's features are this forecast's.                              *)
FullyDiscounted(pod, f, peers) ==
  /\ pod.overlap = "full"
  /\ peers # {}
  /\ f.features # {}
  /\ \A g \in peers : g.features = f.features

(* Mutant: abstentions and ineligible batches count.                       *)
ContributorsLax(pod, forecasts, t) == {f \in PodForecasts(pod, forecasts) : f.ticker = t}

Contributors(pod, forecasts, t) ==
  {f \in EligibleFor(pod, forecasts, t) :
     /\ f.scores.calibration > 0 /\ f.scores.regime > 0 /\ f.scores.quality > 0
     /\ ~FullyDiscounted(pod, f, EligibleFor(pod, forecasts, t) \ {f})}

Blendable(pod, forecasts) ==
  \A f \in Opinions(pod, forecasts) : BatchEligible(pod, f) => f.risky

Blended(pod, forecasts) ==
  {t \in {f.ticker : f \in Opinions(pod, forecasts)} : Contributors(pod, forecasts, t) # {}}

-----------------------------------------------------------------------------
(* The portfolio models (aegis/quant_research/portfolio_models.py).  What  *)
(* they have in common: long-only weights of at most 1 that add up to the  *)
(* gross target.  Two of them refuse a flat price; equal weight does not   *)
(* look at the data.                                                       *)

MethodRefuses(method, tickers, vol) ==
  /\ method \in {"hierarchical_risk_parity", "maximum_diversification"}
  /\ \E t \in tickers : vol[t] = 0

Simplex(tickers, gross) == {w \in [tickers -> 0..gross] : SumFunction(w) = gross}

EvenSplit(w, gross) ==
  \A t \in DOMAIN w : w[t] \in {gross \div Cardinality(DOMAIN w),
                                 gross \div Cardinality(DOMAIN w) + 1}

ModelWeights(pod, tickers) ==
  {w \in Simplex(tickers, pod.grossTarget) :
     pod.method = "equal_weight" => EvenSplit(w, pod.grossTarget)}

-----------------------------------------------------------------------------
(* _pod_request after the model: neutralise, then scale.                   *)

(* The benchmark of a context is equal-weighted.                           *)
Neutral(pod, w) ==
  IF pod.neutral THEN [t \in DOMAIN w |-> w[t] - Scale(SignedNet(w), 1, Cardinality(DOMAIN w))]
  ELSE w

LargestPosition(w) == Max({0} \union {Abs(w[t]) : t \in DOMAIN w})
GrossLimit(pod) == AtMost(pod.grossTarget, pod.maxGross)

(* One common factor of at most 1, for the gross limit and the position    *)
(* limit.                                                                  *)
WithinBudget(pod, w) ==
  LET ratio == SmallerRatio(One, SmallerRatio(CapRatio(GrossLimit(pod), Gross(w)),
                                              CapRatio(pod.maxPosition, LargestPosition(w))))
  IN  [t \in DOMAIN w |-> Scale(w[t], ratio[1], ratio[2])]

(* Mutant: the position limit is enforced before the market is hedged out. *)
FinishedEarly(pod, w) == Neutral(pod, WithinBudget(pod, w))
Finished(pod, w) == WithinBudget(pod, Neutral(pod, w))

(* The targets a pod may end with: empty without a blend.  The cycle has   *)
(* no NAV by pod, so no context carries a drawdown to compare.             *)
PodTargets(pod, forecasts) ==
  LET tickers == Blended(pod, forecasts)
  IN  IF tickers = {} THEN {[t \in {} |-> 0]}
      ELSE {Finished(pod, w) : w \in ModelWeights(pod, tickers)}

(* The pod's volatility: of its holdings, as if they moved together.       *)
Volatility(w, vol) == SumFunction([t \in DOMAIN w |-> Abs(w[t]) * vol[t]])

-----------------------------------------------------------------------------
(* _allocator_weights: the capital of each pod.                            *)

Active(targets) == {p \in DOMAIN targets : DOMAIN targets[p] # {}}

AllocatorRefuses(mandate, targets, vol) ==
  /\ mandate.allocator = "inverse_volatility"
  /\ \E p \in Active(targets) : Volatility(targets[p], vol) = 0

(* Mutant: relative to the most volatile active pod.                       *)
AllocatorsCeiling(mandate, targets, vol) ==
  [p \in DOMAIN targets |->
     IF mandate.allocator = "static" \/ p \notin Active(targets)
     THEN mandate.pods[p].capital
     ELSE Scale(mandate.pods[p].capital,
                Max({Volatility(targets[q], vol) : q \in Active(targets)}),
                Volatility(targets[p], vol))]

(* Inverse volatility is relative to the calmest active pod; a pod without *)
(* a target keeps its declared capital, in cash.                           *)
Allocators(mandate, targets, vol) ==
  [p \in DOMAIN targets |->
     IF mandate.allocator = "static" \/ p \notin Active(targets)
     THEN mandate.pods[p].capital
     ELSE Scale(mandate.pods[p].capital,
                Min({Volatility(targets[q], vol) : q \in Active(targets)}),
                Volatility(targets[p], vol))]

(* Net the pods' allocated weights ticker by ticker; what cancels is not   *)
(* in the target.                                                          *)
Netted(targets, allocators) ==
  DropZeros([t \in UNION {DOMAIN targets[p] : p \in DOMAIN targets} |->
              SumFunction([p \in DOMAIN targets |-> Weight(targets[p], t) * allocators[p]])])

(* cash_weight is a fraction: 1 - net may not exceed 1 (PodTarget,         *)
(* MasterPortfolio).  Rounding leaves a hedged pod a little short of zero. *)
CashIsFraction(w) == SignedNet(w) >= 0

(* build_master_portfolio, for given pod targets.                          *)
MasterAccepted(mandate, targets, vol) ==
  /\ ~AllocatorRefuses(mandate, targets, vol)
  /\ \A p \in DOMAIN targets : CashIsFraction(targets[p])
  /\ CashIsFraction(Netted(targets, Allocators(mandate, targets, vol)))

(* Everything that must hold before the pods' models are asked.            *)
InputsAccepted(mandate, dossier, asked) ==
  LET forecasts == ForTickers(dossier, asked)
  IN  /\ ProviderAnswers(dossier, asked)
      /\ BatchesAccepted(mandate, dossier, forecasts)
      /\ \A p \in DOMAIN mandate.pods :
           LET pod == mandate.pods[p]
               tickers == Blended(pod, forecasts)
           IN  /\ ContextAvailable(pod, forecasts, dossier.bars)
               /\ Blendable(pod, forecasts)
               /\ tickers # {} =>
                    /\ pod.grossTarget > 0
                    /\ ~MethodRefuses(pod.method, tickers, dossier.vol)
=============================================================================
