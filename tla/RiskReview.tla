------------------------------ MODULE RiskReview ------------------------------
(***************************************************************************)
(* The risk gate in use: a book of weights that proposals try to change    *)
(* and that moving prices change by themselves.  run_cycle asks the gate   *)
(* and trades to the approved weights (aegis/fund/run_cycle.py); here the  *)
(* trade is exact, RunCycle has the shares and the costs.                  *)
(***************************************************************************)
EXTENDS RiskGate

CONSTANTS
  Tickers,
  Policies,      \* the risk policies a fund may have
  Cases,         \* the ticker sets research cases are about
  SectorOf,      \* the sector of every ticker
  TargetLevels,  \* weights a proposal may ask for, by policy
  DriftLevels,   \* weights prices may move a position to, by policy
  Allocations    \* maps from strategies to their shares of capital

(* RiskPolicy.policy_is_coherent (aegis/contracts/risk.py).                *)
Coherent(policy) ==
  /\ PolicySound(policy)
  /\ policy.maxPosition <= policy.maxGross
  /\ policy.minCash + policy.maxNet <= policy.one

ASSUME PoliciesAssumption == \A p \in Policies :
  Coherent(p) /\ TargetLevels[p] \subseteq Int /\ DriftLevels[p] \subseteq Int

ASSUME UniverseAssumption ==
  /\ IsFiniteSet(Tickers)
  /\ \A case \in Cases : case \subseteq Tickers
  /\ \A a \in Allocations : \A s \in DOMAIN a : a[s] \in Int

VARIABLES
  policy,    \* the fund's policy, fixed
  book,      \* current weights
  review     \* the last request and the gate's decision on it

vars == <<policy, book, review>>

NoBook == [t \in {} |-> 0]
NoReview == [target |-> NoBook, current |-> NoBook, sectors |-> NoBook,
             allocations |-> NoBook,
             decision |-> [approved |-> TRUE, weights |-> NoBook, violations |-> {}]]

(* Books and proposals: a ticker may be missing from a map.                *)
MapsTo(levels) == UNION {[held -> levels] : held \in SUBSET Tickers}

Init ==
  /\ policy \in Policies
  /\ book = NoBook
  /\ review = NoReview

(* One cycle.  The sector map covers the tickers of the research case, and *)
(* so the proposal; a position held from an earlier case may not be in it. *)
Decide(target, allocations, case) ==
  LET sectors == Restrict(SectorOf, case)
  IN  /\ review = NoReview
      /\ DOMAIN target \subseteq case
      /\ review' = [target |-> target, current |-> book, sectors |-> sectors,
                    allocations |-> allocations,
                    decision |-> Evaluate(target, book, policy, sectors, allocations)]
      /\ UNCHANGED <<policy, book>>

Review(target) ==
  \E case \in Cases, allocations \in Allocations : Decide(target, allocations, case)

(* Approved weights are traded to; a refused proposal, and one that asks   *)
(* for the weights a book already has, leave it.                           *)
Trade ==
  /\ review # NoReview
  /\ LET hold == DOMAIN book # {} /\ review.target = book
     IN  book' = IF review.decision.approved /\ ~hold THEN review.decision.weights ELSE book
  /\ review' = NoReview
  /\ UNCHANGED policy

(* Prices move the weights of what is held before the next cycle.  A       *)
(* position keeps its side, a solvent long-only book stays within its      *)
(* equity.                                                                 *)
Drift ==
  /\ review = NoReview
  /\ \E w \in [DOMAIN book -> DriftLevels[policy]] :
       /\ \A t \in DOMAIN book : (w[t] > 0) = (book[t] > 0) /\ w[t] # 0
       /\ ~policy.allowShorting => Gross(w) <= policy.one
       /\ book' = w
       /\ UNCHANGED <<policy, review>>

Next == Drift \/ Trade \/ \E target \in MapsTo(TargetLevels[policy]) : Review(target)

Spec == Init /\ [][Next]_vars

-----------------------------------------------------------------------------
decision == review.decision

TypeOK ==
  /\ policy \in Policies
  /\ DOMAIN book \subseteq Tickers
  /\ \A t \in DOMAIN book : book[t] \in (-policy.one)..policy.one \ {0}

StrategiesAllowed ==
  \A s \in DOMAIN review.allocations : review.allocations[s] <= policy.maxStrategy

(* The clamps are sufficient: when every ticker involved has a sector and  *)
(* no strategy is over-allocated, the gate never refuses a proposal.  The  *)
(* second pass removes whatever the interpolation toward a book that       *)
(* drifted out of its limits brought back.                                 *)
ClampsSuffice ==
  (/\ DOMAIN review.target \union DOMAIN review.current \subseteq DOMAIN review.sectors
   /\ StrategiesAllowed)
  => decision.approved

(* "A turnover limit may delay new risk, but may not undo an explicit      *)
(* reduction": a position asked to shrink is at most its target afterwards *)
(* and never on the other side of it, however much turnover that takes.    *)
DeRiskHonoured ==
  \A t \in DOMAIN review.current :
    Abs(Weight(review.target, t)) < Abs(review.current[t])
      => Abs(Weight(decision.weights, t)) <= Abs(Weight(review.target, t))

(* "A turnover limit may delay new risk": what the positions that grow, or *)
(* change sides and grow, trade together is within the limit, although     *)
(* reductions override it and the clamps before and after it rewrite the   *)
(* same weights: no new risk rides on the override.                        *)
NewRiskDelayed ==
  LET w == decision.weights
      grown == {t \in DOMAIN w : Abs(w[t]) > Abs(Weight(review.current, t))}
  IN  SumFunction([t \in grown |-> Abs(w[t] - Weight(review.current, t))])
        <= 2 * policy.maxTurnover

(* An approved book is a fixed point of the gate: proposing it again       *)
(* approves it unchanged, so a fund at its target does not churn.          *)
ApprovedIsStable ==
  decision.approved =>
    LET again == Evaluate(decision.weights, decision.weights, policy,
                          review.sectors, review.allocations)
    IN  again.approved /\ again.weights = decision.weights

(* The comment on the turnover limit, "Such reductions override turnover": *)
(* a proposal that only reduces positions of classified tickers is never   *)
(* refused.                                                                *)
PureReductionExecutes ==
  (/\ \A t \in DOMAIN review.target :
        /\ t \in DOMAIN review.current
        /\ review.target[t] \in {0, review.current[t]}
   /\ StrategiesAllowed)
  => decision.approved
=============================================================================
