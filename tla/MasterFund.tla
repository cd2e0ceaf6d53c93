------------------------------- MODULE MasterFund -------------------------------
(***************************************************************************)
(* A fund of either kind run_cycle takes (aegis/fund/run_cycle.py).  The   *)
(* single-strategy fund brings any proposal to the gate, as RiskReview     *)
(* has it.  The multi-strategy fund, a FundMandate, brings the netted      *)
(* target of its pods, built from a dossier: a dossier that breaks one     *)
(* rule halts the cycle for every pod.  Both trade and drift alike.        *)
(***************************************************************************)
EXTENDS RiskReview, StrategyPods

CONSTANTS
  Mandates,   \* the multi-strategy funds, by name
  Dossiers    \* what research may return, by name

ASSUME MandatesAssumption == \A f \in DOMAIN Mandates :
  MandateCoherent(Mandates[f]) /\ Mandates[f].policy \in Policies

(* A volatility is never negative. *)
ASSUME DossiersAssumption == \A d \in DOMAIN Dossiers : \A t \in Tickers :
  Dossiers[d].vol[t] \in Nat

VARIABLES
  fund,      \* which mandate, Single for the other kind of fund
  master     \* the master portfolio of the cycle in progress

fundVars == <<policy, book, review, fund, master>>

Single == "single"
mandate == Mandates[fund]
NoMaster == [status |-> "none"]

InitFund ==
  /\ Init
  /\ master = NoMaster
  /\ \/ fund = Single
     \/ /\ fund \in DOMAIN Mandates
        /\ policy = mandate.policy

(* The pure part of the cycle.  The pods' portfolios are what their models *)
(* may return; the allocator and the contracts judge the result.           *)
BuildMaster(name, case) ==
  LET dossier   == Dossiers[name]
      forecasts == ForTickers(dossier, case)
      pods      == DOMAIN mandate.pods
  IN  /\ fund # Single
      /\ review = NoReview
      /\ master = NoMaster
      /\ InputsAccepted(mandate, dossier, case)
      /\ \E targets \in [pods -> UNION {PodTargets(mandate.pods[p], forecasts) : p \in pods}] :
           /\ \A p \in pods : targets[p] \in PodTargets(mandate.pods[p], forecasts)
           /\ MasterAccepted(mandate, targets, dossier.vol)
           /\ LET allocators == Allocators(mandate, targets, dossier.vol)
              IN  master' = [status |-> "built", dossier |-> name, case |-> case,
                             pods |-> targets, allocators |-> allocators,
                             target |-> Netted(targets, allocators)]
      /\ UNCHANGED <<policy, book, review, fund>>

(* Any check that raises ends the cycle before the gate and the broker.    *)
CycleRefused(name, case) ==
  LET dossier   == Dossiers[name]
      forecasts == ForTickers(dossier, case)
      pods      == DOMAIN mandate.pods
  IN  /\ fund # Single
      /\ review = NoReview
      /\ master = NoMaster
      /\ \/ ~InputsAccepted(mandate, dossier, case)
         \/ \E targets \in [pods -> UNION {PodTargets(mandate.pods[p], forecasts) : p \in pods}] :
              /\ \A p \in pods : targets[p] \in PodTargets(mandate.pods[p], forecasts)
              /\ ~MasterAccepted(mandate, targets, dossier.vol)
      /\ master' = [status |-> "refused"]
      /\ UNCHANGED <<policy, book, review, fund>>

NextCase ==
  /\ master.status = "refused"
  /\ master' = NoMaster
  /\ UNCHANGED <<policy, book, review, fund>>

(* The allocators' weights are the strategy allocations the gate is given. *)
GateMaster ==
  /\ master.status = "built"
  /\ Decide(master.target, master.allocators, master.case)
  /\ UNCHANGED <<fund, master>>

TradeFund ==
  /\ Trade
  /\ master' = NoMaster
  /\ UNCHANGED fund

DriftFund ==
  /\ master = NoMaster
  /\ Drift
  /\ UNCHANGED <<fund, master>>

Propose(target) ==
  /\ fund = Single
  /\ Review(target)
  /\ UNCHANGED <<fund, master>>

NextFund ==
  \/ TradeFund \/ DriftFund \/ GateMaster \/ NextCase
  \/ \E target \in MapsTo(TargetLevels[policy]) : Propose(target)
  \/ \E name \in DOMAIN Dossiers, case \in Cases : BuildMaster(name, case) \/ CycleRefused(name, case)

SpecFund == InitFund /\ [][NextFund]_fundVars

-----------------------------------------------------------------------------
Built == master.status = "built"
Given == Dossiers[master.dossier]

(* Whatever its model proposed, and after the market has been hedged out,  *)
(* a pod stays within its gross and its position budget.                   *)
PodBudgetsHold ==
  Built => \A p \in DOMAIN master.pods :
    /\ Gross(master.pods[p]) <= GrossLimit(mandate.pods[p])
    /\ LargestPosition(master.pods[p]) <= mandate.pods[p].maxPosition

(* "preserve_unallocated_cash": no pod is given more than its declared     *)
(* capital, whoever else abstains, and the fund's gross exposure is within *)
(* what the pods that did not abstain may use.                             *)
BudgetsStayCash ==
  Built =>
    /\ \A p \in DOMAIN master.pods : master.allocators[p] <= mandate.pods[p].capital
    /\ Gross(master.target) <=
         SumFunction([p \in Active(master.pods) |->
                       mandate.pods[p].capital * GrossLimit(mandate.pods[p])])

(* Every position of the fund's target rests on an opinion: a forecast of  *)
(* a declared model that did not abstain, of an eligible ticker, bound to  *)
(* the sealed bundle, from a batch that meets its pod's policy, citing     *)
(* only evidence that had been published.                                  *)
TargetIsSupported ==
  Built => \A t \in DOMAIN master.target :
    /\ t \in Given.bundle.eligible
    /\ \E p \in Active(master.pods), f \in Given.forecasts :
         /\ f.ticker = t
         /\ f.model \in DOMAIN mandate.pods[p].models
         /\ ~f.abstained /\ f.bound /\ f.current
         /\ BatchEligible(mandate.pods[p], f)
         /\ \A e \in f.cites : e \in DOMAIN Given.evidence /\ Given.evidence[e] <= 0
=============================================================================
