------------------------------- MODULE RiskGate -------------------------------
(***************************************************************************)
(* The hard risk gate, evaluate_risk (aegis/risk/checks.py).               *)
(*                                                                         *)
(* A weight map (a Python dict) is a function from a set of tickers to     *)
(* integers.  A weight of 1.0 is policy.one, and the policy's caps are in  *)
(* the same unit.  A scaled weight is truncated toward zero, where the     *)
(* code rounds a double and forgives 1e-12.  Turnover is half a sum; the   *)
(* model compares the doubled values, so nothing is halved.                *)
(***************************************************************************)
EXTENDS Integers, FiniteSets, Functions

(* RiskPolicy: no limit is negative, the cash reserve is a fraction of the *)
(* book, and without leverage neither is the gross exposure more than it.  *)
PolicySound(policy) ==
  /\ policy.one \in Nat
  /\ policy.maxPosition \in Nat /\ policy.maxGross \in Nat /\ policy.maxNet \in Nat
  /\ policy.maxTurnover \in Nat /\ policy.maxSector \in Nat /\ policy.maxStrategy \in Nat
  /\ policy.minCash \in 0..policy.one
  /\ policy.allowLeverage \/ policy.maxGross <= policy.one

Abs(x) == IF x < 0 THEN -x ELSE x
Positive(x) == IF x > 0 THEN x ELSE 0
AtMost(x, y) == IF x <= y THEN x ELSE y

(* x * num / den for den > 0, toward zero. *)
Scale(x, num, den) ==
  IF x < 0 THEN -(((-x) * num) \div den) ELSE (x * num) \div den

(* weights.get(ticker, 0.0) *)
Weight(w, t) == IF t \in DOMAIN w THEN w[t] ELSE 0

Gross(w) == SumFunction([t \in DOMAIN w |-> Abs(w[t])])
SignedNet(w) == SumFunction(w)
SectorExposure(w, sectors, s) ==
  SumFunction([t \in {u \in DOMAIN w : sectors[u] = s} |-> Positive(w[t])])

(* Twice the turnover between two books. *)
Moved(target, current) ==
  SumFunction([t \in DOMAIN target \union DOMAIN current |->
                Abs(Weight(target, t) - Weight(current, t))])

Unclassified(w, sectors) == ~(DOMAIN w \subseteq DOMAIN sectors)

-----------------------------------------------------------------------------
(* _apply_safety_clamps: four clamps in this order, each of which only     *)
(* removes absolute exposure.                                              *)

NoShorting(w, policy) ==
  IF policy.allowShorting THEN w ELSE [t \in DOMAIN w |-> Positive(w[t])]

(* Mutant: the cap used as a multiplier of every weight.                   *)
CapPositionsScaled(w, policy) ==
  [t \in DOMAIN w |-> Scale(w[t], policy.maxPosition, policy.one)]

CapPositions(w, policy) ==
  [t \in DOMAIN w |->
    IF Abs(w[t]) <= policy.maxPosition THEN w[t]
    ELSE IF w[t] > 0 THEN policy.maxPosition ELSE -policy.maxPosition]

(* Skipped altogether when one ticker lacks a sector. *)
CapSectors(w, policy, sectors) ==
  IF Unclassified(w, sectors) THEN w
  ELSE [t \in DOMAIN w |->
         LET exposure == SectorExposure(w, sectors, sectors[t])
         IN  IF w[t] > 0 /\ exposure > policy.maxSector
             THEN Scale(w[t], policy.maxSector, exposure)
             ELSE w[t]]

SmallerRatio(q, r) == IF q[1] * r[2] <= r[1] * q[2] THEN q ELSE r
One == <<1, 1>>
CapRatio(cap, exposure) == IF exposure = 0 THEN One ELSE <<cap, exposure>>

(* Gross, net and minimum cash, by one common factor of at most 1. *)
CapExposure(w, policy) ==
  LET grossCap == AtMost(policy.maxGross, policy.one - policy.minCash)
      ratio == SmallerRatio(One, SmallerRatio(CapRatio(grossCap, Gross(w)),
                                              CapRatio(policy.maxNet, Abs(SignedNet(w)))))
  IN  [t \in DOMAIN w |-> Scale(w[t], ratio[1], ratio[2])]

SafetyClamps(w, policy, sectors) ==
  CapExposure(CapSectors(CapPositions(NoShorting(w, policy), policy), policy, sectors), policy)

-----------------------------------------------------------------------------
(* Mutant: no override, so a reduction is interpolated like everything else. *)
LimitedEvenly(safe, current, policy) ==
  LET moved == Moved(safe, current)
  IN  [t \in DOMAIN safe \union DOMAIN current |->
        Weight(current, t)
          + Scale(Weight(safe, t) - Weight(current, t), 2 * policy.maxTurnover, moved)]

(* Mutant: whatever goes down counts as a reduction, a short position too. *)
LimitedBySign(safe, current, policy) ==
  LET moved == Moved(safe, current)
  IN  [t \in DOMAIN safe \union DOMAIN current |->
        LET goal == Weight(safe, t)
            held == Weight(current, t)
        IN  IF goal < held THEN goal
            ELSE held + Scale(goal - held, 2 * policy.maxTurnover, moved)]

(* The turnover limit interpolates from the current book toward the safe   *)
(* target, except that a reduction of absolute exposure is never delayed.  *)
Limited(safe, current, policy) ==
  LET moved == Moved(safe, current)
  IN  [t \in DOMAIN safe \union DOMAIN current |->
        LET goal == Weight(safe, t)
            held == Weight(current, t)
        IN  IF Abs(goal) < Abs(held) THEN goal
            ELSE held + Scale(goal - held, 2 * policy.maxTurnover, moved)]

(* Mutant: the second pass of the clamps is forgotten.                     *)
RestrainedOnce(safe, current, policy, sectors) ==
  IF Moved(safe, current) > 2 * policy.maxTurnover
  THEN Limited(safe, current, policy)
  ELSE safe

(* Interpolation toward an invalid current book can bring a breach back,   *)
(* so the clamps run again after it.                                       *)
Restrained(safe, current, policy, sectors) ==
  IF Moved(safe, current) > 2 * policy.maxTurnover
  THEN SafetyClamps(Limited(safe, current, policy), policy, sectors)
  ELSE safe

(* _record_safety_violations: what the last transformation left behind.    *)
Remaining(w, policy, sectors) ==
  {rule \in {"short", "position", "unclassified", "sector", "gross", "net", "leverage", "cash"} :
    CASE rule = "short"        -> ~policy.allowShorting /\ \E t \in DOMAIN w : w[t] < 0
      [] rule = "position"     -> \E t \in DOMAIN w : Abs(w[t]) > policy.maxPosition
      [] rule = "unclassified" -> Unclassified(w, sectors)
      [] rule = "sector"       -> ~Unclassified(w, sectors) /\ \E t \in DOMAIN w :
                                    SectorExposure(w, sectors, sectors[t]) > policy.maxSector
      [] rule = "gross"        -> Gross(w) > policy.maxGross
      [] rule = "net"          -> Abs(SignedNet(w)) > policy.maxNet
      [] rule = "leverage"     -> ~policy.allowLeverage /\ Gross(w) > policy.one
      [] rule = "cash"         -> policy.one - SignedNet(w) < policy.minCash}

(* Dust is dropped from the book. *)
DropZeros(w) == RestrictValues(w, LAMBDA x : x # 0)

(* evaluate_risk.  "allocations" are the strategies' shares of capital.    *)
Evaluate(target, current, policy, sectors, allocations) ==
  LET safe       == SafetyClamps(target, policy, sectors)
      restrained == Restrained(safe, current, policy, sectors)
      final      == DropZeros(restrained)
      violations ==
        {rule \in {"unclassified"} : \/ Unclassified(safe, sectors)
                                     \/ Unclassified(restrained, sectors)}
          \union {rule \in {"strategy"} : \E s \in DOMAIN allocations :
                                             allocations[s] > policy.maxStrategy}
          \union Remaining(final, policy, sectors)
  IN  [approved |-> violations = {}, weights |-> final, violations |-> violations]
=============================================================================
