------------------------------ MODULE MCRunCycle ------------------------------
(* Two tickers in one sector and a grid of two cycles.  The worlds *)
(* are the cases a cycle tells apart: both tickers wanted, one wanted, the  *)
(* price of a holding doubled (over its cap) or halved, everybody           *)
(* abstaining, a share that costs a third of the capital, a missing mark    *)
(* and a stale one.                                                         *)
EXTENDS RunCycle, TLC

CONSTANTS t1, t2

World(p1, p2, s1, s2) ==
  [marks |-> (t1 :> p1) @@ (t2 :> p2), stale |-> {}, scores |-> (t1 :> s1) @@ (t2 :> s2)]

BothWanted    == World(10, 10, 2, 1)
OneWanted     == World(9, 12, 0, 3)
RallyBoth     == World(21, 11, 1, 1)
RallyAbstain  == World(30, 10, 0, 0)
Slump         == World(4, 7, 1, 2)
Lumpy         == World(70, 30, 1, 0)
MissingMark   == [BothWanted EXCEPT !.marks = (t1 :> 10)]
StaleMark     == [OneWanted EXCEPT !.stale = {t1}]

MCWorlds == {BothWanted, OneWanted, RallyBoth, RallyAbstain, Slump}
CostlyWorlds == {BothWanted, OneWanted, Lumpy, MissingMark, StaleMark}

(* No cash is kept back, so that costs can take a batch below zero: of a    *)
(* fund that builds its book in two cycles, and of one that does at once.   *)
MCPercent ==
  [maxPosition |-> 66, maxGross |-> 100, maxNet |-> 100, maxTurnover |-> 35, minCash |-> 0,
   maxSector |-> 100, maxStrategy |-> 60]
FullyInvested ==
  [maxPosition |-> 100, maxGross |-> 100, maxNet |-> 100, maxTurnover |-> 100, minCash |-> 0,
   maxSector |-> 100, maxStrategy |-> 60]
MCSectorOf == (t1 :> "technology") @@ (t2 :> "technology")
MCAllocations == ("quality" :> 50) @@ ("momentum" :> 50)
RunsAlike == Permutations(Runs)
=============================================================================
