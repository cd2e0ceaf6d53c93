------------------------------- MODULE MCStores -------------------------------
(* The append-only stores that processes share, one in each behaviour: the  *)
(* experiment ledger, the thesis ledger, the governed memory with its       *)
(* evidence, and the point-in-time lake.                                    *)
EXTENDS ExperimentChain, ThesisLedger, MemoryGovernance, PitLake, TLC

CONSTANTS none, torn

VARIABLE store

MCAlike == Permutations(Ids) \union Permutations(Procs) \union Permutations(Ingesters)

(* A line of theses, the rivals of two of them, one that runs backwards in  *)
(* time, one that revives a closed thesis, a thesis of another company.     *)
Thesis(id, ticker, version, asOf, supersedes, status) ==
  [id |-> id, ticker |-> ticker, version |-> version, asOf |-> asOf,
   supersedes |-> supersedes, status |-> status]
MCTheses ==
  {Thesis("a", "x", 1, 1, none, "draft"), Thesis("b", "x", 1, 2, none, "active"),
   Thesis("a", "x", 1, 2, none, "active"),
   Thesis("c", "x", 2, 3, "b", "invalidated"), Thesis("d", "x", 2, 3, "b", "weakened"),
   Thesis("e", "x", 2, 2, "b", "active"), Thesis("f", "x", 3, 4, "c", "active"),
   Thesis("g", "x", 3, 4, "d", "resolved"), Thesis("h", "y", 1, 1, none, "active")}

(* Two candidates of one memory and one of another, by two proposers, on    *)
(* evidence of a case that passed, of a later date, and of one that failed. *)
Candidate(id, memory, proposer, created, reviewBy, expires, evidence, from, score) ==
  [id |-> id, memory |-> memory, proposer |-> proposer, created |-> created,
   reviewBy |-> reviewBy, expires |-> expires, evidence |-> evidence, cases |-> from,
   score |-> score]
MCCandidates ==
  {Candidate("first", 1, "ann", 1, 2, 4, {"old"}, {"k1"}, 1),
   Candidate("second", 1, "bob", 1, 3, 4, {"old", "new"}, {"k1"}, 1),
   Candidate("third", 2, "ann", 2, 3, 4, {"bad"}, {"k2"}, 2)}
MCCases ==
  {[id |-> "k1", approved |-> TRUE, passed |-> {"old", "new"},
    records |-> {[id |-> "old", available |-> 1], [id |-> "new", available |-> 2]}],
   [id |-> "k2", approved |-> FALSE, passed |-> {"bad"},
    records |-> {[id |-> "bad", available |-> 1]}]}
Decision(id, candidate, by, decision, at) ==
  [id |-> id, candidate |-> candidate, evaluator |-> by, decision |-> decision, at |-> at]
MCDecisions ==
  {Decision("d1", "first", "bob", "approve", 1), Decision("d2", "first", "eve", "quarantine", 2),
   Decision("d3", "second", "ann", "approve", 1), Decision("d4", "second", "ann", "approve", 3),
   Decision("d5", "second", "bob", "approve", 3), Decision("d6", "second", "eve", "reject", 2),
   Decision("d7", "third", "bob", "approve", 2), Decision("d8", "third", "bob", "quarantine", 2)}
MCRankings == {none, <<>>, <<1>>, <<2, 1>>, <<3, 1, 1>>}

(* Two companies; one of them has two tickers, the other files in the       *)
(* evening, the next day, and a form that is not asked for.                 *)
MCCompany == [t \in {"A", "B1", "B2"} |-> IF t = "A" THEN "a" ELSE "b"]
Filing(number, form, filed, listed) ==
  [number |-> number, form |-> form, filed |-> filed, listed |-> listed, available |-> filed + 1]
MCFilings ==
  [c \in {"a", "b"} |->
     IF c = "a" THEN {Filing(1, "10-K", 1, 1), Filing(2, "10-Q", 1, 2), Filing(3, "10-Q", 2, 2),
                      Filing(4, "8-K", 1, 1)}
     ELSE {Filing(1, "10-K", 1, 1)}]
Request(tickers, start, end) ==
  [tickers |-> tickers, forms |-> {"10-K", "10-Q"}, start |-> start, end |-> end]
MCRequests ==
  {Request({"A"}, 0, 1), Request({"A", "B1"}, 0, 9), Request({"A"}, 2, 1)}
MCSharedRequests == {Request({"A"}, 0, 9), Request({"B1", "B2"}, 0, 9)}
MCUniverses == {{"A"}, {"A", "B1"}}

-----------------------------------------------------------------------------
StoresInit ==
  /\ store \in {"experiments", "theses", "memory", "lake"}
  /\ Init /\ ThesisInit /\ MemoryInit /\ LakeInit
  /\ store # "experiments" => Stored(records) = {}

StoresNext ==
  /\ UNCHANGED store
  /\ \/ store = "experiments" /\ Next /\ UNCHANGED <<thesisVars, memoryVars, lakeVars>>
     \/ store = "theses" /\ ThesisNext /\ UNCHANGED <<vars, memoryVars, lakeVars>>
     \/ store = "memory" /\ MemoryNext /\ UNCHANGED <<vars, thesisVars, lakeVars>>
     \/ store = "lake" /\ LakeNext /\ UNCHANGED <<vars, thesisVars, memoryVars>>

StoresSpec == StoresInit /\ [][StoresNext]_<<store, vars, thesisVars, memoryVars, lakeVars>>
=============================================================================
