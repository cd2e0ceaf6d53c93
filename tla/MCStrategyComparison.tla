------------------------- MODULE MCStrategyComparison -------------------------
(* Two of the predeclared strategies, with a receipt on each of eight days. *)
(* A standard comparison of seven observations, variants of its folds and   *)
(* declarations, and variants in which one row has another receipt on one   *)
(* day: of another snapshot, bundle, day or mandate, ungoverned, missing,   *)
(* insolvent, of the other strategy, or out of order.                       *)
EXTENDS StrategyComparison, TLC

Days == 1..8
Plain == [governed |-> TRUE, solvent |-> TRUE, snapshot |-> "A"]
Governing == ("combined" :> "multi") @@ ("equal" :> "single")

ReceiptOn(s, d) ==
  [cutoff |-> d, mandate |-> Governing[s], bundle |-> d] @@ Plain

Variant(kind, d) ==
  LET r == ReceiptOn("equal", d)
  IN  CASE kind = "standard"   -> r
        [] kind = "snapshot"   -> [r EXCEPT !.snapshot = "B"]
        [] kind = "bundle"     -> [r EXCEPT !.bundle = 0]
        [] kind = "later"      -> [r EXCEPT !.cutoff = 9]
        [] kind = "dearer"     -> [r EXCEPT !.mandate = "dear"]
        [] kind = "ungoverned" -> [r EXCEPT !.governed = FALSE]
        [] kind = "insolvent"  -> [r EXCEPT !.solvent = FALSE]

Kinds == {"standard", "snapshot", "bundle", "later", "dearer", "ungoverned", "insolvent"}
Run(s, d, kind) == <<s, d, kind>>

MCReceipt ==
  [r \in {"combined", "equal"} \X Days \X Kinds |->
     IF r[1] = "equal" THEN Variant(r[3], r[2]) ELSE ReceiptOn("combined", r[2])]

MCTerms == [m \in {"multi", "single"} |-> "ten basis points"] @@ ("dear" :> "twenty")

Row(s) ==
  [mandate |-> Governing[s], runs |-> [d \in Days |-> Run(s, d, "standard")]]

Standard ==
  [rows |-> [s \in {"combined", "equal"} |-> Row(s)],
   declared |-> 2, evaluated |-> 9,
   splits |-> 2, minimumTrain |-> 2, groups |-> 3, testGroups |-> 1,
   embargo |-> 0, holdout |-> {6}]

Substitute(d, run) == [Standard EXCEPT !.rows["equal"].runs[d] = run]
Skip(c, d) ==
  [c EXCEPT !.rows = [s \in {"combined", "equal"} |->
     [mandate |-> Governing[s], runs |-> RemoveAt(c.rows[s].runs, d)]]]

Odd == Substitute(5, Run("equal", 5, "bundle"))

MCComparisons ==
  {Standard,
   [Standard EXCEPT !.holdout = {}],
   [Standard EXCEPT !.embargo = 1],
   [Standard EXCEPT !.splits = 5, !.groups = 4, !.testGroups = 2],
   [Standard EXCEPT !.holdout = {5, 6}],
   [Standard EXCEPT !.minimumTrain = 1],
   [Standard EXCEPT !.evaluated = 7],
   [Standard EXCEPT !.declared = 10],
   Skip(Standard, 1), Skip(Standard, 5),
   [Standard EXCEPT !.rows["equal"].mandate = "dear"],
   [Standard EXCEPT !.rows["equal"] =
      [mandate |-> "dear", runs |-> [d \in Days |-> Run("equal", d, "dearer")]]],
   [Standard EXCEPT !.rows["equal"] = Standard.rows["combined"]],
   [Standard EXCEPT !.rows["equal"].runs = RemoveAt(@, 8)],
   Substitute(4, Run("combined", 4, "standard")),
   Substitute(4, Run("equal", 3, "standard")),
   Substitute(4, Run("equal", 9, "standard")),
   Substitute(3, Run("equal", 5, "snapshot")),
   Substitute(8, Run("equal", 8, "later"))}
  \union {Odd} \union {Substitute(5, Run("equal", 5, k)) : k \in Kinds}

(* Experiments of each strategy that bind the standard sample and one whose *)
(* rows do not agree, and one that was made after the evaluation.           *)
StandardSample == CommonSample(Standard)
OddSample == CommonSample(Odd)

Experiment(s, sample, d) == [strategy |-> s, sample |-> sample, created |-> d]
MCMade ==
  [combined     |-> Experiment("combined", StandardSample, 5),
   equal        |-> Experiment("equal", StandardSample, 5),
   equal_late   |-> Experiment("equal", StandardSample, 10),
   combined_odd |-> Experiment("combined", OddSample, 5),
   equal_odd    |-> Experiment("equal", OddSample, 5)]
=============================================================================
