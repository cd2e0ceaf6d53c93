--------------------------- MODULE ValidationSplits ---------------------------
(***************************************************************************)
(* The leakage-aware splits of aegis/research_lab/validation.py.           *)
(*                                                                         *)
(* A sample is a function from the indices 0..n-1 to the time of the       *)
(* prediction and the time its label ends.  A fold is the set of its       *)
(* training indices and the set of its test indices.  The code returns     *)
(* sequences in ascending order and raises where there is nothing to       *)
(* return: the operators return the set of folds, which is empty then.     *)
(***************************************************************************)
EXTENDS Integers, FiniteSets, FiniteSetsExt

Fold(train, test) == [train |-> train, test |-> test]
Size(sample) == Cardinality(DOMAIN sample)

(* One empty side and no fold is returned at all.                          *)
AllUsable(folds) ==
  IF \A f \in folds : f.train # {} /\ f.test # {} THEN folds ELSE {}

(* The k-th test block of an expanding walk-forward: all blocks have the   *)
(* same size, but for the last, which takes the rest.                      *)
Block(n, splits, minimumTrain, k) ==
  LET size  == (n - minimumTrain) \div splits
      start == minimumTrain + k * size
  IN  start .. (IF k = splits - 1 THEN n ELSE Min({n, start + size})) - 1

WalkForwardFits(n, splits, minimumTrain) ==
  /\ minimumTrain > 0 /\ n > minimumTrain
  /\ splits \in 1..(n - minimumTrain)

(* purged_walk_forward: the buffers are counted in observations.           *)
WalkForward(n, splits, minimumTrain, purge, embargo) ==
  IF ~WalkForwardFits(n, splits, minimumTrain) THEN {}
  ELSE AllUsable({LET test == Block(n, splits, minimumTrain, k)
                  IN  Fold({i \in 0..(n - 1) : i < Min(test) - purge - embargo}, test)
                  : k \in 0..(splits - 1)})

WellTimed(sample) ==
  /\ \A i, j \in DOMAIN sample : i < j => sample[i].prediction < sample[j].prediction
  /\ \A i \in DOMAIN sample : sample[i].label >= sample[i].prediction

(* What an interval walk-forward keeps for training, if "start" is the     *)
(* first test observation.                                                 *)
TrainsBefore(sample, i, start, embargo) ==
  /\ sample[i].prediction < sample[start].prediction - embargo
  /\ sample[i].label < sample[start].prediction

(* interval_purged_walk_forward *)
IntervalWalkForward(sample, splits, minimumTrain, embargo, holdout) ==
  IF ~(WalkForwardFits(Size(sample), splits, minimumTrain) /\ WellTimed(sample)
       /\ holdout \subseteq DOMAIN sample)
  THEN {}
  ELSE LET block(k) == Block(Size(sample), splits, minimumTrain, k)
           test(k)  == block(k) \ holdout
           train(k) == {i \in (0..(Min(block(k)) - 1)) \ holdout :
                          TrainsBefore(sample, i, Min(test(k)), embargo)}
       IN  IF \E k \in 0..(splits - 1) : test(k) = {} THEN {}
           ELSE AllUsable({Fold(train(k), test(k)) : k \in 0..(splits - 1)})

(* numpy.array_split: the first n % groups groups have one more.           *)
Group(n, groups, g) ==
  LET first(h) == h * (n \div groups) + Min({h, n % groups})
  IN  first(g) .. (first(g + 1) - 1)

CombinationsFit(n, groups, testGroups) ==
  1 <= testGroups /\ testGroups < groups /\ groups <= n

(* combinatorial_purged_splits: whole groups, and the groups after a test  *)
(* group under embargo.  A fold may be left without training data.         *)
CombinatorialSplits(n, groups, testGroups, embargoGroups) ==
  IF ~CombinationsFit(n, groups, testGroups) THEN {}
  ELSE LET members(gs) == UNION {Group(n, groups, g) : g \in gs}
           all == 0..(groups - 1)
           excluded(gs) == gs \union {h \in all : \E g \in gs : h \in g..(g + embargoGroups)}
       IN  {Fold(members(all \ excluded(gs)), members(gs)) : gs \in kSubset(testGroups, all)}

TrainsApart(sample, i, j, embargo) ==
  \/ sample[i].label < sample[j].prediction
  \/ sample[i].prediction > sample[j].label + embargo

(* interval_combinatorial_purged_splits: a combination whose rows are all  *)
(* locked is passed over.                                                  *)
IntervalCombinatorialSplits(sample, groups, testGroups, embargo, holdout) ==
  LET n    == Size(sample)
      open == DOMAIN sample \ holdout
      tests == {(UNION {Group(n, groups, g) : g \in gs}) \ holdout :
                  gs \in kSubset(testGroups, 0..(groups - 1))} \ {{}}
  IN  IF ~(CombinationsFit(n, groups, testGroups) /\ WellTimed(sample)
           /\ holdout \subseteq DOMAIN sample)
      THEN {}
      ELSE AllUsable({Fold({i \in open \ test : \A j \in test : TrainsApart(sample, i, j, embargo)},
                           test) : test \in tests})

(* PurgedCVAdapter.validate_indices *)
ValidIndices(folds, holdout) ==
  \A f \in folds : f.train \intersect f.test = {} /\ (f.train \union f.test) \intersect holdout = {}
=============================================================================
