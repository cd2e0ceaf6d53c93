-------------------------- MODULE StrategyComparison --------------------------
(***************************************************************************)
(* The comparison of the predeclared strategies                            *)
(* (aegis/research_lab/strategy_evaluation.py) on returns derived from the *)
(* receipts of governed cycles (receipt_series.py), with the experiment    *)
(* ledger it appends every trial to before it judges.                      *)
(*                                                                         *)
(* A receipt is what a comparison reads of a CycleRecord.  Hashes are      *)
(* injective: a common sample is the record of what common_sample_hash     *)
(* hashes, and a series is its sample and its strategy (the returns are    *)
(* functions of the receipts).  Times are whole days.  The statistics are  *)
(* not computed: any outcome of the checks on them is possible.            *)
(***************************************************************************)
EXTENDS ExperimentChain, ValidationSplits, Integers, SequencesExt

CONSTANTS
  Strategies,   \* PREDECLARED_STRATEGY_IDS
  Receipt,      \* run ID -> receipt, for the runs the cycle ledger has
  Terms,        \* mandate -> its capital, constraints, benchmark and costs
  Comparisons,  \* declared comparisons, with the parameters of the folds
  Made,         \* experiment body -> the strategy and sample it binds, its date
  MinMetrics    \* observations a comparison needs at least (4 in the code)

ASSUME StrategiesAssumption == Strategies # {} /\ IsFiniteSet(Strategies)
ASSUME ReceiptAssumption == \A r \in DOMAIN Receipt : Receipt[r].cutoff \in Int

(* The rows of a comparison are lists of run IDs. *)
ASSUME ComparisonsAssumption ==
  \A c \in Comparisons :
    /\ c.minimumTrain \in Int
    /\ \A s \in DOMAIN c.rows :
         LET runs == c.rows[s].runs IN Len(runs) \in Nat /\ DOMAIN runs = 1..Len(runs)

VARIABLES
  study,    \* the evaluation in progress or the last one
  judged    \* trials that a comparison was judged on

labVars == <<study, judged>>

Trial == [id : Ids, body : Bodies]
NoComparison == [rows |-> [s \in {} |-> <<>>]]
Idle == [phase |-> "idle", items |-> <<>>, next |-> 1, comparison |-> NoComparison]

-----------------------------------------------------------------------------
(* receipt_series.py: a row is a mandate and the IDs of its runs.          *)
RunsOf(c, s) == ToSet(c.rows[s].runs)
ObservationCount(c, s) == Len(c.rows[s].runs) - 1

(* Observation i is predicted in one receipt and labelled in the next.     *)
Prediction(c, s, i) == Receipt[c.rows[s].runs[i + 1]]
Label(c, s, i) == Receipt[c.rows[s].runs[i + 2]]
Interval(c, s, i) == [prediction |-> Prediction(c, s, i).cutoff, label |-> Label(c, s, i).cutoff]
Sample(c, s) == [i \in 0..(ObservationCount(c, s) - 1) |-> Interval(c, s, i)]

(* ReceiptComparisonSpec and its rows *)
WellDeclared(c) ==
  /\ DOMAIN c.rows = Strategies
  /\ c.declared <= c.evaluated
  /\ \A s \in Strategies : ObservationCount(c, s) >= 1 /\ IsInjective(c.rows[s].runs)

(* derive_receipt_observations_from_ledger: receipts of one mandate with   *)
(* sealed, historical provenance, in the order of their cutoffs, and with  *)
(* a return that can be computed.                                          *)
Derivable(c, s) ==
  /\ RunsOf(c, s) \subseteq DOMAIN Receipt
  /\ \A r \in RunsOf(c, s) : Receipt[r].governed /\ Receipt[r].mandate = c.rows[s].mandate
  /\ WellTimed(Sample(c, s))
  /\ \A i \in DOMAIN Sample(c, s) :
       /\ Label(c, s, i).cutoff > Prediction(c, s, i).cutoff
       /\ Prediction(c, s, i).solvent

(* derive_receipt_comparison_from_ledger *)
Resolves(c) ==
  /\ WellDeclared(c)
  /\ \A s \in Strategies : Derivable(c, s)
  /\ \A s, t \in Strategies : s # t => RunsOf(c, s) \intersect RunsOf(c, t) = {}
  /\ \A s \in Strategies : \A i \in DOMAIN Sample(c, s) : Label(c, s, i).cutoff <= c.evaluated

-----------------------------------------------------------------------------
(* Two rows agree on every interval, snapshot and bundle.                  *)
SameWorld(c, s, t) ==
  /\ Sample(c, s) = Sample(c, t)
  /\ \A i \in DOMAIN Sample(c, s) :
       /\ Prediction(c, s, i).snapshot = Prediction(c, t, i).snapshot
       /\ Prediction(c, s, i).bundle = Prediction(c, t, i).bundle

OneSnapshot(c, s) ==
  Cardinality({Prediction(c, s, i).snapshot : i \in DOMAIN Sample(c, s)}) = 1

(* receipt_validation_folds and receipt_cpcv_folds *)
Reference(c) == Sample(c, CHOOSE s \in Strategies : TRUE)
WalkForwardFolds(c) ==
  IntervalWalkForward(Reference(c), c.splits, c.minimumTrain, c.embargo, c.holdout)
CombinatorialFolds(c) ==
  IntervalCombinatorialSplits(Reference(c), c.groups, c.testGroups, c.embargo, c.holdout)

(* Mutant: what either scheme tested may be measured.                      *)
MetricIndicesOfEither(c) ==
  UNION {f.test : f \in WalkForwardFolds(c) \union CombinatorialFolds(c)}

(* The observations both schemes test. *)
MetricIndices(c) ==
  (UNION {f.test : f \in WalkForwardFolds(c)})
    \intersect (UNION {f.test : f \in CombinatorialFolds(c)})

(* The mandate whose terms count is the one of the first receipt.          *)
TermsOf(c, s) == Terms[c.rows[s].mandate]

(* Mutant: the rows may come from different worlds.                        *)
AlignedLoosely(c) ==
  /\ Resolves(c)
  /\ Cardinality(DOMAIN Reference(c)) >= MinMetrics
  /\ WalkForwardFolds(c) # {} /\ CombinatorialFolds(c) # {}
  /\ Cardinality(MetricIndices(c)) >= MinMetrics

(* _receipt_comparison_alignment *)
Aligned(c) ==
  /\ Resolves(c)
  /\ Cardinality(DOMAIN Reference(c)) >= MinMetrics
  /\ \A s \in Strategies : OneSnapshot(c, s)
  /\ \A s, t \in Strategies : SameWorld(c, s, t) /\ TermsOf(c, s) = TermsOf(c, t)
  /\ WalkForwardFolds(c) # {} /\ CombinatorialFolds(c) # {}
  /\ Cardinality(MetricIndices(c)) >= MinMetrics

Horizons(c) == {Reference(c)[i].label - Reference(c)[i].prediction : i \in MetricIndices(c)}

(* What the hash of the common sample covers: the aligned observation IDs  *)
(* name every receipt of every row.                                        *)
CommonSample(c) == [rows |-> c.rows, metric |-> MetricIndices(c)]

(* _strategy_series_from_receipts, for all the strategies: labels of one   *)
(* length, and an experiment that binds the derived series.                *)
Bindable(c) == Aligned(c) /\ Cardinality(Horizons(c)) = 1
Binds(trial, s, sample) ==
  Made[trial.body].strategy = s /\ Made[trial.body].sample = sample

Window(c) == c.declared .. c.evaluated

(* _validate_experiment_times, and an experiment for each supplied series. *)
Timely(items, window) ==
  \A n \in DOMAIN items : Made[items[n].body].created \in window
UniqueExperiments(items) == \A m, n \in DOMAIN items : items[m].id = items[n].id => m = n

(* The exact-set gate and _validate_common_comparison.                     *)
Comparable(items) ==
  /\ Len(items) = Cardinality(Strategies)
  /\ {Made[items[n].body].strategy : n \in DOMAIN items} = Strategies
  /\ \A m, n \in DOMAIN items : Made[items[m].body].sample = Made[items[n].body].sample

-----------------------------------------------------------------------------
LabInit == Init /\ study = Idle /\ judged = {}

Study(items, c) == [phase |-> "appending", items |-> items, next |-> 1, comparison |-> c]

(* evaluate_receipt_comparison: nothing is written unless all rows align   *)
(* and every experiment binds its series.                                  *)
ReceiptStudies ==
  UNION {LET sample == CommonSample(c)
         IN  {Study(items, c) : items \in
                {t \in [1..Cardinality(Strategies) -> Trial] :
                   /\ UniqueExperiments(t) /\ Timely(t, Window(c))
                   /\ \A s \in Strategies : \E n \in DOMAIN t : Binds(t[n], s, sample)}}
         : c \in {d \in Comparisons : Bindable(d)}}

(* evaluate_predeclared_strategies, called with series from elsewhere.     *)
SeriesStudies ==
  UNION {{Study(items, NoComparison) : items \in
            {t \in BoundedSeq(Trial, Cardinality(Strategies)) :
               UniqueExperiments(t) /\ Timely(t, window)}}
         : window \in {Window(c) : c \in Comparisons}}

Ready(p) == pc[p] = "idle" /\ study.phase # "appending"
Evaluate(p) ==
  /\ Ready(p)
  /\ study' \in ReceiptStudies \union SeriesStudies
  /\ UNCHANGED <<vars, judged>>

AppendNext(p) ==
  /\ study.phase = "appending" /\ study.next <= Len(study.items)
  /\ Call(p)
  /\ call'[p].job = "append"
  /\ call'[p].id = study.items[study.next].id /\ call'[p].body = study.items[study.next].body
  /\ UNCHANGED labVars

(* Mutant: a trial the ledger refuses is passed over.                      *)
AppendReturnsAnyway(p) ==
  /\ study.phase = "appending"
  /\ pc[p] = "return" /\ call[p].job = "append" /\ Return(p)
  /\ study' = [study EXCEPT !.next = @ + 1]
  /\ UNCHANGED judged

(* An exception of append leaves the evaluation. *)
AppendReturns(p) ==
  /\ study.phase = "appending"
  /\ pc[p] = "return" /\ call[p].job = "append" /\ Return(p)
  /\ study' = IF outcome[p] = "stored" THEN [study EXCEPT !.next = @ + 1] ELSE Idle
  /\ UNCHANGED judged

(* The rest of evaluate_predeclared_strategies: the gates, then six checks *)
(* on statistics, which may not even be defined.                           *)
Judge(p) ==
  /\ pc[p] = "idle"
  /\ study.phase = "appending" /\ study.next > Len(study.items)
  /\ \E verdict \in IF Comparable(study.items) THEN {"eligible", "rejected", "refused"}
                                               ELSE {"refused"} :
       study' = [study EXCEPT !.phase = verdict]
  /\ judged' = judged \union ToSet(study.items)
  /\ UNCHANGED vars

LabCrash(p) == Crash(p) /\ study' = Idle /\ UNCHANGED judged

(* The other users of the ledger in this process. *)
Elsewhere(p) ==
  /\ \/ Open(p)
     \/ Ready(p) /\ Call(p)
     \/ Step(p) /\ (pc[p] = "return" => study.phase # "appending")
  /\ UNCHANGED labVars

LabNext ==
  \E p \in Procs :
    \/ Evaluate(p) \/ AppendNext(p) \/ AppendReturns(p)
    \/ Judge(p) \/ LabCrash(p) \/ Elsewhere(p)

LabSpec == LabInit /\ [][LabNext]_<<vars, labVars>>

-----------------------------------------------------------------------------
(* "a losing or subsequently rejected trial cannot disappear from the      *)
(* audit ledger": a trial that took part in a judgement is in the ledger   *)
(* and committed to, through failed appends, crashes and restarts.         *)
TrialsRetained ==
  \A t \in judged : records[t.id] = t.body /\ Committed(t.id)

(* An evaluation built from receipts, from its first append on.            *)
Governed == study.comparison # NoComparison

(* The evidence of a comparison is out of sample, before any trial is even *)
(* appended for it: each of its observations was tested by a fold trained  *)
(* only on labels that were known before, none is locked, and all its      *)
(* labels were known when it was evaluated (evaluate_receipt_comparison).  *)
OutOfSample ==
  Governed =>
    LET c == study.comparison
    IN  \A i \in CommonSample(c).metric :
          /\ i \notin c.holdout
          /\ Reference(c)[i].label <= c.evaluated
          /\ \E f \in WalkForwardFolds(c) :
               /\ i \in f.test
               /\ \A j \in f.train :
                    j \notin c.holdout /\ Reference(c)[j].label < Reference(c)[i].prediction

(* The strategies of a comparison are compared on equal terms, before any  *)
(* trial is appended for it (evaluate_receipt_comparison): no              *)
(* run counts for two of them, or twice, and at each observation all saw   *)
(* the same data at the same time under the same constraints and costs.    *)
EqualTerms ==
  Governed =>
    LET c == study.comparison
    IN  /\ \A s, t \in Strategies :
             \A m \in DOMAIN c.rows[s].runs, n \in DOMAIN c.rows[t].runs :
               c.rows[s].runs[m] = c.rows[t].runs[n] => s = t /\ m = n
        /\ Cardinality({Terms[c.rows[s].mandate] : s \in Strategies}) = 1
        /\ \A i \in CommonSample(c).metric :
             Cardinality({LET r == Prediction(c, s, i) IN <<r.cutoff, r.snapshot, r.bundle>> :
                            s \in Strategies}) = 1
=============================================================================
