---------------------------- MODULE AtomicLedger -----------------------------
(***************************************************************************)
(* What ExperimentLedger promises, with its statements, transactions and   *)
(* processes left out: the records an old file came with are committed to  *)
(* first and all at once, and from then on a record and its commitment, at *)
(* the end of the line, come into being in one step.                       *)
(*                                                                         *)
(* The hash of the previous commitment is not part of it: with several     *)
(* processes it is not always that of the last one.                        *)
(***************************************************************************)
EXTENDS SequencesExt

CONSTANTS
  Ids,       \* experiment IDs
  Bodies,    \* canonical record bodies
  NoRow      \* the absence of a row

VARIABLES
  records,   \* the row of each experiment
  order      \* the experiments in the order of their commitments

tables == <<records, order>>

Stored == {i \in Ids : records[i] # NoRow}
Committed == ToSet(order)

Init ==
  /\ records \in [Ids -> Bodies \union {NoRow}]
  /\ order = <<>>

(* Opening a file without commitments. *)
Migrate ==
  /\ order = <<>>
  /\ order' \in Seq(Ids)
  /\ IsInjective(order')
  /\ ToSet(order') = Stored
  /\ UNCHANGED records

(* The append of a new record. *)
Record(i, b) ==
  /\ Committed = Stored
  /\ i \notin Stored
  /\ records' = [records EXCEPT ![i] = b]
  /\ order' = Append(order, i)

Next == Migrate \/ \E i \in Ids, b \in Bodies : Record(i, b)

Spec == Init /\ [][Next]_tables
=============================================================================
