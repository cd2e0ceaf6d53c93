---------------------------- MODULE ExperimentChain ----------------------------
(***************************************************************************)
(* ExperimentLedger (aegis/research_lab/experiments.py): a table of        *)
(* records and a table of commitments that chains their hashes, used by    *)
(* several processes on one SQLite file.                                   *)
(*                                                                         *)
(* The sqlite3 module opens a transaction only before an INSERT: every     *)
(* SELECT before it sees what is committed at that moment, so each SELECT  *)
(* is a step of its own.  The per-record SELECTs of the verification and   *)
(* its COUNT are one step: rows never change, so only the count can tell   *)
(* when they were read.  canonical_sha256 is injective: a commitment's     *)
(* hash is the tuple of what it hashes.                                    *)
(***************************************************************************)
EXTENDS Naturals, FiniteSets

CONSTANTS
  Procs,     \* processes that share the database file
  Ids,       \* experiment IDs
  Bodies,    \* canonical record bodies
  NoRow,     \* the absence of a row
  NoProc,    \* nobody holds the write lock
  Genesis    \* the hash before the first commitment

ASSUME NoRowAssumption  == NoRow \notin Bodies
ASSUME NoProcAssumption == NoProc \notin Procs

VARIABLES
  records,   \* committed rows of "experiments"
  chain,     \* committed rows of "experiment_commitments", by sequence
  staged,    \* both tables as the open transaction has them, if there is one
  writer,    \* the process whose transaction is open
  pc,        \* where each process is
  call,      \* the call each process is in: job, id and body
  view,      \* the commitments a verification has read
  pending,   \* the rows that still need a commitment
  link,      \* sequence and previous hash of the commitment to come
  outcome    \* how the current call ended

vars == <<records, chain, staged, writer, pc, call, view, pending, link, outcome>>
tables == <<records, chain, staged, writer>>

Rows == [id : Ids, body : Bodies]
Calls == [job : {"open", "append", "get"}, id : Ids, body : Bodies]
Locations == {"closed", "rows", "idle", "chain", "count", "lookup", "previous",
              "sequence", "insert", "commit", "return"}

(* "mismatch" and "unreconciled" are the ExperimentIntegrityErrors of the  *)
(* verification, "conflict" is the one of append; "unique" and "busy" are  *)
(* sqlite3's own errors; "unknown" is a KeyError.                          *)
Outcomes == {"pending", "opened", "stored", "found", "unknown", "conflict",
             "mismatch", "unreconciled", "unique", "busy"}

Digest(n, c) == <<n, c.id, c.body, c.previous>>

(* SELECT COALESCE(MAX(sequence), 0), and the hash of that commitment.     *)
Top(c) == CHOOSE n \in DOMAIN c \union {0} : \A m \in DOMAIN c : m <= n
TailHash(c) == IF Top(c) = 0 THEN Genesis ELSE Digest(Top(c), c[Top(c)])

(* The first loop of _verify_chain. *)
Linked(c) ==
  /\ DOMAIN c = 1..Top(c)
  /\ \A n \in DOMAIN c : c[n].previous = IF n = 1 THEN Genesis ELSE Digest(n - 1, c[n - 1])

(* What the rest of it compares: every commitment has its record, and      *)
(* there are as many records as commitments.                               *)
Stored(rows) == {i \in Ids : rows[i] # NoRow}
Reconciles(c, rows) ==
  /\ \A n \in DOMAIN c : rows[c[n].id] = c[n].body
  /\ Cardinality(Stored(rows)) = Cardinality(DOMAIN c)

Committed(i) == \E n \in DOMAIN chain : chain[n].id = i

Goto(p, loc) == pc' = [pc EXCEPT ![p] = loc]
EndWith(p, result) ==
  /\ Goto(p, "return")
  /\ outcome' = [outcome EXCEPT ![p] = result]

-----------------------------------------------------------------------------
NoLink == [sequence |-> 0, previous |-> Genesis]
NoChain == [n \in {} |-> NoLink]

(* A new file, or the file of a development ledger that has no chain yet.  *)
Init ==
  /\ records \in [Ids -> Bodies \union {NoRow}]
  /\ chain = NoChain
  /\ staged = [records |-> records, chain |-> NoChain]
  /\ writer = NoProc
  /\ pc = [p \in Procs |-> "closed"]
  /\ call \in [Procs -> {c \in Calls : c.job = "open"}]
  /\ view = [p \in Procs |-> NoChain]
  /\ pending = [p \in Procs |-> {}]
  /\ link = [p \in Procs |-> NoLink]
  /\ outcome = [p \in Procs |-> "pending"]

(* ExperimentLedger(path): create the tables, then migrate.                *)
Open(p) ==
  /\ pc[p] = "closed"
  /\ call' = [call EXCEPT ![p].job = "open"]
  /\ outcome' = [outcome EXCEPT ![p] = "pending"]
  /\ Goto(p, "rows")
  /\ UNCHANGED <<tables, view, pending, link>>

(* Mutant: all records are migrated at every start.                        *)
ReadRowsAll(p) ==
  LET rows == {r \in Rows : records[r.id] = r.body}
  IN  /\ pc[p] = "rows"
      /\ pending' = [pending EXCEPT ![p] = rows]
      /\ IF rows = {} THEN EndWith(p, "opened")
         ELSE Goto(p, "previous") /\ UNCHANGED outcome
      /\ UNCHANGED <<tables, call, view, link>>

(* Records without a commitment are chained once. *)
ReadRows(p) ==
  LET bare == {r \in Rows : records[r.id] = r.body /\ ~Committed(r.id)}
  IN  /\ pc[p] = "rows"
      /\ pending' = [pending EXCEPT ![p] = bare]
      /\ IF bare = {} THEN EndWith(p, "opened")
         ELSE Goto(p, "previous") /\ UNCHANGED outcome
      /\ UNCHANGED <<tables, call, view, link>>

Call(p) ==
  /\ pc[p] = "idle"
  /\ \E c \in {d \in Calls : d.job # "open"} : call' = [call EXCEPT ![p] = c]
  /\ outcome' = [outcome EXCEPT ![p] = "pending"]
  /\ Goto(p, "chain")
  /\ UNCHANGED <<tables, view, pending, link>>

(* _verify_chain reads the commitments and checks that they are linked.    *)
ReadChain(p) ==
  /\ pc[p] = "chain"
  /\ IF Linked(chain)
     THEN Goto(p, "count") /\ view' = [view EXCEPT ![p] = chain] /\ UNCHANGED outcome
     ELSE EndWith(p, "mismatch") /\ UNCHANGED view
  /\ UNCHANGED <<tables, call, pending, link>>

(* It compares them with the records there are by then. *)
CountRecords(p) ==
  /\ pc[p] = "count"
  /\ view' = [view EXCEPT ![p] = NoChain]
  /\ IF Reconciles(view[p], records)
     THEN Goto(p, "lookup") /\ UNCHANGED outcome
     ELSE EndWith(p, "unreconciled")
  /\ UNCHANGED <<tables, call, pending, link>>

(* get returns the row; append accepts the same record and refuses another *)
(* one under its ID.                                                       *)
LookupHits(p) ==
  /\ pc[p] = "lookup"
  /\ records[call[p].id] # NoRow
  /\ EndWith(p, IF call[p].job = "get" THEN "found"
                ELSE IF records[call[p].id] = call[p].body THEN "stored" ELSE "conflict")
  /\ UNCHANGED <<tables, call, view, pending, link>>

LookupMisses(p) ==
  /\ pc[p] = "lookup"
  /\ records[call[p].id] = NoRow
  /\ IF call[p].job = "get"
     THEN EndWith(p, "unknown") /\ UNCHANGED pending
     ELSE /\ Goto(p, "previous")
          /\ pending' = [pending EXCEPT ![p] = {[id |-> call[p].id, body |-> call[p].body]}]
          /\ UNCHANGED outcome
  /\ UNCHANGED <<tables, call, view, link>>

ReadPrevious(p) ==
  /\ pc[p] = "previous"
  /\ link' = [link EXCEPT ![p].previous = TailHash(chain)]
  /\ Goto(p, "sequence")
  /\ UNCHANGED <<tables, call, view, pending, outcome>>

ReadSequence(p) ==
  /\ pc[p] = "sequence"
  /\ link' = [link EXCEPT ![p].sequence = Top(chain) + 1]
  /\ Goto(p, "insert")
  /\ UNCHANGED <<tables, call, view, pending, outcome>>

(* Mutant: a sequence number may be used twice.                            *)
ViolatesIds(p, row) ==
  \/ call[p].job = "append" /\ staged.records[row.id] # NoRow
  \/ \E n \in DOMAIN staged.chain : staged.chain[n].id = row.id

(* Mutant: a record may be committed to twice.                             *)
ViolatesSequence(p, row) ==
  \/ call[p].job = "append" /\ staged.records[row.id] # NoRow
  \/ link[p].sequence \in DOMAIN staged.chain

(* The constraints an INSERT may violate: the primary keys of both tables  *)
(* and UNIQUE(experiment_id).                                              *)
Violates(p, row) ==
  \/ call[p].job = "append" /\ staged.records[row.id] # NoRow
  \/ link[p].sequence \in DOMAIN staged.chain
  \/ \E n \in DOMAIN staged.chain : staged.chain[n].id = row.id

Extended(c, n, entry) == [m \in DOMAIN c \union {n} |-> IF m = n THEN entry ELSE c[m]]

(* Mutant: the migration keeps the hash it started with.                   *)
InsertUnlinked(p) ==
  /\ pc[p] = "insert"
  /\ writer \in {NoProc, p}
  /\ \E row \in pending[p] :
       LET n     == link[p].sequence
           entry == [id |-> row.id, body |-> row.body, previous |-> link[p].previous]
           added == Extended(staged.chain, n, entry)
       IN  /\ ~Violates(p, row)
           /\ staged' = [records |-> [staged.records EXCEPT ![row.id] = row.body],
                         chain   |-> added]
           /\ link' = [link EXCEPT ![p] = [sequence |-> Top(added) + 1,
                                           previous |-> @.previous]]
           /\ pending' = [pending EXCEPT ![p] = @ \ {row}]
           /\ IF pending[p] = {row} THEN Goto(p, "commit") ELSE UNCHANGED pc
  /\ writer' = p
  /\ UNCHANGED <<records, chain, call, view, outcome>>

(* The INSERTs of one row.  The first one takes the write lock, and the    *)
(* migration goes on with the next row in the same transaction.  (The code *)
(* migrates in the order of the IDs, here any order will do.)              *)
Insert(p) ==
  /\ pc[p] = "insert"
  /\ writer \in {NoProc, p}
  /\ \E row \in pending[p] :
       LET n     == link[p].sequence
           entry == [id |-> row.id, body |-> row.body, previous |-> link[p].previous]
           added == Extended(staged.chain, n, entry)
       IN  /\ ~Violates(p, row)
           /\ staged' = [records |-> [staged.records EXCEPT ![row.id] = row.body],
                         chain   |-> added]
           /\ link' = [link EXCEPT ![p] = [sequence |-> Top(added) + 1,
                                           previous |-> Digest(n, entry)]]
           /\ pending' = [pending EXCEPT ![p] = @ \ {row}]
           /\ IF pending[p] = {row} THEN Goto(p, "commit") ELSE UNCHANGED pc
  /\ writer' = p
  /\ UNCHANGED <<records, chain, call, view, outcome>>

(* Leaving the "with" block with an exception undoes the transaction.      *)
Rollback(p) ==
  IF writer = p
  THEN writer' = NoProc /\ staged' = [records |-> records, chain |-> chain]
  ELSE UNCHANGED <<writer, staged>>

(* A constraint fails. *)
InsertRejected(p) ==
  /\ pc[p] = "insert"
  /\ writer \in {NoProc, p}
  /\ \E row \in pending[p] : Violates(p, row)
  /\ Rollback(p)
  /\ pending' = [pending EXCEPT ![p] = {}]
  /\ EndWith(p, "unique")
  /\ UNCHANGED <<records, chain, call, view, link>>

(* Mutants: only one table is written; nothing is.                         *)
CommitLost(p) ==
  /\ pc[p] = "commit"
  /\ Rollback(p)
  /\ EndWith(p, IF call[p].job = "open" THEN "opened" ELSE "stored")
  /\ UNCHANGED <<records, chain, call, view, pending, link>>

CommitRecord(p) ==
  /\ pc[p] = "commit"
  /\ records' = staged.records
  /\ UNCHANGED chain
  /\ writer' = NoProc
  /\ EndWith(p, IF call[p].job = "open" THEN "opened" ELSE "stored")
  /\ UNCHANGED <<staged, call, view, pending, link>>

Commit(p) ==
  /\ pc[p] = "commit"
  /\ records' = staged.records
  /\ chain' = staged.chain
  /\ writer' = NoProc
  /\ EndWith(p, IF call[p].job = "open" THEN "opened" ELSE "stored")
  /\ UNCHANGED <<staged, call, view, pending, link>>

(* Any statement may find the database locked, and the commit may fail.    *)
Busy(p) ==
  /\ pc[p] \notin {"closed", "idle", "return"}
  /\ Rollback(p)
  /\ view' = [view EXCEPT ![p] = NoChain]
  /\ pending' = [pending EXCEPT ![p] = {}]
  /\ EndWith(p, "busy")
  /\ UNCHANGED <<records, chain, call, link>>

(* A constructor that raised leaves no ledger behind. *)
Return(p) ==
  /\ pc[p] = "return"
  /\ Goto(p, IF call[p].job = "open" /\ outcome[p] # "opened" THEN "closed" ELSE "idle")
  /\ link' = [link EXCEPT ![p] = NoLink]
  /\ UNCHANGED <<tables, call, view, pending, outcome>>

Crash(p) ==
  /\ pc[p] # "closed"
  /\ Goto(p, "closed")
  /\ Rollback(p)
  /\ view' = [view EXCEPT ![p] = NoChain]
  /\ pending' = [pending EXCEPT ![p] = {}]
  /\ link' = [link EXCEPT ![p] = NoLink]
  /\ outcome' = [outcome EXCEPT ![p] = "pending"]
  /\ UNCHANGED <<records, chain, call>>

Step(p) ==
  \/ ReadRows(p) \/ ReadChain(p) \/ CountRecords(p) \/ LookupHits(p) \/ LookupMisses(p)
  \/ ReadPrevious(p) \/ ReadSequence(p) \/ Insert(p) \/ InsertRejected(p)
  \/ Commit(p) \/ Busy(p) \/ Return(p)

Next == \E p \in Procs : Open(p) \/ Call(p) \/ Step(p) \/ Crash(p)

Spec == Init /\ [][Next]_vars

-----------------------------------------------------------------------------
TypeOK ==
  /\ records \in [Ids -> Bodies \union {NoRow}]
  /\ writer \in Procs \union {NoProc}
  /\ pc \in [Procs -> Locations]
  /\ call \in [Procs -> Calls]
  /\ pending \in [Procs -> SUBSET Rows]
  /\ DOMAIN link = Procs
  /\ \A p \in Procs : DOMAIN link[p] = {"sequence", "previous"}
  /\ outcome \in [Procs -> Outcomes]

(* Sequence numbers have no gap, whoever loses a race or is rolled back    *)
(* between reading the maximum and using it.                               *)
Numbered(c) == Top(c) \in Nat /\ DOMAIN c = 1..Top(c)
Contiguous == Numbered(chain)

(* Records and commitments are written together: a commitment has its      *)
(* record, and a record is committed to once.                              *)
Pairs(rows, c) ==
  /\ \A n \in DOMAIN c : c[n].id \in Stored(rows) /\ rows[c[n].id] = c[n].body
  /\ \A m, n \in DOMAIN c : c[m].id = c[n].id => m = n
Paired == Pairs(records, chain)

(* The migration is complete: once any process works with the ledger, no   *)
(* record is without a commitment, even if several processes migrated it   *)
(* at once or some died on the way.                                        *)
Using(p) == pc[p] # "closed" /\ call[p].job # "open"
NoneUnchained == (\E p \in Procs : Using(p)) => \A i \in Stored(records) : Committed(i)

(* append returned normally: the record is stored and committed to.        *)
Acknowledged ==
  \A p \in Procs :
    pc[p] = "return" /\ outcome[p] = "stored" =>
      records[call[p].id] = call[p].body /\ Committed(call[p].id)

(* "append-only": no row of either table changes or disappears, not even   *)
(* under the migration of an old ledger.                                   *)
Kept(rows, c, newRows, newChain) ==
  /\ \A i \in Stored(rows) : newRows[i] = rows[i]
  /\ \A n \in DOMAIN c : n \in DOMAIN newChain /\ newChain[n] = c[n]
AppendOnly == [][Kept(records, chain, records', chain')]_vars

(* Every step of every process is, for the committed tables, one of the    *)
(* ledger that acts at once: a migration as a whole, one append, nothing.  *)
AtOnce == INSTANCE AtomicLedger WITH order <- [n \in DOMAIN chain |-> chain[n].id]
ActsAtOnce == AtOnce!Spec

(* "a verified, append-only hash chain": the committed chain verifies.     *)
Intact == Linked(chain)

(* A ledger used by one process never refuses to open or to      *)
(* verify, whatever was rolled back or died in the middle.                 *)
NeverLocksOut ==
  \A p \in Procs : outcome[p] \notin {"mismatch", "unreconciled", "unique"}

(* The inductive invariant of any number of processes: the open            *)
(* transaction extends what is committed, and an INSERT that is not        *)
(* rejected uses the next number, however old the maximum it read.         *)
Staging ==
  /\ staged = [records |-> staged.records, chain |-> staged.chain]
  /\ writer = NoProc => staged = [records |-> records, chain |-> chain]
  /\ \A p \in Procs : writer = p => pc[p] \in {"insert", "commit"}
  /\ \A p \in Procs : pc[p] = "commit" => writer = p
  /\ staged.records \in [Ids -> Bodies \union {NoRow}]
  /\ Kept(records, chain, staged.records, staged.chain)

SequenceOK ==
  \A p \in Procs :
    pc[p] = "insert" =>
      link[p].sequence \in 1..(Top(IF writer = p THEN staged.chain ELSE chain) + 1)

PendingOK ==
  \A p \in Procs :
    /\ pc[p] = "rows" => call[p].job = "open"
    /\ pc[p] \in {"chain", "count", "lookup"} => call[p].job # "open"
    /\ pc[p] \notin {"previous", "sequence", "insert"} => pending[p] = {}
    /\ \A row \in pending[p] :
         IF call[p].job = "append" THEN row = [id |-> call[p].id, body |-> call[p].body]
         ELSE call[p].job = "open" /\ records[row.id] = row.body

IInv ==
  /\ TypeOK
  /\ Staging
  /\ SequenceOK
  /\ PendingOK
  /\ Numbered(chain) /\ Numbered(staged.chain)
  /\ Paired /\ Pairs(staged.records, staged.chain)

(* With one process nothing it has read is ever old: the next commitment   *)
(* continues the chain.                                                    *)
LinkOK ==
  \A p \in Procs :
    /\ pc[p] = "sequence" => link[p].previous = TailHash(chain)
    /\ pc[p] = "insert" => /\ link[p].sequence = Top(staged.chain) + 1
                           /\ link[p].previous = TailHash(staged.chain)

SerialInv ==
  /\ IInv
  /\ LinkOK
  /\ Linked(chain) /\ Linked(staged.chain)
=============================================================================
