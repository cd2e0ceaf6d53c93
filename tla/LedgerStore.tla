----------------------------- MODULE LedgerStore -----------------------------
(***************************************************************************)
(* SQLiteRunLedger.append (aegis/fund/ledger.py) as several processes run  *)
(* it against one database file.                                           *)
(*                                                                         *)
(* The append is a SELECT followed by an INSERT.  The sqlite3 module opens *)
(* a transaction only before the INSERT, so the SELECT is not covered by   *)
(* it and another process may commit between the two statements.  The      *)
(* INSERT takes the database's single write lock, which the commit at the  *)
(* end of the "with" block releases; a process that cannot take it within  *)
(* the busy timeout gets an OperationalError.                              *)
(***************************************************************************)
EXTENDS Naturals, FiniteSets

CONSTANTS
  Procs,      \* processes that share the database file
  Keys,       \* run IDs
  Payloads,   \* canonical record bodies
  NoRow,      \* the absence of a row
  NoProc      \* nobody holds the write lock

ASSUME NoRowAssumption  == NoRow \notin Payloads
ASSUME NoProcAssumption == NoProc \notin Procs

VARIABLES
  rows,       \* committed rows of the table "cycles"
  writer,     \* the process whose INSERT is not committed yet
  place,      \* where each process is in append
  req,        \* the record each process is appending
  outcome,    \* how the current call ended
  acked       \* pairs for which some append has returned its digest (history)

ledgerVars == <<rows, writer, place, req, outcome, acked>>

Places == {"idle", "select", "insert", "commit", "return"}

(* "stored"    append returns the digest                                   *)
(* "conflict"  LedgerIntegrityError: the run ID has a different record     *)
(* "unique"    sqlite3.IntegrityError raised by the INSERT                 *)
(* "busy"      sqlite3.OperationalError: database is locked, disk full ... *)
Outcomes == {"pending", "stored", "conflict", "unique", "busy"}

Requests == [key : Keys, payload : Payloads]

MoveTo(p, loc) == place' = [place EXCEPT ![p] = loc]

EndWith(p, result) ==
  /\ MoveTo(p, "return")
  /\ outcome' = [outcome EXCEPT ![p] = result]

LedgerInit ==
  /\ rows    = [k \in Keys |-> NoRow]
  /\ writer  = NoProc
  /\ place   = [p \in Procs |-> "idle"]
  /\ req     \in [Procs -> Requests]
  /\ outcome = [p \in Procs |-> "pending"]
  /\ acked   = {}

(* A caller invokes append(record): payload and digest are computed.       *)
Call(p) ==
  /\ place[p] = "idle"
  /\ \E r \in Requests : req' = [req EXCEPT ![p] = r]
  /\ MoveTo(p, "select")
  /\ outcome' = [outcome EXCEPT ![p] = "pending"]
  /\ UNCHANGED <<rows, writer, acked>>

(* The SELECT found no row: go on to the INSERT.                           *)
SelectMisses(p) ==
  /\ place[p] = "select"
  /\ rows[req[p].key] = NoRow
  /\ MoveTo(p, "insert")
  /\ UNCHANGED <<rows, writer, req, outcome, acked>>

(* Mutant: a run ID already present counts as stored, without the digest   *)
(* comparison.                                                             *)
SelectHitsUncompared(p) ==
  /\ place[p] = "select"
  /\ rows[req[p].key] # NoRow
  /\ EndWith(p, "stored")
  /\ UNCHANGED <<rows, writer, req, acked>>

(* The SELECT found a row: the same record is returned as stored, another  *)
(* record is a run ID conflict.                                            *)
SelectHits(p) ==
  /\ place[p] = "select"
  /\ rows[req[p].key] # NoRow
  /\ EndWith(p, IF rows[req[p].key] = req[p].payload THEN "stored" ELSE "conflict")
  /\ UNCHANGED <<rows, writer, req, acked>>

(* The INSERT takes the write lock and the primary key is still free.      *)
Insert(p) ==
  /\ place[p] = "insert"
  /\ writer = NoProc
  /\ rows[req[p].key] = NoRow
  /\ writer' = p
  /\ MoveTo(p, "commit")
  /\ UNCHANGED <<rows, req, outcome, acked>>

(* Another process committed the key since this one's SELECT: the primary  *)
(* key constraint fails and the "with" block rolls back.                   *)
InsertRejected(p) ==
  /\ place[p] = "insert"
  /\ writer = NoProc
  /\ rows[req[p].key] # NoRow
  /\ EndWith(p, "unique")
  /\ UNCHANGED <<rows, writer, req, acked>>

(* Mutant: no busy timeout.                                                *)
LockTimeoutNever(p) == place[p] = "insert" /\ writer = p /\ UNCHANGED ledgerVars

(* The busy timeout runs out while another process holds the write lock.   *)
LockTimeout(p) ==
  /\ place[p] = "insert"
  /\ writer # NoProc
  /\ EndWith(p, "busy")
  /\ UNCHANGED <<rows, writer, req, acked>>

(* Leaving the "with" block commits.                                       *)
Commit(p) ==
  /\ place[p] = "commit"
  /\ rows' = [rows EXCEPT ![req[p].key] = req[p].payload]
  /\ writer' = NoProc
  /\ EndWith(p, "stored")
  /\ UNCHANGED <<req, acked>>

(* Mutant: the digest is returned although the commit failed.              *)
CommitFailsSilently(p) ==
  /\ place[p] = "commit"
  /\ writer' = NoProc
  /\ EndWith(p, "stored")
  /\ UNCHANGED <<rows, req, acked>>

(* The commit itself fails (disk full, I/O error) and is rolled back.      *)
CommitFails(p) ==
  /\ place[p] = "commit"
  /\ writer' = NoProc
  /\ EndWith(p, "busy")
  /\ UNCHANGED <<rows, req, acked>>

(* append returns the digest, or its exception reaches the caller.         *)
Return(p) ==
  /\ place[p] = "return"
  /\ MoveTo(p, "idle")
  /\ acked' = IF outcome[p] = "stored"
                THEN acked \union {<<req[p].key, req[p].payload>>}
                ELSE acked
  /\ UNCHANGED <<rows, writer, req, outcome>>

(* The process dies.  An uncommitted INSERT is rolled back by the recovery *)
(* of the write-ahead log, and the lock is gone with its holder.           *)
Die(p) ==
  /\ place[p] # "idle"
  /\ MoveTo(p, "idle")
  /\ outcome' = [outcome EXCEPT ![p] = "pending"]
  /\ writer' = IF writer = p THEN NoProc ELSE writer
  /\ UNCHANGED <<rows, req, acked>>

AppendStep(p) ==
  \/ SelectMisses(p) \/ SelectHits(p)
  \/ Insert(p) \/ InsertRejected(p) \/ LockTimeout(p)
  \/ Commit(p) \/ CommitFails(p)
  \/ Return(p)

LedgerNext == \E p \in Procs : Call(p) \/ AppendStep(p) \/ Die(p)

LedgerSpec == LedgerInit /\ [][LedgerNext]_ledgerVars

(* append is straight-line code with a busy timeout: once called it keeps  *)
(* running unless its process dies.  Nothing obliges a caller to call.     *)
LedgerFair == LedgerSpec /\ \A p \in Procs : WF_ledgerVars(AppendStep(p))

-----------------------------------------------------------------------------

LedgerTypeOK ==
  /\ rows    \in [Keys -> Payloads \union {NoRow}]
  /\ writer  \in Procs \union {NoProc}
  /\ place      \in [Procs -> Places]
  /\ req     \in [Procs -> Requests]
  /\ outcome \in [Procs -> Outcomes]
  /\ acked   \subseteq Keys \X Payloads

(* The write lock belongs to the one process between INSERT and commit,    *)
(* and the key it is about to write is free: what makes Commit a Put.      *)
LockOwned ==
  \A p \in Procs : place[p] = "commit" => writer = p /\ rows[req[p].key] = NoRow

(* A call that is about to report success finds its record in the table.   *)
SuccessIsStored ==
  \A p \in Procs :
    (place[p] = "return" /\ outcome[p] = "stored") => rows[req[p].key] = req[p].payload

(* Durability (append returns the digest only of a stored record): a       *)
(* record whose append has returned is in the table whatever other         *)
(* processes did, died or rolled back since.                               *)
AckedDurable == \A a \in acked : rows[a[1]] = a[2]

(* An append fails with a conflict or a constraint violation only because  *)
(* the table already has a row for its run ID: never by its own traces, a  *)
(* rolled-back INSERT of its own or of a process that died included.       *)
FailureExplained ==
  \A p \in Procs :
    place[p] = "return" =>
      /\ outcome[p] = "unique"   => rows[req[p].key] # NoRow
      /\ outcome[p] = "conflict" => rows[req[p].key] \notin {NoRow, req[p].payload}

(* The inductive invariant behind the properties above.                    *)
LedgerInv ==
  /\ LedgerTypeOK
  /\ LockOwned
  /\ SuccessIsStored
  /\ FailureExplained
  /\ AckedDurable

(* The ledger is append-only: a committed row is never replaced, removed   *)
(* or overwritten by the loser of a race.                                  *)
WriteOnce ==
  [][\A k \in Keys : rows[k] # NoRow => rows'[k] = rows[k]]_ledgerVars

(* Every append returns or its process dies: the busy timeout and the      *)
(* rollback leave nobody waiting for a lock whose holder is gone.          *)
AppendReturns ==
  \A p \in Procs : (place[p] # "idle") ~> (place[p] = "idle")

(* The protocol keeps the abstract promise.                                *)
Promise == INSTANCE OnceStore WITH store <- rows
PromiseSpec == Promise!Spec
=============================================================================
