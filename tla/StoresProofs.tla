----------------------------- MODULE StoresProofs -----------------------------
(***************************************************************************)
(* The stores that processes share: the run ledger, the thesis ledger, the *)
(* governed memory and the point-in-time lake, each for any number of      *)
(* processes.  All of them decide on what they have read and write later,  *)
(* in another transaction or another append; each inductive invariant says *)
(* what a stale reading is still worth when it is used.                    *)
(***************************************************************************)
EXTENDS LedgerStore, ThesisLedger, MemoryGovernance, PitLake, InductionLemmas

-----------------------------------------------------------------------------
(***************************************************************************)
(* The run ledger: a SELECT outside the transaction, the INSERT under the  *)
(* lock.                                                                   *)
(***************************************************************************)
USE DEF Places, Outcomes, Requests

(* The initial states satisfy the inductive invariant: the table is empty. *)
LEMMA InitEstablishes == LedgerInit => LedgerInv
<1> SUFFICES ASSUME LedgerInit PROVE LedgerInv
  OBVIOUS
<1>1. LedgerTypeOK
  BY DEF LedgerInit, LedgerTypeOK
<1> QED
  BY <1>1 DEF LedgerInit, LedgerInv, LockOwned, SuccessIsStored, FailureExplained, AckedDurable

(* Every step of append, by whichever process, preserves it.  The steps    *)
(* that leave the table alone can only disturb their own process's part;   *)
(* Commit writes a key that LockOwned knows to be free.                    *)
LEMMA StepPreserves == LedgerInv /\ [LedgerNext]_ledgerVars => LedgerInv'
<1> SUFFICES ASSUME LedgerInv, [LedgerNext]_ledgerVars PROVE LedgerInv'
  OBVIOUS
<1> USE NoRowAssumption, NoProcAssumption DEF LedgerInv
<1>1. ASSUME NEW p \in Procs, Call(p) PROVE LedgerInv'
  <2>1. LedgerTypeOK'
    BY <1>1 DEF Call, LedgerTypeOK, MoveTo
  <2> QED
    BY <1>1, <2>1 DEF Call, LedgerTypeOK, MoveTo, LockOwned, SuccessIsStored, FailureExplained,
       AckedDurable
<1>2. ASSUME NEW p \in Procs, SelectMisses(p) PROVE LedgerInv'
  BY <1>2 DEF SelectMisses, MoveTo, LedgerTypeOK, LockOwned, SuccessIsStored, FailureExplained,
     AckedDurable
<1>3. ASSUME NEW p \in Procs, SelectHits(p) PROVE LedgerInv'
  BY <1>3 DEF SelectHits, EndWith, MoveTo, LedgerTypeOK, LockOwned, SuccessIsStored,
     FailureExplained, AckedDurable
<1>4. ASSUME NEW p \in Procs, Insert(p) PROVE LedgerInv'
  BY <1>4 DEF Insert, MoveTo, LedgerTypeOK, LockOwned, SuccessIsStored, FailureExplained,
     AckedDurable
<1>5. ASSUME NEW p \in Procs, InsertRejected(p) PROVE LedgerInv'
  BY <1>5 DEF InsertRejected, EndWith, MoveTo, LedgerTypeOK, LockOwned, SuccessIsStored,
     FailureExplained, AckedDurable
<1>6. ASSUME NEW p \in Procs, LockTimeout(p) PROVE LedgerInv'
  BY <1>6 DEF LockTimeout, EndWith, MoveTo, LedgerTypeOK, LockOwned, SuccessIsStored,
     FailureExplained, AckedDurable
<1>7. ASSUME NEW p \in Procs, Commit(p) PROVE LedgerInv'
  <2> DEFINE k == req[p].key
  <2>1. k \in Keys /\ req[p].payload \in Payloads /\ rows[k] = NoRow /\ writer = p
    BY <1>7 DEF Commit, LedgerTypeOK, LockOwned
  <2>2. LedgerTypeOK'
    BY <1>7, <2>1 DEF Commit, EndWith, MoveTo, LedgerTypeOK
  <2>3. \A j \in Keys : rows[j] # NoRow => rows'[j] = rows[j]
    BY <1>7, <2>1 DEF Commit, LedgerTypeOK
  <2>4. LockOwned'
    BY <1>7, <2>1 DEF Commit, EndWith, MoveTo, LedgerTypeOK, LockOwned
  <2>5. SuccessIsStored'
    BY <1>7, <2>1 DEF Commit, EndWith, MoveTo, LedgerTypeOK, SuccessIsStored
  <2>6. FailureExplained'
    BY <1>7, <2>1, <2>3 DEF Commit, EndWith, MoveTo, LedgerTypeOK, FailureExplained
  <2>7. AckedDurable'
    <3> SUFFICES ASSUME NEW a \in acked PROVE rows'[a[1]] = a[2]
      BY <1>7 DEF Commit, AckedDurable
    <3>1. a[1] \in Keys /\ a[2] \in Payloads /\ rows[a[1]] = a[2]
      BY DEF LedgerTypeOK, AckedDurable
    <3> QED
      BY <3>1, <2>3
  <2> QED
    BY <2>2, <2>4, <2>5, <2>6, <2>7
<1>8. ASSUME NEW p \in Procs, CommitFails(p) PROVE LedgerInv'
  BY <1>8 DEF CommitFails, EndWith, MoveTo, LedgerTypeOK, LockOwned, SuccessIsStored,
     FailureExplained, AckedDurable
<1>9. ASSUME NEW p \in Procs, Return(p) PROVE LedgerInv'
  <2>1. LedgerTypeOK'
    BY <1>9 DEF Return, MoveTo, LedgerTypeOK
  <2>2. LockOwned' /\ SuccessIsStored' /\ FailureExplained'
    BY <1>9 DEF Return, MoveTo, LedgerTypeOK, LockOwned, SuccessIsStored, FailureExplained
  <2>3. AckedDurable'
    <3> SUFFICES ASSUME NEW a \in acked' PROVE rows[a[1]] = a[2]
      BY <1>9 DEF Return, AckedDurable
    <3>1. CASE a \in acked
      BY <3>1 DEF AckedDurable
    <3>2. CASE a \notin acked
      <4>1. outcome[p] = "stored" /\ a = <<req[p].key, req[p].payload>>
        BY <1>9, <3>2 DEF Return
      <4> QED
        BY <1>9, <4>1 DEF Return, SuccessIsStored
    <3> QED
      BY <3>1, <3>2
  <2> QED
    BY <2>1, <2>2, <2>3
<1>10. ASSUME NEW p \in Procs, Die(p) PROVE LedgerInv'
  BY <1>10 DEF Die, MoveTo, LedgerTypeOK, LockOwned, SuccessIsStored, FailureExplained,
     AckedDurable
<1>11. CASE UNCHANGED ledgerVars
  BY <1>11 DEF ledgerVars, LedgerTypeOK, LockOwned, SuccessIsStored, FailureExplained, AckedDurable
<1> QED
  BY <1>1, <1>2, <1>3, <1>4, <1>5, <1>6, <1>7, <1>8, <1>9, <1>10, <1>11 DEF LedgerNext, AppendStep

(* The inductive invariant holds of every state append can reach.          *)
THEOREM Invariance == LedgerSpec => []LedgerInv
<1> QED
  BY InitEstablishes, StepPreserves, PTL DEF LedgerSpec

(* Type correctness.                                                       *)
THEOREM TypeCorrect == LedgerSpec => []LedgerTypeOK
<1>1. LedgerInv => LedgerTypeOK
  BY DEF LedgerInv
<1> QED
  BY Invariance, <1>1, PTL

(* Durability: a record whose append has returned its digest stays in the  *)
(* table, whatever other processes do and whoever dies.                    *)
THEOREM Durability == LedgerSpec => []AckedDurable
<1>1. LedgerInv => AckedDurable
  BY DEF LedgerInv
<1> QED
  BY Invariance, <1>1, PTL

(* append-only: no step of any process changes or removes a stored record. *)
THEOREM AppendOnly == LedgerSpec => WriteOnce
<1>1. LedgerInv /\ [LedgerNext]_ledgerVars => [\A k \in Keys : rows[k] # NoRow => rows'[k] = rows[k]]_ledgerVars
  <2> SUFFICES ASSUME LedgerInv, LedgerNext, NEW k \in Keys, rows[k] # NoRow
               PROVE  rows'[k] = rows[k]
    OBVIOUS
  <2>1. CASE \E p \in Procs : Commit(p)
    BY <2>1 DEF Commit, LedgerInv, LedgerTypeOK, LockOwned
  <2>2. CASE ~ \E p \in Procs : Commit(p)
    BY <2>2 DEF LedgerNext, AppendStep, Call, SelectMisses, SelectHits, Insert, InsertRejected,
       LockTimeout, CommitFails, Return, Die
  <2> QED
    BY <2>1, <2>2
<1> QED
  BY Invariance, <1>1, PTL DEF LedgerSpec, WriteOnce

(* The SELECT-then-INSERT protocol implements the write-once store: Commit *)
(* puts, a successful Return acknowledges, every other step stutters.      *)
THEOREM Implements == LedgerSpec => PromiseSpec
<1>1. LedgerInit => Promise!Init
  BY DEF LedgerInit, Promise!Init
<1>2. LedgerInv /\ [LedgerNext]_ledgerVars => [Promise!Next]_(Promise!storeVars)
  <2> SUFFICES ASSUME LedgerInv, LedgerNext PROVE Promise!Next \/ UNCHANGED <<rows, acked>>
    BY DEF Promise!storeVars, ledgerVars
  <2>1. ASSUME NEW p \in Procs, Commit(p) PROVE Promise!Next
    <3>1. req[p].key \in Keys /\ req[p].payload \in Payloads /\ rows[req[p].key] = NoRow
      BY <2>1 DEF Commit, LedgerInv, LedgerTypeOK, LockOwned
    <3>2. Promise!Put(req[p].key, req[p].payload)
      BY <2>1, <3>1 DEF Commit, Promise!Put
    <3> QED
      BY <3>1, <3>2 DEF Promise!Next
  <2>2. ASSUME NEW p \in Procs, Return(p) PROVE Promise!Next \/ UNCHANGED <<rows, acked>>
    <3>1. CASE outcome[p] = "stored"
      <4>1. req[p].key \in Keys /\ req[p].payload \in Payloads
            /\ rows[req[p].key] = req[p].payload
        BY <2>2, <3>1 DEF Return, LedgerInv, LedgerTypeOK, SuccessIsStored
      <4>2. Promise!Acknowledge(req[p].key, req[p].payload)
        BY <2>2, <3>1, <4>1 DEF Return, Promise!Acknowledge
      <4> QED
        BY <4>1, <4>2 DEF Promise!Next
    <3>2. CASE outcome[p] # "stored"
      BY <2>2, <3>2 DEF Return
    <3> QED
      BY <3>1, <3>2
  <2>3. CASE \A p \in Procs : ~Commit(p) /\ ~Return(p)
    BY <2>3 DEF LedgerNext, AppendStep, Call, SelectMisses, SelectHits, Insert, InsertRejected,
       LockTimeout, CommitFails, Die
  <2> QED
    BY <2>1, <2>2, <2>3
<1> QED
  BY <1>1, <1>2, Invariance, PTL DEF LedgerSpec, PromiseSpec, Promise!Spec

HIDE DEF Places, Outcomes, Requests

-----------------------------------------------------------------------------
(***************************************************************************)
(* The thesis ledger.                                                      *)
(***************************************************************************)
ThesisSteps == {"idle", "identity", "latest", "insert", "commit"}

ThesisTypes ==
  /\ theses \subseteq Theses /\ IsFiniteSet(theses)
  /\ inserting \subseteq Authors
  /\ author \in [Authors -> [at : ThesisSteps, thesis : Theses \union {NoThesis}]]
  /\ \A a \in Authors : author[a].at # "idle" => author[a].thesis \in Theses

(* At most one INSERT is not committed.                                    *)
ThesisLock ==
  /\ \A a \in Authors : author[a].at = "commit" <=> a \in inserting
  /\ \A a, b \in inserting : a = b

(* A thesis begins the line of its ticker or succeeds one that is in it.   *)
Rooted(t) == t.version = 1 \/ \E u \in Of(t.ticker) : Succeeds(t, u)

(* What append has checked when it is about to insert, and while it holds  *)
(* the lock: the latest thesis may not be the latest any more, but no row  *)
(* ever goes away; the keys are still free.                                *)
ThesisChecked ==
  \A a \in Authors :
    /\ author[a].at \in {"insert", "commit"} => Rooted(author[a].thesis)
    /\ author[a].at = "commit" => Unconstrained(author[a].thesis)

ThesisInv == ThesisTypes /\ ThesisLock /\ ThesisChecked /\ OneLineOfHistory

LEMMA ThesisInitEstablishes == ThesisInit => ThesisInv
<1> SUFFICES ASSUME ThesisInit PROVE ThesisInv
  OBVIOUS
<1>1. ThesisTypes
  BY FS_EmptySet DEF ThesisInit, ThesisTypes, ThesisSteps, Resting
<1> QED
  BY <1>1 DEF ThesisInit, ThesisInv, ThesisLock, ThesisChecked, Resting, OneLineOfHistory

(* The latest thesis of a ticker is one of its theses.                     *)
LEMMA LatestIsOne ==
  ASSUME ThesisTypes, NEW ticker, Of(ticker) # {}
  PROVE  LatestOf(ticker) \in Of(ticker)
<1> DEFINE versions == {t.version : t \in Of(ticker)}
<1>1. Of(ticker) \subseteq Theses /\ IsFiniteSet(Of(ticker))
  <2>1. Of(ticker) \in SUBSET theses
    BY DEF Of
  <2> QED
    BY <2>1, FS_Subset DEF ThesisTypes
<1>2. versions \in SUBSET Int
  BY <1>1, ThesesAssumption
<1>3. IsFiniteSet(versions)
  <2> DEFINE version == [t \in Of(ticker) |-> t.version]
  <2>1. IsFiniteSet({version[t] : t \in Of(ticker)})
    BY <1>1, FiniteImage
  <2> QED
    BY <2>1
<1>4. PICK n \in versions : \A m \in versions : m <= n
  <2>1. versions # {}
    OBVIOUS
  <2> HIDE DEF versions
  <2> QED
    BY <1>2, <1>3, <2>1, GreatestNumber
<1>5. \E t \in Of(ticker) : \A u \in Of(ticker) : u.version <= t.version
  BY <1>4
<1> QED
  BY <1>5 DEF LatestOf

(* What append checks against the latest it reads roots the thesis.        *)
LEMMA CheckedIsRooted ==
  ASSUME ThesisTypes, NEW t \in Theses, Succeeds(t, LatestOf(t.ticker))
  PROVE  Rooted(t)
<1>1. CASE Of(t.ticker) = {}
  BY <1>1 DEF LatestOf, Succeeds, Rooted
<1>2. CASE Of(t.ticker) # {}
  BY <1>2, LatestIsOne DEF Rooted
<1> QED
  BY <1>1, <1>2

(* Where the rows stay what they are, what was checked of a thesis stays   *)
(* true; the rest is one author's move.                                    *)
LEMMA RowsKept ==
  ASSUME theses' = theses
  PROVE  /\ \A t : Rooted(t)' <=> Rooted(t)
         /\ \A t : Unconstrained(t)' <=> Unconstrained(t)
         /\ OneLineOfHistory /\ kept' \subseteq theses => OneLineOfHistory'
<1>1. \A ticker : Of(ticker)' = Of(ticker)
  BY DEF Of
<1> QED
  BY <1>1 DEF Rooted, Unconstrained, OneLineOfHistory

LEMMA AuthorMoves ==
  ASSUME ThesisInv, theses' = theses, kept' \subseteq theses,
         NEW a \in Authors,
         NEW row \in [at : ThesisSteps, thesis : Theses \union {NoThesis}],
         author' = [author EXCEPT ![a] = row],
         row.at # "idle" => row.thesis \in Theses,
         row.at \in {"insert", "commit"} => Rooted(row.thesis),
         row.at = "commit" => Unconstrained(row.thesis),
         inserting' \subseteq Authors,
         \A b \in Authors \ {a} : b \in inserting' <=> b \in inserting,
         row.at = "commit" <=> a \in inserting',
         \A b, c \in inserting' : b = c
  PROVE  ThesisInv'
<1> USE DEF ThesisInv
<1>1. \A b \in Authors : author'[b] = IF b = a THEN row ELSE author[b]
  BY DEF ThesisTypes
<1>2. ThesisTypes'
  BY <1>1 DEF ThesisTypes
<1>3. ThesisLock'
  BY <1>1 DEF ThesisLock
<1>4. ThesisChecked'
  BY <1>1, RowsKept DEF ThesisChecked
<1> QED
  BY <1>2, <1>3, <1>4, RowsKept

LEMMA NewThesisJoins ==
  ASSUME ThesisInv, NEW a \in Authors, CommitThesis(a)
  PROVE  OneLineOfHistory'
<1> DEFINE t == author[a].thesis
<1>1. t \in Theses /\ Rooted(t) /\ Unconstrained(t)
  BY DEF ThesisInv, ThesisTypes, ThesisChecked, CommitThesis
<1>2. theses' = theses \union {t} /\ kept' = kept \union {t}
  BY DEF CommitThesis
<1> HIDE DEF t
<1>3. \A u \in theses : Rooted(u)
  BY DEF ThesisInv, OneLineOfHistory, Rooted
<1>4. \A ticker : Of(ticker) \subseteq Of(ticker)'
  BY <1>2 DEF Of
<1>5. \A u \in theses' : Rooted(u)'
  BY <1>1, <1>2, <1>3, <1>4 DEF Rooted
<1>6. kept' \subseteq theses'
  BY <1>2 DEF ThesisInv, OneLineOfHistory
<1>7. \A u, v \in theses' : u.id = v.id => u = v
  BY <1>1, <1>2 DEF ThesisInv, OneLineOfHistory, Unconstrained
<1>8. \A u \in theses' : \A v \in Of(u.ticker)' : v.version = u.version => v = u
  BY <1>1, <1>2 DEF ThesisInv, OneLineOfHistory, Unconstrained, Of
<1> QED
  BY <1>5, <1>6, <1>7, <1>8 DEF OneLineOfHistory, Rooted

(* A row is added under the lock only, and none is removed.                *)
LEMMA ThesisStep == ThesisInv /\ [ThesisNext]_thesisVars => ThesisInv'
<1> SUFFICES ASSUME ThesisInv, [ThesisNext]_thesisVars PROVE ThesisInv'
  OBVIOUS
<1>0. /\ kept \subseteq theses /\ inserting \subseteq Authors
      /\ \A b, c \in inserting : b = c
  BY DEF ThesisInv, OneLineOfHistory, ThesisTypes, ThesisLock
<1>types. /\ author \in [Authors -> [at : ThesisSteps, thesis : Theses \union {NoThesis}]]
          /\ \A a \in Authors : author[a].at # "idle" => author[a].thesis \in Theses
          /\ \A a \in Authors : author[a].at = "commit" <=> a \in inserting
          /\ \A a \in Authors : author[a].at \in {"insert", "commit"} => Rooted(author[a].thesis)
  BY DEF ThesisInv, ThesisTypes, ThesisLock, ThesisChecked
<1>1. ASSUME NEW a \in Authors, AppendThesis(a) PROVE ThesisInv'
  <2>1. PICK t \in Theses : author' = [author EXCEPT ![a] = [at |-> "identity", thesis |-> t]]
    BY <1>1 DEF AppendThesis
  <2>2. a \notin inserting
    BY <1>1, <1>types DEF AppendThesis
  <2> QED
    BY <1>1, <2>1, <2>2, <1>0, AuthorMoves DEF AppendThesis, ThesisSteps
<1>2. ASSUME NEW a \in Authors, theses' = theses, kept' \subseteq theses, Finish(a),
             inserting' = inserting \ {a}
      PROVE  ThesisInv'
  <2>1. Resting \in [at : ThesisSteps, thesis : Theses \union {NoThesis}] /\ Resting.at = "idle"
    BY DEF Resting, ThesisSteps
  <2>2. author' = [author EXCEPT ![a] = Resting]
    BY <1>2 DEF Finish
  <2> QED
    BY <1>2, <2>1, <2>2, <1>0, AuthorMoves
<1>3. ASSUME NEW a \in Authors, NEW step \in ThesisSteps \ {"idle"}, Reach(a, step),
             theses' = theses, kept' = kept, author[a].at # "idle",
             step \in {"insert", "commit"} => Rooted(author[a].thesis),
             step = "commit" => Unconstrained(author[a].thesis),
             inserting' = IF step = "commit" THEN {a} ELSE inserting,
             author[a].at # "commit", step = "commit" => inserting = {}
      PROVE  ThesisInv'
  <2> DEFINE row == [at |-> step, thesis |-> author[a].thesis]
  <2>1. author[a].thesis \in Theses /\ a \notin inserting
    BY <1>3, <1>types
  <2>2. author' = [author EXCEPT ![a] = row]
    <3>1. author[a] \in [at : ThesisSteps, thesis : Theses \union {NoThesis}]
      BY <1>types
    <3>2. [author[a] EXCEPT !.at = step] = row
      BY <3>1
    <3> HIDE DEF row
    <3> QED
      BY <1>3, <3>2 DEF Reach
  <2>3. row \in [at : ThesisSteps, thesis : Theses \union {NoThesis}]
    BY <2>1
  <2>4. row.at = step /\ row.thesis = author[a].thesis
    OBVIOUS
  <2>5. /\ inserting' \subseteq Authors /\ \A b, c \in inserting' : b = c
        /\ \A b \in Authors \ {a} : b \in inserting' <=> b \in inserting
        /\ step = "commit" <=> a \in inserting'
    BY <1>3, <1>0, <2>1
  <2> HIDE DEF row
  <2> QED
    BY <1>3, <1>0, <2>1, <2>2, <2>3, <2>4, <2>5, AuthorMoves
<1>4. ASSUME NEW a \in Authors, FindIdentity(a) PROVE ThesisInv'
  <2>1. inserting = inserting \ {a}
    BY <1>4, <1>types DEF FindIdentity
  <2> QED
    BY <1>4, <2>1, <1>2, <1>0 DEF FindIdentity
<1>5. ASSUME NEW a \in Authors, MissIdentity(a) PROVE ThesisInv'
  BY <1>5, <1>3 DEF MissIdentity, ThesisSteps
<1>6. ASSUME NEW a \in Authors, ReadLatest(a) PROVE ThesisInv'
  <2>1. CASE Succeeds(author[a].thesis, LatestOf(author[a].thesis.ticker))
    <3>1. Rooted(author[a].thesis)
      BY <1>6, <2>1, <1>types, CheckedIsRooted DEF ReadLatest, ThesisInv
    <3> QED
      BY <1>6, <2>1, <3>1, <1>3 DEF ReadLatest, ThesisSteps
  <2>2. CASE ~Succeeds(author[a].thesis, LatestOf(author[a].thesis.ticker))
    <3>1. inserting = inserting \ {a}
      BY <1>6, <1>types DEF ReadLatest
    <3> QED
      BY <1>6, <2>2, <3>1, <1>2, <1>0 DEF ReadLatest
  <2> QED
    BY <2>1, <2>2
<1>7. ASSUME NEW a \in Authors, InsertThesis(a) PROVE ThesisInv'
  BY <1>7, <1>3, <1>types DEF InsertThesis, ThesisSteps
<1>8. ASSUME NEW a \in Authors, InsertThesisRaises(a) PROVE ThesisInv'
  <2>1. inserting = inserting \ {a}
    BY <1>8, <1>types DEF InsertThesisRaises
  <2> QED
    BY <1>8, <2>1, <1>2, <1>0 DEF InsertThesisRaises
<1>9. ASSUME NEW a \in Authors, CommitThesis(a) PROVE ThesisInv'
  <2>1. OneLineOfHistory'
    BY <1>9, NewThesisJoins
  <2>2. /\ author' = [author EXCEPT ![a] = Resting] /\ inserting' = {}
        /\ theses' = theses \union {author[a].thesis}
        /\ author[a].at = "commit"
    BY <1>9 DEF CommitThesis, Finish
  <2>3. \A b \in Authors : author'[b] = IF b = a THEN Resting ELSE author[b]
    BY <2>2, <1>types
  <2>4. \A b \in Authors \ {a} : author[b].at # "commit"
    BY <2>2, <1>0, <1>types
  <2>5. ThesisTypes'
    <3>1. author[a].thesis \in Theses
      BY <2>2, <1>types
    <3>2. theses' \subseteq Theses /\ IsFiniteSet(theses')
      BY <2>2, <3>1, FS_AddElement DEF ThesisInv, ThesisTypes
    <3> QED
      BY <2>2, <2>3, <3>2, <1>types DEF ThesisTypes, Resting, ThesisSteps
  <2>6. ThesisLock'
    BY <2>2, <2>3, <2>4 DEF ThesisLock, Resting
  <2>7. \A t : Rooted(t) => Rooted(t)'
    BY <2>2 DEF Rooted, Of
  <2>8. ThesisChecked'
    BY <2>3, <2>4, <2>7, <1>types DEF ThesisChecked, Resting
  <2> QED
    BY <2>1, <2>5, <2>6, <2>8 DEF ThesisInv
<1>10. ASSUME NEW a \in Authors, AbandonThesis(a) PROVE ThesisInv'
  BY <1>10, <1>2, <1>0 DEF AbandonThesis
<1>11. CASE UNCHANGED thesisVars
  BY <1>11 DEF thesisVars, ThesisInv, ThesisTypes, ThesisLock, ThesisChecked, Rooted,
     Unconstrained, OneLineOfHistory, Of
<1> QED
  BY <1>1, <1>4, <1>5, <1>6, <1>7, <1>8, <1>9, <1>10, <1>11 DEF ThesisNext

(* The inductive invariant of the thesis ledger: the latest thesis that    *)
(* append reads is stale by the time it inserts.                           *)
THEOREM ThesesAreChecked == ThesisSpec => []ThesisInv
BY ThesisInitEstablishes, ThesisStep, PTL DEF ThesisSpec

(* The theses of a company are one line of history (ThesisLedger.append).  *)
THEOREM HistoryIsOneLine == ThesisSpec => []OneLineOfHistory
<1>1. ThesisInv => OneLineOfHistory
  BY DEF ThesisInv
<1> QED
  BY ThesesAreChecked, <1>1, PTL

-----------------------------------------------------------------------------
(***************************************************************************)
(* The governed memory.                                                    *)
(***************************************************************************)
MemorySteps == {"idle", "decided?", "version", "insert", "commit"}
Evaluation == [at : MemorySteps, decision : Decisions \union {NoDecision}, version : Nat]

MemoryTypes ==
  /\ candidates \subseteq Candidates /\ cases \subseteq Cases /\ decisions \subseteq Decisions
  /\ \A b, c \in candidates : b.id = c.id => b = c
  /\ IsFiniteSet(items)
  /\ deciding \subseteq Evaluators
  /\ evaluator \in [Evaluators -> Evaluation]

MemoryLock ==
  /\ \A p \in Evaluators : evaluator[p].at = "commit" <=> p \in deciding
  /\ \A p, q \in deciding : p = q

Admitted(d) == \E c \in candidates : c.id = d.candidate /\ Admissible(d, c)
ItemsOf(memory) == {i \in items : i.memory = memory}

(* What decide has checked.  The version it read is at most one above the  *)
(* highest of its memory ever after.                                       *)
DecisionChecked ==
  \A p \in Evaluators :
    LET d == evaluator[p].decision
        version == evaluator[p].version
    IN  /\ evaluator[p].at # "idle" => d \in Decisions /\ Admitted(d)
        /\ evaluator[p].at \in {"insert", "commit"} /\ Writes(d) =>
             version \in 1..(Cardinality(ItemsOf(CandidateOf(d).memory)) + 1)
        /\ evaluator[p].at = "commit" => KeysFree(d, version)

(* Every item is what a committed decision wrote of its candidate.         *)
ItemsExplained ==
  \A i \in items : \E d \in decisions :
    Writes(d) /\ Admitted(d) /\ i = Item(d, CandidateOf(d), i.version)

ItemsKeyed ==
  \A i, j \in items : i.memory = j.memory /\ i.version = j.version => i = j

MemoryInv ==
  MemoryTypes /\ MemoryLock /\ DecisionChecked /\ ItemsExplained /\ ItemsKeyed /\ DecidedOnce

LEMMA MemoryInitEstablishes == MemoryInit => MemoryInv
<1> SUFFICES ASSUME MemoryInit PROVE MemoryInv
  OBVIOUS
<1>1. MemoryTypes
  BY FS_EmptySet DEF MemoryInit, MemoryTypes, Evaluation, MemorySteps, AtRest
<1>2. MemoryLock /\ DecisionChecked
  BY DEF MemoryInit, MemoryLock, DecisionChecked, AtRest
<1>3. ItemsExplained /\ ItemsKeyed
  BY DEF MemoryInit, ItemsExplained, ItemsKeyed
<1>4. DecidedOnce
  BY DEF MemoryInit, DecidedOnce
<1> QED
  BY <1>1, <1>2, <1>3, <1>4 DEF MemoryInv

(* IDs of candidates are keys.                                             *)
LEMMA CandidateFound ==
  ASSUME MemoryTypes, NEW d, NEW c \in candidates, c.id = d.candidate
  PROVE  CandidateOf(d) = c
BY DEF CandidateOf, MemoryTypes

LEMMA CandidateAdmitted ==
  ASSUME MemoryTypes, NEW d, Admitted(d)
  PROVE  /\ CandidateOf(d) \in candidates /\ CandidateOf(d).id = d.candidate
         /\ Admissible(d, CandidateOf(d))
BY CandidateFound DEF Admitted

(* Candidates and cases only come: what was admitted stays admitted.       *)
LEMMA AdmittedStays ==
  ASSUME MemoryTypes, MemoryTypes', candidates \subseteq candidates', cases \subseteq cases',
         NEW d, Admitted(d)
  PROVE  Admitted(d)' /\ CandidateOf(d)' = CandidateOf(d)
<1>1. PICK c \in candidates : c.id = d.candidate /\ Admissible(d, c)
  BY DEF Admitted
<1>2. \A ids, asOf : ApprovedEvidence(ids, asOf) \subseteq ApprovedEvidence(ids, asOf)'
  BY DEF ApprovedEvidence
<1>3. Admissible(d, c)'
  <2>1. {e.id : e \in cases} \subseteq {e.id : e \in cases'}
    OBVIOUS
  <2>2. c.cases \subseteq {e.id : e \in cases} => c.cases \subseteq {e.id : e \in cases'}
    BY <2>1
  <2>3. ApprovedEvidence(c.cases, d.at) \subseteq ApprovedEvidence(c.cases, d.at)'
    BY <1>2
  <2>4. c.evidence \subseteq ApprovedEvidence(c.cases, d.at)
          => c.evidence \subseteq ApprovedEvidence(c.cases, d.at)'
    BY <2>3
  <2> QED
    BY <1>1, <2>2, <2>4, Zenon DEF Admissible
<1>4. (CHOOSE e \in candidates' : e.id = d.candidate) = c
  BY <1>1 DEF MemoryTypes
<1>5. CandidateOf(d)' = c /\ CandidateOf(d) = c
  BY <1>1, <1>4, CandidateFound DEF CandidateOf
<1> QED
  BY <1>1, <1>3, <1>5 DEF Admitted

(* The versions of every memory, of one without items too.                 *)
LEMMA VersionsCount ==
  ASSUME MemoryInv, NEW memory
  PROVE  /\ IsFiniteSet(ItemsOf(memory)) /\ Cardinality(ItemsOf(memory)) \in Nat
         /\ {i.version : i \in ItemsOf(memory)} = 1..Cardinality(ItemsOf(memory))
<1>1. IsFiniteSet(ItemsOf(memory)) /\ Cardinality(ItemsOf(memory)) \in Nat
  <2>1. ItemsOf(memory) \in SUBSET items
    BY DEF ItemsOf
  <2> QED
    BY <2>1, FS_Subset, FS_CardinalityType DEF MemoryInv, MemoryTypes
<1>2. CASE ItemsOf(memory) = {}
  <2>1. Cardinality(ItemsOf(memory)) = 0 /\ {i.version : i \in ItemsOf(memory)} = {}
    BY <1>2, FS_EmptySet
  <2> QED
    BY <1>1, <2>1
<1>3. CASE ItemsOf(memory) # {}
  <2>1. memory \in {i.memory : i \in items}
    BY <1>3 DEF ItemsOf
  <2> QED
    BY <1>1, <2>1 DEF MemoryInv, DecidedOnce, ItemsOf
<1> QED
  BY <1>2, <1>3

LEMMA NextVersionCounts ==
  ASSUME MemoryInv, NEW memory
  PROVE  NextVersion(memory) = Cardinality(ItemsOf(memory)) + 1
<1> DEFINE n == Cardinality(ItemsOf(memory))
           versions == {0} \union {i.version : i \in {j \in items : j.memory = memory}}
<1>1. n \in Nat /\ versions = 0..n
  <2>1. versions = {0} \union {i.version : i \in ItemsOf(memory)}
    BY DEF ItemsOf
  <2>2. n \in Nat /\ {i.version : i \in ItemsOf(memory)} = 1..n
    BY VersionsCount
  <2> HIDE DEF n, versions
  <2> QED
    BY <2>1, <2>2
<1> HIDE DEF n, versions
<1>2. Max(versions) = n
  BY <1>1 DEF Max
<1>3. NextVersion(memory) = 1 + Max(versions)
  BY DEF NextVersion, versions
<1>4. NextVersion(memory) = n + 1
  BY <1>1, <1>2, <1>3
<1> QED
  BY <1>4 DEF n

(* One evaluator moves and the tables stay what they are.                  *)
LEMMA EvaluatorMoves ==
  ASSUME MemoryInv, UNCHANGED <<candidates, cases, decisions, items>>,
         NEW p \in Evaluators, NEW row \in Evaluation,
         evaluator' = [evaluator EXCEPT ![p] = row],
         row.at # "idle" => row.decision \in Decisions /\ Admitted(row.decision),
         row.at \in {"insert", "commit"} /\ Writes(row.decision) =>
           row.version \in 1..(Cardinality(ItemsOf(CandidateOf(row.decision).memory)) + 1),
         row.at = "commit" => KeysFree(row.decision, row.version),
         deciding' \subseteq Evaluators,
         \A q \in Evaluators \ {p} : q \in deciding' <=> q \in deciding,
         row.at = "commit" <=> p \in deciding',
         \A q, r \in deciding' : q = r
  PROVE  MemoryInv'
<1> USE DEF MemoryInv
<1>1. \A q \in Evaluators : evaluator'[q] = IF q = p THEN row ELSE evaluator[q]
  BY DEF MemoryTypes
<1>2. MemoryTypes'
  BY DEF MemoryTypes
<1>3. MemoryLock'
  BY <1>1 DEF MemoryLock
<1>4. /\ \A d : Admitted(d)' <=> Admitted(d)
      /\ \A d : CandidateOf(d)' = CandidateOf(d)
      /\ \A d, version : KeysFree(d, version)' <=> KeysFree(d, version)
      /\ \A memory : ItemsOf(memory)' = ItemsOf(memory)
  BY DEF Admitted, Admissible, ApprovedEvidence, CandidateOf, KeysFree, ItemKeyFree, ItemsOf
<1>5. DecisionChecked'
  BY <1>1, <1>4 DEF DecisionChecked
<1>6. ItemsExplained' /\ ItemsKeyed' /\ DecidedOnce'
  BY <1>4 DEF ItemsExplained, ItemsKeyed, DecidedOnce
<1> QED
  BY <1>2, <1>3, <1>5, <1>6

(* A new candidate or case of evidence: what was checked stays true.       *)
LEMMA SourcesGrow ==
  ASSUME MemoryInv, MemoryTypes', candidates \subseteq candidates', cases \subseteq cases',
         UNCHANGED <<decisions, items, evaluator, deciding>>
  PROVE  MemoryInv'
<1> USE DEF MemoryInv
<1>1. \A d : Admitted(d) => Admitted(d)' /\ CandidateOf(d)' = CandidateOf(d)
  BY AdmittedStays
<1>2. \A memory : ItemsOf(memory)' = ItemsOf(memory)
  BY DEF ItemsOf
<1>3. MemoryLock'
  BY DEF MemoryLock
<1>4. DecisionChecked'
  <2> SUFFICES ASSUME NEW p \in Evaluators
               PROVE  LET d == evaluator[p].decision
                          version == evaluator[p].version
                      IN  /\ evaluator[p].at # "idle" => d \in Decisions /\ Admitted(d)'
                          /\ evaluator[p].at \in {"insert", "commit"} /\ Writes(d) =>
                               version \in 1..(Cardinality(ItemsOf(CandidateOf(d)'.memory)) + 1)
                          /\ evaluator[p].at = "commit" => KeysFree(d, version)'
    BY <1>2 DEF DecisionChecked
  <2> DEFINE d == evaluator[p].decision
             version == evaluator[p].version
  <2>1. CASE evaluator[p].at = "idle"
    BY <2>1
  <2>2. CASE evaluator[p].at # "idle"
    <3>1. d \in Decisions /\ Admitted(d)' /\ CandidateOf(d)' = CandidateOf(d)
      BY <2>2, <1>1 DEF DecisionChecked
    <3>2. KeysFree(d, version) => KeysFree(d, version)'
      BY <3>1 DEF KeysFree, ItemKeyFree
    <3> QED
      BY <3>1, <3>2 DEF DecisionChecked
  <2> QED
    BY <2>1, <2>2
<1>5. ItemsExplained'
  BY <1>1 DEF ItemsExplained
<1>6. ItemsKeyed' /\ DecidedOnce'
  BY DEF ItemsKeyed, DecidedOnce
<1> QED
  BY <1>3, <1>4, <1>5, <1>6

(* The version that is free and at most one too high is the next.          *)
LEMMA FreeVersionIsNext ==
  ASSUME MemoryInv, NEW memory, NEW version,
         version \in 1..(Cardinality(ItemsOf(memory)) + 1),
         \A i \in items : ~(i.memory = memory /\ i.version = version)
  PROVE  version = Cardinality(ItemsOf(memory)) + 1
<1> DEFINE n == Cardinality(ItemsOf(memory))
<1>1. n \in Nat /\ {i.version : i \in ItemsOf(memory)} = 1..n
  BY VersionsCount
<1>2. version \notin {i.version : i \in ItemsOf(memory)}
  BY DEF ItemsOf
<1> HIDE DEF n
<1>3. version \notin 1..n /\ version \in 1..(n + 1)
  BY <1>1, <1>2 DEF n
<1>4. version = n + 1
  BY <1>1, <1>3
<1> QED
  BY <1>4 DEF n

(* One more item of a memory, numbered next, leaves the count unbroken.    *)
LEMMA ItemJoins ==
  ASSUME MemoryInv, NEW x, x.version = Cardinality(ItemsOf(x.memory)) + 1,
         items' = items \union {x}
  PROVE  /\ IsFiniteSet(items') /\ ItemsKeyed'
         /\ \A memory : Cardinality(ItemsOf(memory)) \in Nat
                        /\ Cardinality(ItemsOf(memory)') \in Nat
                        /\ Cardinality(ItemsOf(memory)) <= Cardinality(ItemsOf(memory)')
         /\ \A memory : {i.version : i \in ItemsOf(memory)'} = 1..Cardinality(ItemsOf(memory)')
<1>1. \A memory : /\ IsFiniteSet(ItemsOf(memory)) /\ Cardinality(ItemsOf(memory)) \in Nat
                  /\ {i.version : i \in ItemsOf(memory)} = 1..Cardinality(ItemsOf(memory))
  BY VersionsCount
<1>2. IsFiniteSet(items')
  BY FS_AddElement DEF MemoryInv, MemoryTypes
<1>3. \A i \in items : i.memory = x.memory => i.version # x.version
  <2> TAKE i \in items
  <2> HAVE i.memory = x.memory
  <2>1. i.version \in {j.version : j \in ItemsOf(x.memory)}
    BY DEF ItemsOf
  <2>2. i.version \in 1..Cardinality(ItemsOf(x.memory)) /\ Cardinality(ItemsOf(x.memory)) \in Nat
    BY <2>1, <1>1
  <2> QED
    BY <2>2
<1>4. ItemsKeyed'
  BY <1>3 DEF MemoryInv, ItemsKeyed
<1>5. \A memory : memory # x.memory => ItemsOf(memory)' = ItemsOf(memory)
  BY DEF ItemsOf
<1>6. ItemsOf(x.memory)' = ItemsOf(x.memory) \union {x} /\ x \notin ItemsOf(x.memory)
  BY <1>3 DEF ItemsOf
<1>7. Cardinality(ItemsOf(x.memory)') = Cardinality(ItemsOf(x.memory)) + 1
  BY <1>1, <1>6, FS_AddElement
<1>8. {i.version : i \in ItemsOf(x.memory)'} = 1..Cardinality(ItemsOf(x.memory)')
  <2> DEFINE n == Cardinality(ItemsOf(x.memory))
  <2>1. {i.version : i \in ItemsOf(x.memory)'}
          = {i.version : i \in ItemsOf(x.memory)} \union {x.version}
    BY <1>6
  <2>2. n \in Nat /\ {i.version : i \in ItemsOf(x.memory)} = 1..n /\ x.version = n + 1
    BY <1>1
  <2>3. Cardinality(ItemsOf(x.memory)') = n + 1
    BY <1>7
  <2> HIDE DEF n
  <2>4. 1..(n + 1) = 1..n \union {n + 1}
    BY <2>2
  <2> QED
    BY <2>1, <2>2, <2>3, <2>4
<1>9. \A memory : /\ Cardinality(ItemsOf(memory)) \in Nat
                  /\ Cardinality(ItemsOf(memory)') \in Nat
                  /\ Cardinality(ItemsOf(memory)) <= Cardinality(ItemsOf(memory)')
  <2> TAKE memory
  <2>1. CASE memory = x.memory
    BY <2>1, <1>1, <1>7
  <2>2. CASE memory # x.memory
    BY <2>2, <1>1, <1>5
  <2> QED
    BY <2>1, <2>2
<1>10. \A memory : {i.version : i \in ItemsOf(memory)'} = 1..Cardinality(ItemsOf(memory)')
  <2> TAKE memory
  <2>1. CASE memory = x.memory
    BY <2>1, <1>8
  <2>2. CASE memory # x.memory
    BY <2>2, <1>1, <1>5
  <2> QED
    BY <2>1, <2>2
<1> QED
  BY <1>2, <1>4, <1>9, <1>10

LEMMA DecisionCommitted ==
  ASSUME MemoryInv, NEW p \in Evaluators, CommitDecision(p)
  PROVE  MemoryInv'
<1> USE DEF MemoryInv
<1> DEFINE d == evaluator[p].decision
           c == CandidateOf(d)
           version == evaluator[p].version
           x == Item(d, c, version)
<1>1. /\ evaluator[p].at = "commit" /\ deciding' = {}
      /\ decisions' = decisions \union {d}
      /\ items' = IF Writes(d) THEN items \union {x} ELSE items
      /\ evaluator' = [evaluator EXCEPT ![p] = AtRest]
      /\ UNCHANGED <<candidates, cases>>
  BY DEF CommitDecision, Leave
<1>2. /\ d \in Decisions /\ Admitted(d) /\ KeysFree(d, version)
      /\ Writes(d) => version \in 1..(Cardinality(ItemsOf(c.memory)) + 1)
  BY <1>1 DEF DecisionChecked
<1>3. c \in candidates /\ c.id = d.candidate /\ Admissible(d, c)
  BY <1>2, CandidateAdmitted
<1>4. x.memory = c.memory /\ x.version = version /\ x.candidate = d.candidate
  BY <1>3 DEF Item
<1>5. PICK e : e = d
  OBVIOUS
<1>6. PICK y : y = x
  OBVIOUS
<1> HIDE DEF d, c, version, x
<1>7. /\ decisions' = decisions \union {e} /\ e \in Decisions /\ Admitted(e)
      /\ items' = IF Writes(e) THEN items \union {y} ELSE items
      /\ \A f \in decisions : f.candidate # e.candidate
      /\ y.candidate = e.candidate
      /\ y = Item(e, CandidateOf(e), y.version)
  BY <1>1, <1>2, <1>4, <1>5, <1>6 DEF KeysFree, x, c
<1>8. /\ \A memory : Cardinality(ItemsOf(memory)) \in Nat
                     /\ Cardinality(ItemsOf(memory)') \in Nat
                     /\ Cardinality(ItemsOf(memory)) <= Cardinality(ItemsOf(memory)')
      /\ \A memory : {i.version : i \in ItemsOf(memory)'} = 1..Cardinality(ItemsOf(memory)')
      /\ IsFiniteSet(items') /\ ItemsKeyed'
  <2>1. CASE Writes(e)
    <3>1. Writes(d) /\ version \in 1..(Cardinality(ItemsOf(c.memory)) + 1)
      BY <1>2, <1>5, <2>1
    <3>2. \A i \in items : ~(i.memory = c.memory /\ i.version = version)
      BY <1>2, <3>1 DEF KeysFree, ItemKeyFree, c
    <3>3. version = Cardinality(ItemsOf(c.memory)) + 1
      BY <3>1, <3>2, FreeVersionIsNext
    <3>4. y.version = Cardinality(ItemsOf(y.memory)) + 1
      BY <3>3, <1>4, <1>6
    <3> QED
      BY <1>7, <2>1, <3>4, ItemJoins
  <2>2. CASE ~Writes(e)
    <3>1. items' = items
      BY <1>7, <2>2
    <3>2. \A memory : ItemsOf(memory)' = ItemsOf(memory)
      BY <3>1 DEF ItemsOf
    <3>3. \A memory : Cardinality(ItemsOf(memory)) \in Nat
            /\ {i.version : i \in ItemsOf(memory)} = 1..Cardinality(ItemsOf(memory))
      BY VersionsCount
    <3> QED
      BY <3>1, <3>2, <3>3 DEF MemoryTypes, ItemsKeyed
  <2> QED
    BY <2>1, <2>2
<1>9. AtRest \in Evaluation /\ AtRest.at = "idle"
  BY DEF AtRest, Evaluation, MemorySteps
<1>10. \A q \in Evaluators : evaluator'[q] = IF q = p THEN AtRest ELSE evaluator[q]
  BY <1>1 DEF MemoryTypes
<1>11. \A q \in Evaluators \ {p} : evaluator[q].at # "commit"
  BY <1>1 DEF MemoryLock
<1>12. MemoryTypes'
  BY <1>1, <1>7, <1>8, <1>9 DEF MemoryTypes
<1>13. MemoryLock'
  BY <1>1, <1>9, <1>10, <1>11 DEF MemoryLock
<1>14. /\ \A f : Admitted(f)' <=> Admitted(f)
       /\ \A f : CandidateOf(f)' = CandidateOf(f)
  BY <1>1 DEF Admitted, Admissible, ApprovedEvidence, CandidateOf
<1>15. DecisionChecked'
  <2> SUFFICES ASSUME NEW q \in Evaluators, NEW row, row = evaluator'[q]
               PROVE  LET f == row.decision
                      IN  /\ row.at # "idle" => f \in Decisions /\ Admitted(f)'
                          /\ row.at \in {"insert", "commit"} /\ Writes(f) =>
                               row.version \in 1..(Cardinality(ItemsOf(CandidateOf(f).memory)') + 1)
                          /\ row.at = "commit" => KeysFree(f, row.version)'
    BY DEF DecisionChecked
  <2>1. CASE q = p
    BY <2>1, <1>9, <1>10
  <2>2. CASE q # p
    <3> DEFINE m == CandidateOf(row.decision).memory
    <3>1. row = evaluator[q] /\ row.at # "commit"
      BY <2>2, <1>10, <1>11
    <3>2. /\ row.at # "idle" => row.decision \in Decisions /\ Admitted(row.decision)
          /\ row.at = "insert" /\ Writes(row.decision) =>
               row.version \in 1..(Cardinality(ItemsOf(m)) + 1)
      BY <3>1 DEF DecisionChecked
    <3>3. PICK memory : memory = m
      OBVIOUS
    <3>4. /\ Cardinality(ItemsOf(memory)) \in Nat /\ Cardinality(ItemsOf(memory)') \in Nat
          /\ Cardinality(ItemsOf(memory)) <= Cardinality(ItemsOf(memory)')
      BY <1>8
    <3> QED
      BY <3>1, <3>2, <3>3, <3>4, <1>14
  <2> QED
    BY <2>1, <2>2
<1>16. ItemsExplained'
  <2> SUFFICES ASSUME NEW i \in items'
               PROVE  \E f \in decisions' :
                        Writes(f) /\ Admitted(f) /\ i = Item(f, CandidateOf(f), i.version)
    BY <1>14 DEF ItemsExplained
  <2>1. CASE i \in items
    BY <2>1, <1>7 DEF ItemsExplained
  <2>2. CASE i \notin items
    BY <2>2, <1>7
  <2> QED
    BY <2>1, <2>2
<1>17. DecidedOnce'
  <2>1. \A f, g \in decisions' : f.candidate = g.candidate => f = g
    BY <1>7 DEF DecidedOnce
  <2>2. {i.candidate : i \in items'} = {f.candidate : f \in {g \in decisions' : Writes(g)}}
    <3>1. {i.candidate : i \in items} = {f.candidate : f \in {g \in decisions : Writes(g)}}
      BY DEF DecidedOnce
    <3>2. CASE Writes(e)
      BY <3>1, <3>2, <1>7
    <3>3. CASE ~Writes(e)
      BY <3>1, <3>3, <1>7
    <3> QED
      BY <3>2, <3>3
  <2>3. \A m \in {i.memory : i \in items'} :
          LET versions == {i \in items' : i.memory = m}
          IN  {i.version : i \in versions} = 1..Cardinality(versions)
    BY <1>8 DEF ItemsOf
  <2> QED
    BY <2>1, <2>2, <2>3 DEF DecidedOnce
<1> QED
  BY <1>8, <1>12, <1>13, <1>15, <1>16, <1>17

(* Whatever the evaluators read, and then do with it.                      *)
LEMMA MemoryStep == MemoryInv /\ [MemoryNext]_memoryVars => MemoryInv'
<1> SUFFICES ASSUME MemoryInv, [MemoryNext]_memoryVars PROVE MemoryInv'
  OBVIOUS
<1>types. /\ MemoryTypes /\ deciding \subseteq Evaluators
          /\ evaluator \in [Evaluators -> Evaluation]
          /\ \A p, q \in deciding : p = q
          /\ \A p \in Evaluators : evaluator[p].at = "commit" <=> p \in deciding
          /\ \A p \in Evaluators : evaluator[p].at # "idle" =>
               evaluator[p].decision \in Decisions /\ Admitted(evaluator[p].decision)
  BY DEF MemoryInv, MemoryTypes, MemoryLock, DecisionChecked
<1>1. ASSUME NEW c \in Candidates, Stage(c) PROVE MemoryInv'
  <2>1. MemoryTypes'
    BY <1>1 DEF Stage, MemoryInv, MemoryTypes
  <2> QED
    BY <1>1, <2>1, SourcesGrow DEF Stage
<1>2. ASSUME NEW e \in Cases, AppendCase(e) PROVE MemoryInv'
  <2>1. MemoryTypes'
    BY <1>2 DEF AppendCase, MemoryInv, MemoryTypes
  <2> QED
    BY <1>2, <2>1, SourcesGrow DEF AppendCase
<1>3. ASSUME NEW p \in Evaluators, Leave(p), deciding' = deciding \ {p},
             UNCHANGED <<candidates, cases, decisions, items>>
      PROVE  MemoryInv'
  <2>1. AtRest \in Evaluation /\ AtRest.at = "idle"
    BY DEF AtRest, Evaluation, MemorySteps
  <2>2. evaluator' = [evaluator EXCEPT ![p] = AtRest]
    BY <1>3 DEF Leave
  <2> QED
    BY <1>3, <1>types, <2>1, <2>2, EvaluatorMoves
<1>4. ASSUME NEW p \in Evaluators, NEW row \in Evaluation,
             evaluator' = [evaluator EXCEPT ![p] = row],
             row.decision \in Decisions, Admitted(row.decision),
             row.at = "insert" /\ Writes(row.decision) =>
               row.version \in 1..(Cardinality(ItemsOf(CandidateOf(row.decision).memory)) + 1),
             row.at # "commit", evaluator[p].at # "commit", deciding' = deciding,
             UNCHANGED <<candidates, cases, decisions, items>>
      PROVE  MemoryInv'
  <2>1. p \notin deciding
    BY <1>4, <1>types
  <2> QED
    BY <1>4, <1>types, <2>1, EvaluatorMoves
<1>5. ASSUME NEW p \in Evaluators, NEW d \in Decisions, Decide(p, d) PROVE MemoryInv'
  <2> DEFINE row == [at |-> "decided?", decision |-> d, version |-> 0]
  <2>1. Admitted(d)
    <3>1. PICK c \in candidates : c.id = d.candidate
      BY <1>5 DEF Decide
    <3>2. CandidateOf(d) = c
      BY <1>types, <3>1, CandidateFound
    <3> QED
      BY <1>5, <3>1, <3>2 DEF Decide, Admitted
  <2>2. /\ row \in Evaluation /\ row.at = "decided?" /\ row.decision = d
    BY DEF Evaluation, MemorySteps
  <2>3. evaluator' = [evaluator EXCEPT ![p] = row] /\ evaluator[p].at = "idle"
        /\ UNCHANGED <<candidates, cases, decisions, items, deciding>>
    BY <1>5 DEF Decide
  <2> HIDE DEF row
  <2> QED
    BY <1>4, <2>1, <2>2, <2>3
<1>6. ASSUME NEW p \in Evaluators, FindDecision(p) PROVE MemoryInv'
  <2>1. deciding = deciding \ {p}
    BY <1>6, <1>types DEF FindDecision
  <2> QED
    BY <1>6, <2>1, <1>3 DEF FindDecision
<1>7. ASSUME NEW p \in Evaluators, MissDecision(p) PROVE MemoryInv'
  <2> DEFINE step == IF Writes(evaluator[p].decision) THEN "version" ELSE "insert"
             row == [evaluator[p] EXCEPT !.at = step]
  <2>1. /\ evaluator[p].at = "decided?" /\ evaluator' = [evaluator EXCEPT ![p] = row]
        /\ UNCHANGED <<candidates, cases, decisions, items, deciding>>
    BY <1>7 DEF MissDecision
  <2>2. evaluator[p] \in Evaluation
    BY <1>types
  <2>3. row \in Evaluation /\ row.at = step /\ row.decision = evaluator[p].decision
    BY <2>2 DEF Evaluation, MemorySteps
  <2>4. step # "commit" /\ step = "insert" => ~Writes(row.decision)
    BY <2>3
  <2>5. step # "commit"
    OBVIOUS
  <2> HIDE DEF row, step
  <2> QED
    BY <2>1, <2>3, <2>4, <2>5, <1>4, <1>types
<1>8. ASSUME NEW p \in Evaluators, ReadVersion(p) PROVE MemoryInv'
  <2> DEFINE d == evaluator[p].decision
             next == NextVersion(CandidateOf(d).memory)
             row == [evaluator[p] EXCEPT !.at = "insert", !.version = next]
  <2>1. /\ evaluator[p].at = "version"
        /\ evaluator' = [evaluator EXCEPT ![p].at = "insert", ![p].version = next]
        /\ UNCHANGED <<candidates, cases, decisions, items, deciding>>
    BY <1>8 DEF ReadVersion
  <2>2. evaluator[p] \in Evaluation
    BY <1>types
  <2>3. evaluator' = [evaluator EXCEPT ![p] = row]
    <3> HIDE DEF next
    <3> QED
      BY <1>types, <2>1
  <2>4. /\ next = Cardinality(ItemsOf(CandidateOf(d).memory)) + 1
        /\ Cardinality(ItemsOf(CandidateOf(d).memory)) \in Nat
    BY NextVersionCounts, VersionsCount
  <2>5. next \in Nat /\ next \in 1..(Cardinality(ItemsOf(CandidateOf(d).memory)) + 1)
    <3> HIDE DEF next
    <3> QED
      BY <2>4
  <2>6. row \in Evaluation /\ row.at = "insert" /\ row.decision = d /\ row.version = next
    <3> HIDE DEF next
    <3> QED
      BY <2>2, <2>5 DEF Evaluation, MemorySteps
  <2>7. d \in Decisions /\ Admitted(d)
    BY <1>types, <2>1
  <2> HIDE DEF row, next, d
  <2> QED
    BY <2>1, <2>3, <2>5, <2>6, <2>7, <1>4
<1>9. ASSUME NEW p \in Evaluators, InsertDecision(p) PROVE MemoryInv'
  <2> DEFINE row == [evaluator[p] EXCEPT !.at = "commit"]
  <2>1. /\ evaluator[p].at = "insert" /\ deciding = {} /\ deciding' = {p}
        /\ KeysFree(evaluator[p].decision, evaluator[p].version)
        /\ evaluator' = [evaluator EXCEPT ![p] = row]
        /\ UNCHANGED <<candidates, cases, decisions, items>>
    BY <1>9 DEF InsertDecision
  <2>2. /\ row \in Evaluation /\ row.at = "commit" /\ row.decision = evaluator[p].decision
        /\ row.version = evaluator[p].version
    BY <1>types DEF Evaluation, MemorySteps
  <2>3. Writes(row.decision) =>
          row.version \in 1..(Cardinality(ItemsOf(CandidateOf(row.decision).memory)) + 1)
    BY <2>1, <2>2 DEF MemoryInv, DecisionChecked
  <2> HIDE DEF row
  <2> QED
    BY <2>1, <2>2, <2>3, <1>types, EvaluatorMoves
<1>10. ASSUME NEW p \in Evaluators, InsertDecisionRaises(p) PROVE MemoryInv'
  <2>1. deciding = deciding \ {p}
    BY <1>10, <1>types DEF InsertDecisionRaises
  <2> QED
    BY <1>10, <2>1, <1>3 DEF InsertDecisionRaises
<1>11. ASSUME NEW p \in Evaluators, CommitDecision(p) PROVE MemoryInv'
  BY <1>11, DecisionCommitted
<1>12. ASSUME NEW p \in Evaluators, AbandonDecision(p) PROVE MemoryInv'
  BY <1>12, <1>3 DEF AbandonDecision
<1>13. CASE UNCHANGED memoryVars
  <2>1. MemoryTypes'
    BY <1>13, <1>types DEF memoryVars, MemoryTypes
  <2> QED
    BY <1>13, <2>1, SourcesGrow DEF memoryVars
<1> QED
  BY <1>1, <1>2, <1>5, <1>6, <1>7, <1>8, <1>9, <1>10, <1>11, <1>12, <1>13 DEF MemoryNext

(* The inductive invariant of the memory: the version an evaluator read is *)
(* at most one above the highest when it inserts, and only the free one is *)
(* written.                                                                *)
THEOREM DecisionsAreChecked == MemorySpec => []MemoryInv
BY MemoryInitEstablishes, MemoryStep, PTL DEF MemorySpec

(* A candidate is decided once, an item exists exactly for each decision   *)
(* that writes one, and versions count up from one                         *)
(* (LocalMemoryBackend.decide).                                            *)
THEOREM CandidatesAreDecidedOnce == MemorySpec => []DecidedOnce
<1>1. MemoryInv => DecidedOnce
  BY DEF MemoryInv
<1> QED
  BY DecisionsAreChecked, <1>1, PTL

-----------------------------------------------------------------------------
(* What is known of an item that a search as of a time may answer with.    *)
Supported(i, asOf) ==
  /\ asOf < i.expires
  /\ \E d \in decisions, c \in candidates :
       /\ d.candidate = i.candidate /\ c.id = i.candidate
       /\ d.decision = "approve" /\ d.evaluator # c.proposer
       /\ d.at <= asOf /\ c.created <= asOf
  /\ \A e \in i.evidence : \E c \in cases :
       /\ c.id \in i.cases /\ c.approved /\ e \in c.passed
       /\ \E r \in c.records : r.id = e /\ r.available <= asOf

(* What decide required of the approval, it required as of the decision,   *)
(* from which on the item is available.                                    *)
LEMMA EligibleIsSupported ==
  ASSUME MemoryInv, NEW asOf \in Times, NEW i \in Eligible(asOf)
  PROVE  Supported(i, asOf)
<1>1. /\ i \in items /\ i.status = "approved" /\ i.available <= asOf /\ asOf < i.expires
  BY DEF Eligible
<1>2. PICK d \in decisions :
        Writes(d) /\ Admitted(d) /\ i = Item(d, CandidateOf(d), i.version)
  BY <1>1 DEF MemoryInv, ItemsExplained
<1>3. PICK c : c = CandidateOf(d)
  OBVIOUS
<1>4. c \in candidates /\ c.id = d.candidate /\ Admissible(d, c)
  BY <1>2, <1>3, CandidateAdmitted DEF MemoryInv
<1>5. /\ i.candidate = c.id /\ i.available = d.at /\ i.evidence = c.evidence /\ i.cases = c.cases
      /\ i.status = IF d.decision = "approve" THEN "approved" ELSE "quarantined"
  BY <1>2, <1>3 DEF Item
<1>6. d.decision = "approve"
  BY <1>1, <1>5
<1>7. d.at \in Int /\ c.created \in Int /\ asOf \in Int
  BY <1>4, InstantsAssumption DEF MemoryInv, MemoryTypes
<1>8. d.at <= asOf /\ c.created <= asOf /\ d.evaluator # c.proposer
  BY <1>1, <1>4, <1>5, <1>7 DEF Admissible
<1>9. ASSUME NEW e \in i.evidence
      PROVE  \E k \in cases :
               /\ k.id \in i.cases /\ k.approved /\ e \in k.passed
               /\ \E r \in k.records : r.id = e /\ r.available <= asOf
  <2>1. e \in ApprovedEvidence(c.cases, d.at)
    BY <1>4, <1>5, <1>6, <1>9 DEF Admissible
  <2>2. PICK k \in cases : k.id \in c.cases /\ k.approved /\ e \in k.passed
                           /\ \E r \in k.records : r.id = e /\ r.available <= d.at
    BY <2>1 DEF ApprovedEvidence
  <2>3. PICK r \in k.records : r.id = e /\ r.available <= d.at
    BY <2>2
  <2>4. r.available <= asOf
    <3>1. r.available \in Int
      BY <2>2, <2>3, InstantsAssumption DEF MemoryInv, MemoryTypes
    <3> QED
      BY <3>1, <2>3, <1>7, <1>8
  <2> QED
    BY <2>2, <2>3, <2>4, <1>5
<1>10. \E f \in decisions, b \in candidates :
         /\ f.candidate = i.candidate /\ b.id = i.candidate
         /\ f.decision = "approve" /\ f.evaluator # b.proposer
         /\ f.at <= asOf /\ b.created <= asOf
  BY <1>4, <1>5, <1>6, <1>8
<1> QED
  BY <1>1, <1>9, <1>10 DEF Supported

(* Items are strictly ordered by their score, memory and version, so that  *)
(* there is an n-th hit for every n.                                       *)
LEMMA HitsAreEligible ==
  ASSUME MemoryInv, NEW asOf
  PROVE  Hits(asOf) \in [1..Cardinality(Eligible(asOf)) -> Eligible(asOf)]
         /\ Cardinality(Eligible(asOf)) \in Nat
<1> DEFINE found == Eligible(asOf)
           below == [i \in found |-> {j \in found : Before(j, i)}]
<1>1. found \in SUBSET items /\ IsFiniteSet(found)
  <2>1. found \in SUBSET items
    BY DEF Eligible
  <2> HIDE DEF found
  <2> QED
    BY <2>1, FS_Subset DEF MemoryInv, MemoryTypes
<1>2. \A i \in items : i.score \in Int /\ i.memory \in Int /\ i.version \in Int
  <2> TAKE i \in items
  <2>1. PICK d \in decisions : Admitted(d) /\ i = Item(d, CandidateOf(d), i.version)
    BY DEF MemoryInv, ItemsExplained
  <2>2. CandidateOf(d) \in Candidates
    BY <2>1, CandidateAdmitted DEF MemoryInv, MemoryTypes
  <2>3. i.score = CandidateOf(d).score /\ i.memory = CandidateOf(d).memory
    BY <2>1 DEF Item
  <2>4. i.version \in {j.version : j \in ItemsOf(i.memory)}
    BY DEF ItemsOf
  <2>5. i.version \in 1..Cardinality(ItemsOf(i.memory))
    BY <2>4, VersionsCount
  <2> QED
    BY <2>2, <2>3, <2>5, InstantsAssumption
<1> HIDE DEF found
<1>3. \A i, j \in found : j \in below[i] <=> Before(j, i)
  OBVIOUS
<1>4. below \in [found -> SUBSET found]
  OBVIOUS
<1> HIDE DEF below
<1>5. \A i \in found : i \notin below[i]
  BY <1>1, <1>2, <1>3 DEF Before
<1>6. \A i \in found : \A j \in below[i] : below[j] \subseteq below[i]
  <2> SUFFICES ASSUME NEW i \in found, NEW j \in found, NEW k \in found,
                      Before(j, i), Before(k, j)
               PROVE  Before(k, i)
    BY <1>3, <1>4
  <2> QED
    BY <1>1, <1>2 DEF Before
<1>7. \A i, j \in found : i # j => i \in below[j] \/ j \in below[i]
  <2> SUFFICES ASSUME NEW i \in found, NEW j \in found, i # j
               PROVE  Before(i, j) \/ Before(j, i)
    BY <1>3
  <2>1. i.memory # j.memory \/ i.version # j.version
    BY <1>1 DEF MemoryInv, ItemsKeyed
  <2> QED
    BY <1>1, <1>2, <2>1 DEF Before
<1>8. ASSUME NEW n \in 1..Cardinality(found)
      PROVE  (CHOOSE i \in found : Cardinality({j \in found : Before(j, i)}) = n - 1) \in found
  <2>1. PICK i \in found : Cardinality(below[i]) = n - 1
    BY <1>1, <1>4, <1>5, <1>6, <1>7, RankExists
  <2>2. below[i] = {j \in found : Before(j, i)}
    BY DEF below
  <2> QED
    BY <2>1, <2>2
<1>9. Cardinality(found) \in Nat
  BY <1>1, FS_CardinalityType
<1> QED
  BY <1>8, <1>9 DEF Hits, found

(* The n-th of a finite set of places.                                     *)
LEMMA NthIsPlace ==
  ASSUME NEW places, places \subseteq Int, IsFiniteSet(places), NEW n \in 1..Cardinality(places)
  PROVE  Nth(places, n) \in places
<1> DEFINE below == [i \in places |-> {j \in places : j < i}]
<1>1. \A i, j \in places : j \in below[i] <=> j < i
  OBVIOUS
<1>2. below \in [places -> SUBSET places]
  OBVIOUS
<1> HIDE DEF below
<1>3. \A i \in places : i \notin below[i]
  BY <1>1
<1>4. \A i \in places : \A j \in below[i] : below[j] \subseteq below[i]
  <2> SUFFICES ASSUME NEW i \in places, NEW j \in places, NEW k \in places, j < i, k < j
               PROVE  k < i
    BY <1>1, <1>2
  <2> QED
    OBVIOUS
<1>5. \A i, j \in places : i # j => i \in below[j] \/ j \in below[i]
  <2> SUFFICES ASSUME NEW i \in places, NEW j \in places, i # j
               PROVE  i < j \/ j < i
    BY <1>1
  <2> QED
    OBVIOUS
<1>6. PICK i \in places : Cardinality(below[i]) = n - 1
  BY <1>2, <1>3, <1>4, <1>5, RankExists, ZenonT(40)
<1>7. below[i] = {j \in places : j < i}
  BY DEF below
<1> QED
  BY <1>6, <1>7 DEF Nth

LEMMA PlacesAreFinite ==
  ASSUME NEW n \in Nat, NEW places \in SUBSET (1..n)
  PROVE  /\ IsFiniteSet(1..n) /\ places \in SUBSET Int
         /\ IsFiniteSet(places) /\ Cardinality(places) \in Nat
<1>1. IsFiniteSet(1..n)
  BY FS_Interval
<1>2. IsFiniteSet(places) /\ Cardinality(places) \in Nat
  BY <1>1, FS_Subset, FS_CardinalityType
<1>3. places \in SUBSET Int
  OBVIOUS
<1> QED
  BY <1>1, <1>2, <1>3

LEMMA NumberedIsSeq ==
  ASSUME NEW E, NEW n \in Nat, NEW f \in [1..n -> E]
  PROVE  f \in Seq(E)
OBVIOUS

(* A ranking only moves hits.                                              *)
LEMMA RerankedAreHits ==
  ASSUME NEW E, NEW count \in Nat, NEW hits \in [1..count -> E], NEW ranking \in Seq(Int)
  PROVE  Reranked(hits, ranking) \in Seq(E)
<1> DEFINE ranked == {n \in DOMAIN ranking : LastHit(hits, ranking[n]) # 0}
           unseen == {n \in DOMAIN hits : hits[n].memory \notin Range(ranking)}
           first == [n \in 1..Cardinality(ranked) |-> hits[LastHit(hits, ranking[Nth(ranked, n)])]]
           rest == [n \in 1..Cardinality(unseen) |-> hits[Nth(unseen, n)]]
<1>1. DOMAIN ranking = 1..Len(ranking) /\ Len(ranking) \in Nat /\ DOMAIN hits = 1..count
  OBVIOUS
<1>2. ranked \in SUBSET (1..Len(ranking)) /\ unseen \in SUBSET (1..count)
  BY <1>1
<1>3. /\ IsFiniteSet(ranked) /\ Cardinality(ranked) \in Nat /\ ranked \in SUBSET Int
      /\ IsFiniteSet(unseen) /\ Cardinality(unseen) \in Nat /\ unseen \in SUBSET Int
  <2> HIDE DEF ranked, unseen
  <2> QED
    BY <1>1, <1>2, PlacesAreFinite
<1>4. ASSUME NEW memory, LastHit(hits, memory) # 0 PROVE LastHit(hits, memory) \in 1..count
  <2> DEFINE places == {n \in DOMAIN hits : hits[n].memory = memory}
             S == {0} \union places
  <2>1. S \in SUBSET Int /\ S # {} /\ places \in SUBSET (1..count)
    BY <1>1
  <2>2. IsFiniteSet(S)
    <3>1. IsFiniteSet(places)
      <4> HIDE DEF places
      <4> QED
        BY <2>1, PlacesAreFinite
    <3>2. IsFiniteSet(places \union {0})
      BY <3>1, FS_AddElement
    <3>3. S = places \union {0}
      OBVIOUS
    <3> QED
      BY <3>2, <3>3
  <2>3. LastHit(hits, memory) = Max(S)
    BY DEF LastHit
  <2>4. Max(S) \in S
    <3> HIDE DEF S
    <3>1. \E n \in S : \A m \in S : m <= n
      BY <2>1, <2>2, GreatestNumber
    <3>2. \E n \in S : \A m \in S : n >= m
      BY <3>1, <2>1
    <3> QED
      BY <3>2 DEF Max
  <2> QED
    BY <1>4, <2>1, <2>3, <2>4
<1>5. first \in [1..Cardinality(ranked) -> E]
  <2> SUFFICES ASSUME NEW n \in 1..Cardinality(ranked)
               PROVE  hits[LastHit(hits, ranking[Nth(ranked, n)])] \in E
    OBVIOUS
  <2>1. Nth(ranked, n) \in ranked
    <3> HIDE DEF ranked
    <3> QED
      BY <1>3, NthIsPlace
  <2>2. LastHit(hits, ranking[Nth(ranked, n)]) # 0
    BY <2>1
  <2> QED
    BY <1>4, <2>2
<1>6. rest \in [1..Cardinality(unseen) -> E]
  <2> SUFFICES ASSUME NEW n \in 1..Cardinality(unseen) PROVE hits[Nth(unseen, n)] \in E
    OBVIOUS
  <2> HIDE DEF unseen
  <2> QED
    BY <1>2, <1>3, NthIsPlace
<1> HIDE DEF first, rest, ranked, unseen
<1>7. first \in Seq(E) /\ rest \in Seq(E)
  BY <1>3, <1>5, <1>6, NumberedIsSeq
<1>8. Reranked(hits, ranking) = first \o rest
  BY DEF Reranked, first, rest, ranked, unseen
<1> QED
  BY <1>7, <1>8

LEMMA AnswersAreEligible ==
  ASSUME MemoryInv, NEW asOf, NEW ranking \in Rankings, NEW k \in Nat \ {0}
  PROVE  Range(Answer(ranking, asOf, k)) \subseteq Eligible(asOf)
<1> DEFINE E == Eligible(asOf)
           s == IF ranking = NoRanking THEN Hits(asOf) ELSE Reranked(Hits(asOf), ranking)
           last == Min({k, Len(s)})
<1>1. Hits(asOf) \in [1..Cardinality(E) -> E] /\ Cardinality(E) \in Nat
  BY HitsAreEligible
<1> HIDE DEF E
<1>2. s \in Seq(E)
  <2>1. CASE ranking = NoRanking
    <3>1. Hits(asOf) \in Seq(E)
      BY <1>1
    <3> QED
      BY <2>1, <3>1
  <2>2. CASE ranking # NoRanking
    <3>1. ranking \in Seq(Int)
      BY <2>2, RankingsAssumption
    <3>2. Reranked(Hits(asOf), ranking) \in Seq(E)
      BY <1>1, <3>1, RerankedAreHits
    <3> QED
      BY <2>2, <3>2
  <2> QED
    BY <2>1, <2>2
<1> HIDE DEF s
<1>3. last \in 0..Len(s)
  BY <1>2 DEF Min
<1> HIDE DEF last
<1>4. SubSeq(s, 1, last) \in Seq(E)
  BY <1>2, <1>3
<1>5. Answer(ranking, asOf, k) = SubSeq(s, 1, last)
  BY DEF Answer, FirstOf, s, last
<1>6. Range(SubSeq(s, 1, last)) \subseteq E
  BY <1>4 DEF Range
<1> QED
  BY <1>5, <1>6 DEF E

LEMMA InvHasNoFuture == MemoryInv => NoFutureMemory
<1> SUFFICES ASSUME MemoryInv, NEW asOf \in Times, NEW ranking \in Rankings, NEW k \in 1..2,
                    NEW i \in Range(Answer(ranking, asOf, k))
             PROVE  Supported(i, asOf)
  BY DEF NoFutureMemory, Supported
<1>1. k \in Nat \ {0}
  OBVIOUS
<1>2. i \in Eligible(asOf)
  BY <1>1, AnswersAreEligible
<1> QED
  BY <1>2, EligibleIsSupported

(* Whatever the client ranks, every answer as of a time had been approved  *)
(* by then, by somebody other than its proposer, on evidence that was      *)
(* available by then (MEMORY_POLICY.md, decide, GBrainMemoryAdapter).      *)
THEOREM SearchesSeeNoFuture == MemorySpec => []NoFutureMemory
BY DecisionsAreChecked, InvHasNoFuture, PTL

-----------------------------------------------------------------------------
(***************************************************************************)
(* The point-in-time lake.                                                 *)
(***************************************************************************)
Filed(tickers) ==
  UNION {{Artifact(t, filing) : filing \in Filings[Company[t]]} : t \in tickers}
ArtifactRows == Filed(DOMAIN Company)

(* Every filing that the ingests of since were asked for and found listed, *)
(* of the tickers that have a company to themselves, is there.             *)
Found(k, filing) == Admits(k.request, filing) /\ filing.listed <= k.from
Complete(since, lines) ==
  \A k \in since : \A t \in k.request.tickers :
    Alone(t) => \A f \in Filings[Company[t]] : Found(k, f) => Artifact(t, f) \in lines

(* Nothing but filings of companies of the cutoff, and all those that were *)
(* owed when the snapshot was begun.                                       *)
FaithfulAt(cutoff, lines, universe, since) ==
  /\ lines \subseteq ArtifactRows
  /\ \A r \in lines : r.available <= cutoff
  /\ \A k \in since : \A t \in universe \intersect k.request.tickers :
       Alone(t) => \A f \in Filings[Company[t]] :
         Found(k, f) /\ f.available <= cutoff => Artifact(t, f) \in lines

Pledge(row) == {[request |-> row.request, from |-> row.from]}
IngestFields == {"at", "request", "from", "rows"}

LakeTypes ==
  /\ artifacts \in Seq(ArtifactRows \union {Torn}) /\ now \in Nat
  /\ DOMAIN ingest = Ingesters /\ DOMAIN builder = Builders /\ DOMAIN snapshots = Cutoffs
  /\ \A p \in Ingesters : DOMAIN ingest[p] = IngestFields
  /\ \A b \in Builders : DOMAIN builder[b] = {"at", "cutoff", "universe", "rows", "since"}

(* What an ingest has read may be stale when it appends, but the file only *)
(* grows: what was in it, what it appends, and the rows of the others.     *)
IngestKnows ==
  \A p \in Ingesters :
    /\ ingest[p].at # "idle" => ingest[p].request \in IngestRequests /\ ingest[p].from \in Nat
    /\ ingest[p].at = "artifacts" =>
         /\ ingest[p].rows \in Seq(ArtifactRows)
         /\ Complete(Pledge(ingest[p]), Range(artifacts) \union Range(ingest[p].rows))
    /\ ingest[p].at \in {"read securities", "securities"} =>
         Complete(Pledge(ingest[p]), Range(artifacts))

IngestedIsComplete == Complete(ingested, Range(artifacts))

BuilderKnows ==
  \A b \in Builders :
    LET w == builder[b]
    IN  /\ w.at # "idle" => w.cutoff \in Cutoffs
        /\ w.at = "securities" =>
             Range(w.rows) \subseteq ArtifactRows /\ Complete(w.since, Range(w.rows))
        /\ w.at = "publish" => FaithfulAt(w.cutoff, w.rows.artifacts, w.universe, w.since)

SnapshotsFaithful ==
  \A t \in Cutoffs : snapshots[t] # NoSnapshot =>
    FaithfulAt(t, snapshots[t].artifacts, snapshots[t].universe, snapshots[t].since)

LakeInv == LakeTypes /\ IngestKnows /\ IngestedIsComplete /\ BuilderKnows /\ SnapshotsFaithful

LEMMA LakeInitEstablishes == LakeInit => LakeInv
<1> SUFFICES ASSUME LakeInit PROVE LakeInv
  OBVIOUS
<1>1. LakeTypes
  BY DEF LakeInit, LakeTypes, Unstarted, Unbuilt, IngestFields
<1>2. IngestKnows /\ BuilderKnows
  BY DEF LakeInit, IngestKnows, BuilderKnows, Unstarted, Unbuilt
<1>3. IngestedIsComplete
  BY DEF LakeInit, IngestedIsComplete, Complete
<1>4. SnapshotsFaithful
  BY DEF LakeInit, SnapshotsFaithful
<1> QED
  BY <1>1, <1>2, <1>3, <1>4 DEF LakeInv

LEMMA CompleteGrows ==
  ASSUME NEW since, NEW lines, NEW more, Complete(since, lines), lines \subseteq more
  PROVE  Complete(since, more)
BY DEF Complete

LEMMA RangeOfAppended ==
  ASSUME NEW A, NEW s \in Seq(A), NEW u \in Seq(A)
  PROVE  /\ s \o u \in Seq(A)
         /\ Range(s \o u) = Range(s) \union Range(u)
<1>1. s \o u \in Seq(A)
  OBVIOUS
<1>2. Range(s \o u) \subseteq Range(s) \union Range(u)
  BY DEF Range
<1>3. ASSUME NEW i \in DOMAIN s PROVE s[i] \in Range(s \o u)
  <2>1. i \in DOMAIN (s \o u) /\ (s \o u)[i] = s[i]
    OBVIOUS
  <2> QED
    BY <2>1 DEF Range
<1>4. ASSUME NEW i \in DOMAIN u PROVE u[i] \in Range(s \o u)
  <2>1. i + Len(s) \in DOMAIN (s \o u) /\ (s \o u)[i + Len(s)] = u[i]
    OBVIOUS
  <2> QED
    BY <2>1 DEF Range
<1> QED
  BY <1>1, <1>2, <1>3, <1>4 DEF Range

LEMMA SetToSeqLists ==
  ASSUME NEW S, IsFiniteSet(S)
  PROVE  SetToSeq(S) \in Seq(S) /\ Range(SetToSeq(S)) = S
<1> DEFINE n == Cardinality(S)
           list == SetToSeq(S)
<1>1. n \in Nat /\ ExistsBijection(1..n, S)
  BY FS_CardinalityType
<1>2. PICK f : f \in [1..n -> S] /\ IsInjective(f)
  BY <1>1 DEF ExistsBijection, Bijection, Injection
<1>3. list \in [1..n -> S] /\ IsInjective(list)
  BY <1>2 DEF SetToSeq
<1>4. list \in Injection(1..n, S) /\ DOMAIN list = 1..n
  BY <1>3 DEF Injection
<1>5. Cardinality(1..n) = n
  BY <1>1, FS_Interval
<1> HIDE DEF list, n
<1>6. list \in Surjection(1..n, S)
  BY <1>4, <1>5, FS_Injection DEF n
<1>7. Range(list) = S
  BY <1>3, <1>4, <1>6 DEF Surjection, Range
<1>8. list \in Seq(S)
  BY <1>1, <1>3
<1> QED
  BY <1>7, <1>8 DEF list

LEMMA FiledIsFinite ==
  ASSUME NEW tickers, tickers \subseteq DOMAIN Company, IsFiniteSet(tickers)
  PROVE  /\ IsFiniteSet(Filed(tickers)) /\ Filed(tickers) \subseteq ArtifactRows
<1> DEFINE of == [t \in tickers |-> {Artifact(t, filing) : filing \in Filings[Company[t]]}]
           Sets == {of[t] : t \in tickers}
<1>1. IsFiniteSet(Sets)
  <2> HIDE DEF of
  <2> QED
    BY FiniteImage
<1>2. ASSUME NEW T \in Sets PROVE IsFiniteSet(T)
  <2>1. PICK t \in tickers : T = {Artifact(t, filing) : filing \in Filings[Company[t]]}
    OBVIOUS
  <2> DEFINE artifact == [filing \in Filings[Company[t]] |-> Artifact(t, filing)]
  <2>2. IsFiniteSet(Filings[Company[t]])
    BY FilingsAssumption
  <2>3. IsFiniteSet({artifact[filing] : filing \in Filings[Company[t]]})
    <3> HIDE DEF artifact
    <3> QED
      BY <2>2, FiniteImage
  <2>4. T = {artifact[filing] : filing \in Filings[Company[t]]}
    BY <2>1
  <2> QED
    BY <2>3, <2>4
<1>3. Filed(tickers) = UNION Sets
  BY DEF Filed
<1>4. IsFiniteSet(UNION Sets)
  <2> HIDE DEF Sets
  <2> QED
    BY <1>1, <1>2, FS_UNION
<1>5. IsFiniteSet(Filed(tickers))
  BY <1>3, <1>4
<1> HIDE DEF Sets, of
<1>6. Filed(tickers) \subseteq ArtifactRows
  BY DEF Filed, ArtifactRows
<1> QED
  BY <1>5, <1>6

LEMMA BuiltIsFinite ==
  ASSUME NEW request \in IngestRequests, NEW asked
  PROVE  /\ IsFiniteSet(Built(request, asked)) /\ Built(request, asked) \subseteq ArtifactRows
<1>1. request.tickers \subseteq DOMAIN Company /\ IsFiniteSet(request.tickers)
  BY RequestsAssumption
<1>2. /\ IsFiniteSet(Filed(request.tickers)) /\ Filed(request.tickers) \subseteq ArtifactRows
  BY <1>1, FiledIsFinite
<1>3. Built(request, asked) \subseteq Filed(request.tickers)
  BY DEF Built, Filed, Listed
<1> QED
  BY <1>2, <1>3, FS_Subset

(* What was listed when the request began is listed when it asks.          *)
LEMMA BuiltHas ==
  ASSUME NEW request \in IngestRequests, NEW from \in Nat, now \in Nat,
         NEW asked \in [request.tickers -> from..now],
         NEW t \in request.tickers, NEW f \in Filings[Company[t]],
         Admits(request, f), f.listed <= from
  PROVE  Artifact(t, f) \in Built(request, asked)
<1>1. f.listed \in Nat
  BY RequestsAssumption, FilingsAssumption
<1>2. asked[t] \in from..now
  OBVIOUS
<1>3. f.listed <= asked[t]
  BY <1>1, <1>2
<1> QED
  BY <1>3 DEF Built, Listed

LEMMA ArtifactRowIs ==
  ASSUME NEW r \in ArtifactRows
  PROVE  \E t \in DOMAIN Company : \E f \in Filings[Company[t]] : r = Artifact(t, f)
BY DEF ArtifactRows, Filed

(* A filing of a company with one ticker is one row, whoever writes it.    *)
LEMMA AloneIsKeyed ==
  ASSUME NEW t \in DOMAIN Company, Alone(t), NEW f \in Filings[Company[t]],
         NEW r \in ArtifactRows, ArtifactId(r) = ArtifactId(Artifact(t, f))
  PROVE  r = Artifact(t, f)
<1>1. PICK u \in DOMAIN Company : \E g \in Filings[Company[u]] : r = Artifact(u, g)
  BY ArtifactRowIs
<1>2. PICK g \in Filings[Company[u]] : r = Artifact(u, g)
  BY <1>1
<1>3. Company[u] = Company[t] /\ g.number = f.number
  BY <1>2 DEF ArtifactId, Artifact
<1>4. u = t
  BY <1>3 DEF Alone
<1>5. g = f
  BY <1>3, <1>4, FilingsAssumption
<1> QED
  BY <1>2, <1>4, <1>5

(* What is not in the file is among the new rows.                          *)
LEMMA NewCompletes ==
  ASSUME LakeInv, Readable(artifacts), NEW k, k.request \in IngestRequests, k.from \in Nat,
         NEW asked \in [k.request.tickers -> k.from..now]
  PROVE  LET lines == SetToSeq(New(Built(k.request, asked), artifacts))
         IN  /\ lines \in Seq(ArtifactRows)
             /\ Complete({k}, Range(artifacts) \union Range(lines))
<1> DEFINE fresh == New(Built(k.request, asked), artifacts)
           lines == SetToSeq(fresh)
<1>1. k.request.tickers \subseteq DOMAIN Company /\ now \in Nat
  BY RequestsAssumption DEF LakeInv, LakeTypes
<1>2. IsFiniteSet(Built(k.request, asked)) /\ Built(k.request, asked) \subseteq ArtifactRows
  BY BuiltIsFinite
<1>3. fresh \in SUBSET Built(k.request, asked)
  BY DEF New
<1>4. IsFiniteSet(fresh) /\ fresh \subseteq ArtifactRows
  <2> HIDE DEF fresh
  <2> QED
    BY <1>2, <1>3, FS_Subset
<1>5. lines \in Seq(fresh) /\ Range(lines) = fresh
  <2> HIDE DEF fresh
  <2> QED
    BY <1>4, SetToSeqLists
<1>6. lines \in Seq(ArtifactRows)
  <2> HIDE DEF lines, fresh
  <2> QED
    BY <1>4, <1>5
<1>7. Range(artifacts) \subseteq ArtifactRows
  BY DEF LakeInv, LakeTypes, Readable, Range
<1>8. Complete({k}, Range(artifacts) \union fresh)
  <2> SUFFICES ASSUME NEW t \in k.request.tickers, Alone(t), NEW f \in Filings[Company[t]],
                      Found(k, f), Artifact(t, f) \notin fresh
               PROVE  Artifact(t, f) \in Range(artifacts)
    BY Zenon DEF Complete
  <2>1. Artifact(t, f) \in Built(k.request, asked)
    BY <1>1, BuiltHas DEF Found
  <2>2. PICK r \in Range(artifacts) : ArtifactId(r) = ArtifactId(Artifact(t, f))
    BY <2>1 DEF New
  <2> QED
    BY <1>1, <1>7, <2>2, AloneIsKeyed
<1>9. Complete({k}, Range(artifacts) \union Range(lines))
  <2> HIDE DEF lines, fresh
  <2> QED
    BY <1>5, <1>8
<1> QED
  BY <1>6, <1>9, Zenon

LEMMA RemainsAreRows ==
  ASSUME NEW A, NEW lines \in Seq(A), NEW rest \in Remains(lines)
  PROVE  rest \in Seq(A \union {Torn})
<1>1. ASSUME NEW n \in 0..Len(lines) PROVE SubSeq(lines, 1, n) \in Seq(A)
  BY <1>1
<1>2. CASE \E n \in 0..Len(lines) : rest = SubSeq(lines, 1, n)
  <2>1. rest \in Seq(A)
    BY <1>1, <1>2
  <2> QED
    BY <2>1
<1>3. CASE \E n \in 1..Len(lines) : rest = Append(SubSeq(lines, 1, n - 1), Torn)
  <2>1. PICK n \in 1..Len(lines) : rest = Append(SubSeq(lines, 1, n - 1), Torn)
    BY <1>3
  <2>2. SubSeq(lines, 1, n - 1) \in Seq(A)
    BY <1>1
  <2>3. SubSeq(lines, 1, n - 1) \in Seq(A \union {Torn})
    BY <2>2
  <2> QED
    BY <2>1, <2>3
<1> QED
  BY <1>2, <1>3 DEF Remains

(* The artifact file grows, the securities do what they want: what ingests *)
(* and builders know stays true.                                           *)
LEMMA KnowledgeStays ==
  ASSUME LakeInv, NEW rest \in Seq(ArtifactRows \union {Torn}), artifacts' = artifacts \o rest
  PROVE  /\ artifacts' \in Seq(ArtifactRows \union {Torn})
         /\ Range(artifacts') = Range(artifacts) \union Range(rest)
         /\ \A since, lines : Complete(since, Range(artifacts) \union lines)
                               => Complete(since, Range(artifacts') \union lines)
         /\ \A since : Complete(since, Range(artifacts)) => Complete(since, Range(artifacts'))
<1>1. /\ artifacts' \in Seq(ArtifactRows \union {Torn})
      /\ Range(artifacts') = Range(artifacts) \union Range(rest)
  BY RangeOfAppended DEF LakeInv, LakeTypes
<1>2. \A lines : Range(artifacts) \union lines \subseteq Range(artifacts') \union lines
  BY <1>1
<1>3. Range(artifacts) \subseteq Range(artifacts')
  BY <1>1
<1> QED
  BY <1>1, <1>2, <1>3, CompleteGrows

(* One ingest moves; the builders and the snapshots stay what they are.    *)
LEMMA IngestMoves ==
  ASSUME LakeInv, NEW p \in Ingesters, NEW rest \in Seq(ArtifactRows \union {Torn}),
         artifacts' = artifacts \o rest,
         NEW row, DOMAIN row = IngestFields,
         ingest' = [ingest EXCEPT ![p] = row],
         row.at # "idle" => row.request \in IngestRequests /\ row.from \in Nat,
         row.at = "artifacts" =>
           /\ row.rows \in Seq(ArtifactRows)
           /\ Complete(Pledge(row), Range(artifacts) \union Range(row.rows)),
         row.at \in {"read securities", "securities"} =>
           Complete(Pledge(row), Range(artifacts')),
         Complete(ingested', Range(artifacts')),
         UNCHANGED <<now, builder, snapshots>>
  PROVE  LakeInv'
<1> USE DEF LakeInv
<1>1. /\ artifacts' \in Seq(ArtifactRows \union {Torn})
      /\ \A since, lines : Complete(since, Range(artifacts) \union lines)
                            => Complete(since, Range(artifacts') \union lines)
      /\ \A since : Complete(since, Range(artifacts)) => Complete(since, Range(artifacts'))
  BY KnowledgeStays
<1>2. /\ DOMAIN ingest' = Ingesters
      /\ \A q \in Ingesters : ingest'[q] = IF q = p THEN row ELSE ingest[q]
  BY DEF LakeTypes
<1>3. LakeTypes'
  BY <1>1, <1>2 DEF LakeTypes
<1>4. IngestKnows'
  <2> SUFFICES ASSUME NEW q \in Ingesters
               PROVE  /\ ingest'[q].at # "idle" =>
                           ingest'[q].request \in IngestRequests /\ ingest'[q].from \in Nat
                      /\ ingest'[q].at = "artifacts" =>
                           /\ ingest'[q].rows \in Seq(ArtifactRows)
                           /\ Complete(Pledge(ingest'[q]),
                                       Range(artifacts') \union Range(ingest'[q].rows))
                      /\ ingest'[q].at \in {"read securities", "securities"} =>
                           Complete(Pledge(ingest'[q]), Range(artifacts'))
    BY DEF IngestKnows
  <2>1. CASE q = p
    BY <1>1, <1>2, <2>1
  <2>2. CASE q # p
    <3>1. ingest'[q] = ingest[q]
      BY <1>2, <2>2
    <3> QED
      BY <1>1, <3>1 DEF IngestKnows
  <2> QED
    BY <2>1, <2>2
<1>5. IngestedIsComplete'
  BY DEF IngestedIsComplete
<1>6. BuilderKnows' /\ SnapshotsFaithful'
  BY DEF BuilderKnows, SnapshotsFaithful
<1> QED
  BY <1>3, <1>4, <1>5, <1>6

(* One builder moves.                                                      *)
LEMMA BuilderMoves ==
  ASSUME LakeInv, NEW b \in Builders, NEW row,
         DOMAIN row = {"at", "cutoff", "universe", "rows", "since"},
         builder' = [builder EXCEPT ![b] = row],
         row.at # "idle" => row.cutoff \in Cutoffs,
         row.at = "securities" =>
           Range(row.rows) \subseteq ArtifactRows /\ Complete(row.since, Range(row.rows)),
         row.at = "publish" =>
           FaithfulAt(row.cutoff, row.rows.artifacts, row.universe, row.since),
         DOMAIN snapshots' = Cutoffs, SnapshotsFaithful',
         UNCHANGED <<now, artifacts, ingest, ingested>>
  PROVE  LakeInv'
<1> USE DEF LakeInv
<1>1. /\ DOMAIN builder' = Builders
      /\ \A c \in Builders : builder'[c] = IF c = b THEN row ELSE builder[c]
  BY DEF LakeTypes
<1>2. LakeTypes'
  BY <1>1 DEF LakeTypes
<1>3. BuilderKnows'
  BY <1>1 DEF BuilderKnows
<1>4. IngestKnows' /\ IngestedIsComplete'
  BY DEF IngestKnows, IngestedIsComplete
<1> QED
  BY <1>2, <1>3, <1>4

LEMMA IngestStep ==
  ASSUME LakeInv, NEW p \in Ingesters,
         \/ Begin(p) \/ ReadArtifacts(p) \/ AppendArtifacts(p) \/ ReadSecurities(p)
         \/ AppendSecurities(p) \/ IngestDies(p)
  PROVE  LakeInv'
<1> USE DEF LakeInv
<1>0. /\ <<>> \in Seq(ArtifactRows \union {Torn})
      /\ artifacts \in Seq(ArtifactRows \union {Torn}) /\ artifacts \o <<>> = artifacts
  BY DEF LakeTypes
<1>1. DOMAIN ingest = Ingesters /\ DOMAIN ingest[p] = IngestFields
  BY DEF LakeTypes
<1>2. Complete(ingested, Range(artifacts)) /\ now \in Nat
  BY DEF IngestedIsComplete, LakeTypes
<1>3. CASE ReadArtifacts(p)
  <2> DEFINE request == ingest[p].request
             from == ingest[p].from
             pledge == [request |-> request, from |-> from]
  <2>1. PICK asked \in [request.tickers -> from..now] :
          ingest' = [ingest EXCEPT
            ![p].at = "artifacts", ![p].rows = SetToSeq(New(Built(request, asked), artifacts))]
    BY <1>3 DEF ReadArtifacts
  <2>2. request \in IngestRequests /\ from \in Nat
    BY <1>3 DEF ReadArtifacts, IngestKnows
  <2> DEFINE lines == SetToSeq(New(Built(request, asked), artifacts))
             row == [ingest[p] EXCEPT !.at = "artifacts", !.rows = lines]
  <2>3. lines \in Seq(ArtifactRows) /\ Complete({pledge}, Range(artifacts) \union Range(lines))
    <3>1. pledge.request = request /\ pledge.from = from
      OBVIOUS
    <3>2. PICK k : k = pledge
      OBVIOUS
    <3> HIDE DEF pledge, request, from
    <3>3. /\ k.request \in IngestRequests /\ k.from \in Nat
          /\ asked \in [k.request.tickers -> k.from..now] /\ k.request = request
      BY <2>2, <3>1, <3>2
    <3>4. Readable(artifacts)
      BY <1>3 DEF ReadArtifacts
    <3> QED
      BY <3>2, <3>3, <3>4, NewCompletes, Zenon
  <2> HIDE DEF lines
  <2>4. ingest' = [ingest EXCEPT ![p] = row]
    BY <1>1, <2>1 DEF lines
  <2>5. /\ DOMAIN row = IngestFields /\ row.at = "artifacts" /\ row.rows = lines
        /\ row.request = request /\ row.from = from
    BY <1>1 DEF IngestFields
  <2>6. UNCHANGED <<now, artifacts, builder, snapshots, ingested>>
    BY <1>3 DEF ReadArtifacts
  <2>7. artifacts' = artifacts \o <<>>
    BY <1>0, <2>6
  <2> HIDE DEF row
  <2>8. Pledge(row) = {pledge}
    BY <2>5 DEF Pledge
  <2> HIDE DEF request, from, pledge
  <2> QED
    BY <1>0, <1>2, <2>2, <2>3, <2>4, <2>5, <2>6, <2>7, <2>8, IngestMoves
<1>8. CASE Begin(p)
  <2>1. PICK request \in IngestRequests :
          ingest' = [ingest EXCEPT ![p] = [at |-> "fetch", request |-> request, from |-> now,
                                           rows |-> <<>>]]
    BY <1>8 DEF Begin
  <2> DEFINE row == [at |-> "fetch", request |-> request, from |-> now, rows |-> <<>>]
  <2>2. /\ DOMAIN row = IngestFields /\ row.at = "fetch" /\ row.request = request
        /\ row.from = now /\ ingest' = [ingest EXCEPT ![p] = row]
    BY <2>1 DEF IngestFields
  <2>3. UNCHANGED <<now, artifacts, builder, snapshots, ingested>>
    BY <1>8 DEF Begin
  <2>4. artifacts' = artifacts \o <<>>
    BY <1>0, <2>3
  <2> HIDE DEF row
  <2> QED
    BY <1>0, <1>2, <2>2, <2>3, <2>4, IngestMoves
<1>4. CASE AppendArtifacts(p)
  <2> DEFINE lines == ingest[p].rows
             row == [ingest[p] EXCEPT !.at = "read securities"]
  <2>1. /\ ingest[p].request \in IngestRequests /\ ingest[p].from \in Nat
        /\ lines \in Seq(ArtifactRows)
        /\ Complete(Pledge(ingest[p]), Range(artifacts) \union Range(lines))
    BY <1>4 DEF AppendArtifacts, IngestKnows
  <2>2. /\ artifacts' = artifacts \o lines /\ ingest' = [ingest EXCEPT ![p] = row]
        /\ UNCHANGED <<now, builder, snapshots, ingested>>
    BY <1>4 DEF AppendArtifacts
  <2>3. /\ DOMAIN row = IngestFields /\ row.at = "read securities"
        /\ row.request = ingest[p].request /\ row.from = ingest[p].from
    BY <1>1 DEF IngestFields
  <2> HIDE DEF row, lines
  <2>4. lines \in Seq(ArtifactRows \union {Torn})
    BY <2>1
  <2>5. Pledge(row) = Pledge(ingest[p])
    BY <2>3 DEF Pledge
  <2>6. Complete(Pledge(row), Range(artifacts')) /\ Complete(ingested', Range(artifacts'))
    BY <1>2, <2>1, <2>2, <2>4, <2>5, KnowledgeStays
  <2> QED
    BY <1>2, <2>1, <2>2, <2>3, <2>4, <2>6, IngestMoves
<1>5. CASE ReadSecurities(p)
  <2> DEFINE lines == SetToSeq(NewMappings(Mappings(ingest[p].request.tickers), securities))
             row == [ingest[p] EXCEPT !.at = "securities", !.rows = lines]
  <2>1. /\ ingest[p].request \in IngestRequests /\ ingest[p].from \in Nat
        /\ Complete(Pledge(ingest[p]), Range(artifacts))
    BY <1>5 DEF ReadSecurities, IngestKnows
  <2>2. /\ ingest' = [ingest EXCEPT ![p].at = "securities", ![p].rows = lines]
        /\ artifacts' = artifacts /\ UNCHANGED <<now, builder, snapshots, ingested>>
    BY <1>5 DEF ReadSecurities
  <2> HIDE DEF lines
  <2>3. ingest' = [ingest EXCEPT ![p] = row]
    BY <1>1, <2>2
  <2>4. /\ DOMAIN row = IngestFields /\ row.at = "securities"
        /\ row.request = ingest[p].request /\ row.from = ingest[p].from
    BY <1>1 DEF IngestFields
  <2>5. artifacts' = artifacts \o <<>>
    BY <1>0, <2>2
  <2> HIDE DEF row
  <2>6. Pledge(row) = Pledge(ingest[p])
    BY <2>4 DEF Pledge
  <2> QED
    BY <1>0, <1>2, <2>1, <2>2, <2>3, <2>4, <2>5, <2>6, IngestMoves
<1>6. CASE AppendSecurities(p)
  <2>1. Complete(Pledge(ingest[p]), Range(artifacts))
    BY <1>6 DEF AppendSecurities, IngestKnows
  <2>2. /\ ingest' = [ingest EXCEPT ![p] = Unstarted] /\ artifacts' = artifacts
        /\ ingested' = ingested \union Pledge(ingest[p]) /\ UNCHANGED <<now, builder, snapshots>>
    BY <1>6 DEF AppendSecurities, Pledge
  <2>3. DOMAIN Unstarted = IngestFields /\ Unstarted.at = "idle"
    BY DEF Unstarted, IngestFields
  <2>4. artifacts' = artifacts \o <<>>
    BY <1>0, <2>2
  <2>5. Complete(ingested', Range(artifacts'))
    BY <1>2, <2>1, <2>2 DEF Complete
  <2> QED
    BY <1>0, <2>2, <2>3, <2>4, <2>5, IngestMoves
<1>7. CASE IngestDies(p)
  <2>1. PICK rest \in IF ingest[p].at \in {"artifacts", "securities"}
                      THEN Remains(ingest[p].rows) ELSE {<<>>} :
          IF ingest[p].at = "securities"
          THEN securities' = securities \o rest /\ UNCHANGED artifacts
          ELSE artifacts' = artifacts \o rest /\ UNCHANGED securities
    BY <1>7 DEF IngestDies
  <2>2. /\ ingest' = [ingest EXCEPT ![p] = Unstarted]
        /\ UNCHANGED <<now, builder, snapshots, ingested>>
    BY <1>7 DEF IngestDies
  <2>3. DOMAIN Unstarted = IngestFields /\ Unstarted.at = "idle"
    BY DEF Unstarted, IngestFields
  <2>4. \E more \in Seq(ArtifactRows \union {Torn}) : artifacts' = artifacts \o more
    <3>1. CASE ingest[p].at = "artifacts"
      <4>1. rest \in Remains(ingest[p].rows) /\ artifacts' = artifacts \o rest
        BY <2>1, <3>1
      <4>2. ingest[p].rows \in Seq(ArtifactRows)
        BY <3>1 DEF IngestKnows
      <4>3. rest \in Seq(ArtifactRows \union {Torn})
        BY <4>1, <4>2, RemainsAreRows
      <4> QED
        BY <4>1, <4>3
    <3>2. CASE ingest[p].at = "securities"
      BY <1>0, <2>1, <3>2
    <3>3. CASE ingest[p].at \notin {"artifacts", "securities"}
      BY <1>0, <2>1, <3>3
    <3> QED
      BY <3>1, <3>2, <3>3
  <2>5. PICK more \in Seq(ArtifactRows \union {Torn}) : artifacts' = artifacts \o more
    BY <2>4
  <2>6. Complete(ingested', Range(artifacts'))
    BY <1>2, <2>2, <2>5, KnowledgeStays
  <2> QED
    BY <1>2, <2>2, <2>3, <2>5, <2>6, IngestMoves
<1> QED
  BY <1>3, <1>4, <1>5, <1>6, <1>7, <1>8

LEMMA AsOfIsFaithful ==
  ASSUME NEW lines, NEW t, NEW universe, NEW since,
         Range(lines) \subseteq ArtifactRows, Complete(since, Range(lines))
  PROVE  FaithfulAt(t, AsOf(lines, t, universe), universe, since)
<1>1. ASSUME NEW k \in since, NEW u \in universe \intersect k.request.tickers, Alone(u),
             NEW f \in Filings[Company[u]], Found(k, f), f.available <= t
      PROVE  Artifact(u, f) \in AsOf(lines, t, universe)
  <2>1. Artifact(u, f) \in Range(lines)
    BY <1>1 DEF Complete
  <2>2. Artifact(u, f).available = f.available /\ Artifact(u, f).entity = u
    BY DEF Artifact
  <2> QED
    BY <1>1, <2>1, <2>2 DEF AsOf
<1> QED
  BY <1>1, Zenon DEF FaithfulAt, AsOf

LEMMA BuilderStep ==
  ASSUME LakeInv, NEW b \in Builders,
         ReadLedger(b) \/ WriteTemporary(b) \/ Publish(b) \/ AbandonSnapshot(b)
  PROVE  LakeInv'
<1> USE DEF LakeInv
<1>1. /\ DOMAIN builder = Builders /\ DOMAIN snapshots = Cutoffs
      /\ DOMAIN builder[b] = {"at", "cutoff", "universe", "rows", "since"}
  BY DEF LakeTypes
<1>2. DOMAIN Unbuilt = {"at", "cutoff", "universe", "rows", "since"} /\ Unbuilt.at = "idle"
  BY DEF Unbuilt
<1>3. ASSUME UNCHANGED snapshots PROVE DOMAIN snapshots' = Cutoffs /\ SnapshotsFaithful'
  BY <1>1, <1>3 DEF SnapshotsFaithful
<1>4. CASE ReadLedger(b)
  <2>1. PICK t \in Cutoffs, u \in Universes :
          builder' = [builder EXCEPT ![b] = [at |-> "securities", cutoff |-> t, universe |-> u,
                                             rows |-> artifacts, since |-> ingested]]
    BY <1>4 DEF ReadLedger
  <2> DEFINE row == [at |-> "securities", cutoff |-> t, universe |-> u,
                     rows |-> artifacts, since |-> ingested]
  <2>2. Range(artifacts) \subseteq ArtifactRows
    BY <1>4 DEF ReadLedger, LakeTypes, Readable, Range
  <2>3. Complete(ingested, Range(artifacts))
    BY DEF IngestedIsComplete
  <2>4. UNCHANGED <<now, artifacts, ingest, snapshots, ingested>>
    BY <1>4 DEF ReadLedger
  <2>5. /\ DOMAIN row = {"at", "cutoff", "universe", "rows", "since"}
        /\ row.at = "securities" /\ row.cutoff = t /\ row.rows = artifacts
        /\ row.since = ingested /\ builder' = [builder EXCEPT ![b] = row]
    BY <2>1
  <2>6. PICK it : it = row
    OBVIOUS
  <2> HIDE DEF row
  <2> QED
    BY <1>3, <2>2, <2>3, <2>4, <2>5, <2>6, BuilderMoves
<1>5. CASE WriteTemporary(b)
  <2> DEFINE w == builder[b]
             lines == [artifacts  |-> AsOf(w.rows, w.cutoff, w.universe),
                      securities |-> {s \in Range(securities) : s.ticker \in w.universe}]
             row == [w EXCEPT !.at = "publish", !.rows = lines]
  <2>1. /\ w.cutoff \in Cutoffs
        /\ Range(w.rows) \subseteq ArtifactRows /\ Complete(w.since, Range(w.rows))
    BY <1>5 DEF WriteTemporary, BuilderKnows
  <2>2. FaithfulAt(w.cutoff, lines.artifacts, w.universe, w.since)
    BY <2>1, AsOfIsFaithful
  <2>3. /\ builder' = [builder EXCEPT ![b].at = "publish", ![b].rows = lines]
        /\ UNCHANGED <<now, artifacts, ingest, snapshots, ingested>>
    BY <1>5 DEF WriteTemporary
  <2> HIDE DEF lines
  <2>4. builder' = [builder EXCEPT ![b] = row]
    BY <1>1, <2>3
  <2>5. /\ DOMAIN row = {"at", "cutoff", "universe", "rows", "since"} /\ row.at = "publish"
        /\ row.cutoff = w.cutoff /\ row.rows = lines /\ row.universe = w.universe
        /\ row.since = w.since
    BY <1>1
  <2> HIDE DEF row, w
  <2> QED
    BY <1>3, <2>1, <2>2, <2>3, <2>4, <2>5, BuilderMoves
<1>6. CASE Publish(b)
  <2> DEFINE w == builder[b]
             made == [universe |-> w.universe, artifacts |-> w.rows.artifacts,
                      securities |-> w.rows.securities, since |-> w.since]
  <2>1. /\ w.cutoff \in Cutoffs
        /\ FaithfulAt(w.cutoff, w.rows.artifacts, w.universe, w.since)
    BY <1>6 DEF Publish, BuilderKnows
  <2>2. /\ snapshots' = [snapshots EXCEPT ![w.cutoff] = made]
        /\ builder' = [builder EXCEPT ![b] = Unbuilt]
        /\ UNCHANGED <<now, artifacts, ingest, ingested>>
    BY <1>6 DEF Publish
  <2>3. /\ DOMAIN snapshots' = Cutoffs
        /\ \A t \in Cutoffs : snapshots'[t] = IF t = w.cutoff THEN made ELSE snapshots[t]
    BY <1>1, <2>2
  <2>4. SnapshotsFaithful'
    <3> SUFFICES ASSUME NEW t \in Cutoffs, snapshots'[t] # NoSnapshot
                 PROVE  FaithfulAt(t, snapshots'[t].artifacts, snapshots'[t].universe,
                                   snapshots'[t].since)
      BY Zenon DEF SnapshotsFaithful
    <3>1. CASE t = w.cutoff
      BY <2>1, <2>3, <3>1
    <3>2. CASE t # w.cutoff
      BY <2>3, <3>2 DEF SnapshotsFaithful
    <3> QED
      BY <3>1, <3>2
  <2> QED
    BY <1>2, <2>2, <2>3, <2>4, BuilderMoves
<1>7. CASE AbandonSnapshot(b)
  <2>1. /\ builder' = [builder EXCEPT ![b] = Unbuilt]
        /\ UNCHANGED <<now, artifacts, ingest, snapshots, ingested>>
    BY <1>7 DEF AbandonSnapshot
  <2> QED
    BY <1>2, <1>3, <2>1, BuilderMoves
<1> QED
  BY <1>4, <1>5, <1>6, <1>7

LEMMA LakeStep == LakeInv /\ [LakeNext]_lakeVars => LakeInv'
<1> SUFFICES ASSUME LakeInv, [LakeNext]_lakeVars PROVE LakeInv'
  OBVIOUS
<1>3. CASE Pass
  <2>1. /\ UNCHANGED <<artifacts, securities, ingest, builder, snapshots, ingested>>
        /\ now' = now + 1
    BY <1>3 DEF Pass
  <2>2. LakeTypes'
    BY <2>1 DEF LakeInv, LakeTypes
  <2>3. IngestKnows' /\ IngestedIsComplete'
    BY <2>1 DEF LakeInv, IngestKnows, IngestedIsComplete
  <2>4. BuilderKnows' /\ SnapshotsFaithful'
    BY <2>1 DEF LakeInv, BuilderKnows, SnapshotsFaithful
  <2> QED
    BY <2>2, <2>3, <2>4 DEF LakeInv
<1>1. CASE LakeNext
  BY <1>1, <1>3, IngestStep, BuilderStep DEF LakeNext
<1>2. CASE UNCHANGED lakeVars
  BY <1>2 DEF lakeVars, LakeInv, LakeTypes, IngestKnows, IngestedIsComplete, BuilderKnows,
              SnapshotsFaithful
<1> QED
  BY <1>1, <1>2

(* Whatever the ingests have read before they append, and wherever they    *)
(* die, the artifact file has every filing that the ingests which returned *)
(* were asked for and found listed, of companies with one ticker, and the  *)
(* snapshots begun after them have those available by the cutoff, nothing  *)
(* else (ingest_sec, write_snapshot).                                      *)
THEOREM LakeIsSound == LakeSpec => []LakeInv
BY LakeInitEstablishes, LakeStep, PTL DEF LakeSpec

LEMMA FaithfulIsComplete == LakeInv => VerifiedSnapshotComplete
<1> SUFFICES ASSUME LakeInv, NEW t \in Cutoffs, snapshots[t] # NoSnapshot
             PROVE  /\ Loads(t) \/ \E u \in snapshots[t].universe :
                         u \notin {s.ticker : s \in snapshots[t].securities}
                    /\ \A u \in snapshots[t].universe :
                         LET held == {r.number : r \in {q \in snapshots[t].artifacts : q.entity = u}}
                         IN  /\ held \subseteq
                                  {f.number : f \in {g \in Filings[Company[u]] : g.available <= t}}
                             /\ Alone(u) =>
                                  {f.number : f \in Owed(u, t, snapshots[t].since)} \subseteq held
  BY Zenon DEF VerifiedSnapshotComplete
<1> DEFINE lines == snapshots[t].artifacts
           since == snapshots[t].since
<1>1. FaithfulAt(t, lines, snapshots[t].universe, since)
  BY DEF LakeInv, SnapshotsFaithful
<1>2. Loads(t) \/ \E u \in snapshots[t].universe :
        u \notin {s.ticker : s \in snapshots[t].securities}
  BY <1>1 DEF Loads, FaithfulAt
<1>3. ASSUME NEW u \in snapshots[t].universe
      PROVE  LET held == {r.number : r \in {q \in lines : q.entity = u}}
             IN  /\ held \subseteq {f.number : f \in {g \in Filings[Company[u]] : g.available <= t}}
                 /\ Alone(u) => {f.number : f \in Owed(u, t, since)} \subseteq held
  <2>1. ASSUME NEW r \in lines, r.entity = u
        PROVE  \E f \in Filings[Company[u]] : f.available <= t /\ f.number = r.number
    <3>1. r \in ArtifactRows /\ r.available <= t
      BY <1>1 DEF FaithfulAt
    <3>2. PICK v \in DOMAIN Company : \E f \in Filings[Company[v]] : r = Artifact(v, f)
      BY <3>1, ArtifactRowIs
    <3>3. PICK f \in Filings[Company[v]] : r = Artifact(v, f)
      BY <3>2
    <3>4. v = u /\ f.available = r.available /\ f.number = r.number
      BY <2>1, <3>3 DEF Artifact
    <3> QED
      BY <3>1, <3>4
  <2>2. ASSUME Alone(u), NEW f \in Owed(u, t, since)
        PROVE  \E r \in lines : r.entity = u /\ r.number = f.number
    <3>1. f \in Filings[Company[u]] /\ f.available <= t
      BY DEF Owed
    <3>2. PICK k \in since : u \in k.request.tickers /\ Found(k, f)
      BY DEF Owed, Found
    <3>3. Artifact(u, f) \in lines
      BY <1>1, <2>2, <3>1, <3>2 DEF FaithfulAt
    <3>4. Artifact(u, f).entity = u /\ Artifact(u, f).number = f.number
      BY DEF Artifact
    <3> QED
      BY <3>3, <3>4
  <2> HIDE DEF lines, since
  <2> QED
    BY <2>1, <2>2
<1> QED
  BY <1>2, <1>3

(* A snapshot that verifies holds, for every company of its universe with  *)
(* a ticker to itself, what the ingests that had returned were asked for   *)
(* and could find available by the cutoff, and nothing but filings of its  *)
(* companies available by then (write_snapshot, load_snapshot).            *)
THEOREM SnapshotsAreComplete == LakeSpec => []VerifiedSnapshotComplete
BY LakeIsSound, FaithfulIsComplete, PTL

-----------------------------------------------------------------------------
(* When the identifiers of the artifact file are unique after all.         *)

(* No ingest reads the file while another is about to append to it.        *)
TurnByTurn ==
  \A p, q \in Ingesters : ingest[p].at = "artifacts" /\ ingest[q].at = "artifacts" => p = q

Apart(a, b) == \A m \in DOMAIN a, n \in DOMAIN b : ArtifactId(a[m]) # ArtifactId(b[n])

(* What an ingest is about to append is new, within itself too.            *)
FreshRows ==
  \A p \in Ingesters : ingest[p].at = "artifacts" =>
    Distinct(ingest[p].rows) /\ Apart(artifacts, ingest[p].rows)

FileInv == LakeInv /\ IdentifiersUnique /\ FreshRows

LEMMA DistinctMeans ==
  ASSUME NEW A, NEW s \in Seq(A)
  PROVE  Distinct(s) <=> \A m, n \in 1..Len(s) : ArtifactId(s[m]) = ArtifactId(s[n]) => m = n
<1> DEFINE ids == [n \in DOMAIN s |-> ArtifactId(s[n])]
<1>1. DOMAIN ids = 1..Len(s) /\ \A n \in 1..Len(s) : ids[n] = ArtifactId(s[n])
  OBVIOUS
<1> HIDE DEF ids
<1>2. IsInjective(ids) <=> \A m, n \in 1..Len(s) : ids[m] = ids[n] => m = n
  BY <1>1 DEF IsInjective
<1>3. Distinct(s) <=> IsInjective(ids)
  BY DEF Distinct, ids
<1> QED
  BY <1>1, <1>2, <1>3

LEMMA DistinctJoined ==
  ASSUME NEW A, NEW a \in Seq(A), NEW b \in Seq(A), Distinct(a), Distinct(b), Apart(a, b)
  PROVE  Distinct(a \o b)
<1>1. a \o b \in Seq(A)
  OBVIOUS
<1>2. SUFFICES ASSUME NEW m \in 1..Len(a \o b), NEW n \in 1..Len(a \o b),
                      ArtifactId((a \o b)[m]) = ArtifactId((a \o b)[n])
               PROVE  m = n
  BY <1>1, DistinctMeans
<1>3. \A k \in 1..Len(a \o b) :
        \/ k \in 1..Len(a) /\ (a \o b)[k] = a[k]
        \/ k - Len(a) \in 1..Len(b) /\ k > Len(a) /\ (a \o b)[k] = b[k - Len(a)]
  OBVIOUS
<1>4. \A i, j \in 1..Len(a) : ArtifactId(a[i]) = ArtifactId(a[j]) => i = j
  BY DistinctMeans
<1>5. \A i, j \in 1..Len(b) : ArtifactId(b[i]) = ArtifactId(b[j]) => i = j
  BY DistinctMeans
<1>6. \A i \in 1..Len(a), j \in 1..Len(b) : ArtifactId(a[i]) # ArtifactId(b[j])
  BY DEF Apart
<1>7. CASE m \in 1..Len(a) /\ (a \o b)[m] = a[m]
  BY <1>2, <1>3, <1>4, <1>6, <1>7
<1>8. CASE m - Len(a) \in 1..Len(b) /\ m > Len(a) /\ (a \o b)[m] = b[m - Len(a)]
  <2>1. CASE n \in 1..Len(a) /\ (a \o b)[n] = a[n]
    BY <1>2, <1>6, <1>8, <2>1
  <2>2. CASE n - Len(a) \in 1..Len(b) /\ n > Len(a) /\ (a \o b)[n] = b[n - Len(a)]
    <3>1. m - Len(a) = n - Len(a)
      BY <1>2, <1>5, <1>8, <2>2
    <3> QED
      BY <1>8, <2>2, <3>1
  <2> QED
    BY <1>3, <2>1, <2>2
<1> QED
  BY <1>3, <1>7, <1>8

LEMMA DistinctPrefix ==
  ASSUME NEW A, NEW s \in Seq(A), Distinct(s), NEW n \in 0..Len(s)
  PROVE  /\ SubSeq(s, 1, n) \in Seq(A) /\ Distinct(SubSeq(s, 1, n))
         /\ \A a : Apart(a, s) => Apart(a, SubSeq(s, 1, n))
<1> DEFINE t == SubSeq(s, 1, n)
<1>1. t \in Seq(A) /\ Len(t) = n /\ \A k \in 1..n : t[k] = s[k]
  OBVIOUS
<1> HIDE DEF t
<1>2. \A i, j \in 1..Len(s) : ArtifactId(s[i]) = ArtifactId(s[j]) => i = j
  BY DistinctMeans
<1>3. \A i, j \in 1..Len(t) : ArtifactId(t[i]) = ArtifactId(t[j]) => i = j
  BY <1>1, <1>2
<1>4. Distinct(t)
  BY <1>1, <1>3, DistinctMeans
<1>5. ASSUME NEW a, Apart(a, s) PROVE Apart(a, t)
  BY <1>1, <1>5 DEF Apart
<1> QED
  BY <1>1, <1>4, <1>5 DEF t

(* The list that is made of a set names every member once.                 *)
LEMMA SetToSeqOnce ==
  ASSUME NEW S, IsFiniteSet(S)
  PROVE  IsInjective(SetToSeq(S))
<1> DEFINE n == Cardinality(S)
<1>1. ExistsBijection(1..n, S)
  BY FS_CardinalityType
<1>2. PICK f : f \in [1..n -> S] /\ IsInjective(f)
  BY <1>1 DEF ExistsBijection, Bijection, Injection
<1> QED
  BY <1>2 DEF SetToSeq

(* With a company to each ticker, a request builds no identifier twice.    *)
LEMMA FreshIsFresh ==
  ASSUME \A t \in DOMAIN Company : Alone(t), NEW request \in IngestRequests, NEW asked
  PROVE  LET lines == SetToSeq(New(Built(request, asked), artifacts))
         IN  Distinct(lines) /\ Apart(artifacts, lines)
<1> DEFINE fresh == New(Built(request, asked), artifacts)
           lines == SetToSeq(fresh)
<1>2. IsFiniteSet(Built(request, asked)) /\ Built(request, asked) \subseteq ArtifactRows
  BY BuiltIsFinite
<1>3. fresh \in SUBSET Built(request, asked)
  BY DEF New
<1>4. IsFiniteSet(fresh) /\ fresh \subseteq ArtifactRows
  <2> HIDE DEF fresh
  <2> QED
    BY <1>2, <1>3, FS_Subset
<1>5. lines \in Seq(fresh) /\ Range(lines) = fresh /\ IsInjective(lines)
  <2> HIDE DEF fresh
  <2> QED
    BY <1>4, SetToSeqLists, SetToSeqOnce
<1>6. \A r, q \in ArtifactRows : ArtifactId(r) = ArtifactId(q) => r = q
  <2> SUFFICES ASSUME NEW r \in ArtifactRows, NEW q \in ArtifactRows,
                      ArtifactId(r) = ArtifactId(q)
               PROVE  r = q
    OBVIOUS
  <2>1. PICK u \in DOMAIN Company : \E g \in Filings[Company[u]] : q = Artifact(u, g)
    BY ArtifactRowIs
  <2>2. PICK g \in Filings[Company[u]] : q = Artifact(u, g)
    BY <2>1
  <2> QED
    BY <2>2, AloneIsKeyed
<1>7. \A r \in fresh, m \in DOMAIN artifacts : ArtifactId(artifacts[m]) # ArtifactId(r)
  BY DEF New, Range
<1> HIDE DEF lines, fresh
<1>8. \A m, n \in 1..Len(lines) : ArtifactId(lines[m]) = ArtifactId(lines[n]) => m = n
  <2> SUFFICES ASSUME NEW m \in 1..Len(lines), NEW n \in 1..Len(lines),
                      ArtifactId(lines[m]) = ArtifactId(lines[n])
               PROVE  m = n
    OBVIOUS
  <2>1. DOMAIN lines = 1..Len(lines) /\ lines[m] \in fresh /\ lines[n] \in fresh
    BY <1>5
  <2>2. lines[m] = lines[n]
    BY <1>4, <1>6, <2>1
  <2> QED
    BY <1>5, <2>1, <2>2 DEF IsInjective
<1>9. Distinct(lines)
  BY <1>5, <1>8, DistinctMeans
<1>10. Apart(artifacts, lines)
  <2>1. \A n \in DOMAIN lines : lines[n] \in fresh
    BY <1>5
  <2> QED
    BY <1>7, <2>1 DEF Apart
<1> QED
  BY <1>9, <1>10 DEF lines, fresh

(* Whatever is left of an interrupted append, a file that can be read has  *)
(* a prefix of the rows behind what it had.                                *)
LEMMA ReadableRemains ==
  ASSUME NEW a, a \in Seq(ArtifactRows \union {Torn}),
         NEW due, due \in Seq(ArtifactRows), NEW rest \in Remains(due),
         Distinct(due), Apart(a, due), Readable(a) => Distinct(a), Readable(a \o rest)
  PROVE  Distinct(a \o rest)
<1> DEFINE A == ArtifactRows \union {Torn}
<1>1. due \in Seq(A) /\ rest \in Seq(A)
  BY RemainsAreRows
<1>2. a \in Seq(A)
  OBVIOUS
<1>3. Range(a \o rest) = Range(a) \union Range(rest)
  <2> HIDE DEF A
  <2> QED
    BY <1>1, <1>2, RangeOfAppended
<1>4. Distinct(a)
  BY <1>3 DEF Readable
<1>5. CASE \E n \in 0..Len(due) : rest = SubSeq(due, 1, n)
  <2>1. PICK n \in 0..Len(due) : rest = SubSeq(due, 1, n)
    BY <1>5
  <2>2. Distinct(rest) /\ Apart(a, rest)
    <3> HIDE DEF A
    <3> QED
      BY <1>1, <2>1, DistinctPrefix
  <2> HIDE DEF A
  <2> QED
    BY <1>1, <1>2, <1>4, <2>2, DistinctJoined
<1>6. CASE \E n \in 1..Len(due) : rest = Append(SubSeq(due, 1, n - 1), Torn)
  <2>1. PICK n \in 1..Len(due) : rest = Append(SubSeq(due, 1, n - 1), Torn)
    BY <1>6
  <2>2. SubSeq(due, 1, n - 1) \in Seq(A)
    BY <1>1
  <2>3. \E k \in DOMAIN rest : rest[k] = Torn
    <3> DEFINE b == SubSeq(due, 1, n - 1)
    <3>1. \A c \in Seq(A) : Len(c) + 1 \in DOMAIN Append(c, Torn)
                            /\ Append(c, Torn)[Len(c) + 1] = Torn
      OBVIOUS
    <3> HIDE DEF A, b
    <3>2. rest = Append(b, Torn) /\ b \in Seq(A)
      BY <2>1, <2>2 DEF b
    <3> QED
      BY <3>1, <3>2
  <2>4. Torn \in Range(rest)
    BY <2>3 DEF Range
  <2> QED
    BY <1>3, <2>4 DEF Readable
<1> QED
  BY <1>5, <1>6 DEF Remains

LEMMA FileStep ==
  ASSUME \A t \in DOMAIN Company : Alone(t), FileInv, LakeInv', TurnByTurn, [LakeNext]_lakeVars
  PROVE  FileInv'
<1>0. /\ artifacts \in Seq(ArtifactRows \union {Torn}) /\ DOMAIN ingest = Ingesters
      /\ \A p \in Ingesters : DOMAIN ingest[p] = IngestFields
  BY DEF FileInv, LakeInv, LakeTypes
<1>1. ASSUME UNCHANGED artifacts,
             \A p \in Ingesters : ingest'[p].at = "artifacts" =>
               \/ ingest[p].at = "artifacts" /\ ingest'[p].rows = ingest[p].rows
               \/ Distinct(ingest'[p].rows) /\ Apart(artifacts, ingest'[p].rows)
      PROVE  FileInv'
  <2>1. IdentifiersUnique'
    BY <1>1 DEF FileInv, IdentifiersUnique, Readable, Distinct
  <2>2. ASSUME NEW p \in Ingesters, ingest'[p].at = "artifacts"
        PROVE  Distinct(ingest'[p].rows) /\ Apart(artifacts, ingest'[p].rows)
    BY <1>1, <2>2 DEF FileInv, FreshRows
  <2>3. FreshRows'
    BY <1>1, <2>2 DEF FreshRows, Distinct, Apart, ArtifactId
  <2> QED
    BY <2>1, <2>3 DEF FileInv
<1>2. ASSUME NEW p \in Ingesters, ingest[p].at = "artifacts", ingest'[p].at # "artifacts",
             \A q \in Ingesters \ {p} : ingest'[q] = ingest[q],
             NEW rest \in Remains(ingest[p].rows), artifacts' = artifacts \o rest
      PROVE  FileInv'
  <2>1. /\ ingest[p].rows \in Seq(ArtifactRows)
        /\ Distinct(ingest[p].rows) /\ Apart(artifacts, ingest[p].rows)
    BY <1>2 DEF FileInv, LakeInv, IngestKnows, FreshRows
  <2>2. Readable(artifacts) => Distinct(artifacts)
    BY DEF FileInv, IdentifiersUnique
  <2>3. Readable(artifacts \o rest) => Distinct(artifacts \o rest)
    BY <1>0, <1>2, <2>1, <2>2, ReadableRemains
  <2>4. IdentifiersUnique'
    BY <1>2, <2>3 DEF IdentifiersUnique, Readable, Distinct, ArtifactId
  <2>5. \A q \in Ingesters : ingest'[q].at # "artifacts"
    BY <1>2 DEF TurnByTurn
  <2> QED
    BY <2>4, <2>5 DEF FileInv, FreshRows
<1>3. ASSUME NEW p \in Ingesters, ReadArtifacts(p) PROVE FileInv'
  <2> DEFINE request == ingest[p].request
  <2>1. PICK asked :
          ingest' = [ingest EXCEPT
            ![p].at = "artifacts", ![p].rows = SetToSeq(New(Built(request, asked), artifacts))]
    BY <1>3 DEF ReadArtifacts
  <2>2. request \in IngestRequests
    BY <1>3 DEF ReadArtifacts, FileInv, LakeInv, IngestKnows
  <2> DEFINE lines == SetToSeq(New(Built(request, asked), artifacts))
  <2>3. Distinct(lines) /\ Apart(artifacts, lines)
    BY <2>2, FreshIsFresh
  <2> HIDE DEF lines
  <2>4. ingest' = [ingest EXCEPT ![p].at = "artifacts", ![p].rows = lines]
    BY <2>1 DEF lines
  <2>5. UNCHANGED artifacts
    BY <1>3 DEF ReadArtifacts
  <2>6. ingest'[p].rows = lines /\ \A q \in Ingesters \ {p} : ingest'[q] = ingest[q]
    BY <1>0, <2>4 DEF IngestFields
  <2> QED
    BY <1>1, <2>3, <2>5, <2>6
<1>9. ASSUME NEW p \in Ingesters, Begin(p) PROVE FileInv'
  <2>1. UNCHANGED artifacts
    BY <1>9 DEF Begin
  <2>2. ingest'[p].at = "fetch" /\ \A q \in Ingesters \ {p} : ingest'[q] = ingest[q]
    BY <1>0, <1>9 DEF Begin
  <2> QED
    BY <1>1, <2>1, <2>2
<1>10. CASE Pass
  BY <1>1, <1>10 DEF Pass
<1>4. ASSUME NEW p \in Ingesters, AppendArtifacts(p) PROVE FileInv'
  <2> DEFINE due == ingest[p].rows
  <2>1. /\ ingest[p].at = "artifacts" /\ artifacts' = artifacts \o due
        /\ ingest' = [ingest EXCEPT ![p].at = "read securities"]
    BY <1>4 DEF AppendArtifacts
  <2>2. /\ ingest'[p].at = "read securities"
        /\ \A q \in Ingesters \ {p} : ingest'[q] = ingest[q]
    BY <1>0, <2>1 DEF IngestFields
  <2>3. due \in Seq(ArtifactRows)
    BY <2>1 DEF FileInv, LakeInv, IngestKnows
  <2>4. due \in Remains(due)
    <3>1. \A c \in Seq(ArtifactRows) : Len(c) \in 0..Len(c) /\ c = SubSeq(c, 1, Len(c))
      OBVIOUS
    <3> QED
      BY <2>3, <3>1 DEF Remains
  <2> QED
    BY <1>2, <2>1, <2>2, <2>4
<1>5. ASSUME NEW p \in Ingesters, ReadSecurities(p) \/ AppendSecurities(p) PROVE FileInv'
  <2>1. UNCHANGED artifacts
    BY <1>5 DEF ReadSecurities, AppendSecurities
  <2>2. CASE ReadSecurities(p)
    <3>1. PICK due : ingest' = [ingest EXCEPT ![p].at = "securities", ![p].rows = due]
      BY <2>2 DEF ReadSecurities
    <3>2. ingest'[p].at = "securities" /\ \A q \in Ingesters \ {p} : ingest'[q] = ingest[q]
      BY <1>0, <3>1
    <3> QED
      BY <1>1, <2>1, <3>2
  <2>3. CASE AppendSecurities(p)
    <3>1. ingest'[p].at = "idle" /\ \A q \in Ingesters \ {p} : ingest'[q] = ingest[q]
      BY <1>0, <2>3 DEF AppendSecurities, Unstarted
    <3> QED
      BY <1>1, <2>1, <3>1
  <2> QED
    BY <1>5, <2>2, <2>3
<1>6. ASSUME NEW p \in Ingesters, IngestDies(p) PROVE FileInv'
  <2>1. PICK rest \in IF ingest[p].at \in {"artifacts", "securities"}
                      THEN Remains(ingest[p].rows) ELSE {<<>>} :
          IF ingest[p].at = "securities"
          THEN securities' = securities \o rest /\ UNCHANGED artifacts
          ELSE artifacts' = artifacts \o rest /\ UNCHANGED securities
    BY <1>6 DEF IngestDies
  <2>2. ingest'[p].at # "artifacts" /\ \A q \in Ingesters \ {p} : ingest'[q] = ingest[q]
    BY <1>0, <1>6 DEF IngestDies, Unstarted
  <2>3. CASE ingest[p].at = "artifacts"
    <3>1. rest \in Remains(ingest[p].rows) /\ artifacts' = artifacts \o rest
      BY <2>1, <2>3
    <3> QED
      BY <1>2, <2>2, <2>3, <3>1
  <2>4. CASE ingest[p].at # "artifacts"
    <3>1. UNCHANGED artifacts
      BY <1>0, <2>1, <2>4
    <3> QED
      BY <1>1, <2>2, <3>1
  <2> QED
    BY <2>3, <2>4
<1>7. ASSUME NEW b \in Builders,
             ReadLedger(b) \/ WriteTemporary(b) \/ Publish(b) \/ AbandonSnapshot(b)
      PROVE  FileInv'
  <2>1. UNCHANGED <<artifacts, ingest>>
    BY <1>7 DEF ReadLedger, WriteTemporary, Publish, AbandonSnapshot
  <2> QED
    BY <1>1, <2>1
<1>8. CASE UNCHANGED lakeVars
  BY <1>1, <1>8 DEF lakeVars
<1> QED
  BY <1>3, <1>4, <1>5, <1>6, <1>7, <1>8, <1>9, <1>10 DEF LakeNext

(* What pit_data/ledger.py:27 takes for granted does hold of companies     *)
(* that have one ticker each, if no two ingests are between reading the    *)
(* file and appending to it at once, however they die and are repeated:    *)
(* run shared_company breaks the first condition, nothing in _append_      *)
(* immutable sees to the second.                                           *)
THEOREM IdentifiersStayUnique ==
  ASSUME \A t \in DOMAIN Company : Alone(t)
  PROVE  LakeSpec /\ []TurnByTurn => []IdentifiersUnique
<1>1. LakeInit => FileInv
  <2> SUFFICES ASSUME LakeInit PROVE FileInv
    OBVIOUS
  <2>1. LakeInv
    BY LakeInitEstablishes
  <2>2. artifacts = <<>> /\ \A p \in Ingesters : ingest[p].at = "idle"
    BY DEF LakeInit, Unstarted
  <2>3. Distinct(artifacts)
    BY <2>2 DEF Distinct, IsInjective
  <2> QED
    BY <2>1, <2>2, <2>3 DEF FileInv, IdentifiersUnique, FreshRows
<1>2. FileInv /\ LakeInv' /\ TurnByTurn /\ [LakeNext]_lakeVars => FileInv'
  BY FileStep
<1>3. FileInv => IdentifiersUnique
  BY DEF FileInv
<1> QED
  BY <1>1, <1>2, <1>3, LakeIsSound, PTL DEF LakeSpec
=============================================================================
