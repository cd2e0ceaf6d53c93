----------------------------- MODULE ThesisLedger -----------------------------
(***************************************************************************)
(* The ledger of investment theses (aegis/fundamentals/thesis.py) as       *)
(* several processes append to one database.                               *)
(*                                                                         *)
(* append reads twice, checks the thesis against what it read and inserts. *)
(* The sqlite3 module opens a transaction only before the INSERT, so that  *)
(* another process may commit between any two of the three statements; the *)
(* INSERT holds the file's write lock until the commit.  Times are the     *)
(* instants of as_of.  Hashes are left out: nothing changes a row.         *)
(***************************************************************************)
EXTENDS Naturals, FiniteSets

CONSTANTS
  Authors,     \* processes that append
  Theses,      \* records [id, ticker, version, asOf, supersedes, status]
  NoThesis     \* no thesis, no superseded thesis

ASSUME ThesesAssumption ==
  \A t \in Theses : /\ t.version \in Nat \ {0}
                    /\ (t.version = 1) = (t.supersedes = NoThesis)

VARIABLES
  theses,      \* the committed rows
  author,      \* author -> where it is, what it appends, the latest it read
  inserting,   \* the authors whose INSERT is not committed: the write lock
  kept         \* the theses whose append has returned (history)

thesisVars == <<theses, author, inserting, kept>>

(* _ALLOWED_STATUS_TRANSITIONS *)
Ongoing == {"active", "strengthened", "weakened"}
AllowedStatus(status) ==
  CASE status = "draft" -> {"draft", "active", "archived"}
    [] status \in Ongoing -> Ongoing \union {"invalidated", "resolved", "archived"}
    [] status \in {"invalidated", "resolved"} -> {"archived"}
    [] status = "archived" -> {}

Of(ticker) == {t \in theses : t.ticker = ticker}
LatestOf(ticker) ==
  IF Of(ticker) = {} THEN NoThesis
  ELSE CHOOSE t \in Of(ticker) : \A u \in Of(ticker) : u.version <= t.version

(* What append requires of a thesis, given the latest it read. *)
Succeeds(t, latest) ==
  IF latest = NoThesis THEN t.version = 1 /\ t.supersedes = NoThesis
  ELSE /\ t.version = latest.version + 1
       /\ t.supersedes = latest.id
       /\ t.asOf > latest.asOf
       /\ t.status \in AllowedStatus(latest.status)

Resting == [at |-> "idle", thesis |-> NoThesis]
Finish(a) == author' = [author EXCEPT ![a] = Resting]
Reach(a, step) == author' = [author EXCEPT ![a].at = step]

ThesisInit ==
  /\ theses = {}
  /\ author = [a \in Authors |-> Resting]
  /\ inserting = {}
  /\ kept = {}

AppendThesis(a) ==
  /\ author[a].at = "idle"
  /\ \E t \in Theses : author' = [author EXCEPT ![a] = [at |-> "identity", thesis |-> t]]
  /\ UNCHANGED <<theses, inserting, kept>>

(* The first SELECT found the identity: an equal thesis returns, another   *)
(* raises.                                                                 *)
FindIdentity(a) ==
  LET t == author[a].thesis
  IN  /\ author[a].at = "identity"
      /\ \E u \in theses : u.id = t.id
      /\ kept' = IF t \in theses THEN kept \union {t} ELSE kept
      /\ Finish(a)
      /\ UNCHANGED <<theses, inserting>>

MissIdentity(a) ==
  /\ author[a].at = "identity"
  /\ \A u \in theses : u.id # author[a].thesis.id
  /\ Reach(a, "latest")
  /\ UNCHANGED <<theses, inserting, kept>>

(* The second SELECT, and the checks on it. *)
ReadLatest(a) ==
  LET t == author[a].thesis
  IN  /\ author[a].at = "latest"
      /\ IF Succeeds(t, LatestOf(t.ticker)) THEN Reach(a, "insert") ELSE Finish(a)
      /\ UNCHANGED <<theses, inserting, kept>>

(* Mutant: a table without UNIQUE(ticker, version). *)
UnconstrainedThesis(t) == \A u \in theses : u.id # t.id
Unconstrained(t) ==
  \A u \in theses : u.id # t.id /\ ~(u.ticker = t.ticker /\ u.version = t.version)

(* The INSERT takes the lock; a constraint or a busy database raises.      *)
InsertThesis(a) ==
  /\ author[a].at = "insert" /\ inserting = {}
  /\ Unconstrained(author[a].thesis)
  /\ inserting' = {a}
  /\ Reach(a, "commit")
  /\ UNCHANGED <<theses, kept>>

InsertThesisRaises(a) ==
  /\ author[a].at = "insert"
  /\ inserting # {} \/ ~Unconstrained(author[a].thesis)
  /\ Finish(a)
  /\ UNCHANGED <<theses, inserting, kept>>

CommitThesis(a) ==
  /\ author[a].at = "commit"
  /\ theses' = theses \union {author[a].thesis}
  /\ kept' = kept \union {author[a].thesis}
  /\ inserting' = {}
  /\ Finish(a)

(* The commit fails, or the process dies anywhere. *)
AbandonThesis(a) ==
  /\ author[a].at # "idle"
  /\ inserting' = inserting \ {a}
  /\ Finish(a)
  /\ UNCHANGED <<theses, kept>>

ThesisNext ==
  \E a \in Authors :
    \/ AppendThesis(a) \/ FindIdentity(a) \/ MissIdentity(a) \/ ReadLatest(a)
    \/ InsertThesis(a) \/ InsertThesisRaises(a) \/ CommitThesis(a) \/ AbandonThesis(a)

ThesisSpec == ThesisInit /\ [][ThesisNext]_thesisVars

(* The theses of a company are one line of history, whatever the processes *)
(* do: each supersedes the version before it, moves forward in time and    *)
(* keeps to the legal transitions, and a thesis whose append returned is   *)
(* in it (ThesisLedger.append).                                            *)
OneLineOfHistory ==
  /\ kept \subseteq theses
  /\ \A t, u \in theses : t.id = u.id => t = u
  /\ \A t \in theses :
       /\ \A u \in Of(t.ticker) : u.version = t.version => u = t
       /\ t.version = 1 \/ \E u \in Of(t.ticker) : Succeeds(t, u)
=============================================================================
