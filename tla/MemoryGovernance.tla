--------------------------- MODULE MemoryGovernance ---------------------------
(***************************************************************************)
(* The governed memory (aegis/memory/local_backend.py), the evidence       *)
(* ledger an approval is checked against (evidence/ledger.py), and the     *)
(* optional ranking of a foreign client (memory/gbrain_adapter.py).        *)
(*                                                                         *)
(* Candidates are staged and cases of evidence appended once.  Evaluators  *)
(* decide in several processes: a decision reads the candidate and the     *)
(* evidence, then two tables in statements of their own, then inserts into *)
(* two tables under one write lock.  Left out: hashes, filters by entity,  *)
(* strategy, regime and type, and the words of a query: an item's score    *)
(* for the query at hand is a field of its candidate.                      *)
(***************************************************************************)
EXTENDS Integers, FiniteSets, FiniteSetsExt, SequencesExt

CONSTANTS
  Evaluators,    \* processes that decide
  Candidates,    \* [id, memory, proposer, created, reviewBy, expires, evidence, cases, score]
  Cases,         \* evidence cases [id, approved, records, passed]
  Decisions,     \* [id, candidate, evaluator, decision, at]
  Times,         \* the instants of the model
  Rankings,      \* what the client may return: sequences of memories
  NoRanking,     \* the client fails
  NoDecision

ASSUME InstantsAssumption ==
  /\ Times \subseteq Int
  /\ \A c \in Candidates : c.created \in Int /\ c.expires \in Int
  /\ \A c \in Candidates : c.memory \in Int /\ c.score \in Int
  /\ \A d \in Decisions : d.at \in Int
  /\ \A e \in Cases : \A r \in e.records : r.available \in Int
ASSUME RankingsAssumption == Rankings \ {NoRanking} \subseteq Seq(Int)

VARIABLES
  candidates,    \* staged candidates
  cases,         \* appended evidence cases
  decisions,     \* committed decisions
  items,         \* committed items
  evaluator,     \* process -> where it is, its decision, the version it chose
  deciding       \* the processes with an uncommitted insert: the write lock

memoryVars == <<candidates, cases, decisions, items, evaluator, deciding>>

(* Evidence of the approved cases, as far as it was available then.        *)
(* Mutant: whatever the case holds by now. *)
ApprovedEvidenceNow(ids, asOf) ==
  UNION {c.passed \intersect {r.id : r \in c.records} :
           c \in {d \in cases : d.id \in ids /\ d.approved}}
ApprovedEvidence(ids, asOf) ==
  UNION {c.passed \intersect {r.id : r \in {q \in c.records : q.available <= asOf}} :
           c \in {d \in cases : d.id \in ids /\ d.approved}}

(* The checks of decide before it opens the database again.                *)
Admissible(d, c) ==
  /\ c.proposer # d.evaluator
  /\ c.created <= d.at /\ d.at < c.expires
  /\ d.decision = "approve" =>
       /\ d.at <= c.reviewBy
       /\ c.cases \subseteq {e.id : e \in cases}
       /\ c.evidence \subseteq ApprovedEvidence(c.cases, d.at)

CandidateOf(d) == CHOOSE c \in candidates : c.id = d.candidate

Item(d, c, version) ==
  [memory |-> c.memory, version |-> version, candidate |-> c.id, available |-> d.at,
   expires |-> c.expires, evidence |-> c.evidence, cases |-> c.cases, score |-> c.score,
   status |-> IF d.decision = "approve" THEN "approved" ELSE "quarantined"]

Writes(d) == d.decision \in {"approve", "quarantine"}
NextVersion(memory) ==
  1 + Max({0} \union {i.version : i \in {j \in items : j.memory = memory}})

AtRest == [at |-> "idle", decision |-> NoDecision, version |-> 0]
Leave(p) == evaluator' = [evaluator EXCEPT ![p] = AtRest]

-----------------------------------------------------------------------------
MemoryInit ==
  /\ candidates = {} /\ cases = {} /\ decisions = {} /\ items = {}
  /\ evaluator = [p \in Evaluators |-> AtRest]
  /\ deciding = {}

(* stage and EvidenceLedger.append: an ID that is taken raises or returns. *)
Stage(c) ==
  /\ \A other \in candidates : other.id # c.id
  /\ candidates' = candidates \union {c}
  /\ UNCHANGED <<cases, decisions, items, evaluator, deciding>>

AppendCase(e) ==
  /\ \A other \in cases : other.id # e.id
  /\ cases' = cases \union {e}
  /\ UNCHANGED <<candidates, decisions, items, evaluator, deciding>>

(* decide: _candidate and the evidence; both only ever grow. *)
Decide(p, d) ==
  /\ evaluator[p].at = "idle"
  /\ \E c \in candidates : c.id = d.candidate
  /\ Admissible(d, CandidateOf(d))
  /\ evaluator' = [evaluator EXCEPT ![p] = [at |-> "decided?", decision |-> d, version |-> 0]]
  /\ UNCHANGED <<candidates, cases, decisions, items, deciding>>

(* The candidate has a decision already: raise. *)
FindDecision(p) ==
  /\ evaluator[p].at = "decided?"
  /\ \E d \in decisions : d.candidate = evaluator[p].decision.candidate
  /\ Leave(p)
  /\ UNCHANGED <<candidates, cases, decisions, items, deciding>>

MissDecision(p) ==
  /\ evaluator[p].at = "decided?"
  /\ \A d \in decisions : d.candidate # evaluator[p].decision.candidate
  /\ evaluator' = [evaluator EXCEPT ![p].at =
                     IF Writes(evaluator[p].decision) THEN "version" ELSE "insert"]
  /\ UNCHANGED <<candidates, cases, decisions, items, deciding>>

ReadVersion(p) ==
  /\ evaluator[p].at = "version"
  /\ evaluator' = [evaluator EXCEPT
                     ![p].at = "insert",
                     ![p].version = NextVersion(CandidateOf(evaluator[p].decision).memory)]
  /\ UNCHANGED <<candidates, cases, decisions, items, deciding>>

(* What the keys of the two tables let in: the item first, then the        *)
(* decision.  Mutant: the candidate of a decision is not UNIQUE. *)
ItemKeyFree(d, version) ==
  Writes(d) => \A i \in items : ~(i.memory = CandidateOf(d).memory /\ i.version = version)
KeysFreeOnce(d, version) ==
  ItemKeyFree(d, version) /\ \A e \in decisions : e.id # d.id
KeysFree(d, version) ==
  ItemKeyFree(d, version) /\ \A e \in decisions : e.id # d.id /\ e.candidate # d.candidate

(* Both INSERTs, under the lock the first one took. *)
InsertDecision(p) ==
  /\ evaluator[p].at = "insert" /\ deciding = {}
  /\ KeysFree(evaluator[p].decision, evaluator[p].version)
  /\ deciding' = {p}
  /\ evaluator' = [evaluator EXCEPT ![p].at = "commit"]
  /\ UNCHANGED <<candidates, cases, decisions, items>>

InsertDecisionRaises(p) ==
  /\ evaluator[p].at = "insert"
  /\ deciding # {} \/ ~KeysFree(evaluator[p].decision, evaluator[p].version)
  /\ Leave(p)
  /\ UNCHANGED <<candidates, cases, decisions, items, deciding>>

CommitDecision(p) ==
  LET d == evaluator[p].decision
  IN  /\ evaluator[p].at = "commit"
      /\ decisions' = decisions \union {d}
      /\ items' = IF Writes(d)
                  THEN items \union {Item(d, CandidateOf(d), evaluator[p].version)} ELSE items
      /\ deciding' = {}
      /\ Leave(p)
      /\ UNCHANGED <<candidates, cases>>

(* The commit fails, or the process dies: both rows or none. *)
AbandonDecision(p) ==
  /\ evaluator[p].at # "idle"
  /\ deciding' = deciding \ {p}
  /\ Leave(p)
  /\ UNCHANGED <<candidates, cases, decisions, items>>

MemoryNext ==
  \/ \E c \in Candidates : Stage(c)
  \/ \E e \in Cases : AppendCase(e)
  \/ \E p \in Evaluators :
       \/ \E d \in Decisions : Decide(p, d)
       \/ FindDecision(p) \/ MissDecision(p) \/ ReadVersion(p) \/ InsertDecision(p)
       \/ InsertDecisionRaises(p) \/ CommitDecision(p) \/ AbandonDecision(p)

MemorySpec == MemoryInit /\ [][MemoryNext]_memoryVars

-----------------------------------------------------------------------------
(* search; a memory's versions are all found, the newest first. *)
Eligible(asOf) ==
  {i \in items : i.status = "approved" /\ i.available <= asOf /\ asOf < i.expires}
Before(i, j) ==
  \/ i.score > j.score
  \/ i.score = j.score /\ i.memory < j.memory
  \/ i.score = j.score /\ i.memory = j.memory /\ i.version > j.version
Hits(asOf) ==
  LET found == Eligible(asOf)
  IN  [n \in 1..Cardinality(found) |->
         CHOOSE i \in found : Cardinality({j \in found : Before(j, i)}) = n - 1]

(* GBrainMemoryAdapter.search: the client ranks memories, or fails.  Of a  *)
(* ranked memory's versions only the last hit is kept.                     *)
LastHit(hits, memory) == Max({0} \union {n \in DOMAIN hits : hits[n].memory = memory})
Nth(places, n) == CHOOSE k \in places : Cardinality({j \in places : j < k}) = n - 1
Reranked(hits, ranking) ==
  LET ranked == {n \in DOMAIN ranking : LastHit(hits, ranking[n]) # 0}
      unseen == {n \in DOMAIN hits : hits[n].memory \notin Range(ranking)}
  IN  [n \in 1..Cardinality(ranked) |-> hits[LastHit(hits, ranking[Nth(ranked, n)])]]
        \o [n \in 1..Cardinality(unseen) |-> hits[Nth(unseen, n)]]
FirstOf(s, k) == SubSeq(s, 1, Min({k, Len(s)}))
Answer(ranking, asOf, k) ==
  FirstOf(IF ranking = NoRanking THEN Hits(asOf) ELSE Reranked(Hits(asOf), ranking), k)

-----------------------------------------------------------------------------
(* Under concurrent evaluators a candidate is decided once, an item exists *)
(* exactly for each decision that writes one, and the versions of a memory *)
(* count up from one (LocalMemoryBackend.decide).                          *)
DecidedOnce ==
  /\ \A d, e \in decisions : d.candidate = e.candidate => d = e
  /\ {i.candidate : i \in items} = {d.candidate : d \in {e \in decisions : Writes(e)}}
  /\ \A m \in {i.memory : i \in items} :
       LET versions == {i \in items : i.memory = m}
       IN  {i.version : i \in versions} = 1..Cardinality(versions)

(* Whatever the client ranks, a search as of a time answers with memories  *)
(* that somebody other than their proposer had approved by then, that have *)
(* not expired, and that rest on evidence of approved cases which was      *)
(* available by then (MEMORY_POLICY.md, decide, GBrainMemoryAdapter).      *)
NoFutureMemory ==
  \A asOf \in Times, ranking \in Rankings, k \in 1..2 :
    \A i \in Range(Answer(ranking, asOf, k)) :
      /\ asOf < i.expires
      /\ \E d \in decisions, c \in candidates :
           /\ d.candidate = i.candidate /\ c.id = i.candidate
           /\ d.decision = "approve" /\ d.evaluator # c.proposer
           /\ d.at <= asOf /\ c.created <= asOf
      /\ \A e \in i.evidence : \E c \in cases :
           /\ c.id \in i.cases /\ c.approved /\ e \in c.passed
           /\ \E r \in c.records : r.id = e /\ r.available <= asOf
=============================================================================
