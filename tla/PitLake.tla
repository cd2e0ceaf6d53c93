------------------------------- MODULE PitLake -------------------------------
(***************************************************************************)
(* The point-in-time data lake (aegis/pit_data): ingests append to two     *)
(* files that are read whole, snapshots are built from both, renamed into  *)
(* place and verified when they are loaded.                                *)
(*                                                                         *)
(* A file is a sequence of rows; the process that dies while it writes may *)
(* leave half a line, Torn, behind its rows.  The security file is         *)
(* appended after the artifacts.  EDGAR lists filings as time passes, and  *)
(* an ingest asks for one ticker after the other.  Left out: the file of   *)
(* fact versions, which snapshots do not read, fund holdings, contents and *)
(* hashes, universes of security IDs, and the order in which one append    *)
(* writes its rows, which no reader sees.                                  *)
(***************************************************************************)
EXTENDS Naturals, FiniteSets, SequencesExt

CONSTANTS
  Ingesters,   \* processes that ingest, each one request after another
  Builders,    \* processes that build snapshots
  Company,     \* ticker -> CIK
  Filings,     \* CIK -> filings: [number, form, filed, listed, available]
  IngestRequests, \* what ingests are asked for: [tickers, forms, start, end]
  Universes,   \* sets of tickers a snapshot may be asked for
  Cutoffs,     \* the times snapshots are built for
  MaxRows,     \* bound: no ingest begins when a file has this many rows
  LastTime,    \* bound: the time at which the clock stops
  Torn,        \* half a line
  NoSnapshot

(* A filing has one number and one date, EDGAR lists it from one time on,  *)
(* and it counts as available from another, the day after its date.        *)
ASSUME FilingsAssumption ==
  \A ticker \in DOMAIN Company :
    /\ IsFiniteSet(Filings[Company[ticker]])
    /\ \A f, g \in Filings[Company[ticker]] : f.number = g.number => f = g
    /\ \A f \in Filings[Company[ticker]] : f.listed \in Nat
ASSUME RequestsAssumption ==
  \A request \in IngestRequests :
    request.tickers \subseteq DOMAIN Company /\ IsFiniteSet(request.tickers)

VARIABLES
  now,         \* the time
  artifacts,   \* artifact_ledger.jsonl
  securities,  \* security_master.jsonl
  ingest,      \* ingester -> where it is, the rows it will append
  builder,     \* builder -> where it is, what it read
  snapshots,   \* cutoff -> the snapshot in place
  ingested     \* the ingests that returned: [request, from] (history)

lakeVars == <<now, artifacts, securities, ingest, builder, snapshots, ingested>>

Artifact(ticker, filing) ==
  [cik |-> Company[ticker], number |-> filing.number, entity |-> ticker,
   available |-> filing.available]
ArtifactId(row) == <<row.cik, row.number>>

(* The forms and the filing dates that a request asks for. *)
Admits(request, filing) ==
  filing.form \in request.forms /\ filing.filed \in request.start..request.end

(* What ingest_sec builds for a request: of each ticker the filings that   *)
(* were listed when it asked.                                              *)
Listed(ticker, time) == {filing \in Filings[Company[ticker]] : filing.listed <= time}
Built(request, asked) ==
  UNION {{Artifact(t, filing) : filing \in {f \in Listed(t, asked[t]) : Admits(request, f)}}
         : t \in request.tickers}
Mappings(tickers) == {[cik |-> Company[t], ticker |-> t] : t \in tickers}

Readable(file) == Torn \notin Range(file)

NoRequest == [tickers |-> {}, forms |-> {}, start |-> 0, end |-> 0]
Unstarted == [at |-> "idle", request |-> NoRequest, from |-> 0, rows |-> <<>>]
Unbuilt == [at |-> "idle", cutoff |-> 0, universe |-> {}, rows |-> <<>>, since |-> {}]

-----------------------------------------------------------------------------
LakeInit ==
  /\ now = 1
  /\ artifacts = <<>> /\ securities = <<>>
  /\ ingest = [p \in Ingesters |-> Unstarted]
  /\ builder = [p \in Builders |-> Unbuilt]
  /\ snapshots = [t \in Cutoffs |-> NoSnapshot]
  /\ ingested = {}

(* _append_immutable: the rows whose ID is not in the file.  They are not  *)
(* compared with each other.  A file that cannot be parsed raises.         *)
(* Mutant: compared by company, as the mappings are. *)
NewCompanies(rows, file) == {r \in rows : r.cik \notin {s.cik : s \in Range(file)}}
New(rows, file) ==
  {r \in rows : ArtifactId(r) \notin {ArtifactId(s) : s \in Range(file)}}
NewMappings(rows, file) == {m \in rows : m.cik \notin {s.cik : s \in Range(file)}}

(* A request whose dates run backwards is refused.                         *)
Begin(p) ==
  /\ ingest[p].at = "idle" /\ Len(artifacts) < MaxRows /\ Len(securities) < MaxRows
  /\ \E request \in IngestRequests :
       /\ request.start <= request.end
       /\ ingest' = [ingest EXCEPT ![p] = [at |-> "fetch", request |-> request, from |-> now,
                                           rows |-> <<>>]]
  /\ UNCHANGED <<now, artifacts, securities, builder, snapshots, ingested>>

(* It asked for each of its tickers at some time since it began.           *)
ReadArtifacts(p) ==
  LET request == ingest[p].request
  IN  /\ ingest[p].at = "fetch" /\ Readable(artifacts)
      /\ \E asked \in [request.tickers -> ingest[p].from..now] :
           ingest' = [ingest EXCEPT
             ![p].at = "artifacts",
             ![p].rows = SetToSeq(New(Built(request, asked), artifacts))]
      /\ UNCHANGED <<now, artifacts, securities, builder, snapshots, ingested>>

AppendArtifacts(p) ==
  /\ ingest[p].at = "artifacts"
  /\ artifacts' = artifacts \o ingest[p].rows
  /\ ingest' = [ingest EXCEPT ![p].at = "read securities"]
  /\ UNCHANGED <<now, securities, builder, snapshots, ingested>>

ReadSecurities(p) ==
  /\ ingest[p].at = "read securities" /\ Readable(securities)
  /\ ingest' = [ingest EXCEPT
       ![p].at = "securities",
       ![p].rows = SetToSeq(NewMappings(Mappings(ingest[p].request.tickers), securities))]
  /\ UNCHANGED <<now, artifacts, securities, builder, snapshots, ingested>>

AppendSecurities(p) ==
  /\ ingest[p].at = "securities"
  /\ securities' = securities \o ingest[p].rows
  /\ ingested' = ingested \union {[request |-> ingest[p].request, from |-> ingest[p].from]}
  /\ ingest' = [ingest EXCEPT ![p] = Unstarted]
  /\ UNCHANGED <<now, artifacts, builder, snapshots>>

(* The process dies, or a file it reads is torn; if it was writing, some   *)
(* of its rows are there and perhaps half of the next one.                 *)
Remains(rows) ==
  {SubSeq(rows, 1, n) : n \in 0..Len(rows)}
    \union {Append(SubSeq(rows, 1, n - 1), Torn) : n \in 1..Len(rows)}
IngestDies(p) ==
  /\ ingest[p].at # "idle"
  /\ \E rest \in IF ingest[p].at \in {"artifacts", "securities"}
                 THEN Remains(ingest[p].rows) ELSE {<<>>} :
       IF ingest[p].at = "securities"
       THEN securities' = securities \o rest /\ UNCHANGED artifacts
       ELSE artifacts' = artifacts \o rest /\ UNCHANGED securities
  /\ ingest' = [ingest EXCEPT ![p] = Unstarted]
  /\ UNCHANGED <<now, builder, snapshots, ingested>>

-----------------------------------------------------------------------------
(* build-snapshot, once for each cutoff: the artifacts, then the mappings; *)
(* PITAvailabilityLedger refuses artifacts that share an ID.               *)
Distinct(file) == IsInjective([n \in DOMAIN file |-> ArtifactId(file[n])])

ReadLedger(b) ==
  /\ builder[b].at = "idle" /\ artifacts # <<>> /\ Readable(artifacts)
  /\ \E t \in Cutoffs, u \in Universes :
       builder' = [builder EXCEPT ![b] = [at |-> "securities", cutoff |-> t, universe |-> u,
                                          rows |-> artifacts, since |-> ingested]]
  /\ UNCHANGED <<now, artifacts, securities, ingest, snapshots, ingested>>

AsOf(rows, t, universe) ==
  {r \in Range(rows) : r.available <= t /\ r.entity \in universe}

WriteTemporary(b) ==
  LET w == builder[b]
  IN  /\ w.at = "securities" /\ Readable(securities) /\ Distinct(w.rows)
      /\ snapshots[w.cutoff] = NoSnapshot
      /\ builder' = [builder EXCEPT
           ![b].at = "publish",
           ![b].rows = [artifacts  |-> AsOf(w.rows, w.cutoff, w.universe),
                        securities |-> {s \in Range(securities) : s.ticker \in w.universe}]]
      /\ UNCHANGED <<now, artifacts, securities, ingest, snapshots, ingested>>

(* os.replace does not replace a directory that has files. *)
Publish(b) ==
  LET w == builder[b]
  IN  /\ w.at = "publish" /\ snapshots[w.cutoff] = NoSnapshot
      /\ snapshots' = [snapshots EXCEPT ![w.cutoff] =
           [universe |-> w.universe, artifacts |-> w.rows.artifacts,
            securities |-> w.rows.securities, since |-> w.since]]
      /\ builder' = [builder EXCEPT ![b] = Unbuilt]
      /\ UNCHANGED <<now, artifacts, securities, ingest, ingested>>

(* A builder refuses or dies, before the snapshot is in place. *)
AbandonSnapshot(b) ==
  /\ builder[b].at # "idle"
  /\ builder' = [builder EXCEPT ![b] = Unbuilt]
  /\ UNCHANGED <<now, artifacts, securities, ingest, snapshots, ingested>>

Pass == /\ now < LastTime /\ now' = now + 1
        /\ UNCHANGED <<artifacts, securities, ingest, builder, snapshots, ingested>>

LakeNext ==
  \/ Pass
  \/ \E p \in Ingesters :
       Begin(p) \/ ReadArtifacts(p) \/ AppendArtifacts(p) \/ ReadSecurities(p) \/ AppendSecurities(p)
         \/ IngestDies(p)
  \/ \E b \in Builders :
       ReadLedger(b) \/ WriteTemporary(b) \/ Publish(b) \/ AbandonSnapshot(b)

LakeSpec == LakeInit /\ [][LakeNext]_lakeVars

(* load_snapshot *)
Loads(t) ==
  /\ snapshots[t] # NoSnapshot
  /\ snapshots[t].universe \subseteq {s.ticker : s \in snapshots[t].securities}
  /\ \A r \in snapshots[t].artifacts : r.available <= t

-----------------------------------------------------------------------------
Alone(ticker) == \A other \in DOMAIN Company \ {ticker} : Company[other] # Company[ticker]

(* What the ingests of since were asked for, found listed and knew to be   *)
(* available by the cutoff.                                                *)
Owed(ticker, cutoff, since) ==
  {f \in Filings[Company[ticker]] :
     /\ f.available <= cutoff
     /\ \E k \in since : ticker \in k.request.tickers /\ Admits(k.request, f) /\ f.listed <= k.from}

(* A snapshot that verifies holds, for every company of its universe with  *)
(* one ticker, what the ingests that had returned when it was begun were   *)
(* asked for and could find available by the cutoff, each filing once, and *)
(* nothing but filings of the company available by then, while ingests     *)
(* with other forms and dates overlap, die and are repeated and EDGAR      *)
(* lists more (ingest_sec, write_snapshot, load_snapshot).                 *)
VerifiedSnapshotComplete ==
  \A t \in Cutoffs : snapshots[t] # NoSnapshot =>
    /\ Loads(t) \/ \E u \in snapshots[t].universe :
         u \notin {s.ticker : s \in snapshots[t].securities}
    /\ Loads(t) => \A u \in snapshots[t].universe :
         LET held == {r.number : r \in {q \in snapshots[t].artifacts : q.entity = u}}
         IN  /\ held \subseteq {f.number : f \in {g \in Filings[Company[u]] : g.available <= t}}
             /\ Alone(u) => {f.number : f \in Owed(u, t, snapshots[t].since)} \subseteq held

(* The artifact file can be opened unless half a line stops it: "PIT       *)
(* artifact identifiers must be unique" (pit_data/ledger.py:27).           *)
IdentifiersUnique == Readable(artifacts) => Distinct(artifacts)
=============================================================================
