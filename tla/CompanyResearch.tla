---------------------------- MODULE CompanyResearch ----------------------------
(***************************************************************************)
(* The company research graph (aegis/fundamentals/graph.py) over the       *)
(* calculations of CalculationGraph: the bundle is audited and computed,   *)
(* the specialists analyse it in parallel, their artifacts are audited     *)
(* when all are there, and the committee's dossier is released.            *)
(*                                                                         *)
(* A behaviour is one run for one bundle.  What a value says under its     *)
(* role's thresholds (the reading), and whether the discounted values are  *)
(* in order, are left open.  A specialist is not trusted: it may return    *)
(* any of the artifacts in RoleArtifacts, or raise.                        *)
(***************************************************************************)
EXTENDS CalculationGraph

CONSTANTS
  Bundle,      \* name of a bundle -> bundle
  Role,        \* the required specialists
  Reading,     \* what a value may say: supportive, neutral, cautionary
  Foreign,     \* an evidence ID, claim ID or request no bundle has
  Pending      \* no artifact yet, no dossier

ASSUME RoleAssumption == Role \subseteq DOMAIN RoleOutput /\ IsFiniteSet(Role)

(* A snapshot is a finite set of facts with whole amounts. *)
ASSUME FactsAssumption ==
  \A name \in DOMAIN Bundle : LET facts == Bundle[name].snapshot.facts IN
    /\ IsFiniteSet(facts)
    /\ \A f \in facts : f.value \in Int /\ f.id \in Int /\ f.revision \in Int /\ f.accepted \in Int

(* Bundles are records.  Guidance and actions are lists, whose members      *)
(* their IDs tell apart; times are instants, years are counted.              *)
ASSUME BundleAssumption ==
  \A name \in DOMAIN Bundle :
    LET x == Bundle[name]
        Record(r, fields) == r = [f \in DOMAIN r |-> r[f]] /\ fields \subseteq DOMAIN r
        List(items) == IsFiniteSet(items) /\ \A a, b \in items : a.id = b.id => a = b
    IN  /\ Record(x, {"request", "snapshot", "inputs"})
        /\ Record(x.snapshot, {"facts"})
        /\ Record(x.inputs, {"evidence", "guidance", "actions"})
        /\ Record(x.inputs.evidence, {"records"})
        /\ x.request.asOf \in Int
        /\ IsFiniteSet(x.inputs.drivers) /\ \A d \in x.inputs.drivers : d.year \in Nat
        /\ List(x.inputs.guidance)
        /\ \A g \in x.inputs.guidance :
             Record(g, {"id", "issued", "actual", "actualAt", "revises", "evidence"})
        /\ List(x.inputs.actions)
        /\ \A a \in x.inputs.actions :
             /\ Record(a, {"id", "kind", "available", "completedAt", "completionKnown",
                           "outcome", "outcomeAt", "outcomeKnown", "evidence"})
             /\ {a.completionKnown, a.outcomeKnown} \subseteq Int \union {NoValue}

VARIABLES
  bundle,      \* the name of the bundle
  phase,       \* the step the run is at
  matching,    \* role -> the calculations its semantic rule finds
  reading,     \* role -> what its calculation says
  roleArtifacts, \* role -> artifact
  dossier      \* the dossier that was returned

companyVars == <<bundle, phase, matching, reading, roleArtifacts, dossier>>

Given == Bundle[bundle]

-----------------------------------------------------------------------------
(* load_fundamental_fixture validates; then _audit_bundle. *)
Loadable(x) ==
  /\ SnapshotAccepted(x.snapshot)
  /\ InputsAccepted(x.inputs)

Timely(x) ==
  /\ x.snapshot.ticker = x.request.ticker /\ x.snapshot.asOf = x.request.asOf
  /\ \A f \in x.snapshot.facts : f.available <= x.request.asOf
  /\ x.inputs.available <= x.request.asOf /\ x.inputs.evidence.asOf = x.request.asOf
  /\ \A r \in x.inputs.evidence.records : r.available <= x.request.asOf

(* What _compute_preliminary_research calls, in its order. *)
Computable(x) ==
  /\ Normalizable(x.snapshot)
  /\ Measurable(x.snapshot)
  /\ \A scenario \in Scenario : Forecastable(x, scenario)
  /\ ScenariosOrdered(x)
  /\ \A scenario \in Scenario : Discounted(x, scenario)
  /\ ProbabilitiesSumToOne(x)
  /\ Comparable(x)
  /\ Scorable(x.snapshot)
  /\ Closed(Lineage(x))

(* How each bundle fares. *)
Fate(x) ==
  IF ~(Loadable(x) /\ Timely(x) /\ Eligible(x)) THEN "rejected"
  ELSE IF ~Supported(x.inputs) THEN "unsupported"
  ELSE IF Computable(x) THEN "computed" ELSE "failed"

(* Evaluated once for each bundle. *)
Fates == [name \in DOMAIN Bundle |-> Fate(Bundle[name])]
ComputedBundles == {name \in DOMAIN Bundle : Fates[name] = "computed"}
Lineages == [name \in ComputedBundles |-> Lineage(Bundle[name])]
Expected ==
  [name \in ComputedBundles |->
     [role \in Role |->
        Matching(Lineages[name],
                 RoleIds(Bundle[name], MetricIds(Bundle[name].snapshot), role), role)]]

EvidenceIds(x) == {r.id : r \in x.inputs.evidence.records}

-----------------------------------------------------------------------------
(* Specialists.  A claim names one calculation and what it says of it; the *)
(* predicates and the statement are part of the reading.                   *)
Claim(id, conclusion, calculations, evidence) ==
  [id |-> id, conclusion |-> conclusion, calculations |-> calculations, evidence |-> evidence]

RoleArtifact(role, request, claims) == [role |-> role, request |-> request, claims |-> claims]
Abstention(artifact) == artifact.claims = {}

FaithfulClaim(role) == Claim(role, reading[role], matching[role], EvidenceIds(Given))

(* FixtureFundamentalProvider.analyze_role, and each way to depart from it. *)
RoleClaims(role, claim) ==
  LET wrong == CHOOSE r \in Reading : r # reading[role]
      other == CHOOSE r \in Role : r # role
  IN  {{}, {claim},
       {[claim EXCEPT !.conclusion = wrong]},
       {[claim EXCEPT !.calculations = matching[other]]},
       {[claim EXCEPT !.evidence = @ \union {Foreign}]},
       {[claim EXCEPT !.id = Foreign]},
       {claim, [claim EXCEPT !.id = Foreign]},
       {claim, [claim EXCEPT !.id = Foreign, !.conclusion = wrong]}}

RoleArtifacts(role) ==
  LET other == CHOOSE r \in Role : r # role
  IN  {RoleArtifact(role, Given.request.id, claims) :
          claims \in RoleClaims(role, FaithfulClaim(role))}
      \union {RoleArtifact(other, Given.request.id, {FaithfulClaim(role)}),
              RoleArtifact(other, Given.request.id, {FaithfulClaim(other)}),
              RoleArtifact(role, Foreign, {FaithfulClaim(role)})}

-----------------------------------------------------------------------------
(* _audit_specialists: an artifact counts for the role written in it.      *)
(* Mutant: what a claim concludes is not compared with its calculation. *)
ClaimTrusted(role, claim) ==
  /\ claim.evidence \subseteq EvidenceIds(Given)
  /\ claim.calculations = matching[role]
ClaimHolds(role, claim) ==
  /\ claim.evidence \subseteq EvidenceIds(Given)
  /\ Cardinality(matching[role]) = 1
  /\ claim.calculations = matching[role]
  /\ claim.conclusion = reading[role]

Audited ==
  /\ {roleArtifacts[role].role : role \in Role} = Role
  /\ \A node \in Role :
       /\ roleArtifacts[node].request = Given.request.id
       /\ \A claim \in roleArtifacts[node].claims : ClaimHolds(roleArtifacts[node].role, claim)

Abstainers == {role \in Role : Abstention(roleArtifacts[role])}
ClaimIds == UNION {{claim.id : claim \in roleArtifacts[role].claims} : role \in Role}

(* FundamentalResearchDossier: the claims of a released dossier have IDs   *)
(* of their own.                                                           *)
ClaimsDistinct ==
  Cardinality(ClaimIds)
    = Total([role \in Role |-> Cardinality(roleArtifacts[role].claims)])

(* The evidence and the calculations are always the preliminary ones.      *)
Dossier(status, decision, claims, active) ==
  [status |-> status, decision |-> decision, claims |-> claims, active |-> active]

-----------------------------------------------------------------------------
CompanyInit ==
  /\ bundle \in DOMAIN Bundle
  /\ phase = "load"
  /\ matching = [role \in Role |-> {}]
  /\ reading = [role \in Role |-> Pending]
  /\ roleArtifacts = [role \in Role |-> Pending]
  /\ dossier = Pending

Fail ==
  /\ phase' = "failed"
  /\ UNCHANGED <<bundle, matching, reading, roleArtifacts, dossier>>

(* An input that is late, unbound or not backed raises. *)
Reject == phase = "load" /\ Fates[bundle] = "rejected" /\ Fail

(* _abstained_dossier for an unsupported archetype. *)
AbstainUnsupported ==
  /\ phase = "load" /\ Fates[bundle] = "unsupported"
  /\ dossier' = Dossier("terminal_abstention", "none", {}, FALSE)
  /\ phase' = "released"
  /\ UNCHANGED <<bundle, matching, reading, roleArtifacts>>

(* A calculation raises, or the discounted values come out of order. *)
ComputeFails == phase = "load" /\ Fates[bundle] \in {"failed", "computed"} /\ Fail

Compute ==
  /\ phase = "load" /\ Fates[bundle] = "computed"
  /\ matching' = Expected[bundle]
  /\ \E says \in [Role -> Reading] : reading' = says
  /\ phase' = "specialists"
  /\ UNCHANGED <<bundle, roleArtifacts, dossier>>

(* One branch of _run_parallel_specialists. *)
Analyze(role) ==
  /\ phase = "specialists" /\ roleArtifacts[role] = Pending
  /\ \E artifact \in RoleArtifacts(role) : roleArtifacts' = [roleArtifacts EXCEPT ![role] = artifact]
  /\ UNCHANGED <<bundle, phase, matching, reading, dossier>>

(* A branch raises, and with it the graph. *)
SpecialistRaises ==
  /\ phase = "specialists" /\ \E role \in Role : roleArtifacts[role] = Pending
  /\ Fail

Joined == phase = "specialists" /\ \A role \in Role : roleArtifacts[role] # Pending

AuditFails == Joined /\ ~(Audited /\ ClaimsDistinct) /\ Fail

(* The dossier of an abstaining committee, without anything computed.      *)
AbstainCommittee ==
  /\ Joined /\ Audited /\ ClaimsDistinct /\ Abstainers # {}
  /\ dossier' = Dossier("committee_verified", "abstained", {}, FALSE)
  /\ phase' = "released"
  /\ UNCHANGED <<bundle, matching, reading, roleArtifacts>>

(* _finalize_verified_research: the forecast becomes active. *)
Approve ==
  /\ Joined /\ Audited /\ ClaimsDistinct /\ Abstainers = {}
  /\ dossier' = Dossier("committee_verified", "approved", ClaimIds, TRUE)
  /\ phase' = "released"
  /\ UNCHANGED <<bundle, matching, reading, roleArtifacts>>

CompanyNext ==
  \/ Reject \/ AbstainUnsupported \/ ComputeFails \/ Compute
  \/ \E role \in Role : Analyze(role)
  \/ SpecialistRaises \/ AuditFails \/ AbstainCommittee \/ Approve

CompanySpec == CompanyInit /\ [][CompanyNext]_companyVars

-----------------------------------------------------------------------------
(* An active forecast was vouched for by every specialist for its own      *)
(* role: each claim says what its role's one calculation says, from known  *)
(* evidence, no specialist abstained, and the committee accepted exactly   *)
(* these claims (_audit_specialists, FundamentalResearchDossier).          *)
ReleasedAsAudited ==
  dossier # Pending /\ dossier.active =>
    \A role \in Role : \E node \in Role :
      /\ roleArtifacts[node].role = role /\ roleArtifacts[node].claims # {}
      /\ \A claim \in roleArtifacts[node].claims :
           /\ claim.id \in dossier.claims
           /\ claim.conclusion = reading[role]
           /\ \A id \in claim.calculations :
                \E c \in Lineages[bundle] : c.id = id /\ c.output = RoleOutput[role]
           /\ claim.evidence \subseteq
                {r.id : r \in {q \in Given.inputs.evidence.records :
                                 q.available <= Given.request.asOf}}
      /\ \A other \in Role \ {node} :
           {claim.id : claim \in roleArtifacts[other].claims}
             \intersect {claim.id : claim \in roleArtifacts[node].claims} = {}

-----------------------------------------------------------------------------
(* What was known of a bundle at its cutoff. *)
Cut(g, asOf) ==
  IF g.actual # NoValue /\ Known(g.actualAt, asOf) THEN g
  ELSE [g EXCEPT !.actual = NoValue, !.actualAt = NoValue]

CutAll(guidance, asOf) == {Cut(g, asOf) : g \in guidance}

KnownGuidance(x) ==
  CutAll({g \in x.inputs.guidance : g.issued <= x.request.asOf}, x.request.asOf)

Forgotten(a, asOf) ==
  LET done == IF Known(a.completionKnown, asOf) THEN a
              ELSE [a EXCEPT !.completedAt = NoValue, !.completionKnown = NoValue]
  IN  IF Known(a.outcomeKnown, asOf) THEN done
      ELSE [done EXCEPT !.outcome = NoValue, !.outcomeAt = NoValue, !.outcomeKnown = NoValue]

KnownAtCutoff(x) ==
  [x EXCEPT
     !.snapshot.facts = {f \in @ : f.available <= x.request.asOf},
     !.inputs.guidance = KnownGuidance(x),
     !.inputs.actions = {Forgotten(a, x.request.asOf) :
                           a \in {c \in @ : c.available <= x.request.asOf}},
     !.inputs.evidence.records = {r \in @ : r.available <= x.request.asOf}]

(* What a dossier publishes, but for the hash that names its inputs. *)
Researched(x) ==
  [track      |-> Track(x),
   adjusted   |-> [p \in Periods(x.snapshot) |-> Adjusted(x.snapshot, p)],
   metrics    |-> Metrics(x.snapshot),
   range      |-> ComparableRange(x),
   management |-> ManagementLineage(x),
   lineage    |-> AnalysisLineage(x),
   evidence   |-> EvidenceIds(x)]

(* "Every filing and non-filing input must satisfy available_at <= as_of   *)
(* ... without future leakage" (policies/POINT_IN_TIME.md:3): what is      *)
(* published is what would be if nothing later were among the inputs.      *)
(* evaluate_management publishes the guidance whole, and the calculations  *)
(* on actions name all of them.                                            *)
KnownOnly == {n \in ComputedBundles : Researched(Bundle[n]) = Researched(KnownAtCutoff(Bundle[n]))}
OnlyKnownInputs == phase = "specialists" => bundle \in KnownOnly

(* What is published, without the results of guidance that came later and  *)
(* without the names of later actions.                                     *)
LaterActions(x) == {a.id : a \in {c \in x.inputs.actions : ~(c.available <= x.request.asOf)}}
Unnamed(calculations, later) ==
  {IF c.output \in OnActions THEN [c EXCEPT !.assumptions = @ \ later] ELSE c :
     c \in calculations}

WithoutLater(x) ==
  [Researched(x) EXCEPT
     !.track.guidance = CutAll(@, x.request.asOf),
     !.management = Unnamed(@, LaterActions(x))]

FreeOfHindsight ==
  {n \in ComputedBundles :
     WithoutLater(Bundle[n]) = Researched(KnownAtCutoff(Bundle[n]))}

(* That is all the future there is in it: apart from these results and     *)
(* names, research that passed the audits, every number and every other    *)
(* input of a calculation, is what it would be if all that was unknown at  *)
(* its cutoff were removed from its inputs, although guidance, results,    *)
(* completions and actions of a later date are accepted among them         *)
(* (evaluate_management, _audit_bundle).                                   *)
NoHindsight == phase = "specialists" => bundle \in FreeOfHindsight

-----------------------------------------------------------------------------
(* The calculations that rest on facts, assumptions and calculations that  *)
(* are already in the set.                                                 *)
Founded(lineage) ==
  LET layer[n \in 0..Cardinality(lineage)] ==
        LET below == IF n = 0 THEN {} ELSE layer[n - 1]
        IN  below \union
              Ids({c \in lineage : /\ c.calculations \subseteq below
                                   /\ c.facts # {} \/ c.calculations # {} \/ c.assumptions # {}})
  IN  layer[Cardinality(lineage)]

GroundedIn(lineage, filed) ==
  /\ Founded(lineage) = Ids(lineage)
  /\ \A c \in lineage : c.facts \subseteq filed

Grounded ==
  {n \in ComputedBundles :
     GroundedIn(Lineages[n], {f.id : f \in Bundle[n].snapshot.facts})}

(* Every published calculation can be traced, without a circle, to filed   *)
(* facts and stated assumptions; the dossier's contract only checks that   *)
(* the inputs it names exist.                                              *)
LineageGrounded == phase = "specialists" => bundle \in Grounded

(* What a company is worth does not depend on filings that were restated:  *)
(* policies/POINT_IN_TIME.md:3 has every input "use the latest eligible    *)
(* revision".  The adjustments of normalize_statements are made for every  *)
(* revision of a one-time item.                                            *)
Superseded(s) == {f \in s.facts : \E g \in s.facts : Restates(g, f)}
UnrestatedOnly(s) ==
  [s EXCEPT !.facts = {f \in @ : f \notin Superseded(s)}]
Unamended ==
  {n \in ComputedBundles :
     LET s == Bundle[n].snapshot
     IN  \A p \in Periods(s) : Adjusted(s, p) = Adjusted(UnrestatedOnly(s), p)}
LatestRevisionOnly == phase = "specialists" => bundle \in Unamended

(* A restatement keeps the scope of what it restates, and nothing that is  *)
(* restated was flagged as a one-time item.                                *)
OnceStated(s) ==
  \A f, g \in s.facts : f \in Continuing(s) /\ Restates(g, f) =>
    g.scope = f.scope /\ f \notin OneTime(s)
OnceStatedBundles == {n \in ComputedBundles : OnceStated(Bundle[n].snapshot)}

(* The adjusted statements rest on the latest revisions, in whatever order *)
(* they were accepted, unless a one-time item is restated or a restatement *)
(* moves a fact to another scope (_select, normalize_statements).          *)
RestatementsFollowed ==
  phase = "specialists" /\ bundle \in OnceStatedBundles => bundle \in Unamended
=============================================================================
