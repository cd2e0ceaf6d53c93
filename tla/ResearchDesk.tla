----------------------------- MODULE ResearchDesk -----------------------------
(***************************************************************************)
(* LangGraphForecastProvider (aegis/harness/graph.py): ten roles, each one *)
(* call of a model, in a graph whose nodes LangGraph runs in supersteps.   *)
(* The nodes of a superstep run in parallel on the state as the superstep  *)
(* found it; their updates are merged when the last one is done.           *)
(*                                                                         *)
(* A model either has no answer (ModelProviderError) or an answer of which *)
(* the cited evidence, the verdicts and the forecasts matter.  An artifact *)
(* stands for its event, too: both say whether the role abstained.         *)
(***************************************************************************)
EXTENDS FiniteSets

CONSTANTS
  Tickers,     \* the tickers of the case
  Evidence,    \* evidence IDs of the case's bundle
  Citations,   \* by role: the sets of evidence IDs its model may cite
  Syntheses    \* the sets of forecasts the CIO's model may answer with

Specialists == {"quant", "fundamentals", "event-behavioral"}
Reviewers   == {"bull", "bear", "base-rate"}
Downstream  == Reviewers \union {"cio", "verifier"}
Roles       == {"coordinator", "evidence-auditor"} \union Specialists \union Downstream

(* A forecast is a record: its id and ticker, whether its date and horizon *)
(* are the case's ("suits"), whether its claims can be built ("sound":     *)
(* registered numbers whose evidence is about the ticker, evidence listed  *)
(* once), what it cites, and whether it is an abstention.  One that is not *)
(* must cite something.                                                    *)
Valid(f) == f.abstained \/ f.cites # {}

ASSUME CitationsAssumption == DOMAIN Citations = Roles
IsForecast(f) ==
  /\ DOMAIN f = {"id", "ticker", "suits", "sound", "abstained", "cites"}
  /\ f.abstained \in BOOLEAN
  /\ Valid(f)

ASSUME SynthesesAssumption == \A s \in Syntheses : \A f \in s : IsForecast(f)

(* The edges of the graph: a role is triggered when all of these are done. *)
Needs(r) ==
  IF r = "coordinator" THEN {}
  ELSE IF r \in Specialists THEN {"coordinator"}
  ELSE IF r = "evidence-auditor" THEN Specialists
  ELSE IF r \in Reviewers THEN {"evidence-auditor"}
  ELSE IF r = "cio" THEN Reviewers
  ELSE {"cio"}

VARIABLES
  clean,      \* no record of the bundle is blocked by the deterministic audit
  artifacts,  \* by finished role: what it cited, on what basis, whether it abstained
  failed,     \* failed_roles
  approved,   \* approved_evidence_ids
  forecasts,
  status,
  tasks,      \* the nodes of this superstep
  updates,    \* the updates of those that have finished
  result      \* "running", "dossier", or "halted" by an integrity error

desk == <<artifacts, failed, approved, forecasts, status>>
vars == <<clean, desk, tasks, updates, result>>

Nothing == [r \in {} |-> {}]
Extended(f, r, value) == [q \in DOMAIN f \union {r} |-> IF q = r THEN value ELSE f[q]]

Init ==
  /\ clean \in BOOLEAN
  /\ artifacts = Nothing
  /\ failed = {}
  /\ approved = {}
  /\ forecasts = {}
  /\ status = "started"
  /\ tasks = {"coordinator"}
  /\ updates = Nothing
  /\ result = "running"

-----------------------------------------------------------------------------
(* Mutant: a reviewer reads a state that its siblings already write to.    *)
BasisWhileWritten(r) ==
  IF r \in Reviewers THEN Specialists \union {"evidence-auditor"} \union DOMAIN updates
  ELSE IF r = "cio" THEN DOMAIN artifacts \ {"coordinator"} ELSE {}

(* The artifacts whose hashes a role's own artifact contains.              *)
Basis(r) ==
  IF r = "evidence-auditor" THEN Specialists
  ELSE IF r \in Reviewers THEN Specialists \union {"evidence-auditor"}
  ELSE IF r = "cio" THEN DOMAIN artifacts \ {"coordinator"}
  ELSE {}

Artifact(r, cites, abstained) == [cites |-> cites, basis |-> Basis(r), abstained |-> abstained]

(* A node that writes its artifact and its failure, and nothing else.      *)
Update(r, cites, abstained) ==
  [artifact |-> Artifact(r, cites, abstained), failed |-> IF abstained THEN {r} ELSE {},
   approved |-> approved, forecasts |-> forecasts, status |-> status]

(* Once the auditor failed, the roles after it abstain without a model.    *)
Synthetic(r) == r \in Downstream /\ "evidence-auditor" \in failed

(* Mutant: what the auditor said is not consulted.                         *)
AllowedAnywhere(r) == Evidence

Allowed(r) == IF r \in Downstream THEN approved ELSE Evidence

Ready(r) == result = "running" /\ r \in tasks \ DOMAIN updates

Finish(r, update) ==
  /\ updates' = Extended(updates, r, update)
  /\ UNCHANGED <<clean, desk, tasks, result>>

Halt ==
  /\ result' = "halted"
  /\ UNCHANGED <<clean, desk, tasks, updates>>

(* Mutant: a call that raised is repeated until it does not.               *)
AbstainLater(r) == Ready(r) /\ UNCHANGED vars

(* _artifact with a model that raised, or _synthetic_abstention_artifact.  *)
Abstain(r) == Ready(r) /\ Finish(r, Update(r, {}, TRUE))

(* _artifact with an answer: coordinator, specialists and reviewers. *)
Answer(r) ==
  /\ Ready(r)
  /\ ~Synthetic(r)
  /\ \E cites \in Citations[r] :
       IF cites \subseteq Allowed(r) THEN Finish(r, Update(r, cites, FALSE)) ELSE Halt

Work(r) ==
  /\ r \in {"coordinator"} \union Specialists \union Reviewers
  /\ Abstain(r) \/ Answer(r)

Approves(cites, verdict) == cites \subseteq Evidence /\ verdict = "approved"

(* The deterministic audit comes first; then the auditor's verdict, which  *)
(* names the evidence, or does not list it.                                *)
Audit ==
  LET r == "evidence-auditor"
  IN  /\ Ready(r)
      /\ IF ~clean THEN Halt
         ELSE \/ Finish(r, [Update(r, {}, TRUE) EXCEPT !.approved = {}])
              \/ \E cites \in Citations[r], verdict \in {"approved", "blocked", "unlisted"} :
                   IF Approves(cites, verdict)
                   THEN Finish(r, [Update(r, cites, FALSE) EXCEPT !.approved = cites])
                   ELSE Halt

(* _blank_abstentions and _abstain. *)
Blank == {[id |-> t, ticker |-> t, suits |-> TRUE, sound |-> TRUE, abstained |-> TRUE,
           cites |-> {}] : t \in Tickers}
Abstained(fs) == {[f EXCEPT !.abstained = TRUE, !.cites = {}] : f \in fs}

(* Mutant: the CIO looks at its own failure only.                          *)
SynthesizedAnyway(cites, abstained, answer) ==
  LET missing == abstained \/ answer = {}
      lost    == failed \union (IF missing THEN {"cio"} ELSE {})
  IN  [Update("cio", cites, abstained) EXCEPT
         !.failed = lost,
         !.forecasts = IF missing THEN Blank ELSE answer,
         !.status = IF missing THEN "synthesized_abstention" ELSE "synthesized"]

(* Forecasts count only when nobody failed; an empty or invalid list is a  *)
(* failure of the CIO.                                                     *)
Synthesized(cites, abstained, answer) ==
  LET unusable == abstained \/ failed # {} \/ answer = {}
      lost     == failed \union (IF unusable THEN {"cio"} ELSE {})
  IN  [Update("cio", cites, abstained) EXCEPT
         !.failed = lost,
         !.forecasts = IF unusable THEN Blank ELSE answer,
         !.status = IF unusable THEN "synthesized_abstention" ELSE "synthesized"]

Synthesize ==
  /\ Ready("cio")
  /\ \/ Finish("cio", Synthesized({}, TRUE, {}))
     \/ /\ ~Synthetic("cio")
        /\ \E cites \in Citations["cio"], answer \in Syntheses :
             IF cites \subseteq Allowed("cio")
             THEN Finish("cio", Synthesized(cites, FALSE, answer)) ELSE Halt

ValidForCase ==
  /\ {f.ticker : f \in forecasts} = Tickers
  /\ \A f \in forecasts : f.suits
  /\ \A f \in forecasts : f.abstained \/ f.cites \subseteq approved

(* The verifier's failure is not added to the failed roles: it rejects.    *)
Verified(cites, abstained, passed) ==
  LET accepted == ValidForCase /\ passed
  IN  [Update("verifier", cites, abstained) EXCEPT
         !.failed = {},
         !.forecasts = IF accepted THEN forecasts ELSE Abstained(forecasts),
         !.status = IF accepted THEN "verified" ELSE "verifier_forced_abstention"]

Verify ==
  /\ Ready("verifier")
  /\ \/ Finish("verifier", Verified({}, TRUE, FALSE))
     \/ /\ ~Synthetic("verifier")
        /\ \E cites \in Citations["verifier"], passed \in BOOLEAN :
             IF cites \subseteq Allowed("verifier")
             THEN Finish("verifier", Verified(cites, FALSE, passed)) ELSE Halt

-----------------------------------------------------------------------------
Triggered(done) == {r \in Roles \ done : Needs(r) \subseteq done}

(* The barrier of a superstep.  Artifacts and failures are merged; the     *)
(* other fields have one writer.                                           *)
Barrier ==
  /\ result = "running"
  /\ tasks # {}
  /\ DOMAIN updates = tasks
  /\ artifacts' = [r \in DOMAIN artifacts \union tasks |->
                    IF r \in tasks THEN updates[r].artifact ELSE artifacts[r]]
  /\ failed' = failed \union UNION {updates[r].failed : r \in tasks}
  /\ approved' = IF "evidence-auditor" \in tasks THEN updates["evidence-auditor"].approved
                 ELSE approved
  /\ \E r \in tasks :
       /\ r \in {"cio", "verifier"} \/ tasks \intersect {"cio", "verifier"} = {}
       /\ forecasts' = updates[r].forecasts
       /\ status' = updates[r].status
  /\ tasks' = Triggered(DOMAIN artifacts')
  /\ updates' = Nothing
  /\ UNCHANGED <<clean, result>>

Claims(fs) == {f \in fs : ~f.abstained}

(* The claims of the final graph: a forecast's numbers must be registered, *)
(* claim IDs unique.  The audit of the bundle was passed on the way.       *)
Provable ==
  /\ \A f \in Claims(forecasts) : f.sound
  /\ \A f, g \in Claims(forecasts) : f.id = g.id => f = g

Assemble ==
  /\ result = "running"
  /\ tasks = {}
  /\ result' = IF Provable THEN "dossier" ELSE "halted"
  /\ UNCHANGED <<clean, desk, tasks, updates>>

Next ==
  \/ Audit \/ Synthesize \/ Verify \/ Barrier \/ Assemble
  \/ \E r \in Roles : Work(r)

Spec == Init /\ [][Next]_vars

-----------------------------------------------------------------------------
Statuses == {"started", "synthesized", "synthesized_abstention", "verified",
             "verifier_forced_abstention"}

TypeOK ==
  /\ clean \in BOOLEAN
  /\ DOMAIN artifacts \subseteq Roles
  /\ failed \subseteq Roles
  /\ approved \subseteq Evidence
  /\ status \in Statuses
  /\ tasks \subseteq Roles \ DOMAIN artifacts
  /\ DOMAIN updates \subseteq tasks
  /\ result \in {"running", "dossier", "halted"}

(* "LLM failures produce abstention": a forecast that the fund may trade   *)
(* on means that the model of every single role answered, that the         *)
(* verifier passed it, that exactly the tickers of the case are covered    *)
(* and that only evidence is cited that the auditor approved.              *)
Tradable == Claims(forecasts)
FailClosed ==
  result = "dossier" /\ Tradable # {} =>
    /\ failed = {}
    /\ \A r \in Roles : r \in DOMAIN artifacts /\ ~artifacts[r].abstained
    /\ status = "verified"
    /\ {f.ticker : f \in forecasts} = Tickers
    /\ \A f \in Tradable : f.cites # {} /\ f.cites \subseteq artifacts["evidence-auditor"].cites

(* No role after the auditor cites what the auditor did not approve; a     *)
(* failed auditor approved nothing.                                        *)
OnlyApprovedDownstream ==
  \A r \in DOMAIN artifacts \intersect Downstream :
    /\ "evidence-auditor" \in DOMAIN artifacts
    /\ artifacts[r].cites \subseteq artifacts["evidence-auditor"].cites

(* "stable parallel reducers" and "independent first memo": what a role's  *)
(* artifact is based on does not depend on who finished first.  No         *)
(* reviewer has seen another one, and the CIO has seen them all.           *)
StableBasis ==
  \A r \in DOMAIN artifacts :
    /\ r \in Reviewers => artifacts[r].basis \intersect Reviewers = {}
    /\ r = "cio" => artifacts[r].basis = Roles \ {"coordinator", "cio", "verifier"}

-----------------------------------------------------------------------------
(* The inductive invariant behind FailClosed and OnlyApprovedDownstream.   *)

(* The sets of roles that a superstep can find finished.                   *)
Stages ==
  LET begun     == {"coordinator"}
      studied   == begun \union Specialists
      audited   == studied \union {"evidence-auditor"}
      reviewed  == audited \union Reviewers
      concluded == reviewed \union {"cio"}
  IN  {{}, begun, studied, audited, reviewed, concluded, Roles}

(* What holds of an artifact, merged or about to be: who abstained is among *)
(* the lost, the verifier excepted.                                        *)
ArtifactFits(r, a, lost, allowed) ==
  /\ a.abstained /\ r # "verifier" => r \in lost
  /\ r \in Downstream => a.cites \subseteq allowed
  /\ r \in Reviewers => a.basis \intersect Reviewers = {}
  /\ r = "cio" => a.basis = Roles \ {"coordinator", "cio", "verifier"}

MergedFits ==
  /\ \A r \in DOMAIN artifacts : ArtifactFits(r, artifacts[r], failed, approved)
  /\ "evidence-auditor" \in DOMAIN artifacts =>
       approved = artifacts["evidence-auditor"].cites
  /\ "cio" \notin DOMAIN artifacts => forecasts = {}
  /\ \A f \in forecasts : IsForecast(f)
  /\ Claims(forecasts) # {} => failed = {}
  /\ "verifier" \in DOMAIN artifacts /\ Claims(forecasts) # {} =>
       ~artifacts["verifier"].abstained /\ status = "verified" /\ ValidForCase

(* What the update of a role promises of the state after the barrier.      *)
UpdateFits(r, u) ==
  /\ ArtifactFits(r, u.artifact, u.failed, approved)
  /\ u.failed \subseteq Roles
  /\ u.status \in Statuses
  /\ r = "evidence-auditor" => u.approved = u.artifact.cites /\ u.approved \subseteq Evidence
  /\ r \notin {"cio", "verifier"} => u.forecasts = forecasts
  /\ \A f \in u.forecasts : IsForecast(f)
  /\ r = "cio" /\ Claims(u.forecasts) # {} => failed = {} /\ u.failed = {}
  /\ r = "verifier" => u.failed = {}
  /\ r = "verifier" /\ Claims(u.forecasts) # {} =>
       /\ u.forecasts = forecasts
       /\ ~u.artifact.abstained
       /\ u.status = "verified"
       /\ ValidForCase

IInv ==
  /\ TypeOK
  /\ DOMAIN artifacts \in Stages
  /\ tasks = Triggered(DOMAIN artifacts)
  /\ result = "dossier" => tasks = {}
  /\ MergedFits
  /\ \A r \in DOMAIN updates : UpdateFits(r, updates[r])
=============================================================================
