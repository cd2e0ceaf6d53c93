---------------------------- MODULE ResearchProofs ----------------------------
(***************************************************************************)
(* Proofs about the two graphs of agents.  ResearchDesk, for every case:   *)
(* any tickers, any evidence, whatever the models may cite and forecast.   *)
(* CompanyResearch, for every bundle: any facts, revisions and one-time    *)
(* items, any guidance, actions, drivers and peers, any specialists,       *)
(* whatever they return.                                                   *)
(***************************************************************************)
EXTENDS ResearchDesk, CompanyResearch, InductionLemmas

USE DEF Specialists, Reviewers, Downstream, Roles

(* The graph's joins: from a stage a superstep leads to the next one, and  *)
(* auditor, CIO and verifier are alone in theirs.                          *)
LEMMA NextStage ==
  ASSUME NEW S \in Stages
  PROVE  /\ S \union Triggered(S) \in Stages
         /\ \A r \in {"evidence-auditor", "cio", "verifier"} :
              r \in Triggered(S) => Triggered(S) = {r}
         /\ "evidence-auditor" \notin S => (S \union Triggered(S)) \intersect Downstream = {}
         /\ "cio" \in Triggered(S) => S = Roles \ {"cio", "verifier"}
         /\ "verifier" \in S \union Triggered(S) => "cio" \in S
         /\ Triggered(S) = {} => S = Roles
<1>1. CASE S = {}
  <2>1. Triggered(S) = {"coordinator"}
    BY <1>1 DEF Triggered, Needs
  <2> QED BY <1>1, <2>1 DEF Stages
<1>2. CASE S = {"coordinator"}
  <2>1. Triggered(S) = Specialists
    BY <1>2 DEF Triggered, Needs
  <2> QED BY <1>2, <2>1 DEF Stages
<1>3. CASE S = {"coordinator"} \union Specialists
  <2>1. Triggered(S) = {"evidence-auditor"}
    BY <1>3 DEF Triggered, Needs
  <2> QED BY <1>3, <2>1 DEF Stages
<1>4. CASE S = {"coordinator"} \union Specialists \union {"evidence-auditor"}
  <2>1. Triggered(S) = Reviewers
    BY <1>4 DEF Triggered, Needs
  <2> QED BY <1>4, <2>1 DEF Stages
<1>5. CASE S = Roles \ {"cio", "verifier"}
  <2>1. Triggered(S) = {"cio"}
    BY <1>5 DEF Triggered, Needs
  <2>2. S \union {"cio"} =
          {"coordinator"} \union Specialists \union {"evidence-auditor"} \union Reviewers
            \union {"cio"}
    BY <1>5
  <2> QED BY <1>5, <2>1, <2>2 DEF Stages
<1>6. CASE S = Roles \ {"verifier"}
  <2>1. Triggered(S) = {"verifier"}
    BY <1>6 DEF Triggered, Needs
  <2> QED BY <1>6, <2>1 DEF Stages
<1>7. CASE S = Roles
  <2>1. Triggered(S) = {}
    BY <1>7 DEF Triggered, Needs
  <2> QED BY <1>7, <2>1 DEF Stages
<1>8. \/ S = {} \/ S = {"coordinator"} \/ S = {"coordinator"} \union Specialists
      \/ S = {"coordinator"} \union Specialists \union {"evidence-auditor"}
      \/ S = Roles \ {"cio", "verifier"} \/ S = Roles \ {"verifier"} \/ S = Roles
  BY DEF Stages
<1> QED BY <1>1, <1>2, <1>3, <1>4, <1>5, <1>6, <1>7, <1>8

-----------------------------------------------------------------------------
LEMMA InitFits == Init => IInv
<1> SUFFICES ASSUME Init PROVE IInv
  OBVIOUS
<1>1. DOMAIN artifacts = {} /\ DOMAIN updates = {}
  BY DEF Init, Nothing
<1>2. tasks = Triggered({})
  BY DEF Init, Triggered, Needs
<1>3. TypeOK
  BY <1>1 DEF Init, TypeOK, Statuses
<1>4. MergedFits
  BY <1>1 DEF Init, MergedFits, Claims
<1> QED
  BY <1>1, <1>2, <1>3, <1>4 DEF Init, IInv, Stages

(* A node that finishes adds its update and nothing else.                  *)
LEMMA FinishPreserves ==
  ASSUME IInv, NEW r, Ready(r), NEW u, Finish(r, u), UpdateFits(r, u)
  PROVE  IInv'
<1>1. UNCHANGED <<clean, artifacts, failed, approved, forecasts, status, tasks, result>>
  BY DEF Finish, desk
<1>2. DOMAIN updates' = DOMAIN updates \union {r}
  BY DEF Finish, Extended
<1>3. TypeOK'
  BY <1>1, <1>2 DEF IInv, TypeOK, Ready
<1>4. MergedFits'
  BY <1>1 DEF IInv, MergedFits, ArtifactFits, ValidForCase
<1>5. \A q \in DOMAIN updates' : UpdateFits(q, updates'[q])
  BY DEF IInv, Finish, Extended
<1>6. \A q, v : UpdateFits(q, v) => UpdateFits(q, v)'
  BY <1>1 DEF UpdateFits, ArtifactFits, ValidForCase
<1> QED
  BY <1>1, <1>3, <1>4, <1>5, <1>6 DEF IInv

LEMMA HaltPreserves ==
  ASSUME IInv, result' # "dossier" \/ tasks = {}, result' \in {"running", "dossier", "halted"},
         UNCHANGED <<clean, desk, tasks, updates>>
  PROVE  IInv'
<1>1. UNCHANGED <<clean, artifacts, failed, approved, forecasts, status, tasks, updates>>
  BY DEF desk
<1>2. TypeOK'
  BY <1>1 DEF IInv, TypeOK
<1>3. MergedFits'
  BY <1>1 DEF IInv, MergedFits, ArtifactFits, ValidForCase
<1>4. \A r \in DOMAIN updates' : UpdateFits(r, updates[r])'
  BY <1>1 DEF IInv, UpdateFits, ArtifactFits, ValidForCase
<1> QED
  BY <1>1, <1>2, <1>3, <1>4 DEF IInv

-----------------------------------------------------------------------------
(* Work of the coordinator, the specialists and the reviewers.             *)
LEMMA WorkPreserves ==
  ASSUME IInv, NEW r \in Roles, Work(r)
  PROVE  IInv'
<1>0. r \notin {"evidence-auditor", "cio", "verifier"}
  BY DEF Work
<1>1. ASSUME NEW cites, NEW abstained \in BOOLEAN, r \in Downstream => cites \subseteq approved
      PROVE  UpdateFits(r, Update(r, cites, abstained))
  BY <1>0, <1>1 DEF UpdateFits, ArtifactFits, Update, Artifact, Basis, IInv, TypeOK, MergedFits
<1>2. CASE Abstain(r)
  <2>1. UpdateFits(r, Update(r, {}, TRUE))
    BY <1>1
  <2> QED BY <1>2, <2>1, FinishPreserves DEF Abstain
<1>3. CASE Answer(r)
  <2>1. PICK cites \in Citations[r] :
          IF cites \subseteq Allowed(r) THEN Finish(r, Update(r, cites, FALSE)) ELSE Halt
    BY <1>3 DEF Answer
  <2>2. CASE cites \subseteq Allowed(r)
    <3>1. UpdateFits(r, Update(r, cites, FALSE))
      BY <1>1, <2>2 DEF Allowed
    <3> QED BY <1>3, <2>1, <2>2, <3>1, FinishPreserves DEF Answer
  <2>3. CASE Halt
    BY <2>3, HaltPreserves DEF Halt
  <2> QED BY <2>1, <2>2, <2>3
<1> QED BY <1>2, <1>3 DEF Work

LEMMA AuditPreserves ==
  ASSUME IInv, Audit
  PROVE  IInv'
<1> DEFINE r == "evidence-auditor"
<1>1. ASSUME NEW cites, cites \subseteq Evidence, NEW abstained \in BOOLEAN
      PROVE  UpdateFits(r, [Update(r, cites, abstained) EXCEPT !.approved = cites])
  BY <1>1 DEF UpdateFits, ArtifactFits, Update, Artifact, Basis, IInv, TypeOK, MergedFits
<1>2. CASE Halt
  BY <1>2, HaltPreserves DEF Halt
<1>3. CASE Finish(r, [Update(r, {}, TRUE) EXCEPT !.approved = {}])
  <2>1. UpdateFits(r, [Update(r, {}, TRUE) EXCEPT !.approved = {}])
    BY <1>1
  <2> QED BY <1>3, <2>1, FinishPreserves DEF Audit
<1>4. ASSUME NEW cites, cites \subseteq Evidence,
             Finish(r, [Update(r, cites, FALSE) EXCEPT !.approved = cites])
      PROVE  IInv'
  <2>1. UpdateFits(r, [Update(r, cites, FALSE) EXCEPT !.approved = cites])
    BY <1>1, <1>4
  <2> QED BY <1>4, <2>1, FinishPreserves DEF Audit
<1> QED BY <1>2, <1>3, <1>4 DEF Audit, Approves

(* The CIO is alone in its superstep and finds eight artifacts.            *)
LEMMA SynthesizePreserves ==
  ASSUME IInv, Synthesize
  PROVE  IInv'
<1>1. DOMAIN artifacts = Roles \ {"cio", "verifier"}
  BY NextStage DEF IInv, Synthesize, Ready
<1>2. failed \subseteq Roles
  BY DEF IInv, TypeOK
<1>3. \A f \in Blank : IsForecast(f) /\ f.abstained
  <2> SUFFICES ASSUME NEW f \in Blank PROVE IsForecast(f) /\ f.abstained
    OBVIOUS
  <2>1. PICK t \in Tickers :
          f = [id |-> t, ticker |-> t, suits |-> TRUE, sound |-> TRUE, abstained |-> TRUE,
               cites |-> {}]
    BY DEF Blank
  <2>2. f.abstained = TRUE
    BY <2>1
  <2>3. DOMAIN f = {"id", "ticker", "suits", "sound", "abstained", "cites"}
    BY <2>1
  <2> QED BY <2>2, <2>3 DEF IsForecast, Valid
<1>4. ASSUME NEW cites, cites \subseteq approved, NEW abstained \in BOOLEAN,
             NEW answer, \A f \in answer : IsForecast(f)
      PROVE  UpdateFits("cio", Synthesized(cites, abstained, answer))
  <2> DEFINE u == Synthesized(cites, abstained, answer)
  <2>1. u.artifact = [cites |-> cites, basis |-> Roles \ {"coordinator", "cio", "verifier"},
                      abstained |-> abstained]
    BY <1>1 DEF Synthesized, Update, Artifact, Basis
  <2>2. CASE abstained \/ failed # {} \/ answer = {}
    <3>1. u.failed = failed \union {"cio"} /\ u.forecasts = Blank
          /\ u.status = "synthesized_abstention"
      BY <2>2 DEF Synthesized, Update
    <3> QED
      BY <1>2, <1>3, <1>4, <2>1, <3>1 DEF UpdateFits, ArtifactFits, Claims, Statuses
  <2>3. CASE ~(abstained \/ failed # {} \/ answer = {})
    <3>1. u.failed = {} /\ u.forecasts = answer /\ u.status = "synthesized"
      BY <2>3 DEF Synthesized, Update
    <3> QED
      BY <1>4, <2>1, <2>3, <3>1 DEF UpdateFits, ArtifactFits, Statuses
  <2> QED BY <2>2, <2>3
<1>5. CASE Finish("cio", Synthesized({}, TRUE, {}))
  <2>1. UpdateFits("cio", Synthesized({}, TRUE, {}))
    BY <1>4
  <2> QED BY <1>5, <2>1, FinishPreserves DEF Synthesize
<1>6. CASE Halt
  BY <1>6, HaltPreserves DEF Halt
<1>7. ASSUME NEW cites, NEW answer \in Syntheses, cites \subseteq Allowed("cio"),
             Finish("cio", Synthesized(cites, FALSE, answer))
      PROVE  IInv'
  <2>1. UpdateFits("cio", Synthesized(cites, FALSE, answer))
    BY <1>4, <1>7, SynthesesAssumption DEF Allowed
  <2> QED BY <1>7, <2>1, FinishPreserves DEF Synthesize
<1> QED BY <1>5, <1>6, <1>7 DEF Synthesize

LEMMA VerifyPreserves ==
  ASSUME IInv, Verify
  PROVE  IInv'
<1>1. \A f \in forecasts : IsForecast(f)
  BY DEF IInv, MergedFits
<1>2. \A f \in Abstained(forecasts) : IsForecast(f) /\ f.abstained
  <2> SUFFICES ASSUME NEW f \in forecasts
               PROVE  LET g == [f EXCEPT !.abstained = TRUE, !.cites = {}]
                      IN  IsForecast(g) /\ g.abstained
    BY DEF Abstained
  <2> DEFINE g == [f EXCEPT !.abstained = TRUE, !.cites = {}]
  <2>1. DOMAIN g = DOMAIN f /\ g.abstained = TRUE
    BY <1>1 DEF IsForecast
  <2> QED BY <1>1, <2>1 DEF IsForecast, Valid
<1>3. ASSUME NEW cites, cites \subseteq approved, NEW abstained \in BOOLEAN,
             NEW passed \in BOOLEAN, passed => ~abstained
      PROVE  UpdateFits("verifier", Verified(cites, abstained, passed))
  <2> DEFINE u == Verified(cites, abstained, passed)
  <2>1. /\ u.artifact.cites = cites
        /\ u.artifact.abstained = abstained
        /\ u.failed = {}
    BY DEF Verified, Update, Artifact
  <2>2. CASE ValidForCase /\ passed
    <3>1. u.forecasts = forecasts /\ u.status = "verified"
      BY <2>2 DEF Verified, Update
    <3> QED BY <1>1, <1>3, <2>1, <2>2, <3>1 DEF UpdateFits, ArtifactFits, Statuses
  <2>3. CASE ~(ValidForCase /\ passed)
    <3>1. u.forecasts = Abstained(forecasts) /\ u.status = "verifier_forced_abstention"
      BY <2>3 DEF Verified, Update
    <3> QED BY <1>2, <1>3, <2>1, <3>1 DEF UpdateFits, ArtifactFits, Statuses, Claims
  <2> QED BY <2>2, <2>3
<1>4. CASE Finish("verifier", Verified({}, TRUE, FALSE))
  <2>1. UpdateFits("verifier", Verified({}, TRUE, FALSE))
    BY <1>3
  <2> QED BY <1>4, <2>1, FinishPreserves DEF Verify
<1>5. CASE Halt
  BY <1>5, HaltPreserves DEF Halt
<1>6. ASSUME NEW cites, NEW passed \in BOOLEAN, cites \subseteq Allowed("verifier"),
             Finish("verifier", Verified(cites, FALSE, passed))
      PROVE  IInv'
  <2>1. UpdateFits("verifier", Verified(cites, FALSE, passed))
    BY <1>3, <1>6 DEF Allowed
  <2> QED BY <1>6, <2>1, FinishPreserves DEF Verify
<1> QED BY <1>4, <1>5, <1>6 DEF Verify

LEMMA AssemblePreserves == IInv /\ Assemble => IInv'
  BY HaltPreserves DEF Assemble

-----------------------------------------------------------------------------
(* The merge: what the updates promised holds of the merged state.         *)
LEMMA BarrierPreserves ==
  ASSUME IInv, Barrier
  PROVE  IInv'
<1> DEFINE S == DOMAIN artifacts
<1>1. S \in Stages /\ tasks = Triggered(S) /\ S \subseteq Roles
  BY DEF IInv, TypeOK
<1>2. DOMAIN artifacts' = S \union tasks
  BY DEF Barrier
<1>3. /\ DOMAIN artifacts' \in Stages
      /\ tasks' = Triggered(DOMAIN artifacts')
      /\ DOMAIN updates' = {}
      /\ UNCHANGED <<clean, result>>
      /\ result = "running"
  BY <1>1, <1>2, NextStage DEF Barrier, Nothing
<1>4. \A r \in tasks : UpdateFits(r, updates[r])
  BY DEF IInv, Barrier
<1>5. /\ \A r \in tasks : artifacts'[r] = updates[r].artifact
      /\ \A r \in S \ tasks : artifacts'[r] = artifacts[r]
  BY DEF Barrier
<1>6. failed' = failed \union UNION {updates[r].failed : r \in tasks}
  BY DEF Barrier
<1>7. tasks \intersect S = {}
  BY <1>1 DEF Triggered
(* What is approved changes in the auditor's superstep only, when no role  *)
(* after it has an artifact.                                               *)
<1>8. /\ approved' \subseteq Evidence
      /\ \A r \in DOMAIN artifacts' \intersect Downstream : approved' = approved
      /\ "evidence-auditor" \in DOMAIN artifacts' =>
           approved' = artifacts'["evidence-auditor"].cites
  <2>1. CASE "evidence-auditor" \in tasks
    <3>1. approved' = updates["evidence-auditor"].approved
      BY <2>1 DEF Barrier
    <3>2. "evidence-auditor" \notin S
      BY <1>7, <2>1
    <3>3. DOMAIN artifacts' \intersect Downstream = {}
      BY <1>1, <1>2, <3>2, NextStage
    <3> QED BY <1>4, <1>5, <2>1, <3>1, <3>3 DEF UpdateFits
  <2>2. CASE "evidence-auditor" \notin tasks
    <3>1. approved' = approved
      BY <2>2 DEF Barrier
    <3> QED BY <1>2, <1>5, <2>2, <3>1 DEF IInv, TypeOK, MergedFits
  <2> QED BY <2>1, <2>2
<1>9. \A r \in DOMAIN artifacts' : ArtifactFits(r, artifacts'[r], failed', approved')
  <2> SUFFICES ASSUME NEW r \in DOMAIN artifacts'
               PROVE  ArtifactFits(r, artifacts'[r], failed', approved')
    OBVIOUS
  <2>1. CASE r \in tasks
    <3>1. updates[r].failed \subseteq failed'
      BY <1>6, <2>1
    <3> QED BY <1>4, <1>5, <1>8, <2>1, <3>1 DEF UpdateFits, ArtifactFits
  <2>2. CASE r \in S \ tasks
    <3>1. ArtifactFits(r, artifacts[r], failed, approved)
      BY <2>2 DEF IInv, MergedFits
    <3> QED BY <1>5, <1>6, <1>8, <2>2, <3>1 DEF ArtifactFits
  <2> QED BY <1>2, <2>1, <2>2
<1>10. failed' \subseteq Roles
  <2>1. failed \subseteq Roles
    BY DEF IInv, TypeOK
  <2>2. \A r \in tasks : updates[r].failed \subseteq Roles
    BY <1>4 DEF UpdateFits
  <2>3. UNION {updates[r].failed : r \in tasks} \subseteq Roles
    BY <2>2
  <2> QED BY <1>6, <2>1, <2>3
<1>11. PICK w \in tasks : /\ w \in {"cio", "verifier"} \/ tasks \intersect {"cio", "verifier"} = {}
                          /\ forecasts' = updates[w].forecasts
                          /\ status' = updates[w].status
  BY DEF Barrier
<1>12. UpdateFits(w, updates[w])
  BY <1>4
<1>13. TypeOK'
  BY <1>1, <1>2, <1>3, <1>8, <1>10, <1>11, <1>12 DEF TypeOK, IInv, UpdateFits, Triggered
<1>14. \A f \in forecasts' : IsForecast(f)
  BY <1>11, <1>12 DEF UpdateFits
<1>15. ~("cio" \in DOMAIN artifacts') => forecasts' = {}
  <2> SUFFICES ASSUME "cio" \notin DOMAIN artifacts'
               PROVE  forecasts' = {}
    OBVIOUS
  <2>1. w \notin {"cio", "verifier"} /\ "cio" \notin S
    BY <1>1, <1>2, NextStage
  <2> QED BY <1>11, <1>12, <2>1 DEF UpdateFits, IInv, MergedFits
(* The CIO's or the verifier's superstep has no other node, so that what    *)
(* either promises is not undone by a failure beside it.                   *)
<1>16. Claims(forecasts') # {} => failed' = {}
  <2> SUFFICES ASSUME Claims(forecasts') # {}
               PROVE  failed' = {}
    OBVIOUS
  <2>1. CASE w \notin {"cio", "verifier"}
    <3>1. forecasts' = forecasts /\ tasks \intersect {"cio", "verifier"} = {}
      BY <1>11, <1>12, <2>1 DEF UpdateFits
    <3>2. "cio" \in S
      BY <3>1 DEF IInv, MergedFits, Claims
    <3>3. tasks = {} \/ "verifier" \in tasks
      BY <1>1, <3>2 DEF Stages, Triggered, Needs
    <3> QED BY <1>11, <3>1, <3>3
  <2>2. CASE w = "cio"
    <3>1. tasks = {"cio"}
      BY <1>1, <2>2, NextStage
    <3> QED BY <1>6, <1>11, <1>12, <2>2, <3>1 DEF UpdateFits
  <2>3. CASE w = "verifier"
    <3>1. tasks = {"verifier"}
      BY <1>1, <2>3, NextStage
    <3>2. forecasts' = forecasts /\ updates[w].failed = {}
      BY <1>11, <1>12, <2>3 DEF UpdateFits
    <3> QED BY <1>6, <2>3, <3>1, <3>2 DEF IInv, MergedFits
  <2> QED BY <2>1, <2>2, <2>3
<1>17. "verifier" \in DOMAIN artifacts' /\ Claims(forecasts') # {} =>
         ~artifacts'["verifier"].abstained /\ status' = "verified" /\ ValidForCase'
  <2> SUFFICES ASSUME "verifier" \in DOMAIN artifacts', Claims(forecasts') # {}
               PROVE  ~artifacts'["verifier"].abstained /\ status' = "verified" /\ ValidForCase'
    OBVIOUS
  <2>1. "verifier" \in tasks /\ w = "verifier"
    <3>1. "verifier" \notin S
      BY <1>1, <1>11 DEF Stages, Triggered
    <3> QED BY <1>1, <1>2, <1>11, <3>1, NextStage
  <2>2. /\ forecasts' = forecasts
        /\ ~artifacts'["verifier"].abstained
        /\ status' = "verified"
        /\ ValidForCase
    BY <1>5, <1>11, <1>12, <2>1 DEF UpdateFits
  <2>3. approved' = approved
    BY <1>1, <2>1, NextStage DEF Barrier
  <2> QED BY <2>2, <2>3 DEF ValidForCase
<1>18. MergedFits'
  BY <1>8, <1>9, <1>14, <1>15, <1>16, <1>17 DEF MergedFits
<1> QED
  BY <1>3, <1>13, <1>18 DEF IInv

-----------------------------------------------------------------------------
(* The invariant holds of every case, whatever models answer or raise.     *)
THEOREM Invariance == Spec => []IInv
<1>1. Init => IInv
  BY InitFits
<1>2. IInv /\ [Next]_vars => IInv'
  <2> SUFFICES ASSUME IInv, [Next]_vars PROVE IInv'
    OBVIOUS
  <2>1. CASE Audit
    BY <2>1, AuditPreserves
  <2>2. CASE Synthesize
    BY <2>2, SynthesizePreserves
  <2>3. CASE Verify
    BY <2>3, VerifyPreserves
  <2>4. CASE Barrier
    BY <2>4, BarrierPreserves
  <2>5. CASE Assemble
    BY <2>5, AssemblePreserves
  <2>6. ASSUME NEW r \in Roles, Work(r) PROVE IInv'
    BY <2>6, WorkPreserves
  <2>7. CASE UNCHANGED vars
    <3>1. UNCHANGED <<clean, desk, tasks, updates>> /\ result' = result
      BY <2>7 DEF vars
    <3> QED BY <3>1, HaltPreserves DEF IInv, TypeOK
  <2> QED BY <2>1, <2>2, <2>3, <2>4, <2>5, <2>6, <2>7 DEF Next
<1> QED BY <1>1, <1>2, PTL DEF Spec

(* "LLM failures produce abstention" (LangGraphForecastProvider.research): *)
(* in any case, a forecast that may be traded on has every role's model,   *)
(* the verifier and the auditor's evidence behind it.                      *)
THEOREM DeskFailsClosed == Spec => []FailClosed
<1>1. IInv => FailClosed
  <2> SUFFICES ASSUME IInv, result = "dossier", Tradable # {}
               PROVE  /\ failed = {}
                      /\ \A r \in Roles : r \in DOMAIN artifacts /\ ~artifacts[r].abstained
                      /\ status = "verified"
                      /\ {f.ticker : f \in forecasts} = Tickers
                      /\ \A f \in Tradable :
                           f.cites # {} /\ f.cites \subseteq artifacts["evidence-auditor"].cites
    BY DEF FailClosed
  <2>1. DOMAIN artifacts = Roles
    BY NextStage DEF IInv
  <2>2. MergedFits
    BY DEF IInv
  <2>3. failed = {} /\ status = "verified" /\ ValidForCase /\ ~artifacts["verifier"].abstained
    BY <2>1, <2>2 DEF MergedFits, Tradable
  <2>4. \A r \in Roles : ~artifacts[r].abstained
    BY <2>1, <2>2, <2>3 DEF MergedFits, ArtifactFits
  <2>5. approved = artifacts["evidence-auditor"].cites
    BY <2>1, <2>2 DEF MergedFits
  <2>6. \A f \in Tradable : f.cites # {} /\ f.cites \subseteq approved
    BY <2>2, <2>3 DEF MergedFits, Tradable, Claims, ValidForCase, IsForecast, Valid
  <2> QED BY <2>1, <2>3, <2>4, <2>5, <2>6 DEF ValidForCase
<1> QED BY <1>1, Invariance, PTL

(* The approved evidence IDs that _artifact checks the later roles against *)
(* are the auditor's, even when it failed.                                 *)
THEOREM DownstreamIsApproved == Spec => []OnlyApprovedDownstream
<1>1. IInv => OnlyApprovedDownstream
  <2> SUFFICES ASSUME IInv, NEW r \in DOMAIN artifacts \intersect Downstream
               PROVE  /\ "evidence-auditor" \in DOMAIN artifacts
                      /\ artifacts[r].cites \subseteq artifacts["evidence-auditor"].cites
    BY DEF OnlyApprovedDownstream
  <2>1. "evidence-auditor" \in DOMAIN artifacts
    BY DEF IInv, Stages
  <2> QED BY <2>1 DEF IInv, MergedFits, ArtifactFits
<1> QED BY <1>1, Invariance, PTL

(* No schedule of a superstep's nodes shows in what an artifact is based on *)
(* ("stable parallel reducers").                          *)
THEOREM BasisIsStable == Spec => []StableBasis
<1>1. IInv => StableBasis
  BY DEF IInv, MergedFits, ArtifactFits, StableBasis
<1> QED BY <1>1, Invariance, PTL

-----------------------------------------------------------------------------
HIDE DEF Specialists, Reviewers, Downstream, Roles

(***************************************************************************)
(* Company research.  The facts of a snapshot, and the statements made     *)
(* from them.                                                              *)
(***************************************************************************)
Facts(s) ==
  /\ IsFiniteSet(s.facts)
  /\ \A f \in s.facts : f.value \in Int /\ f.id \in Int /\ f.revision \in Int /\ f.accepted \in Int
  /\ \A f, g \in s.facts : f.id = g.id => f = g

LEMMA NewestExists ==
  ASSUME NEW s, Facts(s), NEW C \in SUBSET s.facts, C # {}
  PROVE  \E f \in C : \A g \in C : g = f \/ Newer(f, g)
<1> DEFINE F == {T \in SUBSET C : T # {} => \E f \in T : \A g \in T : g = f \/ Newer(f, g)}
<1>1. IsFiniteSet(C)
  BY FS_Subset DEF Facts
<1>2. {} \in F
  OBVIOUS
<1>3. ASSUME NEW T \in SUBSET C, NEW x \in C \ T, T \in F
      PROVE  T \union {x} \in F
  <2>1. CASE T = {}
    BY <2>1
  <2>2. CASE T # {}
    <3>1. PICK f \in T : \A g \in T : g = f \/ Newer(f, g)
      BY <1>3, <2>2
    <3>2. CASE Newer(f, x)
      BY <3>1, <3>2
    <3>3. CASE ~Newer(f, x)
      <4>1. Newer(x, f)
        BY <3>3, <1>3 DEF Newer, Facts
      <4>2. ASSUME NEW g \in T PROVE Newer(x, g)
        BY <3>1, <4>1, <4>2, <1>3 DEF Newer, Facts
      <4> QED
        BY <4>2
    <3> QED
      BY <3>2, <3>3
  <2> QED
    BY <2>1, <2>2
<1> HIDE DEF F
<1>4. C \in F
  BY <1>1, <1>2, <1>3, FiniteInduction
<1> QED
  BY <1>4 DEF F

LEMMA SelectedIsFiled ==
  ASSUME NEW s, Facts(s), NEW period, NEW line \in Lines(s, period)
  PROVE  /\ Selected(s, period, line) \in Continuing(s)
         /\ Selected(s, period, line) \in s.facts
<1> DEFINE C == {f \in Continuing(s) : f.period = period /\ Line[f.concept] = line}
<1>1. C \in SUBSET s.facts /\ C # {}
  BY DEF Lines, Continuing
<1>2. \E f \in C : \A g \in C : g = f \/ Newer(f, g)
  BY <1>1, NewestExists
<1>3. Selected(s, period, line) \in C
  BY <1>2 DEF Selected
<1> QED
  BY <1>1, <1>3

-----------------------------------------------------------------------------
(***************************************************************************)
(* The run of one bundle.                                                  *)
(***************************************************************************)
LEMMA ArtifactsAreFinite ==
  ASSUME NEW role \in Role, NEW artifact \in RoleArtifacts(role)
  PROVE  IsFiniteSet(artifact.claims)
<1>1. \A x, y : IsFiniteSet({}) /\ IsFiniteSet({x}) /\ IsFiniteSet({x, y})
  <2> TAKE x, y
  <2>1. IsFiniteSet({}) /\ IsFiniteSet({x})
    BY FS_EmptySet, FS_Singleton
  <2>2. {x, y} = {x} \union {y}
    OBVIOUS
  <2> QED
    BY <2>1, <2>2, FS_AddElement
<1>2. \A claim : \A claims \in RoleClaims(role, claim) : IsFiniteSet(claims)
  <2> SUFFICES ASSUME NEW claim, NEW claims \in RoleClaims(role, claim)
               PROVE  IsFiniteSet(claims)
    OBVIOUS
  <2> DEFINE wrong == CHOOSE r \in Reading : r # reading[role]
             other == CHOOSE r \in Role : r # role
             c1 == [claim EXCEPT !.conclusion = wrong]
             c2 == [claim EXCEPT !.calculations = matching[other]]
             c3 == [claim EXCEPT !.evidence = @ \union {Foreign}]
             c4 == [claim EXCEPT !.id = Foreign]
             c5 == [claim EXCEPT !.id = Foreign, !.conclusion = wrong]
  <2>1. claims \in {{}, {claim}, {c1}, {c2}, {c3}, {c4}, {claim, c4}, {claim, c5}}
    BY Zenon DEF RoleClaims
  <2> HIDE DEF wrong, other, c1, c2, c3, c4, c5
  <2> QED
    BY <1>1, <2>1
<1>3. \/ \E claims \in RoleClaims(role, FaithfulClaim(role)) : artifact.claims = claims
      \/ \E r : artifact.claims = {FaithfulClaim(r)}
  BY DEF RoleArtifacts, RoleArtifact
<1> QED
  BY <1>1, <1>2, <1>3

(* What an active forecast is vouched for by, of any run. *)
Vouches(role, name, outputs, says, ids) ==
  \E node \in Role :
    /\ outputs[node].role = role /\ outputs[node].claims # {}
    /\ \A claim \in outputs[node].claims :
         /\ claim.id \in ids
         /\ claim.conclusion = says[role]
         /\ \A id \in claim.calculations :
              \E c \in Lineages[name] : c.id = id /\ c.output = RoleOutput[role]
         /\ claim.evidence \subseteq
              {r.id : r \in {q \in Bundle[name].inputs.evidence.records :
                               q.available <= Bundle[name].request.asOf}}
    /\ \A other \in Role \ {node} :
         {claim.id : claim \in outputs[other].claims}
           \intersect {claim.id : claim \in outputs[node].claims} = {}

VouchedFor ==
  dossier # Pending /\ dossier.active =>
    \A role \in Role : Vouches(role, bundle, roleArtifacts, reading, dossier.claims)

LEMMA ReleasedIsVouched == ReleasedAsAudited <=> VouchedFor
BY Zenon DEF ReleasedAsAudited, VouchedFor, Vouches, Given

LEMMA ReleasedIsVouchedNext == ReleasedAsAudited' <=> VouchedFor'
BY ReleasedIsVouched, PTL

(* A dossier is returned once, of research that was computed; before it,   *)
(* what the claims must agree with is fixed.                               *)
CompanyOK ==
  /\ bundle \in DOMAIN Bundle
  /\ phase # "released" => dossier = Pending
  /\ phase \in {"load", "specialists"} =>
       /\ DOMAIN roleArtifacts = Role
       /\ \A role \in Role :
            roleArtifacts[role] = Pending \/ IsFiniteSet(roleArtifacts[role].claims)
  /\ phase = "specialists" => bundle \in ComputedBundles /\ matching = Expected[bundle]

CompanyInv == CompanyOK /\ ReleasedAsAudited

LEMMA CompanyStarts == CompanyInit => CompanyInv
BY DEF CompanyInit, CompanyInv, CompanyOK, ReleasedAsAudited

(* Claims with IDs of their own: the specialists' sets of IDs are disjoint. *)
LEMMA ClaimsAreApart ==
  ASSUME CompanyOK, Joined, ClaimsDistinct, NEW a \in Role, NEW b \in Role, a # b
  PROVE  {claim.id : claim \in roleArtifacts[a].claims}
           \cap {claim.id : claim \in roleArtifacts[b].claims} = {}
<1> DEFINE I == [role \in Role |-> {claim.id : claim \in roleArtifacts[role].claims}]
           n == [role \in Role |-> Cardinality(roleArtifacts[role].claims)]
<1>1. \A role \in Role : IsFiniteSet(roleArtifacts[role].claims)
  BY DEF CompanyOK, Joined
<1>2. ASSUME NEW role \in Role
      PROVE  IsFiniteSet(I[role]) /\ n[role] \in Nat /\ Cardinality(I[role]) <= n[role]
  <2> DEFINE C == roleArtifacts[role].claims
             f == [claim \in C |-> claim.id]
  <2>1. IsFiniteSet(C) /\ Cardinality(C) \in Nat
    BY <1>1, FS_CardinalityType
  <2>2. f \in Surjection(C, I[role])
    BY DEF Surjection
  <2>3. IsFiniteSet(I[role]) /\ Cardinality(I[role]) <= Cardinality(C)
    BY <2>1, <2>2, FS_Surjection
  <2> QED
    BY <2>1, <2>3
<1>3. Cardinality(UNION {I[role] : role \in Role}) = SumFunctionOnSet(n, Role)
  <2>1. UNION {I[role] : role \in Role} = ClaimIds
    BY DEF ClaimIds
  <2>2. DOMAIN n = Role /\ n = [role \in Role |-> Cardinality(roleArtifacts[role].claims)]
    OBVIOUS
  <2> HIDE DEF I, n
  <2>3. Cardinality(ClaimIds) = Total(n)
    BY <2>2 DEF ClaimsDistinct
  <2> QED
    BY <2>1, <2>2, <2>3 DEF Total
<1>4. IsFiniteSet(Role)
  BY RoleAssumption
<1>5. I[a] \cap I[b] = {}
  <2> HIDE DEF I, n
  <2> QED
    BY <1>2, <1>3, <1>4, FullUnionIsDisjoint
<1> QED
  BY <1>5

(* What the approval rests on: the audit of the artifacts, the audit of    *)
(* the bundle, and the lineage the calculations were found in.             *)
LEMMA ApprovalIsAudited ==
  ASSUME CompanyOK, Approve
  PROVE  ReleasedAsAudited'
<1>1. /\ Joined /\ Audited /\ ClaimsDistinct /\ Abstainers = {} /\ phase = "specialists"
      /\ dossier' = Dossier("committee_verified", "approved", ClaimIds, TRUE)
      /\ UNCHANGED <<bundle, matching, reading, roleArtifacts>>
  BY DEF Approve, Joined
<1>2. bundle \in ComputedBundles /\ matching = Expected[bundle]
  BY <1>1 DEF CompanyOK
<1>3. Given' = Given /\ dossier'.claims = ClaimIds
  BY <1>1 DEF Given, Dossier
<1>4. EvidenceIds(Given) =
        {r.id : r \in {q \in Given.inputs.evidence.records : q.available <= Given.request.asOf}}
  <2>1. Timely(Given)
    BY <1>2 DEF ComputedBundles, Fates, Fate, Given, CompanyOK
  <2> QED
    BY <2>1 DEF Timely, EvidenceIds
<1>5. ASSUME NEW role \in Role, NEW id \in matching[role]
      PROVE  \E c \in Lineages[bundle] : c.id = id /\ c.output = RoleOutput[role]
  BY <1>2, <1>5 DEF Expected, Matching
<1>6. ASSUME NEW role \in Role
      PROVE  Vouches(role, bundle, roleArtifacts, reading, ClaimIds)
  <2>1. PICK node \in Role : roleArtifacts[node].role = role
    BY <1>1 DEF Audited
  <2>2. roleArtifacts[node].claims # {}
    BY <1>1 DEF Abstainers, Abstention
  <2>3. ASSUME NEW claim \in roleArtifacts[node].claims
        PROVE  /\ claim.id \in ClaimIds /\ claim.conclusion = reading[role]
               /\ claim.calculations = matching[role] /\ claim.evidence \subseteq EvidenceIds(Given)
    BY <1>1, <2>1 DEF ClaimIds, Audited, ClaimHolds
  <2>4. \A other \in Role \ {node} :
          {claim.id : claim \in roleArtifacts[other].claims}
            \intersect {claim.id : claim \in roleArtifacts[node].claims} = {}
    BY <1>1, ClaimsAreApart
  <2>5. \A claim \in roleArtifacts[node].claims : \A id \in claim.calculations :
          \E c \in Lineages[bundle] : c.id = id /\ c.output = RoleOutput[role]
    BY <1>5, <2>3
  <2>6. \A claim \in roleArtifacts[node].claims :
          claim.evidence \subseteq
            {r.id : r \in {q \in Given.inputs.evidence.records :
                             q.available <= Given.request.asOf}}
    BY <1>4, <2>3
  <2> QED
    BY <2>1, <2>2, <2>3, <2>4, <2>5, <2>6 DEF Vouches, Given
<1>7. /\ roleArtifacts' = roleArtifacts /\ reading' = reading /\ bundle' = bundle
      /\ dossier'.claims = ClaimIds
  BY <1>1, <1>3
<1> QED
  BY <1>6, <1>7, ReleasedIsVouchedNext DEF VouchedFor

LEMMA CompanyKeeps == CompanyInv /\ [CompanyNext]_companyVars => CompanyInv'
<1> SUFFICES ASSUME CompanyInv, [CompanyNext]_companyVars PROVE CompanyInv'
  OBVIOUS
<1>1. CASE UNCHANGED companyVars
  <2>1. /\ bundle' = bundle /\ phase' = phase /\ matching' = matching /\ reading' = reading
        /\ roleArtifacts' = roleArtifacts /\ dossier' = dossier
    BY <1>1 DEF companyVars
  <2>2. CompanyOK'
    BY <2>1 DEF CompanyInv, CompanyOK
  <2>3. ReleasedAsAudited' = ReleasedAsAudited
    BY <2>1, ReleasedIsVouched, ReleasedIsVouchedNext DEF VouchedFor
  <2> QED
    BY <2>2, <2>3 DEF CompanyInv
<1>2. CASE Reject \/ ComputeFails \/ SpecialistRaises \/ AuditFails
  BY <1>2 DEF Reject, ComputeFails, SpecialistRaises, AuditFails, Joined, Fail, CompanyInv,
              CompanyOK, ReleasedAsAudited
<1>3. CASE AbstainUnsupported \/ AbstainCommittee
  <2>1. /\ dossier'.active = FALSE /\ phase' = "released" /\ bundle' = bundle
    BY <1>3 DEF AbstainUnsupported, AbstainCommittee, Dossier
  <2> QED
    BY <2>1 DEF CompanyInv, CompanyOK, ReleasedAsAudited
<1>4. CASE Compute
  <2>1. bundle \in ComputedBundles
    BY <1>4 DEF Compute, ComputedBundles, CompanyInv, CompanyOK
  <2> QED
    BY <1>4, <2>1 DEF Compute, CompanyInv, CompanyOK, ReleasedAsAudited
<1>5. CASE \E role \in Role : Analyze(role)
  <2>1. PICK role \in Role : Analyze(role)
    BY <1>5
  <2>2. PICK artifact \in RoleArtifacts(role) :
          /\ phase = "specialists" /\ roleArtifacts' = [roleArtifacts EXCEPT ![role] = artifact]
          /\ UNCHANGED <<bundle, phase, matching, reading, dossier>>
    BY <2>1 DEF Analyze
  <2>3. IsFiniteSet(artifact.claims)
    BY ArtifactsAreFinite
  <2> QED
    BY <2>2, <2>3 DEF CompanyInv, CompanyOK, ReleasedAsAudited
<1>6. CASE Approve
  <2>1. ReleasedAsAudited'
    BY <1>6, ApprovalIsAudited DEF CompanyInv
  <2>2. CompanyOK'
    BY <1>6 DEF Approve, CompanyInv, CompanyOK
  <2> QED
    BY <2>1, <2>2 DEF CompanyInv
<1> QED
  BY <1>1, <1>2, <1>3, <1>4, <1>5, <1>6 DEF CompanyNext

(* For any bundles, specialists and readings: an active forecast was       *)
(* vouched for by the specialist of each role, and by its own claims       *)
(* (_audit_specialists, FundamentalResearchDossier).                       *)
THEOREM ForecastsAreVouchedFor == CompanySpec => []ReleasedAsAudited
<1>1. CompanyInv => ReleasedAsAudited
  BY DEF CompanyInv
<1> QED
  BY <1>1, CompanyStarts, CompanyKeeps, PTL DEF CompanySpec

-----------------------------------------------------------------------------
(***************************************************************************)
(* What was not known at the cutoff.                                       *)
(***************************************************************************)
LEMMA ComputedIsSound ==
  ASSUME NEW n \in ComputedBundles
  PROVE  /\ n \in DOMAIN Bundle
         /\ Loadable(Bundle[n]) /\ Timely(Bundle[n]) /\ Computable(Bundle[n])
<1>1. n \in DOMAIN Bundle /\ Fate(Bundle[n]) = "computed"
  BY DEF ComputedBundles, Fates
<1> QED
  BY <1>1 DEF Fate

LEMMA BundlesAreRecords ==
  ASSUME NEW n \in DOMAIN Bundle
  PROVE  LET x == Bundle[n] IN
         /\ x = [f \in DOMAIN x |-> x[f]] /\ {"request", "snapshot", "inputs"} \subseteq DOMAIN x
         /\ x.snapshot = [f \in DOMAIN x.snapshot |-> x.snapshot[f]]
         /\ "facts" \in DOMAIN x.snapshot
         /\ {"evidence", "guidance", "actions"} \subseteq DOMAIN x.inputs
         /\ "records" \in DOMAIN x.inputs.evidence
BY BundleAssumption

LEMMA CutoffKeeps ==
  ASSUME NEW n \in ComputedBundles, NEW x, x = Bundle[n], NEW k, k = KnownAtCutoff(x)
  PROVE  /\ k.request = x.request /\ k.snapshot = x.snapshot
         /\ k.inputs.evidence.records = x.inputs.evidence.records
         /\ k.inputs.guidance = KnownGuidance(x)
         /\ k.inputs.actions = {Forgotten(a, x.request.asOf) :
                                  a \in {c \in x.inputs.actions : c.available <= x.request.asOf}}
         /\ k.inputs.drivers = x.inputs.drivers /\ k.inputs.discount = x.inputs.discount
         /\ k.inputs.growth = x.inputs.growth /\ k.inputs.peers = x.inputs.peers
<1>1. /\ x = [f \in DOMAIN x |-> x[f]] /\ {"request", "snapshot", "inputs"} \subseteq DOMAIN x
      /\ x.snapshot = [f \in DOMAIN x.snapshot |-> x.snapshot[f]]
      /\ "facts" \in DOMAIN x.snapshot
      /\ {"evidence", "guidance", "actions"} \subseteq DOMAIN x.inputs
      /\ "records" \in DOMAIN x.inputs.evidence
  BY ComputedIsSound, BundlesAreRecords
<1>2. /\ {f \in x.snapshot.facts : f.available <= x.request.asOf} = x.snapshot.facts
      /\ {r \in x.inputs.evidence.records : r.available <= x.request.asOf}
           = x.inputs.evidence.records
  BY ComputedIsSound DEF Timely
<1> DEFINE G == KnownGuidance(x)
           A == {Forgotten(a, x.request.asOf) :
                   a \in {c \in x.inputs.actions : c.available <= x.request.asOf}}
<1>3. k = [x EXCEPT !.snapshot.facts = x.snapshot.facts, !.inputs.guidance = G,
                    !.inputs.actions = A,
                    !.inputs.evidence.records = x.inputs.evidence.records]
  BY <1>1, <1>2 DEF KnownAtCutoff
<1> HIDE DEF G, A
<1>4. k.request = x.request
  BY <1>1, <1>3
<1>5. k.snapshot = [x.snapshot EXCEPT !.facts = x.snapshot.facts]
  BY <1>1, <1>3
<1>6. k.snapshot = x.snapshot
  <2> DEFINE s == x.snapshot
  <2>1. s = [f \in DOMAIN s |-> s[f]] /\ k.snapshot = [s EXCEPT !.facts = s.facts]
    BY <1>1, <1>5
  <2> HIDE DEF s
  <2>2. k.snapshot = s
    BY <2>1
  <2> QED
    BY <2>2 DEF s
<1>7. k.inputs = [x.inputs EXCEPT !.guidance = G, !.actions = A,
                                  !.evidence.records = x.inputs.evidence.records]
  BY <1>1, <1>3
<1>8. /\ k.inputs.guidance = G /\ k.inputs.actions = A
      /\ k.inputs.evidence.records = x.inputs.evidence.records
      /\ k.inputs.drivers = x.inputs.drivers /\ k.inputs.discount = x.inputs.discount
      /\ k.inputs.growth = x.inputs.growth /\ k.inputs.peers = x.inputs.peers
  BY <1>1, <1>7
<1> QED
  BY <1>4, <1>6, <1>8 DEF G, A

(* A set is as large as the set its members are mapped to one by one.      *)
LEMMA OneToOne ==
  ASSUME NEW S, IsFiniteSet(S), NEW T, NEW f, \A a \in S : f[a] \in T,
         \A b \in T : \E a \in S : b = f[a], \A a, b \in S : f[a] = f[b] => a = b
  PROVE  Cardinality(T) = Cardinality(S)
<1> DEFINE g == [a \in S |-> f[a]]
<1>1. g \in Bijection(S, T)
  BY DEF Bijection, Injection, Surjection, IsInjective
<1>2. ExistsBijection(S, T)
  BY <1>1 DEF ExistsBijection
<1> QED
  BY <1>2, FS_Bijection

LEMMA CutKeeps ==
  ASSUME NEW n \in ComputedBundles, NEW x, x = Bundle[n], NEW g \in x.inputs.guidance,
         NEW asOf
  PROVE  LET c == Cut(g, asOf) IN
         /\ c.id = g.id /\ c.issued = g.issued /\ c.revises = g.revises
         /\ c.evidence = g.evidence
         /\ c.actual # NoValue => c = g /\ Known(g.actualAt, asOf)
         /\ g.actual # NoValue /\ Known(g.actualAt, asOf) => c = g
<1>1. /\ g = [f \in DOMAIN g |-> g[f]]
      /\ {"id", "issued", "actual", "actualAt", "revises", "evidence"} \subseteq DOMAIN g
  BY ComputedIsSound, BundleAssumption
<1>2. CASE g.actual # NoValue /\ Known(g.actualAt, asOf)
  BY <1>2 DEF Cut
<1>3. CASE ~(g.actual # NoValue /\ Known(g.actualAt, asOf))
  <2>1. Cut(g, asOf) = [g EXCEPT !.actual = NoValue, !.actualAt = NoValue]
    BY <1>3, Zenon DEF Cut
  <2>2. Cut(g, asOf).actual = NoValue
    BY <1>1, <2>1
  <2>3. /\ Cut(g, asOf).id = g.id /\ Cut(g, asOf).issued = g.issued
        /\ Cut(g, asOf).revises = g.revises /\ Cut(g, asOf).evidence = g.evidence
    BY <1>1, <2>1
  <2> QED
    BY <1>3, <2>2, <2>3
<1> QED
  BY <1>2, <1>3

LEMMA GuidanceIsCut ==
  ASSUME NEW n \in ComputedBundles, NEW x, x = Bundle[n], NEW k, k = KnownAtCutoff(x)
  PROVE  /\ Matured(k) = Matured(x)
         /\ Issued(k) = CutAll(Issued(x), x.request.asOf)
         /\ GuidanceAssumptions(k) = GuidanceAssumptions(x)
         /\ {g.evidence : g \in Issued(k)} = {g.evidence : g \in Issued(x)}
         /\ Cardinality({g \in Issued(k) : g.revises}) = Cardinality({g \in Issued(x) : g.revises})
<1> DEFINE T == x.request.asOf
<1>1. x.snapshot.asOf = T
  BY ComputedIsSound DEF Timely
<1>2. k.snapshot.asOf = T /\ k.inputs.guidance = KnownGuidance(x)
  BY <1>1, CutoffKeeps
<1>3. Issued(x) = {g \in x.inputs.guidance : g.issued <= T}
  BY <1>1 DEF Issued
<1>4. KnownGuidance(x) = {Cut(g, T) : g \in Issued(x)}
  BY <1>3, Zenon DEF KnownGuidance, CutAll
<1> HIDE DEF T
<1>5. \A g \in Issued(x) :
        /\ Cut(g, T).id = g.id /\ Cut(g, T).issued = g.issued /\ Cut(g, T).revises = g.revises
        /\ Cut(g, T).evidence = g.evidence
        /\ Cut(g, T).actual # NoValue => Cut(g, T) = g /\ Known(g.actualAt, T)
        /\ g.actual # NoValue /\ Known(g.actualAt, T) => Cut(g, T) = g
  BY <1>3, CutKeeps
<1>6. Issued(k) = {Cut(g, T) : g \in Issued(x)}
  <2>1. Issued(k) = {g \in KnownGuidance(x) : g.issued <= T}
    BY <1>2 DEF Issued
  <2>2. \A g \in Issued(x) : g.issued <= T
    BY <1>3
  <2> QED
    BY <1>4, <1>5, <2>1, <2>2
<1>7. GuidanceAssumptions(k) = GuidanceAssumptions(x)
  <2>1. {g.id : g \in Issued(k)} = {g.id : g \in Issued(x)}
    BY <1>5, <1>6
  <2>2. Issued(k) = {} <=> Issued(x) = {}
    BY <1>6
  <2> QED
    BY <2>1, <2>2 DEF GuidanceAssumptions
<1>8. {g.evidence : g \in Issued(k)} = {g.evidence : g \in Issued(x)}
  BY <1>5, <1>6
<1>9. Matured(k) = Matured(x)
  <2>1. /\ Matured(x) = {g \in Issued(x) : g.actual # NoValue /\ Known(g.actualAt, T)}
        /\ Matured(k) = {g \in Issued(k) : g.actual # NoValue /\ Known(g.actualAt, T)}
    BY <1>1, <1>2 DEF Matured
  <2> QED
    BY <1>5, <1>6, <2>1
<1>10. Cardinality({g \in Issued(k) : g.revises}) = Cardinality({g \in Issued(x) : g.revises})
  <2> DEFINE S == {g \in Issued(x) : g.revises}
             R == {g \in Issued(k) : g.revises}
             f == [g \in S |-> Cut(g, T)]
  <2>1. IsFiniteSet(S) /\ \A a, b \in S : a.id = b.id => a = b
    <3>1. IsFiniteSet(x.inputs.guidance) /\ \A a, b \in x.inputs.guidance : a.id = b.id => a = b
      BY ComputedIsSound, BundleAssumption
    <3>2. S \subseteq x.inputs.guidance
      BY <1>3
    <3> HIDE DEF S
    <3> QED
      BY <3>1, <3>2, FS_Subset
  <2>2. /\ \A a \in S : f[a] \in R
        /\ \A b \in R : \E a \in S : b = f[a]
    BY <1>5, <1>6
  <2>3. \A a, b \in S : f[a] = f[b] => a = b
    BY <1>5, <2>1
  <2> HIDE DEF S, R, f
  <2>4. Cardinality(R) = Cardinality(S)
    BY <2>1, <2>2, <2>3, OneToOne
  <2> QED
    BY <2>4 DEF R, S
<1>11. Issued(k) = CutAll(Issued(x), T)
  BY <1>6, Zenon DEF CutAll
<1> QED
  BY <1>7, <1>8, <1>9, <1>10, <1>11 DEF T

LEMMA ForgottenKeeps ==
  ASSUME NEW n \in ComputedBundles, NEW x, x = Bundle[n], NEW a \in x.inputs.actions,
         NEW asOf \in Int
  PROVE  LET c == Forgotten(a, asOf) IN
         /\ c.id = a.id /\ c.kind = a.kind /\ c.available = a.available
         /\ c.evidence = a.evidence
         /\ Known(c.completionKnown, asOf) <=> Known(a.completionKnown, asOf)
         /\ c.outcome # NoValue => c = a /\ Known(a.outcomeKnown, asOf)
         /\ a.outcome # NoValue /\ Known(a.outcomeKnown, asOf) => c = a
<1>1. /\ a = [f \in DOMAIN a |-> a[f]]
      /\ {"id", "kind", "available", "completedAt", "completionKnown", "outcome", "outcomeAt",
          "outcomeKnown", "evidence"} \subseteq DOMAIN a
      /\ {a.completionKnown, a.outcomeKnown} \subseteq Int \union {NoValue}
  BY ComputedIsSound, BundleAssumption
<1>2. WellFormedAction(a)
  BY ComputedIsSound DEF Loadable, InputsAccepted
<1> DEFINE done == IF Known(a.completionKnown, asOf) THEN a
                   ELSE [a EXCEPT !.completedAt = NoValue, !.completionKnown = NoValue]
           c == Forgotten(a, asOf)
<1>3. c = IF Known(a.outcomeKnown, asOf) THEN done
          ELSE [done EXCEPT !.outcome = NoValue, !.outcomeAt = NoValue, !.outcomeKnown = NoValue]
  BY Zenon DEF Forgotten
<1> HIDE DEF c
<1>4. /\ done = [f \in DOMAIN a |-> done[f]]
      /\ done.id = a.id /\ done.kind = a.kind /\ done.available = a.available
      /\ done.evidence = a.evidence
      /\ Known(done.completionKnown, asOf) <=> Known(a.completionKnown, asOf)
  BY <1>1 DEF Known
<1>5. Known(a.completionKnown, asOf) => done = a
  OBVIOUS
<1>6. a.outcome # NoValue /\ Known(a.outcomeKnown, asOf) => done = a
  <2> SUFFICES ASSUME a.outcome # NoValue, Known(a.outcomeKnown, asOf)
               PROVE  Known(a.completionKnown, asOf)
    BY <1>5
  <2>1. a.completionKnown # NoValue /\ a.completionKnown <= a.outcomeKnown
    BY <1>2 DEF WellFormedAction
  <2>2. a.outcomeKnown # NoValue /\ a.outcomeKnown <= asOf
    BY DEF Known
  <2>3. a.completionKnown \in Int /\ a.outcomeKnown \in Int
    BY <1>1, <2>1, <2>2
  <2> QED
    BY <2>1, <2>2, <2>3 DEF Known
<1>7. a.outcome = NoValue => a.outcomeKnown = NoValue
  BY <1>2 DEF WellFormedAction
<1> HIDE DEF done
<1>8. CASE Known(a.outcomeKnown, asOf)
  <2>1. c = done /\ a.outcome # NoValue
    BY <1>3, <1>7, <1>8 DEF Known
  <2>2. done = a
    BY <1>6, <1>8, <2>1
  <2> QED
    BY <1>8, <2>1, <2>2 DEF c
<1>9. CASE ~Known(a.outcomeKnown, asOf)
  <2>1. c = [done EXCEPT !.outcome = NoValue, !.outcomeAt = NoValue, !.outcomeKnown = NoValue]
    BY <1>3, <1>9
  <2>2. /\ c.outcome = NoValue /\ c.completionKnown = done.completionKnown
        /\ c.id = done.id /\ c.kind = done.kind /\ c.available = done.available
        /\ c.evidence = done.evidence
    BY <1>1, <1>4, <2>1
  <2> QED
    BY <1>4, <1>9, <2>2 DEF c
<1> QED
  BY <1>8, <1>9

Available(b) == {a \in b.inputs.actions : a.available <= b.snapshot.asOf}

LEMMA ActionsAreForgotten ==
  ASSUME NEW n \in ComputedBundles, NEW x, x = Bundle[n], NEW k, k = KnownAtCutoff(x)
  PROVE  /\ \A kind : /\ Outcomes(k, kind) = Outcomes(x, kind)
                      /\ Cardinality(Announced(k, kind)) = Cardinality(Announced(x, kind))
                      /\ Announced(k, kind) = {} <=> Announced(x, kind) = {}
         /\ Cardinality(Followed(k)) = Cardinality(Followed(x))
         /\ {a.evidence : a \in Available(k)} = {a.evidence : a \in Available(x)}
         /\ ActionAssumptions(k) = ActionAssumptions(x) \ LaterActions(x)
<1> DEFINE T == x.request.asOf
           P == {c \in x.inputs.actions : c.available <= T}
           F(a) == Forgotten(a, T)
<1>1. x.snapshot.asOf = T /\ T \in Int
  BY ComputedIsSound, BundleAssumption DEF Timely
<1>2. k.snapshot.asOf = T /\ k.inputs.actions = {F(a) : a \in P}
  BY <1>1, CutoffKeeps
<1>3. IsFiniteSet(P) /\ \A a, b \in P : a.id = b.id => a = b
  <2>1. IsFiniteSet(x.inputs.actions) /\ \A a, b \in x.inputs.actions : a.id = b.id => a = b
    BY ComputedIsSound, BundleAssumption
  <2> QED
    BY <2>1, FS_Subset
<1>4. \A a \in P :
        /\ F(a).id = a.id /\ F(a).kind = a.kind /\ F(a).available = a.available
        /\ F(a).evidence = a.evidence
        /\ Known(F(a).completionKnown, T) <=> Known(a.completionKnown, T)
        /\ F(a).outcome # NoValue => F(a) = a /\ Known(a.outcomeKnown, T)
        /\ a.outcome # NoValue /\ Known(a.outcomeKnown, T) => F(a) = a
        /\ a.available <= T
  <2>1. \A a \in P : a \in x.inputs.actions /\ a.available <= T
    OBVIOUS
  <2> HIDE DEF T, P
  <2> QED
    BY <1>1, <2>1, ForgottenKeeps
<1>5. \A kind : Announced(x, kind) = {a \in P : a.kind = kind}
  BY <1>1 DEF Announced
<1>14. ActionAssumptions(x) \ LaterActions(x) = {a.id : a \in P}
  <2>1. \A a, b \in x.inputs.actions : a.id = b.id => a = b
    BY ComputedIsSound, BundleAssumption
  <2> QED
    BY <2>1 DEF ActionAssumptions, LaterActions
<1> HIDE DEF T, P, F
<1>6. \A kind : Announced(k, kind) = {F(a) : a \in Announced(x, kind)}
  <2> TAKE kind
  <2>1. Announced(k, kind) = {a \in {F(c) : c \in P} : a.kind = kind /\ a.available <= T}
    BY <1>2 DEF Announced
  <2> QED
    BY <1>4, <1>5, <2>1
<1>7. ASSUME NEW S \in SUBSET P PROVE Cardinality({F(a) : a \in S}) = Cardinality(S)
  <2> DEFINE f == [a \in S |-> F(a)]
             R == {F(a) : a \in S}
  <2>1. IsFiniteSet(S)
    BY <1>3, FS_Subset
  <2>2. /\ \A a \in S : f[a] \in R
        /\ \A b \in R : \E a \in S : b = f[a]
    OBVIOUS
  <2>3. \A a, b \in S : f[a] = f[b] => a = b
    BY <1>3, <1>4
  <2> HIDE DEF R, f
  <2>4. Cardinality(R) = Cardinality(S)
    BY <2>1, <2>2, <2>3, OneToOne
  <2> QED
    BY <2>4 DEF R
<1>8. ASSUME NEW kind PROVE Outcomes(k, kind) = Outcomes(x, kind)
  <2>1. /\ Outcomes(x, kind) =
             {a \in Announced(x, kind) : a.outcome # NoValue /\ Known(a.outcomeKnown, T)}
        /\ Outcomes(k, kind) =
             {a \in Announced(k, kind) : a.outcome # NoValue /\ Known(a.outcomeKnown, T)}
    BY <1>1, <1>2 DEF Outcomes
  <2>2. Announced(k, kind) = {F(a) : a \in Announced(x, kind)} /\ Announced(x, kind) \subseteq P
    BY <1>5, <1>6
  <2> QED
    BY <1>4, <2>1, <2>2
<1>9. ASSUME NEW kind
      PROVE  /\ Cardinality(Announced(k, kind)) = Cardinality(Announced(x, kind))
             /\ Announced(k, kind) = {} <=> Announced(x, kind) = {}
  <2>1. Announced(k, kind) = {F(a) : a \in Announced(x, kind)} /\ Announced(x, kind) \subseteq P
    BY <1>5, <1>6
  <2> QED
    BY <1>7, <2>1
<1>10. Cardinality(Followed(k)) = Cardinality(Followed(x))
  <2> DEFINE promise == "capital_allocation_promise"
  <2>1. /\ Followed(x) = {a \in Announced(x, promise) : Known(a.completionKnown, T)}
        /\ Followed(k) = {a \in Announced(k, promise) : Known(a.completionKnown, T)}
    BY <1>1, <1>2 DEF Followed
  <2>2. /\ Announced(k, promise) = {F(a) : a \in Announced(x, promise)}
        /\ Announced(x, promise) \subseteq P
    BY <1>5, <1>6
  <2> HIDE DEF promise
  <2>3. Followed(k) = {F(a) : a \in Followed(x)} /\ Followed(x) \subseteq P
    BY <1>4, <2>1, <2>2
  <2> QED
    BY <1>7, <2>3
<1>11. Available(k) = {F(a) : a \in P}
  BY <1>2, <1>4 DEF Available
<1>12. Available(x) = P
  BY <1>1 DEF P, Available
<1>13. {a.evidence : a \in Available(k)} = {a.evidence : a \in Available(x)}
  BY <1>4, <1>11, <1>12
<1>15. ActionAssumptions(k) = {a.id : a \in P}
  BY <1>2, <1>4 DEF ActionAssumptions
<1> QED
  BY <1>8, <1>9, <1>10, <1>13, <1>14, <1>15

LEMMA TrackIsKept ==
  ASSUME NEW n \in ComputedBundles, NEW x, x = Bundle[n], NEW k, k = KnownAtCutoff(x)
  PROVE  Track(k) = [Track(x) EXCEPT !.guidance = CutAll(@, x.request.asOf)]
<1> DEFINE Bias(M) == Total([g \in M |-> TwiceBias(g)])
           Error(M) == Total([g \in M |-> Deviation(TwiceBias(g))])
           Hits(M) == Cardinality({g \in M : g.actual \in g.lower .. g.upper})
           Dilution(s) == <<Adjusted(s, Current(s))["diluted_shares"],
                            Adjusted(s, Previous(s))["diluted_shares"]>>
           Returns(A) == <<Total([a \in A |-> a.outcome]), Cardinality(A)>>
           Record(guidance, M, s, outcomes, promises, kept, revisions, evidence) ==
             [guidance  |-> guidance, hits |-> Hits(M), matured |-> Cardinality(M),
              bias |-> Bias(M), error |-> Error(M), dilution |-> Dilution(s),
              outcomes |-> outcomes, promises |-> promises, kept |-> kept,
              revisions |-> revisions, evidence |-> evidence]
           R(b, guidance) ==
                   Record(guidance, Matured(b), b.snapshot,
                          [kind \in {"acquisition", "buyback"} |-> Returns(Outcomes(b, kind))],
                          Cardinality(Announced(b, "capital_allocation_promise")),
                          Cardinality(Followed(b)),
                          Cardinality({g \in Issued(b) : g.revises}),
                          UNION {y.evidence : y \in Issued(b) \union
                                   {a \in b.inputs.actions : a.available <= b.snapshot.asOf}})
<1>1. Track(k) = R(k, Issued(k)) /\ Track(x) = R(x, Issued(x))
  BY Zenon DEF Track
<1> HIDE DEF Bias, Error, Hits, Dilution, Returns
<1>8. \A guidance, M, s, outcomes, promises, kept, revisions, evidence, other :
        [Record(guidance, M, s, outcomes, promises, kept, revisions, evidence)
           EXCEPT !.guidance = other]
          = Record(other, M, s, outcomes, promises, kept, revisions, evidence)
  OBVIOUS
<1> HIDE DEF Record
<1>2. k.snapshot = x.snapshot
  BY CutoffKeeps
<1>3. [kind \in {"acquisition", "buyback"} |-> Returns(Outcomes(k, kind))]
        = [kind \in {"acquisition", "buyback"} |-> Returns(Outcomes(x, kind))]
  <2>1. \A kind : Outcomes(k, kind) = Outcomes(x, kind)
    BY ActionsAreForgotten
  <2> QED
    BY <2>1
<1>4. UNION {y.evidence : y \in Issued(k) \union
               {a \in k.inputs.actions : a.available <= k.snapshot.asOf}}
        = UNION {y.evidence : y \in Issued(x) \union
                   {a \in x.inputs.actions : a.available <= x.snapshot.asOf}}
  <2>1. {a.evidence : a \in Available(k)} = {a.evidence : a \in Available(x)}
    BY ActionsAreForgotten
  <2>2. {g.evidence : g \in Issued(k)} = {g.evidence : g \in Issued(x)}
    BY GuidanceIsCut
  <2>3. \A S, Q : {y.evidence : y \in S \union Q}
                    = {y.evidence : y \in S} \union {y.evidence : y \in Q}
    OBVIOUS
  <2>4. {y.evidence : y \in Issued(k) \union Available(k)}
          = {y.evidence : y \in Issued(k)} \union {y.evidence : y \in Available(k)}
    BY <2>3, Zenon
  <2>5. {y.evidence : y \in Issued(x) \union Available(x)}
          = {y.evidence : y \in Issued(x)} \union {y.evidence : y \in Available(x)}
    BY <2>3, Zenon
  <2>6. {y.evidence : y \in Issued(k) \union Available(k)}
          = {y.evidence : y \in Issued(x) \union Available(x)}
    BY <2>1, <2>2, <2>4, <2>5, Zenon
  <2> QED
    BY <2>6 DEF Available
<1>5. /\ Cardinality(Announced(k, "capital_allocation_promise"))
           = Cardinality(Announced(x, "capital_allocation_promise"))
      /\ Cardinality(Followed(k)) = Cardinality(Followed(x))
  BY ActionsAreForgotten
<1>6. /\ Matured(k) = Matured(x)
      /\ Cardinality({g \in Issued(k) : g.revises}) = Cardinality({g \in Issued(x) : g.revises})
  BY GuidanceIsCut
<1>7. \A guidance : R(k, guidance) = R(x, guidance)
  BY <1>2, <1>3, <1>4, <1>5, <1>6, Zenon
<1>9. \A guidance, other : [R(x, guidance) EXCEPT !.guidance = other] = R(x, other)
  BY <1>8
<1>10. Issued(k) = CutAll(Issued(x), x.request.asOf)
  BY GuidanceIsCut
<1>11. Track(x).guidance = Issued(x)
  BY DEF Track
<1> HIDE DEF R
<1> QED
  BY <1>1, <1>7, <1>9, <1>10, <1>11

LEMMA LineageIsKept ==
  ASSUME NEW n \in ComputedBundles, NEW x, x = Bundle[n], NEW k, k = KnownAtCutoff(x)
  PROVE  /\ AnalysisLineage(k) = AnalysisLineage(x)
         /\ ManagementLineage(k) = Unnamed(ManagementLineage(x), LaterActions(x))
<1>1. k.snapshot = x.snapshot
  BY CutoffKeeps
<1>2. ManagementIds(k) = ManagementIds(x)
  <2> DEFINE Names(M, acquisitions, buybacks, promises) ==
        {"dilution", "disclosure_quality", "guidance_revision_count"}
          \union (IF M THEN {} ELSE {"guidance_hit_rate", "guidance_bias", "guidance_error"})
          \union (IF acquisitions THEN {} ELSE {"acquisition"})
          \union (IF buybacks THEN {} ELSE {"buyback"})
          \union (IF promises THEN {} ELSE {"capital_allocation_promise"})
  <2>1. ASSUME NEW b
        PROVE  ManagementIds(b) =
                 {ManagementId(name) :
                    name \in Names(Matured(b) = {}, Outcomes(b, "acquisition") = {},
                                   Outcomes(b, "buyback") = {},
                                   Announced(b, "capital_allocation_promise") = {})}
    <3> DEFINE N == {"dilution", "disclosure_quality", "guidance_revision_count"}
                    \union (IF Matured(b) = {} THEN {}
                            ELSE {"guidance_hit_rate", "guidance_bias", "guidance_error"})
                    \union {m \in {"acquisition", "buyback"} : Outcomes(b, m) # {}}
                    \union {m \in {"capital_allocation_promise"} : Announced(b, m) # {}}
               M == Names(Matured(b) = {}, Outcomes(b, "acquisition") = {},
                          Outcomes(b, "buyback") = {},
                          Announced(b, "capital_allocation_promise") = {})
    <3>1. N = M
      OBVIOUS
    <3>2. ManagementIds(b) = {ManagementId(name) : name \in N}
      BY Zenon DEF ManagementIds
    <3> HIDE DEF N, M
    <3>3. ManagementIds(b) = {ManagementId(name) : name \in M}
      BY <3>1, <3>2
    <3> QED
      BY <3>3 DEF M
  <2> HIDE DEF Names
  <2>2. /\ (Matured(k) = {}) = (Matured(x) = {})
        /\ (Outcomes(k, "acquisition") = {}) = (Outcomes(x, "acquisition") = {})
        /\ (Outcomes(k, "buyback") = {}) = (Outcomes(x, "buyback") = {})
        /\ (Announced(k, "capital_allocation_promise") = {})
             = (Announced(x, "capital_allocation_promise") = {})
    <3>1. Matured(k) = Matured(x)
      BY GuidanceIsCut
    <3>2. \A kind : /\ Outcomes(k, kind) = Outcomes(x, kind)
                    /\ Announced(k, kind) = {} <=> Announced(x, kind) = {}
      BY ActionsAreForgotten
    <3> QED
      BY <3>1, <3>2
  <2> QED
    BY <2>1, <2>2
<1>3. \A s : Years(k, s) = Years(x, s) /\ Grid(k, s) = Grid(x, s)
  <2> TAKE s
  <2>1. Years(k, s) = Years(x, s)
    BY CutoffKeeps DEF Years, Drivers
  <2>2. Grid(k, s) = Grid(x, s)
    BY CutoffKeeps DEF Grid
  <2> QED
    BY <2>1, <2>2
<1>4. ManagementLineage(k) = Unnamed(ManagementLineage(x), LaterActions(x))
  <2> DEFINE Record(id, s, actions, guidance) ==
               IF id[4] = "dilution"
               THEN Calculation(id, id[4], {}, MetricIds(s), {})
               ELSE Calculation(id, id[4], {}, {},
                      IF id[4] \in OnActions THEN actions ELSE guidance)
             A == ActionAssumptions(x)
             G == GuidanceAssumptions(x)
             later == LaterActions(x)
             Strike(c, names) ==
               IF c.output \in OnActions THEN [c EXCEPT !.assumptions = @ \ names] ELSE c
  <2>1. \A b : ManagementLineage(b) =
               {Record(id, b.snapshot, ActionAssumptions(b), GuidanceAssumptions(b)) :
                  id \in ManagementIds(b)}
    BY Zenon DEF ManagementLineage
  <2>2. \A id, s, actions, guidance, names :
          Strike(Record(id, s, actions, guidance), names)
            = Record(id, s, actions \ names, guidance)
    BY DEF Calculation, OnActions
  <2>3. ActionAssumptions(k) = A \ later /\ GuidanceAssumptions(k) = G
    BY GuidanceIsCut, ActionsAreForgotten
  <2>7. \A L, names : Unnamed(L, names) = {Strike(c, names) : c \in L}
    BY Zenon DEF Unnamed
  <2> HIDE DEF Record, Strike, A, G, later
  <2>4. ManagementLineage(k) =
          {Record(id, x.snapshot, A \ later, G) : id \in ManagementIds(x)}
    BY <1>1, <1>2, <2>1, <2>3
  <2>5. ManagementLineage(x) = {Record(id, x.snapshot, A, G) : id \in ManagementIds(x)}
    BY <2>1 DEF A, G
  <2>6. Unnamed(ManagementLineage(x), later) =
          {Strike(Record(id, x.snapshot, A, G), later) : id \in ManagementIds(x)}
    BY <2>5, <2>7
  <2> QED
    BY <2>2, <2>4, <2>6 DEF later
<1>5. ValuationLineage(k) = ValuationLineage(x)
  <2> DEFINE L(s) ==
        {Calculation(id, "comparable_value", {}, MetricIds(s), {"peers"}) : id \in ComparableIds}
  <2>1. \A b : {Calculation(id, "comparable_value", {}, MetricIds(b.snapshot), {"peers"}) :
                  id \in ComparableIds} = L(b.snapshot)
    OBVIOUS
  <2> HIDE DEF L
  <2> QED
    BY <1>1, <2>1, Zenon DEF ValuationLineage
<1>6. ScoreLineage(k) = ScoreLineage(x)
  <2> DEFINE I(s, ids, name) ==
        {MetricId(s, metric) : metric \in ScoredMetric[name]}
        \union CASE name = "management"       -> ids
                 [] name = "valuation"        -> {ScenarioId("implied_return")}
                 [] name = "expectations_gap" -> {ReverseId("revenue_growth")}
                 [] OTHER                     -> {}
  <2>1. \A b, name : ScoreInputs(b, name) = I(b.snapshot, ManagementIds(b), name)
    BY Zenon DEF ScoreInputs
  <2> HIDE DEF I
  <2>2. \A name : ScoreInputs(k, name) = ScoreInputs(x, name)
    BY <1>1, <1>2, <2>1
  <2> DEFINE L(b) == {Calculation(Score(name), name, {}, ScoreInputs(b, name), {"inputs"}) :
                        name \in DOMAIN ScoredMetric}
  <2>3. L(k) = L(x)
    BY <2>2
  <2> QED
    BY <2>3 DEF ScoreLineage
<1>7. AlphaLineage(k) = AlphaLineage(x)
  BY <1>1, Zenon DEF AlphaLineage
<1>8. \A s : ForecastLineage(k, s) = ForecastLineage(x, s)
  <2> TAKE s
  <2> DEFINE L(years, ids) ==
        {Calculation(id, id[4], {},
           LET before == {y \in years : y < id[3]}
           IN  IF before = {} THEN ids ELSE ForecastIds(s, {Max(before)}), {"drivers"}) :
           id \in ForecastIds(s, years)}
  <2>1. \A b : ForecastLineage(b, s) = L(Years(b, s), Ids(StatementLineage(b.snapshot)))
    BY Zenon DEF ForecastLineage
  <2> HIDE DEF L
  <2> QED
    BY <1>1, <1>3, <2>1
<1>9. \A s : DcfLineage(k, s) = DcfLineage(x, s)
  <2> TAKE s
  <2> DEFINE L(years, grid) ==
        {Calculation(id, id[4], {}, ForecastIds(s, years),
           {"discount_rate", "terminal_assumptions", "net_debt", "diluted_shares"}) :
           id \in DcfIds(s, DcfOutput)}
        \union UNION {PointLineage(s, years, p) : p \in grid}
  <2>1. \A b : DcfLineage(b, s) = L(Years(b, s), Grid(b, s))
    BY Zenon DEF DcfLineage
  <2> HIDE DEF L
  <2> QED
    BY <1>3, <2>1
<1>10. UNION {ForecastLineage(k, s) \union DcfLineage(k, s) : s \in Scenario}
         = UNION {ForecastLineage(x, s) \union DcfLineage(x, s) : s \in Scenario}
  BY <1>8, <1>9
<1>11. AnalysisLineage(k) = AnalysisLineage(x)
  BY <1>1, <1>5, <1>6, <1>7, <1>10, Zenon DEF AnalysisLineage
<1> QED
  BY <1>4, <1>11

LEMMA ResearchIsKept ==
  ASSUME NEW n \in ComputedBundles
  PROVE  n \in FreeOfHindsight
<1> DEFINE x == Bundle[n]
           k == KnownAtCutoff(x)
<1>1. x = Bundle[n] /\ k = KnownAtCutoff(x)
  OBVIOUS
<1> HIDE DEF x, k
<1>2. /\ k.snapshot = x.snapshot /\ k.inputs.peers = x.inputs.peers
      /\ k.inputs.evidence.records = x.inputs.evidence.records
  BY <1>1, CutoffKeeps
<1> DEFINE T == x.request.asOf
           later == LaterActions(x)
<1>3. Track(k) = [Track(x) EXCEPT !.guidance = CutAll(@, T)]
  BY <1>1, TrackIsKept
<1>4. /\ AnalysisLineage(k) = AnalysisLineage(x)
      /\ ManagementLineage(k) = Unnamed(ManagementLineage(x), later)
  BY <1>1, LineageIsKept
<1>5. ComparableRange(k) = ComparableRange(x)
  BY <1>2, Zenon DEF ComparableRange
<1>6. EvidenceIds(k) = EvidenceIds(x)
  BY <1>2 DEF EvidenceIds
<1> DEFINE Made(track, adjusted, metrics, range, management, lineage, evidence) ==
             [track |-> track, adjusted |-> adjusted, metrics |-> metrics, range |-> range,
              management |-> management, lineage |-> lineage, evidence |-> evidence]
           Statements(s) == [p \in Periods(s) |-> Adjusted(s, p)]
           R(track, s, range, management, lineage, evidence) ==
             Made(track, Statements(s), Metrics(s), range, management, lineage, evidence)
<1>7. \A b : Researched(b) =
        R(Track(b), b.snapshot, ComparableRange(b), ManagementLineage(b), AnalysisLineage(b),
          EvidenceIds(b))
  BY Zenon DEF Researched
<1> HIDE DEF T, later, Statements
<1>8. \A track, adjusted, metrics, range, management, lineage, evidence, guidance :
        [Made(track, adjusted, metrics, range, management, lineage, evidence)
           EXCEPT !.track.guidance = guidance]
          = Made([track EXCEPT !.guidance = guidance], adjusted, metrics, range, management,
                 lineage, evidence)
  OBVIOUS
<1>11. \A track, adjusted, metrics, range, management, lineage, evidence, other :
        [Made(track, adjusted, metrics, range, management, lineage, evidence)
           EXCEPT !.management = other]
          = Made(track, adjusted, metrics, range, other, lineage, evidence)
  OBVIOUS
<1>12. \A track, adjusted, metrics, range, management, lineage, evidence :
        LET m == Made(track, adjusted, metrics, range, management, lineage, evidence)
        IN  m.track = track /\ m.management = management
  OBVIOUS
<1> HIDE DEF Made
<1>9. WithoutLater(x) =
        R([Track(x) EXCEPT !.guidance = CutAll(@, T)], x.snapshot, ComparableRange(x),
          Unnamed(ManagementLineage(x), later), AnalysisLineage(x), EvidenceIds(x))
  <2> DEFINE r == Researched(x)
             guidance == CutAll(r.track.guidance, T)
             management == Unnamed(r.management, later)
             half == [r EXCEPT !.track.guidance = guidance]
  <2>1. WithoutLater(x) = [r EXCEPT !.track.guidance = guidance, !.management = management]
    BY Zenon DEF WithoutLater, T, later
  <2> HIDE DEF r, guidance, management
  <2>2. WithoutLater(x) = [half EXCEPT !.management = management]
    BY <2>1
  <2>3. r = R(Track(x), x.snapshot, ComparableRange(x), ManagementLineage(x),
              AnalysisLineage(x), EvidenceIds(x))
    BY <1>7 DEF r
  <2>4. /\ guidance = CutAll(Track(x).guidance, T)
        /\ management = Unnamed(ManagementLineage(x), later)
    BY <1>12, <2>3 DEF guidance, management
  <2>5. half =
          R([Track(x) EXCEPT !.guidance = guidance], x.snapshot, ComparableRange(x),
            ManagementLineage(x), AnalysisLineage(x), EvidenceIds(x))
    BY <1>8, <2>3
  <2> HIDE DEF half
  <2>6. WithoutLater(x) =
          R([Track(x) EXCEPT !.guidance = guidance], x.snapshot, ComparableRange(x),
            management, AnalysisLineage(x), EvidenceIds(x))
    BY <1>11, <2>2, <2>5
  <2> QED
    BY <2>4, <2>6
<1> HIDE DEF R
<1>10. WithoutLater(x) = Researched(k)
  BY <1>2, <1>3, <1>4, <1>5, <1>6, <1>7, <1>9
<1> QED
  BY <1>10 DEF FreeOfHindsight, x, k

-----------------------------------------------------------------------------
(***************************************************************************)
(* The calculations that can be traced.  Founded is a table of layers; the *)
(* layers grow until nothing more can be added.                            *)
(***************************************************************************)
Layer(lineage, below) ==
  below \union
    Ids({c \in lineage : /\ c.calculations \subseteq below
                         /\ c.facts # {} \/ c.calculations # {} \/ c.assumptions # {}})
LayerTable(lineage) ==
  CHOOSE layer : layer = [n \in 0..Cardinality(lineage) |->
    Layer(lineage, IF n = 0 THEN {} ELSE layer[n - 1])]

LEMMA FoundedIsTable ==
  ASSUME NEW L PROVE Founded(L) = LayerTable(L)[Cardinality(L)]
BY Zenon DEF Founded, LayerTable, Layer

LEMMA TableExists ==
  ASSUME NEW L, NEW N \in Nat
  PROVE  \E layer : layer = [n \in 0..N |-> Layer(L, IF n = 0 THEN {} ELSE layer[n - 1])]
<1> DEFINE Fits(layer, m) ==
             \A n \in 0..m : layer[n] = Layer(L, IF n = 0 THEN {} ELSE layer[n - 1])
           S == {m \in 0..N : \E layer : Fits(layer, m)}
<1>1. 0 \in S
  <2> DEFINE start == [n \in 0..0 |-> Layer(L, {})]
  <2>1. Fits(start, 0)
    OBVIOUS
  <2> HIDE DEF start, Fits
  <2> QED
    BY <2>1
<1>2. ASSUME NEW k \in 1..N, k - 1 \in S PROVE k \in S
  <2>1. PICK layer : Fits(layer, k - 1)
    BY <1>2
  <2> DEFINE more == [n \in 0..k |-> IF n = k THEN Layer(L, layer[k - 1]) ELSE layer[n]]
  <2>2. ASSUME NEW n \in 0..k
        PROVE  more[n] = Layer(L, IF n = 0 THEN {} ELSE more[n - 1])
    <3>1. CASE n = k
      BY <3>1
    <3>2. CASE n # k
      <4>1. n \in 0..(k - 1) /\ (n # 0 => n - 1 \in 0..k /\ n - 1 # k)
        BY <3>2
      <4>2. layer[n] = Layer(L, IF n = 0 THEN {} ELSE layer[n - 1])
        BY <2>1, <4>1
      <4> QED
        BY <3>2, <4>1, <4>2
    <3> QED
      BY <3>1, <3>2
  <2> HIDE DEF more
  <2>3. Fits(more, k)
    BY <2>2
  <2> HIDE DEF Fits
  <2> QED
    BY <2>3
<1> HIDE DEF S
<1>3. N \in S
  BY <1>1, <1>2, PrefixInduction
<1>4. PICK layer : Fits(layer, N)
  BY <1>3 DEF S
<1> DEFINE table == [n \in 0..N |-> layer[n]]
<1>5. ASSUME NEW n \in 0..N
      PROVE  table[n] = Layer(L, IF n = 0 THEN {} ELSE table[n - 1])
  <2>1. n # 0 => n - 1 \in 0..N
    OBVIOUS
  <2> QED
    BY <1>4, <2>1
<1>6. table = [n \in 0..N |-> Layer(L, IF n = 0 THEN {} ELSE table[n - 1])]
  <2>1. table = [n \in 0..N |-> table[n]]
    OBVIOUS
  <2> HIDE DEF table
  <2> QED
    BY <1>5, <2>1
<1> QED
  BY <1>6

(* If nothing but the whole of a lineage is closed under adding what rests *)
(* on it, the whole lineage is founded.                                    *)
LEMMA ClosedIsWhole ==
  ASSUME NEW L, IsFiniteSet(L),
         \A U \in SUBSET Ids(L) : Layer(L, U) \subseteq U => U = Ids(L)
  PROVE  Founded(L) = Ids(L)
<1> DEFINE N == Cardinality(L)
           layer == LayerTable(L)
<1>1. N \in Nat
  BY FS_CardinalityType
<1>2. layer = [n \in 0..N |-> Layer(L, IF n = 0 THEN {} ELSE layer[n - 1])]
  BY <1>1, TableExists DEF LayerTable
<1>3. IsFiniteSet(Ids(L)) /\ Cardinality(Ids(L)) <= N
  <2> DEFINE f == [c \in L |-> c.id]
  <2>1. f \in Surjection(L, Ids(L))
    BY DEF Surjection, Ids
  <2> QED
    BY <2>1, FS_Surjection
<1>4. \A U \in SUBSET Ids(L) : Layer(L, U) \in SUBSET Ids(L) /\ U \subseteq Layer(L, U)
  BY DEF Layer, Ids
<1>5. \A U \in SUBSET Ids(L) :
        IsFiniteSet(U) /\ Cardinality(U) \in Nat /\ Cardinality(U) <= N
  <2> TAKE U \in SUBSET Ids(L)
  <2>1. IsFiniteSet(U) /\ Cardinality(U) <= Cardinality(Ids(L))
    BY <1>3, FS_Subset
  <2>2. Cardinality(U) \in Nat /\ Cardinality(Ids(L)) \in Nat
    BY <1>3, <2>1, FS_CardinalityType
  <2> HIDE DEF N
  <2> QED
    BY <1>1, <1>3, <2>1, <2>2
<1>6. ASSUME NEW U \in SUBSET Ids(L)
      PROVE  Layer(L, U) = Ids(L) \/ Cardinality(Layer(L, U)) > Cardinality(U)
  <2>1. CASE Layer(L, U) = U
    BY <2>1
  <2>2. CASE Layer(L, U) # U
    <3> DEFINE V == Layer(L, U)
    <3>1. V \in SUBSET Ids(L) /\ U \in SUBSET V /\ V # U
      BY <1>4, <2>2
    <3> HIDE DEF V
    <3>2. Cardinality(U) <= Cardinality(V) /\ Cardinality(U) # Cardinality(V)
      BY <1>5, <3>1, FS_Subset
    <3>3. Cardinality(V) > Cardinality(U)
      BY <1>5, <3>1, <3>2
    <3> QED
      BY <3>3 DEF V
  <2> QED
    BY <2>1, <2>2
<1> HIDE DEF N, layer
<1> DEFINE S == {n \in 0..N : /\ layer[n] \in SUBSET Ids(L)
                              /\ layer[n] = Ids(L) \/ Cardinality(layer[n]) > n}
<1>7. 0 \in S
  <2>1. layer[0] = Layer(L, {})
    BY <1>1, <1>2
  <2>2. Cardinality({}) = 0
    BY FS_EmptySet
  <2> QED
    BY <1>1, <1>4, <1>6, <2>1, <2>2
<1>8. ASSUME NEW k \in 1..N, k - 1 \in S PROVE k \in S
  <2> DEFINE U == layer[k - 1]
  <2>1. /\ U \in SUBSET Ids(L) /\ (U = Ids(L) \/ Cardinality(U) > k - 1) /\ k \in 0..N
    BY <1>8
  <2>2. layer[k] = Layer(L, U)
    BY <1>1, <1>2
  <2> HIDE DEF U
  <2>3. CASE U = Ids(L)
    BY <1>4, <2>1, <2>2, <2>3
  <2>4. CASE Cardinality(U) > k - 1
    <3>1. Layer(L, U) \in SUBSET Ids(L)
      BY <1>4, <2>1
    <3>2. Cardinality(U) \in Nat /\ Cardinality(Layer(L, U)) \in Nat
      BY <1>5, <2>1, <3>1
    <3> QED
      BY <1>6, <2>1, <2>2, <2>4, <3>1, <3>2
  <2> QED
    BY <2>1, <2>3, <2>4
<1> HIDE DEF S
<1>9. N \in S
  <2>1. \A k \in 0..N : k \in S
    BY <1>1, <1>7, <1>8, PrefixInduction
  <2> QED
    BY <1>1, <2>1
<1>10. layer[N] = Ids(L)
  BY <1>1, <1>5, <1>9 DEF S
<1> QED
  BY <1>10, FoundedIsTable DEF N, layer

-----------------------------------------------------------------------------
(* A lineage is finite.                                                    *)
LEMMA SixAreFinite ==
  \A a, b, c, d, e, f : /\ IsFiniteSet({a}) /\ IsFiniteSet({a, b}) /\ IsFiniteSet({a, b, c})
                        /\ IsFiniteSet({a, b, c, d}) /\ IsFiniteSet({a, b, c, d, e, f})
<1> TAKE a, b, c, d, e, f
<1>1. IsFiniteSet({a})
  BY FS_Singleton
<1>2. IsFiniteSet({a} \union {b})
  BY <1>1, FS_AddElement
<1>3. IsFiniteSet(({a} \union {b}) \union {c})
  BY <1>2, FS_AddElement
<1>4. IsFiniteSet((({a} \union {b}) \union {c}) \union {d})
  BY <1>3, FS_AddElement
<1>5. IsFiniteSet(((({a} \union {b}) \union {c}) \union {d}) \union {e})
  BY <1>4, FS_AddElement
<1>6. IsFiniteSet((((({a} \union {b}) \union {c}) \union {d}) \union {e}) \union {f})
  BY <1>5, FS_AddElement
<1>7. /\ {a, b} = {a} \union {b} /\ {a, b, c} = ({a} \union {b}) \union {c}
      /\ {a, b, c, d} = (({a} \union {b}) \union {c}) \union {d}
      /\ {a, b, c, d, e, f} = (((({a} \union {b}) \union {c}) \union {d}) \union {e}) \union {f}
  OBVIOUS
<1> QED
  BY <1>1, <1>2, <1>3, <1>4, <1>6, <1>7

LEMMA FiniteUnion ==
  ASSUME NEW S, NEW T, IsFiniteSet(S), IsFiniteSet(T)
  PROVE  IsFiniteSet(S \union T)
BY FS_Union

LEMMA FiniteFamily ==
  ASSUME NEW S, IsFiniteSet(S), NEW f, \A a \in S : IsFiniteSet(f[a])
  PROVE  IsFiniteSet(UNION {f[a] : a \in S})
<1>1. IsFiniteSet({f[a] : a \in S})
  BY FiniteImage
<1> QED
  BY <1>1, FS_UNION

LEMMA MetricsAreFinite == ASSUME NEW s PROVE IsFiniteSet(Metrics(s))
<1> DEFINE D == {"eps_growth", "fcf_growth", "operating_leverage", "roic", "incremental_roic",
                 "roe", "asset_turns", "reinvestment_rate", "cash_conversion",
                 "cfo_to_net_income", "accrual_ratio", "cash_tax_rate", "debt_to_ebitda",
                 "interest_coverage", "current_ratio", "liquidity_runway_years",
                 "dividend_payout"}
           d == Denominator(Adjusted(s, Current(s)), Adjusted(s, Previous(s)))
<1>1. DOMAIN d = D
  BY DEF Denominator
<1>2. IsFiniteSet(D)
  <2>1. D = {"eps_growth", "fcf_growth", "operating_leverage", "roic", "incremental_roic", "roe"}
              \union {"asset_turns", "reinvestment_rate", "cash_conversion",
                      "cfo_to_net_income", "accrual_ratio", "cash_tax_rate"}
              \union {"debt_to_ebitda", "interest_coverage", "current_ratio",
                      "liquidity_runway_years", "dividend_payout", "roe"}
    OBVIOUS
  <2> HIDE DEF D
  <2> QED
    BY <2>1, SixAreFinite, FiniteUnion
<1>3. IsFiniteSet(AlwaysDefined)
  <2>1. AlwaysDefined =
          {"revenue_growth", "revenue_cagr", "gross_margin", "operating_margin",
           "ebitda_margin", "margin_change"}
          \union {"working_capital_to_revenue", "working_capital_change", "sbc_dilution",
                  "capex_intensity", "net_debt", "debt_change"}
          \union {"net_buyback_yield", "dividend_yield", "acquisition_intensity",
                  "fcf_per_share"}
    BY DEF AlwaysDefined
  <2> QED
    BY <2>1, SixAreFinite, FiniteUnion
<1>4. Metrics(s) = AlwaysDefined \union {m \in DOMAIN d : d[m] # 0}
                     \union IF Earlier(s) = {} THEN {} ELSE {"growth_acceleration"}
  BY Zenon DEF Metrics
<1> HIDE DEF D, d
<1>5. IsFiniteSet({m \in DOMAIN d : d[m] # 0})
  BY <1>1, <1>2, FS_Subset
<1>6. IsFiniteSet(IF Earlier(s) = {} THEN {} ELSE {"growth_acceleration"})
  BY FS_EmptySet, FS_Singleton
<1>7. IsFiniteSet(AlwaysDefined \union {m \in DOMAIN d : d[m] # 0})
  BY <1>3, <1>5, FiniteUnion
<1> QED
  BY <1>4, <1>6, <1>7, FiniteUnion

LEMMA StatementsAreFinite ==
  ASSUME NEW s, Facts(s)
  PROVE  /\ IsFiniteSet(OneTime(s)) /\ IsFiniteSet(Periods(s))
         /\ IsFiniteSet(StatementLineage(s))
<1>1. IsFiniteSet(OneTime(s)) /\ IsFiniteSet(Continuing(s))
  <2>1. OneTime(s) \subseteq s.facts /\ Continuing(s) \subseteq s.facts
    BY DEF OneTime, Continuing
  <2> QED
    BY <2>1, FS_Subset DEF Facts
<1>2. IsFiniteSet(Periods(s))
  <2> DEFINE f == [c \in Continuing(s) |-> c.period]
  <2>1. Periods(s) = {f[c] : c \in Continuing(s)}
    BY DEF Periods
  <2> HIDE DEF f
  <2> QED
    BY <1>1, <2>1, FiniteImage
<1>3. IsFiniteSet(DerivedLineage(s))
  <2> DEFINE f == [p \in Periods(s) |->
         {Calculation(<<"normalize", "", p, "operating_income">>, "operating_income",
            GroundOf(s, p, "operating_income",
                     {"revenue", "cost_of_revenue", "operating_expenses"}), {}, {}),
          Calculation(<<"normalize", "", p, "working_capital">>, "working_capital",
            GroundOf(s, p, "working_capital", {"current_assets", "current_liabilities"}),
            {}, {})}]
  <2>1. \A p \in Periods(s) : IsFiniteSet(f[p])
    BY SixAreFinite
  <2>2. DerivedLineage(s) = UNION {f[p] : p \in Periods(s)}
    BY DEF DerivedLineage
  <2> HIDE DEF f
  <2> QED
    BY <1>2, <2>1, <2>2, FiniteFamily
<1>4. IsFiniteSet(AdjustmentLineage(s))
  <2> DEFINE P == {q \in Periods(s) : OperatingAdjustments(s, q) # {}}
             f == [g \in OneTime(s) |->
               Calculation(AdjustmentId(g), Line[g.concept], {g.id}, {},
                           {"normalization_adjustment"})]
             h == [p \in P |->
               Calculation(<<"normalize-adjusted", "", p, "operating_income">>,
                 "operating_income", {},
                 {<<"normalize", "", p, "operating_income">>}
                   \union {AdjustmentId(g) : g \in OperatingAdjustments(s, p)}, {})]
  <2>1. AdjustmentLineage(s) = {f[g] : g \in OneTime(s)} \union {h[p] : p \in P}
    BY DEF AdjustmentLineage
  <2>2. IsFiniteSet(P)
    BY <1>2, FS_Subset
  <2> HIDE DEF f, h, P
  <2>3. IsFiniteSet({f[g] : g \in OneTime(s)}) /\ IsFiniteSet({h[p] : p \in P})
    BY <1>1, <2>2, FiniteImage
  <2> QED
    BY <2>1, <2>3, FiniteUnion
<1> QED
  BY <1>1, <1>2, <1>3, <1>4, FiniteUnion DEF StatementLineage

LEMMA MetricLineageIsFinite == ASSUME NEW s PROVE IsFiniteSet(MetricLineage(s))
<1> DEFINE f == [name \in Metrics(s) |->
      Calculation(MetricId(s, name), name, UNION {FactIds(s, p, Lines(s, p)) : p \in Periods(s)},
                  {AdjustmentId(g) : g \in OneTime(s)},
                  IF name \in {"net_buyback_yield", "dividend_yield"}
                  THEN {"market_price"} ELSE {})]
<1>1. MetricLineage(s) = {f[name] : name \in Metrics(s)}
  BY DEF MetricLineage
<1> HIDE DEF f
<1> QED
  BY <1>1, MetricsAreFinite, FiniteImage

LEMMA ForecastsAreFinite ==
  ASSUME NEW x, NEW scenario, IsFiniteSet(x.inputs.drivers)
  PROVE  /\ IsFiniteSet(Years(x, scenario))
         /\ IsFiniteSet(ForecastLineage(x, scenario)) /\ IsFiniteSet(DcfLineage(x, scenario))
<1>1. IsFiniteSet(Years(x, scenario))
  <2> DEFINE D == Drivers(x, scenario)
             f == [d \in D |-> d.year]
  <2>1. Years(x, scenario) = {f[d] : d \in D}
    BY DEF Years
  <2>2. IsFiniteSet(D)
    BY FS_Subset DEF Drivers
  <2> HIDE DEF D, f
  <2> QED
    BY <2>1, <2>2, FiniteImage
<1>2. IsFiniteSet(ForecastIds(scenario, Years(x, scenario)))
  <2> DEFINE g == [year \in Years(x, scenario) |->
               {<<"operating-forecast", scenario, year, "revenue">>,
                <<"operating-forecast", scenario, year, "operating_income">>,
                <<"operating-forecast", scenario, year, "nopat">>,
                <<"operating-forecast", scenario, year, "reinvestment">>,
                <<"operating-forecast", scenario, year, "fcff">>,
                <<"operating-forecast", scenario, year, "diluted_shares">>}]
  <2>1. \A year \in Years(x, scenario) : IsFiniteSet(g[year])
    BY SixAreFinite
  <2>2. ForecastIds(scenario, Years(x, scenario)) = UNION {g[year] : year \in Years(x, scenario)}
    BY DEF ForecastIds, ForecastOutput
  <2> HIDE DEF g
  <2> QED
    BY <1>1, <2>1, <2>2, FiniteFamily
<1>3. IsFiniteSet(ForecastLineage(x, scenario))
  <2> DEFINE I == ForecastIds(scenario, Years(x, scenario))
             f == [id \in I |-> Calculation(id, id[4], {},
                    LET before == {y \in Years(x, scenario) : y < id[3]}
                    IN  IF before = {} THEN Ids(StatementLineage(x.snapshot))
                        ELSE ForecastIds(scenario, {Max(before)}), {"drivers"})]
  <2>1. ForecastLineage(x, scenario) = {f[id] : id \in I}
    BY DEF ForecastLineage
  <2> HIDE DEF f
  <2> QED
    BY <1>2, <2>1, FiniteImage
<1>4. IsFiniteSet(DcfIds(scenario, DcfOutput))
  <2> DEFINE f == [output \in DcfOutput |-> <<"dcf", scenario, 0, output>>]
  <2>1. DcfIds(scenario, DcfOutput) = {f[output] : output \in DcfOutput}
    BY DEF DcfIds
  <2>2. IsFiniteSet(DcfOutput)
    BY SixAreFinite DEF DcfOutput
  <2> HIDE DEF f
  <2> QED
    BY <2>1, <2>2, FiniteImage
<1>5. IsFiniteSet(Grid(x, scenario))
  <2> DEFINE rate == x.inputs.discount
             growth == x.inputs.growth[scenario]
             R == {rate + (-10), rate + 0, rate + 10}
             G == {growth + (-5), growth + 0, growth + 5}
  <2>1. IsFiniteSet(R) /\ IsFiniteSet(G)
    BY SixAreFinite
  <2>2. Grid(x, scenario) \subseteq R \X G
    BY DEF Grid, Points
  <2> HIDE DEF R, G
  <2>3. IsFiniteSet(R \X G)
    BY <2>1, FS_Product
  <2> QED
    BY <2>2, <2>3, FS_Subset
<1>6. IsFiniteSet(DcfLineage(x, scenario))
  <2> DEFINE I == DcfIds(scenario, DcfOutput)
             f == [id \in I |->
                    Calculation(id, id[4], {}, ForecastIds(scenario, Years(x, scenario)),
                      {"discount_rate", "terminal_assumptions", "net_debt", "diluted_shares"})]
             h == [p \in Grid(x, scenario) |-> PointLineage(scenario, Years(x, scenario), p)]
  <2>1. DcfLineage(x, scenario) = {f[id] : id \in I} \union UNION {h[p] : p \in Grid(x, scenario)}
    BY DEF DcfLineage
  <2>2. \A p \in Grid(x, scenario) : IsFiniteSet(h[p])
    BY SixAreFinite DEF PointLineage
  <2> HIDE DEF f, h, I
  <2>3. IsFiniteSet({f[id] : id \in I})
    BY <1>4, FiniteImage DEF I
  <2>4. IsFiniteSet(UNION {h[p] : p \in Grid(x, scenario)})
    BY <1>5, <2>2, FiniteFamily
  <2> QED
    BY <2>1, <2>3, <2>4, FiniteUnion
<1> QED
  BY <1>1, <1>3, <1>6

LEMMA RestIsFinite ==
  ASSUME NEW x
  PROVE  /\ IsFiniteSet(ManagementLineage(x)) /\ IsFiniteSet(ValuationLineage(x))
         /\ IsFiniteSet(ScoreLineage(x)) /\ IsFiniteSet(AlphaLineage(x))
<1>1. IsFiniteSet(ManagementLineage(x))
  <2> DEFINE N == {"dilution", "disclosure_quality", "guidance_revision_count",
                   "guidance_hit_rate", "guidance_bias", "guidance_error"}
                  \union {"acquisition", "buyback", "capital_allocation_promise"}
             m == [name \in N |-> ManagementId(name)]
             I == ManagementIds(x)
             f == [id \in I |->
                    IF id[4] = "dilution"
                    THEN Calculation(id, id[4], {}, MetricIds(x.snapshot), {})
                    ELSE Calculation(id, id[4], {}, {},
                           IF id[4] \in OnActions THEN ActionAssumptions(x)
                           ELSE GuidanceAssumptions(x))]
  <2>1. I \subseteq {m[name] : name \in N}
    BY DEF ManagementIds
  <2>2. ManagementLineage(x) = {f[id] : id \in I}
    BY DEF ManagementLineage
  <2>3. IsFiniteSet(N)
    BY SixAreFinite, FiniteUnion
  <2> HIDE DEF N, m, I, f
  <2>4. IsFiniteSet({m[name] : name \in N})
    BY <2>3, FiniteImage
  <2>5. IsFiniteSet(I)
    BY <2>1, <2>4, FS_Subset
  <2> QED
    BY <2>2, <2>5, FiniteImage
<1>2. IsFiniteSet(ValuationLineage(x))
  <2> DEFINE f == [id \in ComparableIds |->
                    Calculation(id, "comparable_value", {}, MetricIds(x.snapshot), {"peers"})]
             h == [id \in ReverseIds |->
                    Calculation(id, id[4], {}, DcfIds("base", DcfOutput),
                      {"discount_rate", "terminal_assumptions", "net_debt", "diluted_shares"})]
             pair == {Calculation(ScenarioId("probability_weighted_value"),
                        "probability_weighted_value", {},
                        UNION {DcfIds(scenario, {"value_per_share"}) : scenario \in Scenario},
                        {"scenario_probabilities"}),
                      Calculation(ScenarioId("implied_return"), "scenario_implied_return", {},
                        {ScenarioId("probability_weighted_value")}, {"market_price"})}
  <2>1. ValuationLineage(x) = {f[id] : id \in ComparableIds} \union {h[id] : id \in ReverseIds}
                                \union pair
    BY DEF ValuationLineage
  <2>2. /\ ComparableIds = {<<"comparables", "", 0, "low">>, <<"comparables", "", 0, "mid">>,
                            <<"comparables", "", 0, "high">>}
        /\ ReverseIds = {ReverseId("revenue_growth"), ReverseId("growth_duration"),
                         ReverseId("operating_margin")}
    BY DEF ComparableIds, ReverseIds
  <2>3. IsFiniteSet(ComparableIds) /\ IsFiniteSet(ReverseIds) /\ IsFiniteSet(pair)
    BY <2>2, SixAreFinite
  <2> HIDE DEF f, h, pair
  <2>4. IsFiniteSet({f[id] : id \in ComparableIds}) /\ IsFiniteSet({h[id] : id \in ReverseIds})
    BY <2>3, FiniteImage
  <2> QED
    BY <2>1, <2>3, <2>4, FiniteUnion
<1>3. IsFiniteSet(ScoreLineage(x))
  <2> DEFINE f == [name \in DOMAIN ScoredMetric |->
                    Calculation(Score(name), name, {}, ScoreInputs(x, name), {"inputs"})]
             composite == {Calculation(Score("composite"), "fundamental_composite", {}, ScoreIds,
                                       {"inputs"})}
  <2>1. ScoreLineage(x) = {f[name] : name \in DOMAIN ScoredMetric} \union composite
    BY DEF ScoreLineage
  <2> DEFINE A == {"quality", "growth", "profitability", "accounting", "balance_sheet",
                   "cash_conversion"}
             B == {"capital_allocation", "management", "valuation", "expectations_gap",
                   "catalyst", "uncertainty"}
  <2>2. DOMAIN ScoredMetric = A \union B
    BY DEF ScoredMetric
  <2>3. IsFiniteSet(A) /\ IsFiniteSet(B) /\ IsFiniteSet(composite)
    BY SixAreFinite
  <2> HIDE DEF f, composite, A, B
  <2>4. IsFiniteSet(DOMAIN ScoredMetric)
    BY <2>2, <2>3, FiniteUnion
  <2>5. IsFiniteSet({f[name] : name \in DOMAIN ScoredMetric})
    BY <2>4, FiniteImage
  <2> QED
    BY <2>1, <2>3, <2>5, FiniteUnion
<1>4. IsFiniteSet(AlphaLineage(x))
  BY SixAreFinite DEF AlphaLineage
<1> QED
  BY <1>1, <1>2, <1>3, <1>4

LEMMA LineageIsFinite ==
  ASSUME NEW x, Facts(x.snapshot), IsFiniteSet(x.inputs.drivers)
  PROVE  IsFiniteSet(Lineage(x))
<1> DEFINE f == [s \in Scenario |-> ForecastLineage(x, s) \union DcfLineage(x, s)]
           C == UNION {f[s] : s \in Scenario}
<1>1. Lineage(x) = StatementLineage(x.snapshot) \union MetricLineage(x.snapshot)
                     \union ManagementLineage(x) \union ValuationLineage(x)
                     \union ScoreLineage(x) \union AlphaLineage(x) \union C
  BY DEF Lineage, AnalysisLineage
<1>2. IsFiniteSet(C)
  <2>1. IsFiniteSet(Scenario)
    BY SixAreFinite DEF Scenario
  <2>2. \A s \in Scenario : IsFiniteSet(f[s])
    BY ForecastsAreFinite, FiniteUnion
  <2> HIDE DEF f
  <2> QED
    BY <2>1, <2>2, FiniteFamily
<1> HIDE DEF C
<1> QED
  BY <1>1, <1>2, StatementsAreFinite, MetricLineageIsFinite, RestIsFinite, FiniteUnion

-----------------------------------------------------------------------------
(* A set of calculations that is closed under adding what rests on it has  *)
(* the whole lineage: calculator by calculator, and year by year.          *)
Rests(L, U) ==
  \A c \in L : /\ c.calculations \subseteq U
               /\ c.facts # {} \/ c.calculations # {} \/ c.assumptions # {}
               => c.id \in U

LEMMA ClosedRests ==
  ASSUME NEW L, NEW U, Layer(L, U) \subseteq U
  PROVE  Rests(L, U)
BY DEF Rests, Layer, Ids

LEMMA CalculationIsRecord ==
  \A id, output, facts, calculations, assumptions :
    LET c == Calculation(id, output, facts, calculations, assumptions)
    IN  /\ c.id = id /\ c.facts = facts /\ c.calculations = calculations
        /\ c.assumptions = assumptions
BY DEF Calculation

LEMMA StatementsRest ==
  ASSUME NEW s, Facts(s), NEW U, Rests(StatementLineage(s), U),
         \A p \in Periods(s) : Required \subseteq Lines(s, p)
  PROVE  Ids(StatementLineage(s)) \subseteq U
<1> DEFINE Income(p) ==
             Calculation(<<"normalize", "", p, "operating_income">>, "operating_income",
               GroundOf(s, p, "operating_income",
                        {"revenue", "cost_of_revenue", "operating_expenses"}), {}, {})
           Working(p) ==
             Calculation(<<"normalize", "", p, "working_capital">>, "working_capital",
               GroundOf(s, p, "working_capital", {"current_assets", "current_liabilities"}),
               {}, {})
           Adjustment(f) ==
             Calculation(AdjustmentId(f), Line[f.concept], {f.id}, {},
                         {"normalization_adjustment"})
           P == {q \in Periods(s) : OperatingAdjustments(s, q) # {}}
           Parts(p) == {<<"normalize", "", p, "operating_income">>}
                         \union {AdjustmentId(f) : f \in OperatingAdjustments(s, p)}
           Amended(p) ==
             Calculation(<<"normalize-adjusted", "", p, "operating_income">>,
                         "operating_income", {}, Parts(p), {})
           pairs == {{Income(p), Working(p)} : p \in Periods(s)}
<1>1. DerivedLineage(s) = UNION pairs
  BY Zenon DEF DerivedLineage
<1>2. AdjustmentLineage(s) = {Adjustment(f) : f \in OneTime(s)} \union {Amended(p) : p \in P}
  BY Zenon DEF AdjustmentLineage
<1>3. ASSUME NEW p, NEW line, NEW parts, parts # {}
      PROVE  GroundOf(s, p, line, parts) # {}
  BY <1>3 DEF GroundOf, FactIds
<1>4. \A p : /\ Income(p).id = <<"normalize", "", p, "operating_income">>
              /\ Income(p).calculations = {} /\ Income(p).facts # {}
  BY <1>3 DEF Calculation
<1>5. \A p : /\ Working(p).calculations = {} /\ Working(p).facts # {}
  BY <1>3 DEF Calculation
<1>6. \A f : /\ Adjustment(f).id = AdjustmentId(f)
              /\ Adjustment(f).calculations = {} /\ Adjustment(f).facts # {}
  BY DEF Calculation
<1>7. \A p : Amended(p).calculations = Parts(p) /\ Parts(p) # {}
  BY DEF Calculation
<1> HIDE DEF Income, Working, Adjustment, Amended
<1>8. \A c : c \in UNION pairs <=> \E p \in Periods(s) : c = Income(p) \/ c = Working(p)
  OBVIOUS
<1> HIDE DEF pairs
<1>9. \A c \in StatementLineage(s) :
        \/ \E p \in Periods(s) : c = Income(p) \/ c = Working(p)
        \/ \E f \in OneTime(s) : c = Adjustment(f)
        \/ \E p \in P : c = Amended(p)
  BY <1>1, <1>2, <1>8 DEF StatementLineage
<1>10. \A p \in Periods(s) : Income(p) \in StatementLineage(s)
  BY <1>1, <1>8 DEF StatementLineage
<1>11. \A f \in OneTime(s) : Adjustment(f) \in StatementLineage(s)
  BY <1>2 DEF StatementLineage
<1>12. \A p \in Periods(s) : <<"normalize", "", p, "operating_income">> \in U
  <2> TAKE p \in Periods(s)
  <2>1. Income(p).id \in U
    BY <1>4, <1>10 DEF Rests
  <2> QED
    BY <1>4, <2>1, Zenon
<1>13. \A f \in OneTime(s) : AdjustmentId(f) \in U
  <2> TAKE f \in OneTime(s)
  <2>1. Adjustment(f).id \in U
    BY <1>6, <1>11 DEF Rests
  <2> QED
    BY <1>6, <2>1, Zenon
<1>14. \A p \in P : Parts(p) \subseteq U
  BY <1>12, <1>13 DEF OperatingAdjustments
<1> HIDE DEF Parts, P
<1>15. \A c \in StatementLineage(s) :
         /\ c.calculations \subseteq U
         /\ c.facts # {} \/ c.calculations # {} \/ c.assumptions # {}
  BY <1>4, <1>5, <1>6, <1>7, <1>9, <1>14
<1> QED
  BY <1>15 DEF Rests, Ids

LEMMA MetricsRest ==
  ASSUME NEW s, NEW U, Rests(MetricLineage(s), U), Ids(StatementLineage(s)) \subseteq U,
         Periods(s) # {}
  PROVE  /\ MetricIds(s) \subseteq U /\ Ids(MetricLineage(s)) = MetricIds(s)
<1> DEFINE F == UNION {FactIds(s, p, Lines(s, p)) : p \in Periods(s)}
           A == {AdjustmentId(f) : f \in OneTime(s)}
           P(name) == IF name \in {"net_buyback_yield", "dividend_yield"}
                      THEN {"market_price"} ELSE {}
           Metric(name) == Calculation(MetricId(s, name), name, F, A, P(name))
<1>1. MetricLineage(s) = {Metric(name) : name \in Metrics(s)}
  BY Zenon DEF MetricLineage
<1>2. F # {}
  <2>1. PICK f \in Continuing(s) : TRUE
    BY DEF Periods
  <2>2. f.period \in Periods(s) /\ Line[f.concept] \in Lines(s, f.period)
    BY DEF Periods, Lines
  <2>3. Selected(s, f.period, Line[f.concept]).id \in FactIds(s, f.period, Lines(s, f.period))
    BY <2>2 DEF FactIds
  <2>4. FactIds(s, f.period, Lines(s, f.period)) \subseteq F
    <3> HIDE DEF F
    <3>1. \A p \in Periods(s) : FactIds(s, p, Lines(s, p)) \subseteq F
      BY DEF F
    <3> QED
      BY <2>2, <3>1
  <2> QED
    BY <2>3, <2>4
<1>3. A \subseteq U
  <2> SUFFICES ASSUME NEW f \in OneTime(s) PROVE AdjustmentId(f) \in U
    OBVIOUS
  <2> DEFINE c == Calculation(AdjustmentId(f), Line[f.concept], {f.id}, {},
                              {"normalization_adjustment"})
  <2>1. c \in StatementLineage(s)
    BY Zenon DEF StatementLineage, AdjustmentLineage
  <2>2. c.id = AdjustmentId(f)
    BY DEF Calculation
  <2> HIDE DEF c
  <2> QED
    BY <2>1, <2>2 DEF Ids
<1>4. \A name : /\ Metric(name).id = MetricId(s, name) /\ Metric(name).facts = F
                /\ Metric(name).calculations = A
  BY DEF Calculation
<1> HIDE DEF F, A, Metric
<1>5. MetricIds(s) \subseteq U
  BY <1>1, <1>2, <1>3, <1>4 DEF MetricIds, Rests
<1>6. Ids(MetricLineage(s)) = MetricIds(s)
  BY <1>1, <1>4 DEF MetricIds, Ids
<1> QED
  BY <1>5, <1>6

LEMMA YearsRest ==
  ASSUME NEW x, NEW scenario, NEW U, Rests(ForecastLineage(x, scenario), U),
         Ids(StatementLineage(x.snapshot)) \subseteq U,
         IsFiniteSet(Years(x, scenario)), Years(x, scenario) \subseteq Nat
  PROVE  /\ ForecastIds(scenario, Years(x, scenario)) \subseteq U
         /\ Ids(ForecastLineage(x, scenario)) = ForecastIds(scenario, Years(x, scenario))
<1> DEFINE Y == Years(x, scenario)
           B(year) == {y \in Y : y < year}
           C(year) == IF B(year) = {} THEN Ids(StatementLineage(x.snapshot))
                      ELSE ForecastIds(scenario, {Max(B(year))})
           Forecast(id) == Calculation(id, id[4], {}, C(id[3]), {"drivers"})
<1>1. ForecastLineage(x, scenario) = {Forecast(id) : id \in ForecastIds(scenario, Y)}
  BY Zenon DEF ForecastLineage
<1>6. \A id : /\ Forecast(id).id = id /\ Forecast(id).calculations = C(id[3])
               /\ Forecast(id).assumptions # {}
  BY DEF Calculation
<1> HIDE DEF Forecast
<1>2. ASSUME NEW year \in Y, C(year) \subseteq U
      PROVE  ForecastIds(scenario, {year}) \subseteq U
  <2> SUFFICES ASSUME NEW id \in ForecastIds(scenario, {year}) PROVE id \in U
    OBVIOUS
  <2>1. id \in ForecastIds(scenario, Y) /\ id[3] = year
    BY DEF ForecastIds
  <2> HIDE DEF C, Y
  <2>2. Forecast(id) \in ForecastLineage(x, scenario)
    BY <1>1, <2>1
  <2>3. Forecast(id).calculations = C(year)
    BY <1>6, <2>1
  <2>4. Forecast(id).id \in U
    BY <1>2, <1>6, <2>2, <2>3 DEF Rests
  <2> QED
    BY <1>6, <2>4
<1> DEFINE T == {year \in Y : ~(ForecastIds(scenario, {year}) \subseteq U)}
<1>3. T = {}
  <2> SUFFICES ASSUME T # {} PROVE FALSE
    OBVIOUS
  <2>1. PICK year \in T : \A other \in T : year <= other
    BY LeastNumber
  <2>2. CASE B(year) = {}
    <3>1. C(year) \subseteq U
      BY <2>2
    <3> HIDE DEF C
    <3> QED
      BY <1>2, <3>1
  <2>3. CASE B(year) # {}
    <3>1. IsFiniteSet(B(year)) /\ B(year) \subseteq Int
      BY FS_Subset
    <3> DEFINE last == Max(B(year))
    <3>2. last \in B(year)
      <4>1. \E m \in B(year) : \A y \in B(year) : m >= y
        <5> HIDE DEF B
        <5>1. PICK m \in B(year) : \A y \in B(year) : y <= m
          BY <2>3, <3>1, GreatestNumber
        <5> QED
          BY <3>1, <5>1
      <4> QED
        BY <4>1 DEF Max
    <3> HIDE DEF last
    <3>3. last \in Y /\ last < year
      BY <3>2
    <3>4. last \notin T
      BY <2>1, <3>3
    <3>5. ForecastIds(scenario, {last}) \subseteq U
      BY <3>3, <3>4
    <3>6. C(year) \subseteq U
      BY <2>3, <3>5 DEF last
    <3> HIDE DEF C
    <3> QED
      BY <1>2, <3>6
  <2> QED
    BY <2>2, <2>3
<1>4. ForecastIds(scenario, Y) \subseteq U
  <2> SUFFICES ASSUME NEW year \in Y, NEW output \in ForecastOutput
               PROVE  <<"operating-forecast", scenario, year, output>> \in U
    BY DEF ForecastIds
  <2>1. ForecastIds(scenario, {year}) \subseteq U
    BY <1>3
  <2>2. <<"operating-forecast", scenario, year, output>> \in ForecastIds(scenario, {year})
    BY DEF ForecastIds
  <2> QED
    BY <2>1, <2>2
<1>5. Ids(ForecastLineage(x, scenario)) = ForecastIds(scenario, Y)
  <2> HIDE DEF C, Y
  <2> QED
    BY <1>1, <1>6 DEF Ids
<1> QED
  BY <1>4, <1>5

LEMMA PointsRest ==
  ASSUME NEW scenario, NEW years, NEW p, NEW U, Rests(PointLineage(scenario, years, p), U),
         ForecastIds(scenario, years) \subseteq U
  PROVE  Ids(PointLineage(scenario, years, p)) \subseteq U
<1> DEFINE rate == PointId(scenario, p, "discount_rate")
           growth == PointId(scenario, p, "terminal_growth")
           value == PointId(scenario, p, "enterprise_value")
           equity == PointId(scenario, p, "equity_value_per_share")
           below == ForecastIds(scenario, years) \union {rate, growth}
           c1 == Calculation(rate, "point", {}, {}, {"discount_rate"})
           c2 == Calculation(growth, "point", {}, {}, {"terminal_assumptions"})
           c3 == Calculation(value, "point", {}, below, {"terminal_assumptions"})
           c4 == Calculation(equity, "point", {}, {value}, {"net_debt", "diluted_shares"})
<1>1. PointLineage(scenario, years, p) = {c1, c2, c3, c4}
  BY Zenon DEF PointLineage
<1> HIDE DEF rate, growth, value, equity
<1>2. /\ c1.id = rate /\ c1.calculations = {} /\ c1.assumptions # {}
      /\ c2.id = growth /\ c2.calculations = {} /\ c2.assumptions # {}
      /\ c3.id = value /\ c3.calculations = below /\ c3.assumptions # {}
      /\ c4.id = equity /\ c4.calculations = {value} /\ c4.assumptions # {}
  BY DEF Calculation
<1> HIDE DEF c1, c2, c3, c4
<1>3. rate \in U /\ growth \in U
  BY <1>1, <1>2 DEF Rests
<1>4. value \in U
  BY <1>1, <1>2, <1>3 DEF Rests
<1>5. equity \in U
  BY <1>1, <1>2, <1>4 DEF Rests
<1> QED
  BY <1>1, <1>2, <1>3, <1>4, <1>5 DEF Ids

LEMMA DiscountedRests ==
  ASSUME NEW x, NEW scenario, NEW U, Rests(DcfLineage(x, scenario), U),
         ForecastIds(scenario, Years(x, scenario)) \subseteq U
  PROVE  DcfIds(scenario, DcfOutput) \subseteq U /\ Ids(DcfLineage(x, scenario)) \subseteq U
<1> DEFINE years == Years(x, scenario)
           Value(id) == Calculation(id, id[4], {}, ForecastIds(scenario, years),
             {"discount_rate", "terminal_assumptions", "net_debt", "diluted_shares"})
           P == [p \in Grid(x, scenario) |-> PointLineage(scenario, years, p)]
           cases == {P[p] : p \in Grid(x, scenario)}
           values == {Value(id) : id \in DcfIds(scenario, DcfOutput)}
<1>1. DcfLineage(x, scenario) = values \union UNION cases
  BY DEF DcfLineage
<1>2. \A id : /\ Value(id).id = id /\ Value(id).calculations = ForecastIds(scenario, years)
              /\ Value(id).assumptions # {}
  BY DEF Calculation
<1> HIDE DEF Value, years
<1>3. DcfIds(scenario, DcfOutput) \subseteq U
  BY <1>1, <1>2 DEF Rests, years
<1>4. ASSUME NEW p \in Grid(x, scenario)
      PROVE  Ids(PointLineage(scenario, years, p)) \subseteq U
  <2>1. PointLineage(scenario, years, p) \in cases
    OBVIOUS
  <2>2. PointLineage(scenario, years, p) \subseteq DcfLineage(x, scenario)
    BY <1>1, <2>1
  <2>3. Rests(PointLineage(scenario, years, p), U)
    BY <2>2 DEF Rests
  <2> QED
    BY <2>3, PointsRest DEF years
<1>5. \A c \in UNION cases : \E p \in Grid(x, scenario) : c \in PointLineage(scenario, years, p)
  OBVIOUS
<1> HIDE DEF cases
<1>6. Ids(DcfLineage(x, scenario)) \subseteq U
  BY <1>1, <1>2, <1>3, <1>4, <1>5 DEF Ids
<1> QED
  BY <1>3, <1>6

LEMMA ValuationRests ==
  ASSUME NEW x, NEW U, Rests(ValuationLineage(x), U), MetricIds(x.snapshot) \subseteq U,
         \A scenario \in Scenario : DcfIds(scenario, DcfOutput) \subseteq U
  PROVE  /\ Ids(ValuationLineage(x)) \subseteq U
         /\ ScenarioId("implied_return") \in U /\ ReverseId("revenue_growth") \in U
<1> DEFINE Value == UNION {DcfIds(scenario, {"value_per_share"}) : scenario \in Scenario}
           Peers(id) == Calculation(id, "comparable_value", {}, MetricIds(x.snapshot), {"peers"})
           Market(id) == Calculation(id, id[4], {}, DcfIds("base", DcfOutput),
             {"discount_rate", "terminal_assumptions", "net_debt", "diluted_shares"})
           weighted == ScenarioId("probability_weighted_value")
           implied == ScenarioId("implied_return")
           c1 == Calculation(weighted, "probability_weighted_value", {}, Value,
                             {"scenario_probabilities"})
           c2 == Calculation(implied, "scenario_implied_return", {}, {weighted},
                             {"market_price"})
<1>1. ValuationLineage(x) = {Peers(id) : id \in ComparableIds}
                              \union {Market(id) : id \in ReverseIds} \union {c1, c2}
  BY Zenon DEF ValuationLineage
<1>2. Value \subseteq U
  <2>1. \A scenario \in Scenario : DcfIds(scenario, {"value_per_share"}) \subseteq U
    BY DEF DcfIds, DcfOutput
  <2> QED
    BY <2>1
<1> HIDE DEF Value, weighted, implied
<1>3. \A id : /\ Peers(id).id = id /\ Peers(id).calculations = MetricIds(x.snapshot)
              /\ Peers(id).assumptions # {}
  BY DEF Calculation
<1>4. \A id : /\ Market(id).id = id /\ Market(id).calculations = DcfIds("base", DcfOutput)
              /\ Market(id).assumptions # {}
  BY DEF Calculation
<1>5. /\ c1.id = weighted /\ c1.calculations = Value /\ c1.assumptions # {}
      /\ c2.id = implied /\ c2.calculations = {weighted} /\ c2.assumptions # {}
  BY DEF Calculation
<1> HIDE DEF Peers, Market, c1, c2
<1>6. DcfIds("base", DcfOutput) \subseteq U
  BY DEF Scenario
<1>7. weighted \in U
  BY <1>1, <1>2, <1>5 DEF Rests
<1>8. implied \in U
  BY <1>1, <1>5, <1>7 DEF Rests
<1>9. ComparableIds \subseteq U
  BY <1>1, <1>3 DEF Rests
<1>10. ReverseIds \subseteq U
  BY <1>1, <1>4, <1>6 DEF Rests
<1>11. ReverseId("revenue_growth") \in U
  BY <1>10 DEF ReverseIds
<1>12. Ids(ValuationLineage(x)) \subseteq U
  BY <1>1, <1>3, <1>4, <1>5, <1>7, <1>8, <1>9, <1>10 DEF Ids
<1> QED
  BY <1>8, <1>11, <1>12 DEF implied

LEMMA ManagementRests ==
  ASSUME NEW x, NEW U, Rests(ManagementLineage(x), U), MetricIds(x.snapshot) \subseteq U,
         MetricIds(x.snapshot) # {}
  PROVE  ManagementIds(x) \subseteq U /\ Ids(ManagementLineage(x)) \subseteq U
<1> DEFINE Record(id) ==
      IF id[4] = "dilution"
      THEN Calculation(id, id[4], {}, MetricIds(x.snapshot), {})
      ELSE Calculation(id, id[4], {}, {},
             IF id[4] \in OnActions THEN ActionAssumptions(x) ELSE GuidanceAssumptions(x))
<1>1. ManagementLineage(x) = {Record(id) : id \in ManagementIds(x)}
  BY Zenon DEF ManagementLineage
<1>2. GuidanceAssumptions(x) # {}
  BY DEF GuidanceAssumptions
<1>3. ASSUME NEW id \in ManagementIds(x), id[4] \in OnActions PROVE ActionAssumptions(x) # {}
  <2>1. PICK kind : Outcomes(x, kind) # {} \/ Announced(x, kind) # {}
    <3>1. PICK name \in {"dilution", "disclosure_quality", "guidance_revision_count"}
                 \union {"guidance_hit_rate", "guidance_bias", "guidance_error"}
                 \union {m \in {"acquisition", "buyback"} : Outcomes(x, m) # {}}
                 \union {m \in {"capital_allocation_promise"} : Announced(x, m) # {}} :
            id = ManagementId(name)
      BY DEF ManagementIds
    <3>2. name \in OnActions
      BY <1>3, <3>1 DEF ManagementId
    <3> QED
      BY <3>1, <3>2 DEF OnActions
  <2>2. x.inputs.actions # {}
    BY <2>1 DEF Outcomes, Announced
  <2> QED
    BY <2>2 DEF ActionAssumptions
<1>4. \A id \in ManagementIds(x) :
        /\ Record(id).id = id /\ Record(id).calculations \subseteq U
        /\ Record(id).calculations # {} \/ Record(id).assumptions # {}
  BY <1>2, <1>3 DEF Calculation
<1> HIDE DEF Record
<1>5. ManagementIds(x) \subseteq U
  BY <1>1, <1>4 DEF Rests
<1> QED
  BY <1>1, <1>4, <1>5 DEF Ids

LEMMA ScoresRest ==
  ASSUME NEW x, NEW U, Rests(ScoreLineage(x), U), MetricIds(x.snapshot) \subseteq U,
         ManagementIds(x) \subseteq U, ScenarioId("implied_return") \in U,
         ReverseId("revenue_growth") \in U, Scorable(x.snapshot)
  PROVE  ScoreIds \subseteq U /\ Ids(ScoreLineage(x)) \subseteq U
<1> DEFINE One(name) == Calculation(Score(name), name, {}, ScoreInputs(x, name), {"inputs"})
           all == Calculation(Score("composite"), "fundamental_composite", {}, ScoreIds,
                              {"inputs"})
<1>1. ScoreLineage(x) = {One(name) : name \in DOMAIN ScoredMetric} \union {all}
  BY Zenon DEF ScoreLineage
<1>2. \A name : /\ One(name).id = Score(name) /\ One(name).calculations = ScoreInputs(x, name)
                /\ One(name).assumptions # {}
  BY DEF Calculation
<1>3. all.id = Score("composite") /\ all.calculations = ScoreIds /\ all.assumptions # {}
  BY DEF Calculation
<1> HIDE DEF One, all
<1>4. ASSUME NEW name \in DOMAIN ScoredMetric
      PROVE  ScoreInputs(x, name) \subseteq U
  <2>1. {MetricId(x.snapshot, metric) : metric \in ScoredMetric[name]} \subseteq U
    <3>1. ScoredMetric[name] \subseteq Metrics(x.snapshot)
      BY DEF Scorable
    <3> QED
      BY <3>1 DEF MetricIds
  <2> DEFINE other == CASE name = "management"       -> ManagementIds(x)
                        [] name = "valuation"        -> {ScenarioId("implied_return")}
                        [] name = "expectations_gap" -> {ReverseId("revenue_growth")}
                        [] OTHER                     -> {}
  <2>2. other \subseteq U
    OBVIOUS
  <2> HIDE DEF other
  <2>3. ScoreInputs(x, name) =
          {MetricId(x.snapshot, metric) : metric \in ScoredMetric[name]} \union other
    BY DEF ScoreInputs, other
  <2> QED
    BY <2>1, <2>2, <2>3
<1>5. ScoreIds \subseteq U
  BY <1>1, <1>2, <1>4 DEF ScoreIds, Rests
<1>6. Score("composite") \in U
  BY <1>1, <1>3, <1>5 DEF Rests
<1>7. Ids(ScoreLineage(x)) \subseteq U
  BY <1>1, <1>2, <1>3, <1>5, <1>6 DEF ScoreIds, Ids
<1> QED
  BY <1>5, <1>7

LEMMA AlphaRests ==
  ASSUME NEW x, NEW U, Rests(AlphaLineage(x), U), MetricIds(x.snapshot) \subseteq U,
         ScoreIds \subseteq U, ScenarioId("implied_return") \in U,
         \A scenario \in Scenario : DcfIds(scenario, DcfOutput) \subseteq U
  PROVE  Ids(AlphaLineage(x)) \subseteq U
<1> DEFINE Value == UNION {DcfIds(scenario, {"value_per_share"}) : scenario \in Scenario}
           dividend == MetricId(x.snapshot, "dividend_yield")
           c1 == Calculation(<<"alpha", "", 0, "expected_return">>, "expected_excess_return", {},
                             {ScenarioId("implied_return"), dividend}, {"calibration"})
           c2 == Calculation(<<"alpha", "", 0, "probability">>, "probability_positive", {},
                             Value, {"calibration"})
           c3 == Calculation(<<"alpha", "", 0, "confidence">>, "confidence", {},
                             {Score("uncertainty")}, {"calibration"})
<1>1. AlphaLineage(x) = {c1, c2, c3}
  BY Zenon DEF AlphaLineage
<1>2. Value \subseteq U
  <2>1. \A scenario \in Scenario : DcfIds(scenario, {"value_per_share"}) \subseteq U
    BY DEF DcfIds, DcfOutput
  <2> QED
    BY <2>1
<1>3. dividend \in U
  <2>1. "dividend_yield" \in AlwaysDefined
    BY DEF AlwaysDefined
  <2>2. AlwaysDefined \subseteq Metrics(x.snapshot)
    BY DEF Metrics
  <2> QED
    BY <2>1, <2>2 DEF MetricIds
<1>4. Score("uncertainty") \in U
  BY DEF ScoreIds, ScoredMetric
<1> HIDE DEF Value, dividend
<1>5. /\ c1.calculations \subseteq U /\ c1.assumptions # {}
      /\ c2.calculations \subseteq U /\ c2.assumptions # {}
      /\ c3.calculations \subseteq U /\ c3.assumptions # {}
  BY <1>2, <1>3, <1>4 DEF Calculation
<1> HIDE DEF c1, c2, c3
<1> QED
  BY <1>1, <1>5 DEF Rests, Ids

(* Any set that is closed under adding what rests on it has the whole      *)
(* lineage of a bundle that could be computed.                             *)
LEMMA LineageRests ==
  ASSUME NEW x, Facts(x.snapshot), Computable(x), IsFiniteSet(x.inputs.drivers),
         \A d \in x.inputs.drivers : d.year \in Nat, NEW U, Rests(Lineage(x), U)
  PROVE  Ids(Lineage(x)) \subseteq U
<1> DEFINE s == x.snapshot
           Case(scenario) == ForecastLineage(x, scenario) \union DcfLineage(x, scenario)
           cases == {Case(scenario) : scenario \in Scenario}
<1>1. Lineage(x) = StatementLineage(s) \union MetricLineage(s) \union ManagementLineage(x)
                     \union ValuationLineage(x) \union ScoreLineage(x) \union AlphaLineage(x)
                     \union UNION cases
  BY DEF Lineage, AnalysisLineage
<1>2. /\ \A scenario \in Scenario : Case(scenario) \subseteq UNION cases
      /\ \A c \in UNION cases : \E scenario \in Scenario : c \in Case(scenario)
  <2> HIDE DEF Case
  <2> QED
    OBVIOUS
<1> HIDE DEF cases
<1>3. \A L \in SUBSET Lineage(x) : Rests(L, U)
  BY DEF Rests
<1>4. /\ Periods(s) # {} /\ Scorable(s)
      /\ \A p \in Periods(s) : Required \subseteq Lines(s, p)
  <2>1. Cardinality(Periods(s)) >= 2 /\ Cardinality({}) = 0
    BY FS_EmptySet DEF Computable, Normalizable
  <2>2. Periods(s) # {}
    BY <2>1
  <2> QED
    BY <2>2 DEF Computable, Normalizable, Complete
<1> HIDE DEF s
<1>5. Ids(StatementLineage(s)) \subseteq U
  <2>1. Rests(StatementLineage(s), U)
    BY <1>1, <1>3
  <2> QED
    BY <1>4, <2>1, StatementsRest DEF s
<1>6. /\ MetricIds(s) \subseteq U /\ MetricIds(s) # {}
      /\ Ids(MetricLineage(s)) \subseteq U
  <2>1. Rests(MetricLineage(s), U)
    BY <1>1, <1>3
  <2>2. MetricIds(s) \subseteq U /\ Ids(MetricLineage(s)) = MetricIds(s)
    BY <1>4, <1>5, <2>1, MetricsRest
  <2>3. "dividend_yield" \in Metrics(s)
    BY DEF Metrics, AlwaysDefined
  <2>4. MetricIds(s) # {}
    BY <2>3 DEF MetricIds
  <2> QED
    BY <2>2, <2>4
<1>7. ASSUME NEW scenario \in Scenario
      PROVE  /\ DcfIds(scenario, DcfOutput) \subseteq U
             /\ Ids(ForecastLineage(x, scenario)) \subseteq U
             /\ Ids(DcfLineage(x, scenario)) \subseteq U
  <2>1. Rests(ForecastLineage(x, scenario), U) /\ Rests(DcfLineage(x, scenario), U)
    <3>1. ForecastLineage(x, scenario) \in SUBSET Lineage(x)
      BY <1>1, <1>2
    <3>2. DcfLineage(x, scenario) \in SUBSET Lineage(x)
      BY <1>1, <1>2
    <3> QED
      BY <1>3, <3>1, <3>2
  <2>2. IsFiniteSet(Years(x, scenario)) /\ Years(x, scenario) \subseteq Nat
    BY ForecastsAreFinite DEF Years, Drivers
  <2>3. /\ ForecastIds(scenario, Years(x, scenario)) \subseteq U
        /\ Ids(ForecastLineage(x, scenario)) = ForecastIds(scenario, Years(x, scenario))
    BY <1>5, <2>1, <2>2, YearsRest DEF s
  <2>4. DcfIds(scenario, DcfOutput) \subseteq U /\ Ids(DcfLineage(x, scenario)) \subseteq U
    BY <2>1, <2>3, DiscountedRests
  <2> QED
    BY <2>3, <2>4
<1>8. /\ Ids(ValuationLineage(x)) \subseteq U
      /\ ScenarioId("implied_return") \in U /\ ReverseId("revenue_growth") \in U
  <2>1. Rests(ValuationLineage(x), U)
    BY <1>1, <1>3
  <2> QED
    BY <1>6, <1>7, <2>1, ValuationRests DEF s
<1>9. ManagementIds(x) \subseteq U /\ Ids(ManagementLineage(x)) \subseteq U
  <2>1. Rests(ManagementLineage(x), U)
    BY <1>1, <1>3
  <2> QED
    BY <1>6, <2>1, ManagementRests DEF s
<1>10. ScoreIds \subseteq U /\ Ids(ScoreLineage(x)) \subseteq U
  <2>1. Rests(ScoreLineage(x), U)
    BY <1>1, <1>3
  <2> QED
    BY <1>4, <1>6, <1>8, <1>9, <2>1, ScoresRest DEF s
<1>11. Ids(AlphaLineage(x)) \subseteq U
  <2>1. Rests(AlphaLineage(x), U)
    BY <1>1, <1>3
  <2> QED
    BY <1>6, <1>7, <1>8, <1>10, <2>1, AlphaRests DEF s
<1> HIDE DEF Case
<1>12. \A scenario \in Scenario : Ids(Case(scenario)) \subseteq U
  BY <1>7 DEF Ids, Case
<1> QED
  BY <1>1, <1>2, <1>5, <1>6, <1>8, <1>9, <1>10, <1>11, <1>12 DEF Ids

(* The facts a calculation names were filed. *)
LEMMA LineageIsFiled ==
  ASSUME NEW x, Facts(x.snapshot), Computable(x), NEW c \in Lineage(x)
  PROVE  c.facts \subseteq {f.id : f \in x.snapshot.facts}
<1> DEFINE s == x.snapshot
           filed == {f.id : f \in s.facts}
           Case(scenario) == ForecastLineage(x, scenario) \union DcfLineage(x, scenario)
<1>1. \A p \in Periods(s) : Required \subseteq Lines(s, p)
  BY DEF Computable, Normalizable, Complete
<1>2. ASSUME NEW p \in Periods(s), NEW lines, lines \subseteq Lines(s, p)
      PROVE  FactIds(s, p, lines) \subseteq filed
  <2> SUFFICES ASSUME NEW line \in lines PROVE Selected(s, p, line).id \in filed
    BY DEF FactIds
  <2>1. Selected(s, p, line) \in s.facts
    BY <1>2, SelectedIsFiled
  <2> QED
    BY <2>1
<1>3. ASSUME NEW p \in Periods(s), NEW line, NEW parts \in SUBSET Required
      PROVE  GroundOf(s, p, line, parts) \subseteq filed
  <2>1. (IF line \in Lines(s, p) THEN {line} ELSE parts) \subseteq Lines(s, p)
    BY <1>1
  <2> HIDE DEF s, filed
  <2> QED
    BY <1>2, <2>1 DEF GroundOf
<1>4. CASE c \in DerivedLineage(s)
  <2> DEFINE Income(p) ==
               Calculation(<<"normalize", "", p, "operating_income">>, "operating_income",
                 GroundOf(s, p, "operating_income",
                          {"revenue", "cost_of_revenue", "operating_expenses"}), {}, {})
             Working(p) ==
               Calculation(<<"normalize", "", p, "working_capital">>, "working_capital",
                 GroundOf(s, p, "working_capital", {"current_assets", "current_liabilities"}),
                 {}, {})
  <2>1. DerivedLineage(s) = UNION {{Income(p), Working(p)} : p \in Periods(s)}
    BY Zenon DEF DerivedLineage
  <2>2. \A p \in Periods(s) : Income(p).facts \subseteq filed /\ Working(p).facts \subseteq filed
    <3> HIDE DEF s, filed
    <3>1. /\ {"revenue", "cost_of_revenue", "operating_expenses"} \in SUBSET Required
          /\ {"current_assets", "current_liabilities"} \in SUBSET Required
      BY DEF Required
    <3> QED
      BY <1>3, <3>1 DEF Calculation
  <2> HIDE DEF Income, Working
  <2>3. PICK p \in Periods(s) : c = Income(p) \/ c = Working(p)
    BY <1>4, <2>1
  <2> QED
    BY <2>2, <2>3
<1>5. CASE c \in AdjustmentLineage(s)
  <2> DEFINE Adjustment(f) ==
               Calculation(AdjustmentId(f), Line[f.concept], {f.id}, {},
                           {"normalization_adjustment"})
             Amended(p) ==
               Calculation(<<"normalize-adjusted", "", p, "operating_income">>,
                 "operating_income", {},
                 {<<"normalize", "", p, "operating_income">>}
                   \union {AdjustmentId(f) : f \in OperatingAdjustments(s, p)}, {})
             P == {q \in Periods(s) : OperatingAdjustments(s, q) # {}}
  <2>1. AdjustmentLineage(s) = {Adjustment(f) : f \in OneTime(s)} \union {Amended(p) : p \in P}
    BY Zenon DEF AdjustmentLineage
  <2>2. \A f : Adjustment(f).facts = {f.id}
    BY DEF Calculation
  <2>3. \A p : Amended(p).facts = {}
    BY DEF Calculation
  <2> HIDE DEF Adjustment, Amended, P
  <2>4. OneTime(s) \subseteq s.facts
    BY DEF OneTime, Continuing
  <2> QED
    BY <1>5, <2>1, <2>2, <2>3, <2>4
<1>6. CASE c \in MetricLineage(s)
  <2> DEFINE F == UNION {FactIds(s, p, Lines(s, p)) : p \in Periods(s)}
             Metric(name) ==
               Calculation(MetricId(s, name), name, F, {AdjustmentId(f) : f \in OneTime(s)},
                 IF name \in {"net_buyback_yield", "dividend_yield"}
                 THEN {"market_price"} ELSE {})
  <2>1. MetricLineage(s) = {Metric(name) : name \in Metrics(s)}
    BY Zenon DEF MetricLineage
  <2>2. \A name : Metric(name).facts = F
    BY DEF Calculation
  <2>3. F \subseteq filed
    <3> HIDE DEF s, filed
    <3>1. \A p \in Periods(s) : FactIds(s, p, Lines(s, p)) \subseteq filed
      BY <1>2
    <3> QED
      BY <3>1
  <2> HIDE DEF Metric, F
  <2> QED
    BY <1>6, <2>1, <2>2, <2>3
<1>7. CASE c \in ManagementLineage(x) \union ValuationLineage(x) \union ScoreLineage(x)
                   \union AlphaLineage(x)
  <2>1. c.facts = {}
    <3>1. CASE c \in ManagementLineage(x)
      BY <3>1 DEF ManagementLineage, Calculation
    <3>2. CASE c \in ValuationLineage(x)
      BY <3>2 DEF ValuationLineage, Calculation
    <3>3. CASE c \in ScoreLineage(x)
      <4> DEFINE One(name) == Calculation(Score(name), name, {}, ScoreInputs(x, name), {"inputs"})
                 all == Calculation(Score("composite"), "fundamental_composite", {}, ScoreIds,
                                    {"inputs"})
      <4>1. ScoreLineage(x) = {One(name) : name \in DOMAIN ScoredMetric} \union {all}
        BY Zenon DEF ScoreLineage
      <4>2. all.facts = {} /\ \A name : One(name).facts = {}
        BY DEF Calculation
      <4> HIDE DEF One, all
      <4> QED
        BY <3>3, <4>1, <4>2
    <3>4. CASE c \in AlphaLineage(x)
      <4> DEFINE Value == UNION {DcfIds(scenario, {"value_per_share"}) : scenario \in Scenario}
                 c1 == Calculation(<<"alpha", "", 0, "expected_return">>,
                         "expected_excess_return", {},
                         {ScenarioId("implied_return"), MetricId(s, "dividend_yield")},
                         {"calibration"})
                 c2 == Calculation(<<"alpha", "", 0, "probability">>, "probability_positive", {},
                                   Value, {"calibration"})
                 c3 == Calculation(<<"alpha", "", 0, "confidence">>, "confidence", {},
                                   {Score("uncertainty")}, {"calibration"})
      <4>1. AlphaLineage(x) = {c1, c2, c3}
        BY Zenon DEF AlphaLineage
      <4> HIDE DEF Value
      <4>2. c1.facts = {} /\ c2.facts = {} /\ c3.facts = {}
        BY DEF Calculation
      <4> HIDE DEF c1, c2, c3
      <4> QED
        BY <3>4, <4>1, <4>2
    <3> QED
      BY <1>7, <3>1, <3>2, <3>3, <3>4
  <2> QED
    BY <2>1
<1>8. ASSUME NEW scenario, c \in Case(scenario) PROVE c.facts \subseteq filed
  <2>1. CASE c \in ForecastLineage(x, scenario)
    <3>1. c.facts = {}
      <4> DEFINE below(id) ==
                   LET before == {y \in Years(x, scenario) : y < id[3]}
                   IN  IF before = {} THEN Ids(StatementLineage(x.snapshot))
                       ELSE ForecastIds(scenario, {Max(before)})
                 Forecast(id) == Calculation(id, id[4], {}, below(id), {"drivers"})
      <4>1. ForecastLineage(x, scenario) =
              {Forecast(id) : id \in ForecastIds(scenario, Years(x, scenario))}
        BY Zenon DEF ForecastLineage
      <4> HIDE DEF below
      <4>2. \A id : Forecast(id).facts = {}
        BY DEF Calculation
      <4> HIDE DEF Forecast
      <4> QED
        BY <2>1, <4>1, <4>2
    <3> QED
      BY <3>1
  <2>2. CASE c \in DcfLineage(x, scenario)
    <3>1. c.facts = {}
      <4> DEFINE P == [p \in Grid(x, scenario) |->
                         PointLineage(scenario, Years(x, scenario), p)]
                 Value(id) == Calculation(id, id[4], {}, ForecastIds(scenario, Years(x, scenario)),
                   {"discount_rate", "terminal_assumptions", "net_debt", "diluted_shares"})
      <4>1. CASE c \in {Value(id) : id \in DcfIds(scenario, DcfOutput)}
        <5>1. \A id : Value(id).facts = {}
          BY DEF Calculation
        <5> HIDE DEF Value
        <5> QED
          BY <4>1, <5>1
      <4>2. CASE \E p : c \in PointLineage(scenario, Years(x, scenario), p)
        BY <4>2 DEF PointLineage, Calculation
      <4>3. CASE c \in UNION {P[p] : p \in Grid(x, scenario)}
        <5>1. \E p : c \in PointLineage(scenario, Years(x, scenario), p)
          BY <4>3
        <5> QED
          BY <4>2, <5>1
      <4> QED
        BY <2>2, <4>1, <4>3 DEF DcfLineage
    <3> QED
      BY <3>1
  <2> QED
    BY <1>8, <2>1, <2>2
<1>9. \/ c \in DerivedLineage(s) \/ c \in AdjustmentLineage(s) \/ c \in MetricLineage(s)
      \/ c \in ManagementLineage(x) \union ValuationLineage(x) \union ScoreLineage(x)
                   \union AlphaLineage(x)
      \/ \E scenario \in Scenario : c \in Case(scenario)
  <2> HIDE DEF Case
  <2>1. \A b : Lineage(b) = ManagementLineage(b) \union
          (UNION {StatementLineage(b.snapshot), MetricLineage(b.snapshot),
                  ValuationLineage(b), ScoreLineage(b), AlphaLineage(b)})
          \union (UNION {ForecastLineage(b, scenario) \union DcfLineage(b, scenario) :
                           scenario \in Scenario})
    BY DEF Lineage, AnalysisLineage
  <2> QED
    BY <2>1 DEF StatementLineage, Case
<1> QED
  BY <1>4, <1>5, <1>6, <1>7, <1>8, <1>9

LEMMA ComputedIsGrounded ==
  ASSUME NEW n \in ComputedBundles
  PROVE  n \in Grounded
<1> DEFINE x == Bundle[n]
<1>1. /\ n \in DOMAIN Bundle /\ Loadable(x) /\ Computable(x)
  BY ComputedIsSound
<1>2. Facts(x.snapshot)
  BY <1>1, FactsAssumption DEF Facts, Loadable, SnapshotAccepted
<1>3. IsFiniteSet(x.inputs.drivers) /\ \A d \in x.inputs.drivers : d.year \in Nat
  BY <1>1, BundleAssumption
<1>4. Lineages[n] = Lineage(x)
  BY DEF Lineages
<1> HIDE DEF x
<1>5. IsFiniteSet(Lineage(x))
  BY <1>2, <1>3, LineageIsFinite
<1>6. ASSUME NEW U \in SUBSET Ids(Lineage(x)), Layer(Lineage(x), U) \subseteq U
      PROVE  U = Ids(Lineage(x))
  <2>1. Rests(Lineage(x), U)
    BY <1>6, ClosedRests
  <2>2. Ids(Lineage(x)) \subseteq U
    BY <1>1, <1>2, <1>3, <2>1, LineageRests
  <2> QED
    BY <2>2
<1>7. Founded(Lineage(x)) = Ids(Lineage(x))
  BY <1>5, <1>6, ClosedIsWhole
<1>8. \A c \in Lineage(x) : c.facts \subseteq {f.id : f \in x.snapshot.facts}
  BY <1>1, <1>2, LineageIsFiled
<1>9. GroundedIn(Lineages[n], {f.id : f \in x.snapshot.facts})
  BY <1>4, <1>7, <1>8 DEF GroundedIn
<1> QED
  BY <1>9 DEF Grounded, x

(* For any bundles: apart from the results in the guidance records that    *)
(* came later and the names of later actions, which run future_guidance    *)
(* finds, nothing research publishes, no number and no input of a          *)
(* calculation, depends on what was unknown at its cutoff                  *)
(* (evaluate_management, _audit_bundle).                                   *)
THEOREM ResearchHasNoHindsight == CompanySpec => []NoHindsight
<1>1. CompanyInv => NoHindsight
  BY ResearchIsKept DEF CompanyInv, CompanyOK, NoHindsight
<1> QED
  BY <1>1, CompanyStarts, CompanyKeeps, PTL DEF CompanySpec

(* For any facts, drivers, guidance, actions and peers: every published    *)
(* calculation can be traced, without a circle, to filed facts and stated  *)
(* assumptions.                                                            *)
THEOREM CalculationsAreGrounded == CompanySpec => []LineageGrounded
<1>1. CompanyInv => LineageGrounded
  BY ComputedIsGrounded DEF CompanyInv, CompanyOK, LineageGrounded
<1> QED
  BY <1>1, CompanyStarts, CompanyKeeps, PTL DEF CompanySpec
-----------------------------------------------------------------------------
(* When the statements do use the latest revisions only.                   *)

(* The facts _select has for a line. *)
Candidates(s, p, line) == {f \in Continuing(s) : f.period = p /\ Line[f.concept] = line}

(* Whichever order the facts are read in, _select ends with the same one.  *)
LEMMA SelectedIsNewest ==
  ASSUME NEW s, Facts(s), NEW p, NEW line, NEW f \in Candidates(s, p, line),
         \A g \in Candidates(s, p, line) : g = f \/ Newer(f, g)
  PROVE  Selected(s, p, line) = f
<1> DEFINE C == Candidates(s, p, line)
<1>1. Selected(s, p, line) = CHOOSE h \in C : \A g \in C : g = h \/ Newer(h, g)
  BY DEF Selected, Candidates
<1>2. C \subseteq s.facts
  BY DEF Candidates, Continuing
<1>3. \A h \in C : (\A g \in C : g = h \/ Newer(h, g)) => h = f
  <2> SUFFICES ASSUME NEW h \in C, \A g \in C : g = h \/ Newer(h, g) PROVE h = f
    OBVIOUS
  <2>1. h = f \/ (Newer(h, f) /\ Newer(f, h))
    OBVIOUS
  <2>2. {h.revision, h.accepted, h.id, f.revision, f.accepted, f.id} \subseteq Int
    BY <1>2 DEF Facts
  <2> QED
    BY <2>1, <2>2 DEF Newer
<1> HIDE DEF C
<1>4. f \in C /\ \A g \in C : g = f \/ Newer(f, g)
  BY DEF C
<1>5. (CHOOSE h \in C : \A g \in C : g = h \/ Newer(h, g)) = f
  BY <1>3, <1>4
<1> QED
  BY <1>1, <1>5

LEMMA UnrestatedFacts ==
  ASSUME NEW s, Facts(s), s = [f \in DOMAIN s |-> s[f]], "facts" \in DOMAIN s
  PROVE  /\ UnrestatedOnly(s).facts = s.facts \ Superseded(s)
         /\ Facts(UnrestatedOnly(s))
         /\ Continuing(UnrestatedOnly(s)) = Continuing(s) \ Superseded(s)
<1>1. UnrestatedOnly(s).facts = s.facts \ Superseded(s)
  BY DEF UnrestatedOnly
<1>2. IsFiniteSet(s.facts \ Superseded(s))
  BY FS_Subset DEF Facts
<1>3. Facts(UnrestatedOnly(s))
  BY <1>1, <1>2 DEF Facts
<1>4. Continuing(UnrestatedOnly(s)) = Continuing(s) \ Superseded(s)
  BY <1>1 DEF Continuing
<1> QED
  BY <1>1, <1>3, <1>4

(* No line loses the fact that was selected for it. *)
LEMMA SelectionStays ==
  ASSUME NEW s, Facts(s), s = [f \in DOMAIN s |-> s[f]], "facts" \in DOMAIN s,
         OnceStated(s), NEW p
  PROVE  /\ Lines(UnrestatedOnly(s), p) = Lines(s, p)
         /\ \A line \in Lines(s, p) :
              Selected(UnrestatedOnly(s), p, line) = Selected(s, p, line)
<1> DEFINE u == UnrestatedOnly(s)
<1>1. /\ Facts(u) /\ Continuing(u) = Continuing(s) \ Superseded(s)
  BY UnrestatedFacts
<1> HIDE DEF u
<1>2. ASSUME NEW line \in Lines(s, p)
      PROVE  line \in Lines(u, p) /\ Selected(u, p, line) = Selected(s, p, line)
  <2> DEFINE C == Candidates(s, p, line)
             D == Candidates(u, p, line)
  <2>1. C \in SUBSET s.facts /\ C # {}
    BY <1>2 DEF Lines, Candidates, Continuing
  <2>2. D = C \ Superseded(s)
    BY <1>1 DEF Candidates
  <2>3. PICK f \in C : \A g \in C : g = f \/ Newer(f, g)
    <3> HIDE DEF C
    <3> QED
      BY <2>1, NewestExists
  <2>4. f \notin Superseded(s)
    <3> SUFFICES ASSUME NEW g \in s.facts, Restates(g, f) PROVE FALSE
      BY DEF Superseded
    <3>1. f \in Continuing(s) /\ f.period = p /\ Line[f.concept] = line
      BY DEF Candidates
    <3>2. g \in C
      BY <3>1 DEF OnceStated, Candidates, Continuing, Restates
    <3>3. g.revision > f.revision /\ g.revision \in Int /\ f.revision \in Int
      BY <2>1, <3>2 DEF Restates, Facts
    <3> QED
      BY <2>3, <3>2, <3>3 DEF Newer
  <2>5. f \in D /\ \A g \in D : g = f \/ Newer(f, g)
    BY <2>2, <2>3, <2>4
  <2>6. Selected(s, p, line) = f
    BY <2>3, SelectedIsNewest
  <2>7. Selected(u, p, line) = f
    BY <1>1, <2>5, SelectedIsNewest
  <2>8. line \in Lines(u, p)
    BY <2>5 DEF Lines, Candidates
  <2> QED
    BY <2>6, <2>7, <2>8
<1>3. Lines(u, p) \subseteq Lines(s, p)
  BY <1>1 DEF Lines
<1> QED
  BY <1>2, <1>3 DEF u

LEMMA OnceStatedIsLatest ==
  ASSUME NEW s, Facts(s), s = [f \in DOMAIN s |-> s[f]], "facts" \in DOMAIN s,
         OnceStated(s), NEW p
  PROVE  Adjusted(s, p) = Adjusted(UnrestatedOnly(s), p)
<1> DEFINE u == UnrestatedOnly(s)
<1>1. Continuing(u) = Continuing(s) \ Superseded(s)
  BY UnrestatedFacts
<1>2. Lines(u, p) = Lines(s, p) /\ \A line \in Lines(s, p) : Selected(u, p, line) = Selected(s, p, line)
  BY SelectionStays
<1>3. OneTime(u) = OneTime(s)
  <2>1. \A f \in OneTime(s) : f \notin Superseded(s)
    BY DEF OneTime, OnceStated, Superseded, Continuing
  <2> HIDE DEF u
  <2> QED
    BY <1>1, <2>1 DEF OneTime
<1> HIDE DEF u
<1>4. Stated(u, p) = Stated(s, p)
  BY <1>2 DEF Stated
<1>5. Reported(u, p) = Reported(s, p)
  BY <1>4 DEF Reported
<1>6. \A line : Removed(u, p, line) = Removed(s, p, line)
  BY <1>3 DEF Removed
<1>7. Adjusted(u, p) = Adjusted(s, p)
  BY <1>5, <1>6 DEF Adjusted
<1> QED
  BY <1>7 DEF u

(* policies/POINT_IN_TIME.md:3 is kept by every bundle in which no         *)
(* one-time item is restated and no restatement changes the scope, however *)
(* often the other facts are: what run amended_one_time finds is all that  *)
(* normalize_statements gets wrong about revisions.                        *)
THEOREM RestatementsAreFollowed == CompanySpec => []RestatementsFollowed
<1>1. \A n \in ComputedBundles : OnceStated(Bundle[n].snapshot) => n \in Unamended
  <2> SUFFICES ASSUME NEW n \in ComputedBundles, OnceStated(Bundle[n].snapshot)
               PROVE  n \in Unamended
    OBVIOUS
  <2> DEFINE s == Bundle[n].snapshot
  <2>1. s = [f \in DOMAIN s |-> s[f]] /\ "facts" \in DOMAIN s
    BY ComputedIsSound, BundlesAreRecords
  <2>2. Facts(s)
    BY ComputedIsSound, FactsAssumption DEF Facts, Loadable, SnapshotAccepted
  <2> HIDE DEF s
  <2>3. \A p : OnceStated(s) => Adjusted(s, p) = Adjusted(UnrestatedOnly(s), p)
    BY <2>1, <2>2, OnceStatedIsLatest
  <2> QED
    BY <2>3 DEF s, Unamended
<1>2. CompanyInv => RestatementsFollowed
  BY <1>1 DEF RestatementsFollowed, OnceStatedBundles
<1> QED
  BY <1>2, CompanyStarts, CompanyKeeps, PTL DEF CompanySpec
=============================================================================
