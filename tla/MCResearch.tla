------------------------------ MODULE MCResearch ------------------------------
(* The two graphs of agents, one in each behaviour: the research desk's ten *)
(* roles and the company research's specialists.                            *)
EXTENDS MCResearchDesk, MCCompanyResearch

VARIABLE graph

ResearchInit ==
  /\ graph \in {"desk", "company"}
  /\ Init /\ CompanyInit
  /\ graph = "desk" => bundle = "plain"
  /\ graph = "company" => clean

DeskStep == graph = "desk" /\ Next /\ UNCHANGED <<graph, companyVars>>
CompanyStep == graph = "company" /\ CompanyNext /\ UNCHANGED <<graph, vars>>

(* Every node of the desk is one call of a replay provider and some         *)
(* computation.                                                             *)
ResearchSpec ==
  /\ ResearchInit /\ [][DeskStep \/ CompanyStep]_<<graph, vars, companyVars>>
  /\ WF_vars(DeskStep)

(* A case of the desk ends in a dossier or in an integrity error: no        *)
(* superstep waits for a node that was never triggered, whatever fails      *)
(* (LangGraphForecastProvider.research).                                    *)
ResearchEnds == <>(graph = "company" \/ result # "running")
=============================================================================
