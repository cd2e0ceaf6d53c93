---------------------------- MODULE MCResearchDesk ----------------------------
(* Two tickers and two pieces of evidence, of which the auditor may approve *)
(* one or both.  Roles before the auditor cite the first one or a foreign   *)
(* ID, the others what may or may not be approved.                          *)
EXTENDS ResearchDesk

MCEvidence == {"e1", "e2"}

MCCitations ==
  [r \in Roles |-> IF r \in {"coordinator"} \union Specialists THEN {{"e1"}, {"rogue"}}
                   ELSE IF r = "evidence-auditor" THEN {{"e1"}, {"e1", "e2"}, {"rogue"}}
                   ELSE {{"e1"}, {"e1", "e2"}}]

View(i, t, e) == [id |-> i, ticker |-> t, suits |-> TRUE, sound |-> TRUE, abstained |-> FALSE,
                  cites |-> e]
Both    == {View("f1", "A", {"e1"}), View("f2", "B", {"e2"})}
OneOnly == {View("f1", "A", {"e1"}),
            [View("f2", "B", {}) EXCEPT !.abstained = TRUE]}
Missing == {View("f1", "A", {"e1"})}
Extra   == OneOnly \union {View("f3", "C", {"e1"})}
Late    == {[View("f1", "A", {"e1"}) EXCEPT !.suits = FALSE], View("f2", "B", {"e1"})}
Invented == {View("f1", "A", {"e1"}), [View("f2", "B", {"e1"}) EXCEPT !.sound = FALSE]}
Twice   == {View("f1", "A", {"e1"}), View("f1", "B", {"e1"})}

MCSyntheses == {{}, Both, OneOnly, Missing, Extra, Late, Invented, Twice}
=============================================================================
