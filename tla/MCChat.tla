------------------------------- MODULE MCChat -------------------------------
(* One page and one other caller, a question that only reads and one whose *)
(* second tool needs a human or a scope the other caller lacks.            *)
EXTENDS ChatProperties, TLC

CONSTANTS me, other

NoWords == [a \in Agent |-> 0]

(* Asks to run something and names the automation agent's vocabulary once, *)
(* the research agent's three times.                                       *)
Automate ==
  [chosen |-> None, hits |-> [ANALYZE |-> 1, CREATE |-> 0, AUTOMATE |-> 2, SEARCH |-> 2],
   words |-> [NoWords EXCEPT !["automation"] = 1, !["research"] = 2]]

(* The caller says it wants an analysis; the words suit several agents.    *)
Analyze ==
  [chosen |-> "ANALYZE", hits |-> [ANALYZE |-> 0, CREATE |-> 0, AUTOMATE |-> 0, SEARCH |-> 0],
   words |-> [NoWords EXCEPT !["knowledge"] = 2, !["performance"] = 1, !["product"] = 1]]

OtherCalls ==
  {[kind |-> "json", by |-> other, message |-> Automate],
   [kind |-> "legacy", by |-> me, message |-> Analyze]}

Messages == <<Automate, Analyze>>

ScopesOf ==
  [a \in Actor |-> IF a = me THEN Scope ELSE {"knowledge:read"}]
=============================================================================
