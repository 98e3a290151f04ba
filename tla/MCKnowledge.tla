----------------------------- MODULE MCKnowledge -----------------------------
(* Two of the shipped documents: a public one and one for a scope. The     *)
(* public one is rewritten as a restricted one for a unit.                 *)
EXTENDS KnowledgeProperties

Public == "proposal-enterprise-connectivity"
Runbook == "sop-incident-runtime"

MCDoc == {Public, Runbook}
MCSeed == <<Public, Runbook>>

MCContent ==
  [p \in MCDoc \X (1..2) |->
     IF p[2] = 1 THEN Corpus[p[1]]
     ELSE [Open("PROPOSAL", "RESTRICTED", 3) EXCEPT !.acl.units = {"People & Culture"}]]

Asker(clearance, unit, scopes) == [clearance |-> clearance, unit |-> unit, scopes |-> scopes]
Guest == Asker("INTERNAL", "Sales", {"knowledge:read"})
Partner == Asker("RESTRICTED", "People & Culture", {"knowledge:read"})
Curator == Asker("RESTRICTED", "People & Culture", {"knowledge:read", "system:admin"})

MCWrites ==
  {[op |-> "ingest", doc |-> Public, revision |-> 2, by |-> Curator],
   [op |-> "ingest", doc |-> Public, revision |-> 1, by |-> Curator],
   [op |-> "ingest", doc |-> Public, revision |-> 2, by |-> Guest],
   [op |-> "remove", doc |-> Runbook, revision |-> 1, by |-> Curator]}

(* The public text answers the question best, the runbook next, the third  *)
(* passage of the rewrite not at all.                                      *)
Signal(p) ==
  LET strong == [vector |-> 90, lexical |-> 80, coverage |-> 90, heading |-> 50, phrase |-> 100,
                 freshness |-> 40]
      fair == [vector |-> 40, lexical |-> 30, coverage |-> 30, heading |-> 0, phrase |-> 0,
               freshness |-> 10]
      none == [fair EXCEPT !.vector = 0, !.lexical = 0, !.coverage = 0]
  IN  IF p[2] > 2 THEN none
      ELSE IF p[1] = Public THEN strong ELSE fair

MCQuery == [terms |-> TRUE, informativeness |-> 60,
            signals |-> [p \in MCDoc \X (1..3) \X (1..2) |-> Signal(p)]]
Wordless == [MCQuery EXCEPT !.terms = FALSE, !.informativeness = 0]

Question(kind, asker, query, ceiling, kinds) ==
  [kind |-> kind, asker |-> asker, query |-> query, limit |-> 1, ceiling |-> ceiling, kinds |-> kinds]

MCAsked ==
  [guest |-> Question("answer", Guest, MCQuery, "RESTRICTED", {}),
   partner |-> Question("answer", Partner, MCQuery, "RESTRICTED", {}),
   runbooks |-> Question("retrieve", Curator, MCQuery, "INTERNAL", {"SOP"}),
   proposals |-> Question("answer", Curator, MCQuery, "RESTRICTED", {"PROPOSAL"}),
   wordless |-> Question("retrieve", Guest, Wordless, "RESTRICTED", {})]

MCRequests == DOMAIN MCAsked
=============================================================================
