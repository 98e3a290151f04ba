--------------------------- MODULE MCOrchestrator ---------------------------
(* Small deployments of the orchestrator for TLC. *)
EXTENDS OrchestratorProperties, TLC

CONSTANTS t1, a1, a2

OneTask == {t1}
Actors == {a1, a2}
OwnerIsA1 == [t \in Task |-> a1]

(* Manifests of agents that ship (apps/web/src/lib/agents). *)
Automation   == <<"knowledge_search", "workflow_execute">>
BusinessCase == <<"knowledge_search", "analytics_query", "document_draft">>
(* An agent with two heavy tools: the code supports a second decision.     *)
TwoDecisions == <<"workflow_execute", "document_draft">>

FullScopes == {Scope}
FewerScopes == {Scope, Scope \ {"document:create"}}
SomeScopes == {Scope, Scope \ {"workflow:run"}, {}}

Symmetry == Permutations(GateId) \cup Permutations(Handler)
=============================================================================
