----------------------------- MODULE ToolPolicy -----------------------------
(***************************************************************************)
(* The governance rules every door into the system shares: the controlled  *)
(* tool registry (apps/web/src/lib/tania/tools/registry.ts), the policy    *)
(* that reads it (policy.ts), the fixed rule on who needs a human          *)
(* (packages/types/src/task.ts) and the task state table                   *)
(* (packages/tania/src/orchestration/index.ts).                            *)
(***************************************************************************)
EXTENDS Naturals

(* Risk levels by rank: RISK_LEVELS.indexOf(risk).                         *)
Rank == [INFORMATIONAL |-> 0, LOW |-> 1, MEDIUM |-> 2, HIGH |-> 3, CRITICAL |-> 4]

RiskLevel == DOMAIN Rank

IsAtLeast(risk, threshold) == Rank[risk] >= Rank[threshold]

(* TOOL_REGISTRY. A tool outside this set cannot be executed at all.       *)
Registry ==
  [knowledge_search |-> [risk |-> "INFORMATIONAL", scope |-> "knowledge:read",  reversible |-> FALSE],
   analytics_query  |-> [risk |-> "LOW",           scope |-> "analytics:read",  reversible |-> FALSE],
   enterprise_data  |-> [risk |-> "LOW",           scope |-> "analytics:read",  reversible |-> FALSE],
   document_draft   |-> [risk |-> "MEDIUM",        scope |-> "document:create", reversible |-> TRUE],
   workflow_execute |-> [risk |-> "HIGH",          scope |-> "workflow:run",    reversible |-> TRUE],
   system_broadcast |-> [risk |-> "CRITICAL",      scope |-> "system:admin",    reversible |-> FALSE]]

Tool == DOMAIN Registry

Scope == {Registry[tool].scope : tool \in Tool}

(* evaluatePolicy: registered, every scope held, approval from the threshold on. *)
Allowed(tool, scopes) == tool \in Tool /\ Registry[tool].scope \in scopes

RequiresApproval(tool, threshold) == IsAtLeast(Registry[tool].risk, threshold)

(* requiresHumanApproval: L3 and L4, whatever the configured threshold is. *)
RequiresHumanApproval(tool) == Registry[tool].risk \in {"HIGH", "CRITICAL"}

-----------------------------------------------------------------------------
(* The task lifecycle. *)

Terminal == {"COMPLETED", "FAILED", "BLOCKED", "CANCELLED"}

(* Mutant of TaskTransitions: a run cannot stop at a gate. *)
TransitionsNoPark ==
  [REQUESTED     |-> {"UNDERSTANDING", "REPORTING"},
   UNDERSTANDING |-> {"PLANNING", "REPORTING"},
   PLANNING      |-> {"APPROVAL", "EXECUTING", "REPORTING"},
   APPROVAL      |-> {"APPROVAL", "EXECUTING", "REPORTING"},
   EXECUTING     |-> {"VERIFYING", "REPORTING"},
   VERIFYING     |-> {"REPORTING"},
   REPORTING     |-> {"REMEMBERING"},
   REMEMBERING   |-> Terminal,
   COMPLETED     |-> {},
   FAILED        |-> {},
   BLOCKED       |-> {},
   CANCELLED     |-> {}]

TaskTransitions ==
  [REQUESTED     |-> {"UNDERSTANDING", "REPORTING"},
   UNDERSTANDING |-> {"PLANNING", "REPORTING"},
   PLANNING      |-> {"APPROVAL", "EXECUTING", "REPORTING"},
   APPROVAL      |-> {"APPROVAL", "EXECUTING", "REPORTING"},
   EXECUTING     |-> {"VERIFYING", "APPROVAL", "REPORTING"},
   VERIFYING     |-> {"REPORTING"},
   REPORTING     |-> {"REMEMBERING"},
   REMEMBERING   |-> Terminal,
   COMPLETED     |-> {},
   FAILED        |-> {},
   BLOCKED       |-> {},
   CANCELLED     |-> {}]

TaskState == DOMAIN TaskTransitions

CanTransition(from, to) == to \in TaskTransitions[from]
=============================================================================
