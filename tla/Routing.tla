------------------------------ MODULE Routing ------------------------------
(***************************************************************************)
(* How a question finds its intent, its tools and its specialist:          *)
(* classifyIntentSignal (apps/web/src/lib/tania/intent.ts), TOOL_PLAN of   *)
(* brain.ts, the nine agents of apps/web/src/lib/agents and the keyword    *)
(* router. A message is what these functions read of it:                   *)
(*   chosen   the intent the caller named, or None                         *)
(*   hits     how many keywords of each intent it contains                 *)
(*   words    how many keywords of each agent it contains                  *)
(***************************************************************************)
EXTENDS ToolPolicy, Sequences, FiniteSets

CONSTANT None

(* Intents with keywords, in the order of KEYWORDS: the first of equals wins. *)
Ordered == <<"ANALYZE", "CREATE", "AUTOMATE", "SEARCH">>

Intent == {Ordered[i] : i \in DOMAIN Ordered} \cup {"CONVERSE"}

(* Index of the intent with most keywords: reduce() keeps the earlier of equals. *)
BestIndex(hits) ==
  CHOOSE i \in DOMAIN Ordered :
    /\ \A j \in DOMAIN Ordered : hits[Ordered[j]] <= hits[Ordered[i]]
    /\ \A j \in 1..(i - 1) : hits[Ordered[j]] < hits[Ordered[i]]

ByKeyword(hits) ==
  LET best == Ordered[BestIndex(hits)]
  IN  IF hits[best] = 0 THEN "CONVERSE" ELSE best

(* IntentService.classify: the caller's choice wins over inference.        *)
Classified(message) ==
  IF message.chosen # None THEN message.chosen ELSE ByKeyword(message.hits)

ToolPlan ==
  [SEARCH   |-> <<"knowledge_search">>,
   CONVERSE |-> <<"knowledge_search">>,
   ANALYZE  |-> <<"knowledge_search", "analytics_query">>,
   CREATE   |-> <<"knowledge_search", "document_draft">>,
   AUTOMATE |-> <<"knowledge_search", "workflow_execute">>]

-----------------------------------------------------------------------------
(* The specialists: the intents they answer, the tools they declare, the   *)
(* risk they may carry, and the order of their ids.                        *)

AutomationAgent ==
  [order |-> 1, intents |-> {"AUTOMATE"}, ceiling |-> "HIGH",
   tools |-> {"knowledge_search", "workflow_execute"}]

BusinessCaseAgent ==
  [order |-> 2, intents |-> {"CREATE", "ANALYZE"}, ceiling |-> "MEDIUM",
   tools |-> {"knowledge_search", "analytics_query", "document_draft"}]

DocumentationAgent ==
  [order |-> 3, intents |-> {"CREATE", "ANALYZE"}, ceiling |-> "MEDIUM",
   tools |-> {"knowledge_search", "document_draft"}]

KnowledgeAgent ==
  [order |-> 4, intents |-> {"SEARCH", "CONVERSE"}, ceiling |-> "INFORMATIONAL",
   tools |-> {"knowledge_search"}]

MarketIntelligenceAgent ==
  [order |-> 5, intents |-> {"ANALYZE", "SEARCH"}, ceiling |-> "LOW",
   tools |-> {"knowledge_search", "enterprise_data"}]

PerformanceAgent ==
  [order |-> 6, intents |-> {"ANALYZE"}, ceiling |-> "LOW",
   tools |-> {"enterprise_data", "knowledge_search", "analytics_query"}]

ProductAgent ==
  [order |-> 7, intents |-> {"SEARCH", "ANALYZE"}, ceiling |-> "LOW",
   tools |-> {"knowledge_search", "analytics_query"}]

ResearchAgent ==
  [order |-> 8, intents |-> {"ANALYZE", "SEARCH"}, ceiling |-> "LOW",
   tools |-> {"knowledge_search", "enterprise_data"}]

SolutionAgent ==
  [order |-> 9, intents |-> {"CREATE", "ANALYZE"}, ceiling |-> "MEDIUM",
   tools |-> {"knowledge_search", "document_draft"}]

(* createAgents(): every one ACTIVE or BETA, so routable() keeps them all. *)
Agents ==
  [automation          |-> AutomationAgent,
   business_case       |-> BusinessCaseAgent,
   documentation       |-> DocumentationAgent,
   knowledge           |-> KnowledgeAgent,
   market_intelligence |-> MarketIntelligenceAgent,
   performance         |-> PerformanceAgent,
   product             |-> ProductAgent,
   research            |-> ResearchAgent,
   solution            |-> SolutionAgent]

Agent == DOMAIN Agents

(* A message: the intent its caller chose, and its keywords of each intent *)
(* and each agent.                                                         *)
Question ==
  [chosen : Intent \cup {None}, hits : [{Ordered[i] : i \in DOMAIN Ordered} -> Nat],
   words : [Agent -> Nat]]

(* Scores in thousandths. Callers name no permittedTools, so the share of  *)
(* tools an agent may use is always whole.                                 *)
Score(agent, intent, words) ==
    200 * (IF words[agent] > 3 THEN 3 ELSE words[agent])
  + (IF intent \in Agents[agent].intents THEN 250 ELSE 0)
  + 150

MatchThreshold == 300

Eligible(intent, words) ==
  {a \in Agent : words[a] > 0 /\ Score(a, intent, words) >= MatchThreshold}

Before(a, b, intent, words) ==
  \/ Score(a, intent, words) > Score(b, intent, words)
  \/ Score(a, intent, words) = Score(b, intent, words) /\ Agents[a].order <= Agents[b].order

(* KeywordAgentRouter.route: the best match, or the knowledge agent.       *)
Route(intent, words) ==
  IF Eligible(intent, words) = {} THEN "knowledge"
  ELSE CHOOSE a \in Eligible(intent, words) :
         \A b \in Eligible(intent, words) : Before(a, b, intent, words)
=============================================================================
