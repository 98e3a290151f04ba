----------------------------- MODULE Chat_proof -----------------------------
(***************************************************************************)
(* Theorems about conversations for any people, questions, callers,        *)
(* number of turns and conversations, length of answers and of history,    *)
(* either transcript store, and any failures.                              *)
(***************************************************************************)
EXTENDS ChatProperties, TLAPS, FiniteSetTheorems, WellFoundedInduction, SequenceTheorems

Early == {"none", "sent", "ensure", "history"}
Settled == {"answered", "failed"}
Stages == Early \cup Settled \cup {"classify", "tools", "calling", "compose", "record", "commit"}

Use == [tool : Tool, status : {"SUCCEEDED", "FAILED", "BLOCKED", "AWAITING_APPROVAL"}]

TurnRecord ==
  [stage : Stages, kind : {"stream", "json", "legacy"}, by : Actor, message : Question \cup {None},
   asked : Conv \cup {None}, conv : Conv \cup {None}, history : SUBSET Nat,
   intent : Intent \cup {None}, agent : Agent \cup {None}, phase : Phases \cup {None},
   tool : Nat \ {0}, used : Seq(Use), called : SUBSET Tool, approval : BOOLEAN,
   sources : BOOLEAN, text : 0..Parts, whole : BOOLEAN]

QueueRecord ==
  [buffer : Seq(Event), waiting : BOOLEAN, handed : Seq(Event), closed : BOOLEAN]

Bubble == [turn : Turn, text : Int, done : BOOLEAN]

PageRecord ==
  [conv : Conv \cup {None}, busy : Turn \cup {None}, view : SUBSET Bubble, result : BOOLEAN,
   failure : BOOLEAN, opening : BOOLEAN]

Shapes ==
  /\ store \in {"memory", "backend"} /\ minted \subseteq Conv /\ faults \in 0..MaxFaults
  /\ conv \in [Conv -> Conversation \cup {None}]
  /\ turn \in [Turn -> TurnRecord]
  /\ queue \in [Turn -> QueueRecord]
  /\ wire \in [Turn -> [ended : BOOLEAN, gone : BOOLEAN]]
  /\ said \in [Turn -> Seq(Event)] /\ heard \in [Turn -> Seq(Event)]
  /\ page \in PageRecord

-----------------------------------------------------------------------------
(* The inductive invariant. *)

(* What a turn m has decided about its tools.                              *)
Governed(m) ==
  LET plan == ToolPlan[m.intent]
  IN  /\ m.stage \in Early \cup {"classify"} => m.intent = None
      /\ m.intent = None =>
           m.agent = None /\ m.used = <<>> /\ m.called = {} /\ m.tool = 1 /\ ~m.approval
      /\ m.intent = None => m.stage \in Early \cup {"classify", "failed"}
      /\ m.stage # "none" => m.message # None
      /\ m.intent # None =>
           /\ m.message # None /\ m.agent = Route(m.intent, m.message.words)
           /\ m.tool <= Len(plan) + 1
           /\ Len(m.used) = IF m.approval THEN m.tool ELSE m.tool - 1
           /\ \A tool \in m.called :
                /\ Allowed(tool, Scopes[m.by]) /\ ~RequiresApproval(tool, Threshold)
                /\ \E i \in DOMAIN plan : plan[i] = tool
           /\ \A i \in 1..(m.tool - 1) :
                /\ m.used[i].status # "AWAITING_APPROVAL"
                /\ m.used[i].status = "SUCCEEDED" => plan[i] \in m.called
      /\ m.stage = "calling" => ~m.approval /\ m.tool <= Len(plan) /\ plan[m.tool] \in m.called
      /\ m.stage \in {"compose", "record", "commit", "answered"} => m.approval \/ m.tool > Len(plan)

(* The phases a turn m has still to tell.                                  *)
Ahead(m) ==
  CASE m.stage \in Early    -> Phases \cup {"accepted"}
    [] m.stage = "classify" -> Phases \ {"UNDERSTANDING"}
    [] m.stage = "tools"    -> {"COMPOSING", "VERIFYING"}
                                 \cup (IF m.tool = 1 THEN {"RETRIEVING"} ELSE {})
                                 \cup (IF m.tool <= 2 THEN {"EXECUTING"} ELSE {})
    [] m.stage = "calling"  -> {"COMPOSING", "VERIFYING"}
                                 \cup (IF m.tool = 1 THEN {"EXECUTING"} ELSE {})
    [] m.stage = "compose"  -> {"VERIFYING"}
    [] OTHER                -> {}

(* What the queue q holds between what was told and what was read. *)
Piped(q, w, told, read) ==
  /\ w.gone => told = <<>> /\ read = <<>> /\ q.handed = <<>> /\ q.buffer = <<>>
  /\ ~w.gone => read \o q.handed \o q.buffer = told
  /\ Len(q.handed) <= 1
  /\ q.waiting => q.handed = <<>> /\ q.buffer = <<>>
  /\ w.ended /\ ~w.gone => q.closed

(* What a turn m has told: each phase once, the end last.                  *)
Spoken(m, gone, told) ==
  /\ m.kind # "stream" => told = <<>>
  /\ m.stage \in Early => told = <<>>
  /\ m.stage = "classify" => m.phase = "UNDERSTANDING"
  /\ m.stage \notin Early \cup {"failed"} /\ m.kind = "stream" /\ ~gone => told # <<>>
  /\ told # <<>> => told[1] = "accepted"
  /\ \A i \in DOMAIN told :
       /\ told[i] \notin Ahead(m)
       /\ told[i] \in Ends => i = Len(told)
       /\ told[i] = "done" => m.stage = "answered"
       /\ told[i] = "error" => m.stage = "failed"
  /\ \A i, j \in DOMAIN told :
       told[i] = told[j] /\ told[i] \in Phases \cup {"accepted"} => i = j

Streamed(m, q, w, told, read) ==
  /\ Piped(q, w, told, read) /\ Spoken(m, w.gone, told)
  /\ q.closed => m.stage \in Settled
  /\ m.stage = "none" => ~w.ended /\ ~w.gone /\ q = NewQueue /\ told = <<>>

(* A turn's conversation is one in use; what the model was told was said   *)
(* before, by the asker, in that conversation.                             *)
Addressed(t) ==
  LET m == turn[t]
  IN  /\ {m.conv, m.asked} \subseteq minted \cup {None}
      /\ m.stage \in {"none", "sent"} => m.conv = None
      /\ m.stage \notin {"none", "sent", "failed"} => m.conv # None
      /\ m.asked # None /\ m.conv # None => m.conv = m.asked
      /\ m.stage \in Early => m.history = {}
      /\ m.history # {} => m.conv # None /\ Owned(m.conv, m.by)
      /\ \A i \in m.history : i \in Visible(m.conv) /\ conv[m.conv].rows[i].turn # t
      /\ m.stage = "none" => m = NoTurn

(* Row i, as a committed question or an answer, comes with the other.      *)
Paired(rows, i) ==
  /\ rows[i].role = "tania" =>
       rows[i].live /\ \E j \in 1..(i - 1) : rows[j] = Row(rows[i].turn, "user", TRUE)
  /\ rows[i].role = "user" /\ rows[i].live =>
       \E j \in (i + 1)..Len(rows) : rows[j] = Row(rows[i].turn, "tania", TRUE)

Distinct(rows) ==
  \A i, j \in DOMAIN rows :
    rows[i].turn = rows[j].turn /\ rows[i].role = rows[j].role => i = j

RowsSound(c) ==
  LET rows == conv[c].rows
  IN  /\ c \in minted /\ Distinct(rows)
      /\ \A i \in DOMAIN rows :
           LET m == turn[rows[i].turn]
           IN  /\ m.conv = c /\ m.by = conv[c].owner /\ m.stage \in {"commit", "answered"}
               /\ rows[i].live => m.stage = "answered"
               /\ Paired(rows, i)

(* A turn about to commit has written its question; unless a call failed,  *)
(* one that was answered is on record.                                     *)
OnRecord(t) ==
  LET m == turn[t]
  IN  /\ m.stage = "commit" =>
           /\ store = "backend" /\ Owned(m.conv, m.by)
           /\ \E i \in DOMAIN conv[m.conv].rows : conv[m.conv].rows[i] = Row(t, "user", FALSE)
      /\ faults = 0 /\ m.stage \notin {"none", "sent", "ensure", "failed"} => conv[m.conv] # None
      /\ faults = 0 /\ m.stage = "answered" /\ Owned(m.conv, m.by) =>
           \E i \in Visible(m.conv) : conv[m.conv].rows[i] = Row(t, "tania", TRUE)

Threads ==
  /\ \A t \in Turn : Addressed(t) /\ OnRecord(t)
  /\ \A c \in Conv : conv[c] # None => RowsSound(c)

(* The page waits for a question it asked, and shows what it was told.     *)
Shown ==
  /\ page.conv \in minted \cup {None}
  /\ \A t \in Turn : turn[t].kind = "stream" => turn[t].by = Me
  /\ page.busy # None =>
       /\ turn[page.busy].stage # "none" /\ turn[page.busy].kind = "stream"
       /\ page.result => turn[page.busy].stage = "answered"
  /\ \A b \in page.view :
       /\ turn[b.turn].stage # "none" /\ turn[b.turn].kind = "stream"
       /\ b.done => /\ turn[b.turn].stage = "answered" /\ b.text = turn[b.turn].text
                    /\ b.turn # page.busy

Asked(t) == turn[t].kind = "stream" /\ turn[t].stage # "none"

(* Questions are asked one after another, and the page waits for the last. *)
InOrder ==
  /\ \A t, u \in Turn : t < u /\ turn[t].stage = "none" => turn[u].stage = "none"
  /\ page.busy # None => \A u \in Turn : u > page.busy => ~Asked(u)
  /\ faults = 0 => \A t \in Turn :
       ~wire[t].gone /\ (Asked(t) /\ page.busy # t => turn[t].stage \in Settled)

(* A question asked in a new conversation finds no earlier one in it.      *)
Apart ==
  faults = 0 => \A t, u \in Turn :
    Asked(t) /\ Asked(u) /\ t < u /\ turn[u].asked = None /\ turn[t].conv # None =>
      turn[t].conv # turn[u].conv

(* The model was told the answer of t when it answered u.                  *)
Builds(t, u) ==
  /\ AskedAfter(t, u) /\ turn[t].stage = "answered" /\ Owned(turn[t].conv, Me)
  /\ turn[u].stage \notin Early \cup {"failed"}
  /\ \A w \in Turn : w \notin {t, u} => turn[w].conv # turn[t].conv
  => \E i \in turn[u].history : conv[turn[u].conv].rows[i] = Row(t, "tania", TRUE)

Building == faults = 0 /\ HistoryLimit >= 2 => \A t, u \in Turn : Builds(t, u)

InTurn == InOrder /\ Apart /\ Building

ChatInv ==
  /\ Shapes
  /\ \A t \in Turn : Governed(turn[t])
  /\ \A t \in Turn : Streamed(turn[t], queue[t], wire[t], said[t], heard[t])
  /\ Threads /\ Shown /\ InTurn

-----------------------------------------------------------------------------
(* Intents and specialists. *)

LEMMA AgentFacts ==
  /\ Agent = {"automation", "business_case", "documentation", "knowledge", "market_intelligence",
              "performance", "product", "research", "solution"}
  /\ \A a \in Agent : Agents[a].order \in 1..9 /\ Agents[a].intents \subseteq Intent
BY DEF Agent, Agents, AutomationAgent, BusinessCaseAgent, DocumentationAgent, KnowledgeAgent,
       MarketIntelligenceAgent, PerformanceAgent, ProductAgent, ResearchAgent, SolutionAgent,
       Intent, Ordered

LEMMA ScoreIsNat ==
  ASSUME NEW message \in Question, NEW intent, NEW a \in Agent
  PROVE  /\ message.words[a] \in Nat
         /\ Score(a, intent, message.words) \in Nat
         /\ Score(a, intent, message.words) <= 1000
<1>1. message.words[a] \in Nat
  BY DEF Question
<1> QED  BY <1>1 DEF Score

(* Of the eligible specialists one comes before all others.                *)
LEMMA FirstExists ==
  ASSUME NEW message \in Question, NEW intent, Eligible(intent, message.words) # {}
  PROVE  \E a \in Eligible(intent, message.words) :
           \A b \in Eligible(intent, message.words) : Before(a, b, intent, message.words)
<1> DEFINE E == Eligible(intent, message.words)
           place(a) == 10 * (1000 - Score(a, intent, message.words)) + Agents[a].order
           places == {place(a) : a \in E}
<1>1. \A a \in E : a \in Agent /\ place(a) \in Nat
  <2> SUFFICES ASSUME NEW a \in E
               PROVE  a \in Agent /\ place(a) \in Nat
    OBVIOUS
  <2>1. a \in Agent
    BY DEF Eligible
  <2>2. Agents[a].order \in Nat
    BY <2>1, AgentFacts
  <2>3. Score(a, intent, message.words) \in Nat /\ Score(a, intent, message.words) <= 1000
    BY <2>1, ScoreIsNat
  <2> QED  BY <2>1, <2>2, <2>3
<1>2. places \subseteq Nat /\ places # {}
  BY <1>1
<1>3. PICK x \in places : \A y \in places : ~(y < x)
  <2>1. \E x \in places : \A y \in places : ~(<<y, x>> \in OpToRel(<, Nat))
    BY <1>2, NatLessThanWellFounded, WFMin
  <2> QED  BY <2>1, <1>2 DEF OpToRel
<1>4. PICK a \in E : x = place(a)
  BY <1>3
<1>5. ASSUME NEW b \in E
      PROVE  Before(a, b, intent, message.words)
  <2>1. ~(place(b) < place(a))
    BY <1>3, <1>4, <1>5
  <2>2. place(a) <= place(b)
    BY <2>1, <1>1, <1>5
  <2>3. Score(a, intent, message.words) \in Nat /\ Score(b, intent, message.words) \in Nat
    BY <1>1, <1>5, ScoreIsNat
  <2>4. Agents[a].order \in 1..9 /\ Agents[b].order \in 1..9
    BY <1>1, <1>5, AgentFacts
  <2> QED  BY <2>2, <2>3, <2>4 DEF Before
<1> QED  BY <1>4, <1>5

LEMMA RouteFacts ==
  ASSUME NEW message \in Question, NEW intent
  PROVE  LET a == Route(intent, message.words)
             E == Eligible(intent, message.words)
         IN  /\ a \in Agent
             /\ E = {} => a = "knowledge"
             /\ E # {} => a \in E /\ \A b \in E : Before(a, b, intent, message.words)
BY FirstExists, AgentFacts DEF Route, Eligible

(* Who is chosen has words, if anyone has; and where another handles the   *)
(* intent and it does not, it has at least two words more.                 *)
LEMMA RouteIsEarned ==
  ASSUME NEW message \in Question, NEW intent
  PROVE  LET words == message.words
             agent == Route(intent, words)
             Counted(a) == IF words[a] > 3 THEN 3 ELSE words[a]
         IN  /\ (\E a \in Agent : words[a] > 0) => words[agent] > 0
             /\ intent \notin Agents[agent].intents =>
                  \A a \in Agent : words[a] > 0 /\ intent \in Agents[a].intents =>
                    Counted(agent) >= Counted(a) + 2
<1> DEFINE words == message.words
           agent == Route(intent, words)
           Counted(a) == IF words[a] > 3 THEN 3 ELSE words[a]
<1>1. \A a \in Agent : words[a] > 0 => a \in Eligible(intent, words)
  BY ScoreIsNat DEF Eligible, Score, MatchThreshold
<1>2. ASSUME NEW a \in Agent, words[a] > 0
      PROVE  /\ agent \in Agent /\ words[agent] > 0
             /\ Score(agent, intent, words) >= Score(a, intent, words)
  <2>1. a \in Eligible(intent, words)
    BY <1>1, <1>2
  <2>2. agent \in Eligible(intent, words) /\ Before(agent, a, intent, words)
    BY <2>1, RouteFacts
  <2>3. agent \in Agent /\ words[agent] > 0
    BY <2>2 DEF Eligible
  <2>4. Score(agent, intent, words) \in Nat /\ Score(a, intent, words) \in Nat
    BY <2>3, ScoreIsNat
  <2> QED  BY <2>2, <2>3, <2>4 DEF Before
<1>3. ASSUME NEW a \in Agent, words[a] > 0, intent \in Agents[a].intents,
             intent \notin Agents[agent].intents
      PROVE  Counted(agent) >= Counted(a) + 2
  <2>1. agent \in Agent /\ Score(agent, intent, words) >= Score(a, intent, words)
    BY <1>2, <1>3
  <2>2. words[agent] \in Nat /\ words[a] \in Nat
    BY <2>1, ScoreIsNat
  <2> QED  BY <2>1, <2>2, <1>3 DEF Score
<1> QED  BY <1>2, <1>3

LEMMA IntentFacts ==
  /\ Intent = {"ANALYZE", "CREATE", "AUTOMATE", "SEARCH", "CONVERSE"}
  /\ DOMAIN Ordered = 1..4
  /\ Ordered[1] = "ANALYZE" /\ Ordered[2] = "CREATE" /\ Ordered[3] = "AUTOMATE"
  /\ Ordered[4] = "SEARCH"
BY DEF Intent, Ordered

LEMMA BestExists ==
  ASSUME NEW message \in Question
  PROVE  BestIndex(message.hits) \in 1..4
<1> DEFINE n(i) == message.hits[Ordered[i]]
<1>1. \A i \in 1..4 : n(i) \in Nat
  BY IntentFacts DEF Question
<1>2. \E i \in 1..4 : (\A j \in 1..4 : n(j) <= n(i)) /\ (\A j \in 1..(i - 1) : n(j) < n(i))
  <2>1. CASE n(1) >= n(2) /\ n(1) >= n(3) /\ n(1) >= n(4)
    BY <1>1, <2>1
  <2>2. CASE n(2) > n(1) /\ n(2) >= n(3) /\ n(2) >= n(4)
    BY <1>1, <2>2
  <2>3. CASE n(3) > n(1) /\ n(3) > n(2) /\ n(3) >= n(4)
    BY <1>1, <2>3
  <2>4. CASE n(4) > n(1) /\ n(4) > n(2) /\ n(4) > n(3)
    BY <1>1, <2>4
  <2> QED  BY <1>1, <2>1, <2>2, <2>3, <2>4
<1> QED  BY <1>2, IntentFacts DEF BestIndex

LEMMA ClassifiedIsIntent ==
  ASSUME NEW message \in Question
  PROVE  Classified(message) \in Intent
BY BestExists, IntentFacts DEF Classified, ByKeyword, Question

LEMMA PlanFacts ==
  ASSUME NEW intent \in Intent
  PROVE  LET plan == ToolPlan[intent]
         IN  /\ plan \in Seq(Tool) /\ Len(plan) \in 1..2 /\ DOMAIN plan = 1..Len(plan)
             /\ plan[1] = "knowledge_search"
             /\ Len(plan) = 2 => plan[2] # "knowledge_search"
             /\ \A i \in 1..Len(plan) : plan[i] \in Tool
<1>1. {"knowledge_search", "analytics_query", "document_draft", "workflow_execute"} \subseteq Tool
  BY DEF Tool, Registry
<1>2. ToolPlan[intent] \in Seq(Tool)
  <2>0. CASE intent = "SEARCH"
    BY <1>1, <2>0 DEF ToolPlan
  <2>1. CASE intent = "CONVERSE"
    BY <1>1, <2>1 DEF ToolPlan
  <2>2. CASE intent = "ANALYZE"
    BY <1>1, <2>2 DEF ToolPlan
  <2>3. CASE intent = "CREATE"
    BY <1>1, <2>3 DEF ToolPlan
  <2>4. CASE intent = "AUTOMATE"
    BY <1>1, <2>4 DEF ToolPlan
  <2> QED  BY <2>0, <2>1, <2>2, <2>3, <2>4, IntentFacts
<1>3. CASE intent \in {"SEARCH", "CONVERSE"}
  BY <1>1, <1>3, <1>2 DEF ToolPlan
<1>4. CASE intent \in {"ANALYZE", "CREATE", "AUTOMATE"}
  BY <1>1, <1>4, <1>2 DEF ToolPlan
<1> QED  BY <1>3, <1>4, IntentFacts

-----------------------------------------------------------------------------
(* The queue and the reader. *)

LEMMA Joined ==
  ASSUME NEW s \in Seq(Event), NEW t \in Seq(Event), NEW u \in Seq(Event)
  PROVE  s \o t \in Seq(Event) /\ (s \o t) \o u = s \o (t \o u)
<1>1. s \o t \in Seq(Event)
  BY ConcatProperties
<1>2. (s \o t) \o u = s \o (t \o u)
  BY ConcatAssociative
<1> QED  BY <1>1, <1>2

LEMMA Single ==
  ASSUME NEW e \in Event
  PROVE  <<e>> \in Seq(Event) /\ Len(<<e>>) = 1 /\ <<e>>[1] = e
OBVIOUS

LEMMA FirstOf ==
  ASSUME NEW s \in Seq(Event), s # <<>>
  PROVE  /\ Head(s) = s[1] /\ s[1] \in Event /\ Tail(s) \in Seq(Event)
         /\ s = <<s[1]>> \o Tail(s)
OBVIOUS

LEMMA GivenIsTold ==
  ASSUME NEW read \in Seq(Event), NEW rest \in Seq(Event), NEW event \in Event
  PROVE  \E i \in DOMAIN (Append(read, event) \o rest) : (Append(read, event) \o rest)[i] = event
<1>1. PICK more \in Seq(Event) : more = Append(read, event)
  BY AppendProperties
<1>2. Len(more) \in Nat \ {0} /\ more[Len(more)] = event
  BY <1>1, AppendProperties
<1>3. /\ Len(more \o rest) >= Len(more) /\ DOMAIN (more \o rest) = 1..Len(more \o rest)
      /\ (more \o rest)[Len(more)] = more[Len(more)] /\ Len(more \o rest) \in Nat
  BY <1>2, ConcatProperties
<1> QED  BY <1>1, <1>2, <1>3

WireRecord == [ended : BOOLEAN, gone : BOOLEAN]

(* What is pushed comes after what was told.                               *)
LEMMA PushedPipes ==
  ASSUME NEW q \in QueueRecord, NEW w \in WireRecord, NEW told \in Seq(Event),
         NEW read \in Seq(Event), NEW events \in Seq(Event),
         Piped(q, w, told, read), ~q.closed, w.gone => events = <<>>
  PROVE  LET p == Pushed(q, events)
         IN  /\ p \in QueueRecord /\ ~p.closed /\ Piped(p, w, told \o events, read)
             /\ Closed(p) \in QueueRecord /\ Closed(p).closed
             /\ Piped(Closed(p), w, told \o events, read)
<1>p. PICK p : p = Pushed(q, events)
  OBVIOUS
<1>0. q.handed \in Seq(Event) /\ q.buffer \in Seq(Event) /\ q.waiting \in BOOLEAN
  BY DEF QueueRecord
<1>1. /\ p \in QueueRecord /\ ~p.closed /\ Len(p.handed) <= 1
      /\ p.waiting => p.handed = <<>> /\ p.buffer = <<>>
      /\ w.gone => p.handed = <<>> /\ p.buffer = <<>>
      /\ ~w.gone => read \o p.handed \o p.buffer = told \o events
  <2>1. CASE events = <<>>
    <3>1. p = q
      BY <1>p, <2>1 DEF Pushed
    <3>2. told \o events = told
      BY <2>1, ConcatEmptySeq
    <3> QED  BY <3>1, <3>2 DEF Piped
  <2>2. CASE events # <<>> /\ q.waiting
    <3>1. /\ p.waiting = FALSE /\ p.handed = <<events[1]>> /\ p.buffer = q.buffer \o Tail(events)
          /\ p.closed = q.closed
          /\ p = [buffer |-> p.buffer, waiting |-> FALSE, handed |-> p.handed, closed |-> q.closed]
      BY <1>p, <2>2 DEF Pushed, QueueRecord
    <3>2. q.handed = <<>> /\ q.buffer = <<>> /\ ~w.gone
      BY <2>2 DEF Piped
    <3>3. /\ Tail(events) \in Seq(Event) /\ events[1] \in Event
          /\ <<events[1]>> \in Seq(Event) /\ Len(<<events[1]>>) = 1
      BY <2>2
    <3>4. p.buffer = Tail(events)
      BY <3>1, <3>2, <3>3, ConcatEmptySeq
    <3>5. <<events[1]>> \o Tail(events) = events
      BY <2>2, <3>3
    <3>6. told = read
      BY <3>2, ConcatEmptySeq DEF Piped
    <3>7. (read \o <<events[1]>>) \o Tail(events) = read \o (<<events[1]>> \o Tail(events))
      BY <3>3, Joined, Zenon
    <3>8. read \o p.handed \o p.buffer = told \o events
      <4>1. p.handed = <<events[1]>> /\ p.buffer = Tail(events)
        BY <3>1, <3>4
      <4> QED  BY <4>1, <3>5, <3>6, <3>7, Zenon
    <3>9. p \in QueueRecord /\ ~p.closed /\ Len(p.handed) <= 1 /\ ~p.waiting /\ ~w.gone
      <4>1. p.handed \in Seq(Event) /\ Len(p.handed) = 1 /\ p.buffer \in Seq(Event)
        BY <3>3, <3>4, <3>1
      <4>2. /\ p = [buffer |-> p.buffer, waiting |-> FALSE, handed |-> p.handed, closed |-> q.closed]
            /\ q.closed = FALSE
        BY <3>1 DEF QueueRecord
      <4>3. PICK b \in Seq(Event), d \in Seq(Event) : b = p.buffer /\ d = p.handed /\ Len(d) = 1
        BY <4>1
      <4>4. p = [buffer |-> b, waiting |-> FALSE, handed |-> d, closed |-> FALSE]
        BY <4>2, <4>3
      <4> QED  BY <4>3, <4>4, <3>2 DEF QueueRecord
    <3> QED  BY <3>8, <3>9, Zenon
  <2>3. CASE events # <<>> /\ ~q.waiting
    <3>1. /\ p.waiting = FALSE /\ p.handed = q.handed /\ p.buffer = q.buffer \o events
          /\ p.closed = q.closed
          /\ p = [buffer |-> p.buffer, waiting |-> FALSE, handed |-> p.handed, closed |-> q.closed]
      BY <1>p, <2>3, <1>0 DEF Pushed, QueueRecord
    <3>2. p.buffer \in Seq(Event) /\ ~w.gone
      BY <3>1, <1>0, <2>3, ConcatProperties
    <3>3. read \o q.handed \in Seq(Event)
      BY <1>0, ConcatProperties
    <3>4. (read \o q.handed) \o (q.buffer \o events) = ((read \o q.handed) \o q.buffer) \o events
      BY <3>3, <1>0, Joined, Zenon
    <3> QED  BY <1>0, <3>1, <3>2, <3>4 DEF Piped, QueueRecord
  <2> QED  BY <2>1, <2>2, <2>3
<1>2. w.gone => told \o events = <<>> /\ read = <<>>
  <2>1. w.gone => told = <<>> /\ events = <<>> /\ read = <<>>
    BY DEF Piped
  <2> QED  BY <2>1, ConcatEmptySeq
<1>3. w.ended => w.gone
  BY DEF Piped
<1>4. Piped(p, w, told \o events, read)
  BY <1>1, <1>2, <1>3 DEF Piped
<1>5. /\ Closed(p) \in QueueRecord /\ Closed(p).closed /\ ~Closed(p).waiting
      /\ Closed(p).handed = p.handed /\ Closed(p).buffer = p.buffer
  BY <1>1 DEF Closed, QueueRecord
<1>6. Piped(Closed(p), w, told \o events, read)
  BY <1>4, <1>5 DEF Piped
<1> QED  BY <1>p, <1>1, <1>4, <1>5, <1>6

(* What the reader is given is the next of what was told.                  *)
LEMMA PumpPipes ==
  ASSUME NEW q \in QueueRecord, NEW w \in WireRecord, NEW told \in Seq(Event),
         NEW read \in Seq(Event), Piped(q, w, told, read), ~w.gone, ~w.ended,
         q.handed \o q.buffer # <<>>
  PROVE  LET p == Polled(Taken(q))
             event == Head(q.handed \o q.buffer)
         IN  /\ p \in QueueRecord /\ p.closed = q.closed
             /\ event \in Event /\ Append(read, event) \in Seq(Event)
             /\ Piped(p, w, told, Append(read, event))
             /\ \E i \in DOMAIN told : told[i] = event
<1>n. PICK n : n = Taken(q)
  OBVIOUS
<1>p. PICK p : p = Polled(n)
  OBVIOUS
<1>e. PICK event : event = Head(q.handed \o q.buffer)
  OBVIOUS
<1>0. q.handed \in Seq(Event) /\ q.buffer \in Seq(Event) /\ q.closed \in BOOLEAN
  BY DEF QueueRecord
<1>1. /\ event \in Event /\ p \in QueueRecord /\ p.closed = q.closed /\ p.handed = <<>>
      /\ p.waiting => p.buffer = <<>>
      /\ q.handed \o q.buffer = <<event>> \o p.buffer /\ p.buffer \in Seq(Event)
  <2>1. CASE q.handed # <<>>
    <3>1. q.handed = <<q.handed[1]>> /\ q.handed[1] \in Event
      BY <1>0, <2>1 DEF Piped
    <3>2. event = q.handed[1]
      <4>1. q.handed \o q.buffer = <<q.handed[1]>> \o q.buffer
        BY <3>1
      <4>2. <<q.handed[1]>> \in Seq(Event) /\ Len(<<q.handed[1]>>) = 1
        BY <3>1, Single
      <4>3. (<<q.handed[1]>> \o q.buffer)[1] = q.handed[1]
        BY <4>2, <1>0, ConcatProperties
      <4>4. Head(<<q.handed[1]>> \o q.buffer) = (<<q.handed[1]>> \o q.buffer)[1]
        BY <4>2, <1>0
      <4> QED  BY <1>e, <4>1, <4>3, <4>4, Zenon
    <3>3a. n = [buffer |-> q.buffer, waiting |-> q.waiting, handed |-> <<>>, closed |-> q.closed]
      BY <1>n, <2>1 DEF QueueRecord, Taken
    <3>3. p = [buffer |-> q.buffer, waiting |-> q.buffer = <<>> /\ ~q.closed, handed |-> <<>>,
               closed |-> q.closed]
      BY <1>p, <3>3a DEF Polled
    <3>4. q.handed = <<event>> /\ p.buffer = q.buffer
      BY <3>1, <3>2, <3>3
    <3>5. q.handed \o q.buffer = <<event>> \o p.buffer
      BY <3>4, Zenon
    <3>6. /\ event \in Event /\ p \in QueueRecord /\ p.closed = q.closed /\ p.handed = <<>>
          /\ p.waiting => p.buffer = <<>>
          /\ p.buffer \in Seq(Event)
      <4>1. p.waiting \in BOOLEAN
        BY <3>3
      <4>2. event \in Event
        BY <3>1, <3>2
      <4>3. <<>> \in Seq(Event)
        OBVIOUS
      <4> QED  BY <1>0, <3>3, <4>1, <4>2, <4>3 DEF QueueRecord
    <3> QED  BY <3>5, <3>6, Zenon
  <2>2. CASE q.handed = <<>>
    <3>1. q.handed \o q.buffer = q.buffer
      BY <1>0, <2>2, ConcatEmptySeq
    <3>2. /\ event = Head(q.buffer) /\ q.buffer # <<>>
          /\ event \in Event /\ Tail(q.buffer) \in Seq(Event)
      BY <1>0, <1>e, <3>1
    <3>3a. n = [buffer |-> Tail(q.buffer), waiting |-> q.waiting, handed |-> <<>>,
                closed |-> q.closed]
      BY <1>n, <2>2 DEF QueueRecord, Taken
    <3>3. p = [buffer |-> Tail(q.buffer), waiting |-> Tail(q.buffer) = <<>> /\ ~q.closed,
               handed |-> <<>>, closed |-> q.closed]
      BY <1>p, <3>3a DEF Polled
    <3>4. q.buffer = <<event>> \o Tail(q.buffer)
      <4>1. event = q.buffer[1] /\ q.buffer = <<q.buffer[1]>> \o Tail(q.buffer)
        BY <1>0, <3>2, FirstOf
      <4> QED  BY <4>1, Zenon
    <3>5. q.handed \o q.buffer = <<event>> \o p.buffer
      <4>1. p.buffer = Tail(q.buffer)
        BY <3>3
      <4> QED  BY <4>1, <3>1, <3>4, Zenon
    <3>6. /\ event \in Event /\ p \in QueueRecord /\ p.closed = q.closed /\ p.handed = <<>>
          /\ p.waiting => p.buffer = <<>>
          /\ p.buffer \in Seq(Event)
      <4>1. p.waiting \in BOOLEAN
        BY <3>3
      <4>2. Tail(q.buffer) \in Seq(Event) /\ event \in Event
        BY <3>2
      <4>3. <<>> \in Seq(Event)
        OBVIOUS
      <4> QED  BY <1>0, <3>3, <4>1, <4>2, <4>3 DEF QueueRecord
    <3> QED  BY <3>5, <3>6, Zenon
  <2> QED  BY <2>1, <2>2
<1>2. Append(read, event) \in Seq(Event) /\ Append(read, event) = read \o <<event>>
  BY <1>1, AppendProperties, AppendIsConcat
<1>3. <<event>> \in Seq(Event)
  BY <1>1
<1>4. told = (read \o <<event>>) \o p.buffer
  <2>1. told = (read \o q.handed) \o q.buffer
    BY DEF Piped
  <2>2. (read \o q.handed) \o q.buffer = read \o (q.handed \o q.buffer)
    BY <1>0, Joined, Zenon
  <2>3. (read \o <<event>>) \o p.buffer = read \o (<<event>> \o p.buffer)
    BY <1>1, <1>3, Joined, Zenon
  <2> QED  BY <2>1, <2>2, <2>3, <1>1, Zenon
<1>5. Append(read, event) \o p.handed = Append(read, event)
  BY <1>1, <1>2, ConcatEmptySeq
<1>6. Piped(p, w, told, Append(read, event))
  BY <1>1, <1>2, <1>4, <1>5 DEF Piped
<1>7. \E i \in DOMAIN told : told[i] = event
  <2>1. told = Append(read, event) \o p.buffer
    BY <1>2, <1>4
  <2>2. event \in Event /\ p.buffer \in Seq(Event)
    BY <1>1
  <2>3. \E i \in DOMAIN (Append(read, event) \o p.buffer) :
          (Append(read, event) \o p.buffer)[i] = event
    BY <2>2, GivenIsTold
  <2> QED  BY <2>1, <2>3, Zenon
<1> QED  BY <1>n, <1>p, <1>e, <1>1, <1>2, <1>6, <1>7

(* A turn that goes from m to n may tell what it has not told before.      *)
MayTell(m, n, events) ==
  /\ n.kind = m.kind /\ m.stage \notin Settled \cup {"none"} /\ n.stage \notin Early
  /\ n.stage = "classify" => n.phase = "UNDERSTANDING"
  /\ m.stage \in Early =>
       IF n.stage = "failed" THEN events = <<>> ELSE events # <<>> /\ events[1] = "accepted"
  /\ Ahead(n) \subseteq Ahead(m)
  /\ \A i \in DOMAIN events :
       /\ events[i] \notin Ahead(n)
       /\ events[i] \in Phases \cup {"accepted"} => events[i] \in Ahead(m)
       /\ events[i] \in Ends => i = Len(events)
       /\ events[i] = "done" => n.stage = "answered"
       /\ events[i] = "error" => n.stage = "failed"
  /\ \A i, j \in DOMAIN events :
       events[i] = events[j] /\ events[i] \in Phases \cup {"accepted"} => i = j

LEMMA SpokenOn ==
  ASSUME NEW m, NEW n, NEW gone \in BOOLEAN, NEW told \in Seq(Event), NEW events \in Seq(Event),
         Spoken(m, gone, told), MayTell(m, n, events), gone => told = <<>>
  PROVE  Spoken(n, gone, told \o (IF m.kind = "stream" /\ ~gone THEN events ELSE <<>>))
<1> DEFINE out == IF m.kind = "stream" /\ ~gone THEN events ELSE <<>>
           all == told \o out
<1>1. out \in Seq(Event) /\ n.kind = m.kind
  BY DEF MayTell
<1>2. /\ all \in Seq(Event) /\ Len(all) = Len(told) + Len(out) /\ DOMAIN all = 1..Len(all)
      /\ \A i \in 1..Len(all) : all[i] = IF i <= Len(told) THEN told[i] ELSE out[i - Len(told)]
      /\ DOMAIN told = 1..Len(told) /\ DOMAIN out = 1..Len(out)
      /\ Len(told) \in Nat /\ Len(out) \in Nat
  BY <1>1, ConcatProperties
<1>3. CASE out = <<>>
  <2>1. all = told
    BY <1>3, ConcatEmptySeq
  <2>2. ASSUME NEW i \in DOMAIN told
        PROVE  /\ told[i] \notin Ahead(n) /\ told[i] \notin Ends
    BY DEF Spoken, MayTell, Ends, Settled
  <2>3. n.stage \notin Early \cup {"failed"} /\ n.kind = "stream" /\ ~gone => told # <<>>
    BY <1>1, <1>3 DEF Spoken, MayTell, Settled, Early
  <2> QED  BY <2>1, <2>2, <2>3 DEF Spoken, MayTell, Ends
<1>4. CASE out # <<>>
  <2>1. out = events /\ m.kind = "stream" /\ ~gone
    BY <1>4
  <2>2. Len(out) > 0 /\ all # <<>>
    BY <1>1, <1>2, <1>4
  <2>3. all[1] = "accepted"
    <3>1. CASE m.stage \in Early
      <4>1. told = <<>> /\ events[1] = "accepted"
        BY <3>1, <2>1, <1>4 DEF Spoken, MayTell
      <4> QED  BY <4>1, <2>1, ConcatEmptySeq
    <3>2. CASE m.stage \notin Early
      <4>1. told # <<>> /\ told[1] = "accepted"
        BY <3>2, <2>1 DEF Spoken, MayTell, Settled
      <4> QED  BY <4>1, <1>2, <2>2
    <3> QED  BY <3>1, <3>2
  <2>4. ASSUME NEW i \in DOMAIN all
        PROVE  /\ all[i] \notin Ahead(n)
               /\ all[i] \in Ends => i = Len(all)
               /\ all[i] = "done" => n.stage = "answered"
               /\ all[i] = "error" => n.stage = "failed"
    <3>1. CASE i <= Len(told)
      <4>1. i \in DOMAIN told /\ all[i] = told[i]
        BY <3>1, <1>2
      <4>2. told[i] \notin Ahead(n) /\ told[i] \notin Ends
        BY <4>1 DEF Spoken, MayTell, Ends, Settled
      <4> QED  BY <4>1, <4>2 DEF Ends
    <3>2. CASE i > Len(told)
      <4>1. i - Len(told) \in DOMAIN events /\ all[i] = events[i - Len(told)]
        BY <3>2, <1>2, <2>1
      <4> QED  BY <4>1, <1>2, <2>1 DEF MayTell
    <3> QED  BY <3>1, <3>2, <1>2
  <2>5. ASSUME NEW i \in DOMAIN all, NEW j \in DOMAIN all, i < j,
               all[i] = all[j], all[i] \in Phases \cup {"accepted"}
        PROVE  FALSE
    <3>1. CASE j <= Len(told)
      <4>1. i \in DOMAIN told /\ j \in DOMAIN told /\ all[i] = told[i] /\ all[j] = told[j]
        BY <3>1, <2>5, <1>2
      <4>2. i = j
        BY <4>1, <2>5 DEF Spoken
      <4> QED  BY <4>2, <2>5, <1>2
    <3>2. CASE i <= Len(told) /\ j > Len(told)
      <4>1. i \in DOMAIN told /\ all[i] = told[i]
        BY <3>2, <1>2
      <4>2. j - Len(told) \in DOMAIN events /\ all[j] = events[j - Len(told)]
        BY <3>2, <1>2, <2>1
      <4>3. told[i] \in Ahead(m)
        BY <4>1, <4>2, <2>5 DEF MayTell
      <4> QED  BY <4>1, <4>3 DEF Spoken
    <3>3. CASE i > Len(told)
      <4>1. i - Len(told) \in DOMAIN events /\ all[i] = events[i - Len(told)]
        BY <3>3, <1>2, <2>1
      <4>2. j - Len(told) \in DOMAIN events /\ all[j] = events[j - Len(told)]
        BY <3>3, <2>5, <1>2, <2>1
      <4>3. i - Len(told) = j - Len(told)
        BY <4>1, <4>2, <2>5 DEF MayTell
      <4> QED  BY <4>3, <2>5, <1>2
    <3> QED  BY <3>1, <3>2, <3>3, <1>2
  <2>6. \A i, j \in DOMAIN all :
          all[i] = all[j] /\ all[i] \in Phases \cup {"accepted"} => i = j
    BY <2>5, <1>2
  <2>7. n.stage \notin Early /\ (n.stage = "classify" => n.phase = "UNDERSTANDING")
    BY DEF MayTell
  <2> QED  BY <1>1, <2>1, <2>2, <2>3, <2>4, <2>6, <2>7 DEF Spoken
<1> QED  BY <1>3, <1>4

-----------------------------------------------------------------------------
(* What a step of one turn leaves of the others. *)

LEMMA NoneFacts ==
  /\ None \notin Turn /\ None \notin Conv /\ None \notin Conversation
  /\ None \notin Intent /\ None \notin Agent /\ None \notin Question
  /\ MaxFaults \in Nat /\ Parts \in Nat /\ HistoryLimit \in Nat /\ MaxTurns \in Nat
  /\ MaxConvs \in Nat /\ Turn \subseteq Nat
BY ChatAssumption DEF ChatAssumption, Turn

(* Turn t becomes n, the others stay.                                      *)
Becomes(t, n) ==
  /\ n \in TurnRecord /\ turn' \in [Turn -> TurnRecord]
  /\ turn'[t] = n /\ \A u \in Turn \ {t} : turn'[u] = turn[u]

LEMMA BecomesBy ==
  ASSUME Shapes, NEW t \in Turn, NEW n \in TurnRecord, turn' = [turn EXCEPT ![t] = n]
  PROVE  Becomes(t, n)
BY DEF Becomes, Shapes

LEMMA StreamShapes ==
  ASSUME Shapes, NEW t \in Turn
  PROVE  /\ turn[t] \in TurnRecord /\ queue[t] \in QueueRecord /\ wire[t] \in WireRecord
         /\ said[t] \in Seq(Event) /\ heard[t] \in Seq(Event)
BY DEF Shapes, WireRecord

StreamsShaped ==
  /\ queue \in [Turn -> QueueRecord] /\ wire \in [Turn -> [ended : BOOLEAN, gone : BOOLEAN]]
  /\ said \in [Turn -> Seq(Event)] /\ heard \in [Turn -> Seq(Event)]

StreamsInv == \A t \in Turn : Streamed(turn[t], queue[t], wire[t], said[t], heard[t])

(* What a turn tells while it goes on, or as its last word.                *)
LEMMA Tells ==
  ASSUME ChatInv, NEW t \in Turn, NEW n, Becomes(t, n), NEW events \in Seq(Event),
         MayTell(turn[t], n, events), heard' = heard,
         Report(t, events) \/ (ReportLast(t, events) /\ n.stage \in Settled)
  PROVE  (StreamsShaped /\ StreamsInv)' /\ wire' = wire
<1>0. Shapes
  BY DEF ChatInv
<1>1. PICK m \in TurnRecord, q \in QueueRecord, w \in WireRecord, told \in Seq(Event),
           read \in Seq(Event) :
        m = turn[t] /\ q = queue[t] /\ w = wire[t] /\ told = said[t] /\ read = heard[t]
  BY <1>0, StreamShapes
<1>2. Streamed(m, q, w, told, read)
  BY <1>1 DEF ChatInv
<1>3. PICK out : out = IF m.kind = "stream" /\ ~w.gone THEN events ELSE <<>>
  OBVIOUS
<1>4. out \in Seq(Event) /\ (w.gone => out = <<>>) /\ w.gone \in BOOLEAN
  BY <1>3 DEF WireRecord
<1>5. Told(t, events) = out
  BY <1>1, <1>3 DEF Told
<1>6. ~q.closed /\ m.stage \notin Settled /\ m.stage # "none" /\ n.stage # "none"
  BY <1>1, <1>2 DEF MayTell, Streamed, Settled, Early
<1>7. PICK p : p = Pushed(q, out)
  OBVIOUS
<1>8. /\ p \in QueueRecord /\ ~p.closed /\ Piped(p, w, told \o out, read)
      /\ Closed(p) \in QueueRecord /\ Piped(Closed(p), w, told \o out, read)
  BY <1>2, <1>4, <1>6, <1>7, PushedPipes DEF Streamed
<1>9. Spoken(n, w.gone, told \o out)
  <2>1. w.gone => told = <<>>
    BY <1>2 DEF Streamed, Piped
  <2>2. MayTell(m, n, events) /\ Spoken(m, w.gone, told)
    BY <1>1, <1>2 DEF Streamed
  <2> QED  BY <1>3, <1>4, <2>1, <2>2, SpokenOn
<1>10. told \o out \in Seq(Event)
  BY <1>4, ConcatProperties
<1>11. PICK r \in QueueRecord : queue' = [queue EXCEPT ![t] = r] /\ Piped(r, w, told \o out, read)
                                /\ (r.closed => n.stage \in Settled)
  <2>1. CASE Report(t, events)
    BY <2>1, <1>1, <1>5, <1>7, <1>8 DEF Report
  <2>2. CASE ReportLast(t, events) /\ n.stage \in Settled
    BY <2>2, <1>1, <1>5, <1>7, <1>8 DEF ReportLast
  <2> QED  BY <2>1, <2>2
<1>12. said' = [said EXCEPT ![t] = told \o out] /\ wire' = wire
  BY <1>1, <1>5 DEF Report, ReportLast
<1>13. queue'[t] = r /\ said'[t] = told \o out /\ wire'[t] = w /\ heard'[t] = read /\ turn'[t] = n
  BY <1>0, <1>1, <1>11, <1>12 DEF Shapes, Becomes
<1>14. StreamsShaped'
  BY <1>0, <1>10, <1>11, <1>12 DEF Shapes, StreamsShaped
<1>15. ASSUME NEW u \in Turn
       PROVE  Streamed(turn'[u], queue'[u], wire'[u], said'[u], heard'[u])
  <2>1. CASE u = t
    BY <2>1, <1>6, <1>9, <1>11, <1>13 DEF Streamed
  <2>2. CASE u # t
    <3>1. /\ turn'[u] = turn[u] /\ queue'[u] = queue[u] /\ wire'[u] = wire[u]
          /\ said'[u] = said[u] /\ heard'[u] = heard[u]
      BY <2>2, <1>0, <1>11, <1>12 DEF Becomes, Shapes
    <3> QED  BY <3>1 DEF ChatInv
  <2> QED  BY <2>1, <2>2
<1> QED  BY <1>12, <1>14, <1>15 DEF StreamsInv

LEMMA QuietIsReport ==
  ASSUME Shapes, NEW t \in Turn, Quiet
  PROVE  Report(t, <<>>)
<1>1. Told(t, <<>>) = <<>> /\ Pushed(queue[t], <<>>) = queue[t]
  BY DEF Told, Pushed
<1>2. said[t] \o <<>> = said[t]
  BY StreamShapes, ConcatEmptySeq
<1>3. [queue EXCEPT ![t] = queue[t]] = queue /\ [said EXCEPT ![t] = said[t]] = said
  BY DEF Shapes
<1> QED  BY <1>1, <1>2, <1>3 DEF Quiet, stream, Report

(* A turn that has told nothing may go on in silence.                      *)
LEMMA StaysSilent ==
  ASSUME ChatInv, NEW t \in Turn, NEW n, Becomes(t, n), UNCHANGED <<stream, heard>>,
         turn[t].stage \in Early, n.stage \in (Early \ {"none"}) \cup {"failed"}
  PROVE  (StreamsShaped /\ StreamsInv)'
<1>0. Shapes
  BY DEF ChatInv
<1>1. StreamsShaped'
  BY <1>0 DEF Shapes, StreamsShaped, stream
<1>2. ASSUME NEW u \in Turn
      PROVE  Streamed(turn'[u], queue'[u], wire'[u], said'[u], heard'[u])
  <2>1. Streamed(turn[u], queue[u], wire[u], said[u], heard[u])
    BY DEF ChatInv
  <2>2. CASE u = t
    <3>1. said[t] = <<>> /\ ~queue[t].closed /\ Piped(queue[t], wire[t], said[t], heard[t])
      BY <2>1, <2>2 DEF Streamed, Spoken, Early, Settled
    <3>2. Spoken(n, wire[t].gone, <<>>)
      BY DEF Spoken, Early
    <3> QED  BY <2>2, <3>1, <3>2 DEF Streamed, Becomes, stream, Early
  <2>3. CASE u # t
    BY <2>1, <2>3 DEF Becomes, stream
  <2> QED  BY <2>2, <2>3
<1> QED  BY <1>1, <1>2 DEF StreamsInv

-----------------------------------------------------------------------------
(* What a step of one turn leaves of threads and of the page. *)

(* Threads grow: only the rows turn t has not committed may change.        *)
Grown(t) ==
  /\ conv' \in [Conv -> Conversation \cup {None}]
  /\ \A c \in Conv : conv[c] # None =>
       /\ conv'[c] # None /\ conv'[c].owner = conv[c].owner
       /\ Len(conv'[c].rows) >= Len(conv[c].rows)
       /\ \A i \in DOMAIN conv[c].rows :
            conv[c].rows[i].turn # t \/ conv[c].rows[i].live =>
              conv'[c].rows[i] = conv[c].rows[i]

(* Turn t goes on on the server and becomes n.                             *)
GoesOn(t, n) ==
  /\ Becomes(t, n) /\ turn[t].stage \notin Settled \cup {"none"} /\ n.stage # "none"
  /\ n.kind = turn[t].kind /\ n.by = turn[t].by /\ n.asked = turn[t].asked
  /\ \/ n.conv = turn[t].conv
     \/ turn[t].stage = "sent" /\ (turn[t].asked = None => n.conv \notin minted)
  /\ minted \subseteq minted' /\ Grown(t) /\ (faults' = 0 => faults = 0)
  /\ UNCHANGED <<store, wire>>

(* It has told the model what it will, or does not yet.                    *)
SameHistory(t, n) ==
  \/ n.stage \in Early \cup {"failed"}
  \/ /\ turn[t].stage \notin Early \cup {"failed"}
     /\ n.history = turn[t].history /\ n.conv = turn[t].conv

LEMMA RowShapes ==
  ASSUME Shapes, NEW c \in Conv, conv[c] # None
  PROVE  /\ conv[c] \in Conversation /\ conv[c].owner \in Actor
         /\ conv[c].rows \in Seq(MessageRow) /\ DOMAIN conv[c].rows = 1..Len(conv[c].rows)
         /\ Len(conv[c].rows) \in Nat
         /\ \A i \in DOMAIN conv[c].rows : conv[c].rows[i] \in MessageRow
         /\ \A i \in DOMAIN conv[c].rows : conv[c].rows[i].turn \in Turn
<1>1. conv[c] \in Conversation
  BY DEF Shapes
<1>2. conv[c].rows \in Seq(MessageRow) /\ conv[c].owner \in Actor
  BY <1>1 DEF Conversation
<1>3. \A i \in DOMAIN conv[c].rows : conv[c].rows[i] \in MessageRow
  BY <1>2
<1> QED  BY <1>1, <1>2, <1>3 DEF MessageRow

LEMMA SameThreads ==
  ASSUME Shapes, NEW t, conv' = conv
  PROVE  Grown(t)
<1>1. conv' \in [Conv -> Conversation \cup {None}]
  BY DEF Shapes
<1>2. ASSUME NEW c \in Conv, conv[c] # None
      PROVE  Len(conv[c].rows) \in Nat
  BY <1>2, RowShapes
<1> QED  BY <1>1, <1>2 DEF Grown

LEMMA NewThread ==
  ASSUME Shapes, NEW t, NEW c \in Conv, NEW actor \in Actor,
         conv' = [conv EXCEPT ![c] = IF @ = None THEN NewRow(actor) ELSE @]
  PROVE  /\ Grown(t) /\ conv'[c] # None
         /\ \A d \in Conv : \/ conv'[d] = conv[d]
                            \/ d = c /\ conv[d] = None /\ conv'[d] = NewRow(actor)
<1>1. NewRow(actor) \in Conversation
  BY DEF NewRow, Conversation
<1>2. conv' \in [Conv -> Conversation \cup {None}] /\ conv'[c] # None
  BY <1>1, NoneFacts DEF Shapes
<1>3. \A d \in Conv : \/ conv'[d] = conv[d]
                      \/ d = c /\ conv[d] = None /\ conv'[d] = NewRow(actor)
  BY DEF Shapes
<1>4. ASSUME NEW d \in Conv, conv[d] # None
      PROVE  conv'[d] = conv[d] /\ Len(conv[d].rows) \in Nat
  BY <1>3, <1>4, RowShapes
<1>5. Grown(t)
  BY <1>2, <1>4 DEF Grown
<1> QED  BY <1>2, <1>3, <1>5

LEMMA GrownVisible ==
  ASSUME Shapes, NEW t, Grown(t), NEW c \in Conv, conv[c] # None,
         NEW i \in DOMAIN conv[c].rows
  PROVE  /\ i \in DOMAIN conv'[c].rows
         /\ conv[c].rows[i].live =>
              conv'[c].rows[i] = conv[c].rows[i] /\ i \in Visible(c)'
<1>1. conv'[c] # None /\ conv'[c] \in Conversation /\ Len(conv'[c].rows) >= Len(conv[c].rows)
  BY DEF Grown
<1>2. conv'[c].rows \in Seq(MessageRow)
  BY <1>1 DEF Conversation
<1>3. DOMAIN conv'[c].rows = 1..Len(conv'[c].rows) /\ Len(conv'[c].rows) \in Nat
  BY <1>2
<1>4. i \in DOMAIN conv'[c].rows
  BY <1>1, <1>3, RowShapes
<1> QED  BY <1>4 DEF Grown, Visible

(* The threads of the other turns stay.                                    *)
LEMMA OthersStay ==
  ASSUME ChatInv, NEW t, Grown(t), minted \subseteq minted', faults' = 0 => faults = 0,
         store' = store, NEW u \in Turn, u # t, turn'[u] = turn[u]
  PROVE  (Addressed(u) /\ OnRecord(u))'
<1> DEFINE m == turn[u]
<1>0. Shapes /\ Addressed(u) /\ OnRecord(u) /\ turn'[u] = turn[u] /\ m \in TurnRecord
  BY StreamShapes DEF ChatInv, Threads
<1>1. m.conv # None => m.conv \in Conv /\ m.conv \in minted
  BY <1>0 DEF TurnRecord, Addressed
<1>2. ASSUME m.conv # None, conv[m.conv] # None
      PROVE  conv'[m.conv] # None /\ conv'[m.conv].owner = conv[m.conv].owner
  BY <1>1, <1>2 DEF Grown
<1>3. Addressed(u)'
  <2>1. m.history # {} => m.conv # None /\ conv'[m.conv] # None /\ conv'[m.conv].owner = m.by
    BY <1>0, <1>2 DEF Addressed, Owned
  <2>2. ASSUME NEW i \in m.history
        PROVE  i \in Visible(m.conv)' /\ conv'[m.conv].rows[i].turn # u
    <3>1. m.conv \in Conv /\ conv[m.conv] # None
      BY <1>0, <1>1, <2>2 DEF Addressed, Owned
    <3>2. i \in DOMAIN conv[m.conv].rows /\ conv[m.conv].rows[i].live
      BY <1>0, <2>2 DEF Addressed, Visible
    <3>3. conv[m.conv].rows[i].turn # u
      BY <1>0, <2>2 DEF Addressed
    <3> QED  BY <1>0, <3>1, <3>2, <3>3, GrownVisible
  <2>3. {m.conv, m.asked} \subseteq minted' \cup {None}
    BY <1>0 DEF Addressed
  <2> QED  BY <1>0, <2>1, <2>2, <2>3 DEF Addressed, Owned
<1>4. OnRecord(u)'
  <2>1. ASSUME m.stage = "commit"
        PROVE  /\ store' = "backend" /\ Owned(m.conv, m.by)'
               /\ \E i \in DOMAIN conv'[m.conv].rows : conv'[m.conv].rows[i] = Row(u, "user", FALSE)
    <3>1. m.conv \in Conv /\ conv[m.conv] # None /\ conv[m.conv].owner = m.by /\ store = "backend"
      BY <1>0, <1>1, <2>1 DEF Addressed, OnRecord, Owned
    <3>2. PICK i \in DOMAIN conv[m.conv].rows : conv[m.conv].rows[i] = Row(u, "user", FALSE)
      BY <1>0, <2>1 DEF OnRecord
    <3>3. conv[m.conv].rows[i].turn # t
      BY <3>2 DEF Row
    <3>4. i \in DOMAIN conv'[m.conv].rows /\ conv'[m.conv].rows[i] = conv[m.conv].rows[i]
      BY <1>0, <3>1, <3>3, GrownVisible DEF Grown
    <3>5. Owned(m.conv, m.by)' /\ store' = "backend"
      BY <1>0, <1>2, <2>1, <3>1, NoneFacts DEF Owned
    <3>6. conv'[m.conv].rows[i] = Row(u, "user", FALSE)
      BY <3>2, <3>4
    <3> QED  BY <3>4, <3>5, <3>6
  <2>2. ASSUME faults' = 0, m.stage \notin {"none", "sent", "ensure", "failed"}
        PROVE  m.conv \in Conv /\ conv[m.conv] # None /\ conv'[m.conv] # None
    <3>1. m.conv # None
      BY <1>0, <2>2 DEF Addressed
    <3> QED  BY <1>0, <1>1, <1>2, <2>2, <3>1 DEF OnRecord
  <2>3. ASSUME faults' = 0, m.stage = "answered", Owned(m.conv, m.by)'
        PROVE  \E i \in Visible(m.conv)' : conv'[m.conv].rows[i] = Row(u, "tania", TRUE)
    <3>1. m.conv \in Conv /\ conv[m.conv] # None
      BY <2>2, <2>3 DEF Early
    <3>2. Owned(m.conv, m.by) /\ faults = 0
      BY <1>0, <2>3, <3>1, <1>2, NoneFacts DEF Owned
    <3>3. PICK i \in Visible(m.conv) : conv[m.conv].rows[i] = Row(u, "tania", TRUE)
      BY <1>0, <2>3, <3>2 DEF OnRecord
    <3>4. i \in DOMAIN conv[m.conv].rows /\ conv[m.conv].rows[i].live
      BY DEF Visible
    <3> QED  BY <1>0, <3>1, <3>3, <3>4, GrownVisible
  <2> QED  BY <1>0, <2>1, <2>2, <2>3 DEF OnRecord
<1> QED  BY <1>3, <1>4

(* Where nothing is written, and where a turn gives up or is done writing. *)
LEMMA RowsStay ==
  ASSUME ChatInv, NEW t \in Turn, NEW n, Becomes(t, n), minted \subseteq minted',
         \/ turn[t].stage \notin {"commit", "answered"}
         \/ n.stage = "answered" /\ n.conv = turn[t].conv /\ n.by = turn[t].by,
         NEW c \in Conv, conv'[c] # None,
         conv'[c] = conv[c] \/ (conv'[c].rows = <<>> /\ c \in minted')
  PROVE  RowsSound(c)'
<1>1. CASE conv'[c].rows = <<>> /\ c \in minted'
  BY <1>1 DEF RowsSound, Distinct
<1>2. CASE conv'[c] = conv[c]
  <2> DEFINE rows == conv[c].rows
  <2>1. RowsSound(c) /\ conv[c] # None /\ Shapes
    BY <1>2 DEF ChatInv, Threads
  <2>2. ASSUME NEW i \in DOMAIN rows
        PROVE  LET m == turn'[rows[i].turn]
               IN  /\ m.conv = c /\ m.by = conv[c].owner /\ m.stage \in {"commit", "answered"}
                   /\ rows[i].live => m.stage = "answered"
    <3>1. rows[i].turn \in Turn
      BY <2>1, RowShapes
    <3>2. LET m == turn[rows[i].turn]
          IN  /\ m.conv = c /\ m.by = conv[c].owner /\ m.stage \in {"commit", "answered"}
              /\ rows[i].live => m.stage = "answered"
      BY <2>1 DEF RowsSound
    <3>3. CASE rows[i].turn = t
      BY <3>2, <3>3 DEF Becomes
    <3>4. CASE rows[i].turn # t
      BY <3>1, <3>2, <3>4 DEF Becomes
    <3> QED  BY <3>3, <3>4
  <2>3. (\A i \in DOMAIN rows : Paired(rows, i)) /\ Distinct(rows) /\ c \in minted'
    BY <2>1 DEF RowsSound
  <2>4. conv'[c].rows = rows /\ conv'[c].owner = conv[c].owner
    BY <1>2
  <2> HIDE DEF rows
  <2> QED  BY <2>2, <2>3, <2>4 DEF RowsSound
<1> QED  BY <1>1, <1>2

(* While no call failed, a question of the page is asked when the earlier  *)
(* ones have settled.                                                      *)
LEMMA EarlierSettled ==
  ASSUME ChatInv, faults = 0, NEW t \in Turn, NEW u \in Turn, t < u, Asked(t), Asked(u)
  PROVE  turn[t].stage \in Settled
<1>1. page.busy # t
  BY NoneFacts DEF ChatInv, InTurn, InOrder
<1> QED  BY <1>1 DEF ChatInv, InTurn, InOrder

LEMMA PageFollows ==
  ASSUME ChatInv, NEW t \in Turn, NEW n, GoesOn(t, n), page' = page
  PROVE  Shown' /\ InOrder'
<1>0. Shapes /\ Shown /\ InOrder
  BY DEF ChatInv, InTurn
<1>1. /\ Becomes(t, n) /\ turn[t].stage \notin Settled \cup {"none"} /\ n.stage # "none"
      /\ n.kind = turn[t].kind /\ n.by = turn[t].by /\ n.asked = turn[t].asked
      /\ minted \subseteq minted' /\ (faults' = 0 => faults = 0) /\ wire' = wire
  BY DEF GoesOn
<1>2. \A u \in Turn : /\ turn'[u].kind = turn[u].kind /\ turn'[u].by = turn[u].by
                      /\ turn'[u].asked = turn[u].asked
                      /\ turn'[u].stage = "none" <=> turn[u].stage = "none"
                      /\ turn[u].stage \in Settled => turn'[u] = turn[u]
                      /\ u # t => turn'[u] = turn[u]
  BY <1>1 DEF Becomes
<1>3. \A u \in Turn : Asked(u)' <=> Asked(u)
  BY <1>2 DEF Asked
<1>4. Shown'
  <2>1. ASSUME page.busy # None
        PROVE  /\ turn'[page.busy].stage # "none" /\ turn'[page.busy].kind = "stream"
               /\ page.result => turn'[page.busy].stage = "answered"
    <3>1. page.busy \in Turn
      BY <1>0, <2>1 DEF Shapes, PageRecord
    <3> QED  BY <1>0, <1>2, <2>1, <3>1 DEF Shown, Settled
  <2>2. ASSUME NEW b \in page.view
        PROVE  /\ turn'[b.turn].stage # "none" /\ turn'[b.turn].kind = "stream"
               /\ b.done => /\ turn'[b.turn].stage = "answered" /\ b.text = turn'[b.turn].text
                            /\ b.turn # page.busy
    <3>1. b.turn \in Turn
      BY <1>0 DEF Shapes, PageRecord, Bubble
    <3> QED  BY <1>0, <1>2, <3>1 DEF Shown, Settled
  <2>3. page.conv \in minted' \cup {None}
    BY <1>0, <1>1 DEF Shown
  <2>4. \A u \in Turn : turn'[u].kind = "stream" => turn'[u].by = Me
    BY <1>0, <1>2 DEF Shown
  <2> QED  BY <1>1, <2>1, <2>2, <2>3, <2>4 DEF Shown
<1>5. InOrder'
  BY <1>0, <1>1, <1>2, <1>3 DEF InOrder
<1> QED  BY <1>4, <1>5

LEMMA ApartStays ==
  ASSUME ChatInv, NEW t \in Turn, NEW n, GoesOn(t, n)
  PROVE  Apart'
<1>1. /\ Becomes(t, n) /\ turn[t].stage \notin Settled \cup {"none"} /\ n.stage # "none"
      /\ n.kind = turn[t].kind /\ n.asked = turn[t].asked /\ (faults' = 0 => faults = 0)
  BY DEF GoesOn
<1>2. \A u \in Turn : /\ Asked(u)' <=> Asked(u)
                      /\ turn'[u].asked = turn[u].asked
                      /\ turn[u].stage \in Settled => turn'[u] = turn[u]
                      /\ u # t => turn'[u] = turn[u]
  BY <1>1 DEF Becomes, Asked
<1>3. SUFFICES ASSUME faults' = 0, NEW u \in Turn, NEW w \in Turn, Asked(u)', Asked(w)', u < w,
                      turn'[w].asked = None, turn'[u].conv # None
               PROVE  turn'[u].conv # turn'[w].conv
  BY DEF Apart
<1>4. faults = 0 /\ Asked(u) /\ Asked(w) /\ turn[w].asked = None
  BY <1>1, <1>2, <1>3
<1>5. turn[u].stage \in Settled /\ turn'[u] = turn[u] /\ u # t
  BY <1>1, <1>2, <1>3, <1>4, EarlierSettled
<1>6. turn[u].conv # turn[w].conv
  BY <1>3, <1>4, <1>5 DEF ChatInv, InTurn, Apart
<1>7. CASE turn'[w].conv = turn[w].conv
  BY <1>5, <1>6, <1>7
<1>8. CASE turn'[w].conv # turn[w].conv
  <2>1. w = t /\ n.conv \notin minted
    BY <1>2, <1>4, <1>8 DEF GoesOn, Becomes
  <2>2. turn[u].conv \in minted
    BY <1>3, <1>5 DEF ChatInv, Threads, Addressed
  <2> QED  BY <1>1, <1>5, <2>1, <2>2 DEF Becomes
<1> QED  BY <1>7, <1>8

(* What was said before stays so.                                          *)
LEMMA BuildsStay ==
  ASSUME ChatInv, NEW t \in Turn, NEW n, GoesOn(t, n), faults' = 0, HistoryLimit >= 2,
         NEW a \in Turn, NEW u \in Turn, u # t \/ SameHistory(t, n)
  PROVE  Builds(a, u)'
<1> SUFFICES ASSUME /\ AskedAfter(a, u)' /\ turn'[a].stage = "answered"
                    /\ Owned(turn[a].conv, Me)'
                    /\ turn'[u].stage \notin Early \cup {"failed"}
                    /\ \A w \in Turn : w \notin {a, u} => turn'[w].conv # turn'[a].conv
             PROVE  \E i \in turn'[u].history : conv'[turn'[u].conv].rows[i] = Row(a, "tania", TRUE)
  BY DEF Builds
<1>1. /\ Becomes(t, n) /\ turn[t].stage \notin Settled \cup {"none"}
      /\ n.kind = turn[t].kind /\ Grown(t) /\ faults = 0
  BY DEF GoesOn
<1>2. a < u /\ turn'[a].kind = "stream" /\ turn'[u].kind = "stream" /\ turn'[a].conv # None
      /\ turn'[a].conv = turn'[u].conv
  BY DEF AskedAfter
<1>3. turn[a].kind = "stream" /\ turn[u].kind = "stream"
  BY <1>1, <1>2 DEF Becomes
<1>4. turn[a].stage # "none" /\ turn[u].stage # "none"
  BY <1>1 DEF Becomes, Early
<1>5. turn[a].stage \in Settled /\ a # t /\ turn'[a] = turn[a]
  BY <1>1, <1>2, <1>3, <1>4, EarlierSettled DEF Asked, Becomes
<1>6. /\ turn[u].stage \notin Early \cup {"failed"}
      /\ turn'[u].history = turn[u].history /\ turn'[u].conv = turn[u].conv
  BY <1>1 DEF SameHistory, Becomes
<1>7. Shapes /\ turn[a].conv \in Conv /\ conv[turn[a].conv] # None
  <2>1. Shapes /\ turn[a] \in TurnRecord /\ OnRecord(a)
    BY StreamShapes DEF ChatInv, Threads
  <2>2. turn[a].conv \in Conv
    BY <1>2, <1>5, <2>1 DEF TurnRecord
  <2> QED  BY <1>1, <1>5, <2>1, <2>2 DEF OnRecord, Early
<1>8. AskedAfter(a, u) /\ turn[a].stage = "answered" /\ Owned(turn[a].conv, Me)
  BY <1>1, <1>2, <1>3, <1>5, <1>6, <1>7, NoneFacts DEF AskedAfter, Owned, Grown
<1>9. \A w \in Turn : w \notin {a, u} => turn[w].conv # turn[a].conv
  <2>1. SUFFICES ASSUME NEW w \in Turn, w \notin {a, u}, turn[w].conv = turn[a].conv
                 PROVE  FALSE
    OBVIOUS
  <2>2. turn'[w].conv # turn[w].conv
    BY <1>5, <2>1
  <2>3. w = t /\ turn[t].stage = "sent"
    BY <1>1, <2>2 DEF GoesOn, Becomes
  <2>4. turn[t].conv = None
    BY <2>3 DEF ChatInv, Threads, Addressed
  <2> QED  BY <1>2, <1>5, <2>1, <2>3, <2>4
<1>10. PICK i \in turn[u].history : conv[turn[u].conv].rows[i] = Row(a, "tania", TRUE)
  BY <1>1, <1>6, <1>8, <1>9 DEF ChatInv, InTurn, Building, Builds
<1>11. i \in Visible(turn[u].conv) /\ turn[u].conv = turn[a].conv
  BY <1>2, <1>5, <1>6 DEF ChatInv, Threads, Addressed
<1>12. i \in DOMAIN conv[turn[u].conv].rows /\ conv[turn[u].conv].rows[i].live
  BY <1>11 DEF Visible
<1>13. conv'[turn[u].conv].rows[i] = conv[turn[u].conv].rows[i]
  BY <1>7, <1>11, <1>12, <1>1, GrownVisible
<1> QED  BY <1>6, <1>10, <1>13

(* A turn that has a conversation keeps it.                                *)
LEMMA KeepsThread ==
  ASSUME ChatInv, NEW t \in Turn, NEW n, Becomes(t, n), Grown(t), minted \subseteq minted',
         turn[t].stage \notin {"none", "sent", "failed"}, n.stage \notin {"none", "sent"},
         n.conv = turn[t].conv, n.by = turn[t].by, n.asked = turn[t].asked,
         n.history = turn[t].history, n.stage \in Early => turn[t].stage \in Early
  PROVE  Addressed(t)'
<1> DEFINE m == turn[t]
<1>0. Shapes /\ Addressed(t) /\ turn'[t] = n /\ m \in TurnRecord
  BY StreamShapes DEF ChatInv, Threads, Becomes
<1>1. m.conv \in Conv /\ m.conv \in minted /\ m.conv # None
  BY <1>0 DEF TurnRecord, Addressed
<1>2. conv[m.conv] # None =>
        conv'[m.conv] # None /\ conv'[m.conv].owner = conv[m.conv].owner
  BY <1>1 DEF Grown
<1>3. ASSUME m.history # {}
      PROVE  conv[m.conv] # None /\ conv'[m.conv] # None /\ conv'[m.conv].owner = m.by
  BY <1>0, <1>2, <1>3 DEF Addressed, Owned
<1>4. ASSUME NEW i \in m.history
      PROVE  i \in Visible(m.conv)' /\ conv'[m.conv].rows[i].turn # t
  <2>1. i \in DOMAIN conv[m.conv].rows /\ conv[m.conv].rows[i].live
    BY <1>0 DEF Addressed, Visible
  <2>2. conv[m.conv].rows[i].turn # t
    BY <1>0 DEF Addressed
  <2> QED  BY <1>0, <1>1, <1>3, <2>1, <2>2, GrownVisible
<1>5. {n.conv, n.asked} \subseteq minted' \cup {None}
  BY <1>0 DEF Addressed
<1>6. n.history # {} => n.conv # None /\ Owned(n.conv, n.by)'
  BY <1>0, <1>1, <1>3 DEF Owned
<1>7. \A i \in n.history : i \in Visible(n.conv)' /\ conv'[n.conv].rows[i].turn # t
  BY <1>0, <1>4 DEF Visible
<1>8. /\ n.stage \notin {"none", "sent"} /\ n.conv # None
      /\ n.asked # None => n.conv = n.asked
      /\ n.stage \in Early => n.history = {}
  BY <1>0, <1>1 DEF Addressed
<1> QED  BY <1>0, <1>5, <1>6, <1>7, <1>8 DEF Addressed

(* What is left to show when a turn goes on.                               *)
LEMMA GoesOnKeeps ==
  ASSUME ChatInv, NEW t \in Turn, NEW n, GoesOn(t, n), page' = page,
         SameHistory(t, n)
           \/ (faults' = 0 /\ HistoryLimit >= 2 => \A a \in Turn : Builds(a, t)'),
         faults' \in 0..MaxFaults, minted' \subseteq Conv, Governed(n),
         (StreamsShaped /\ StreamsInv)', Addressed(t)', OnRecord(t)',
         \A c \in Conv : conv'[c] # None => RowsSound(c)'
  PROVE  ChatInv'
<1>0. Shapes /\ Becomes(t, n) /\ Grown(t) /\ UNCHANGED <<store, page>> /\ minted \subseteq minted'
      /\ (faults' = 0 => faults = 0)
  BY DEF ChatInv, GoesOn
<1>1. Shapes'
  BY <1>0 DEF Shapes, StreamsShaped, Becomes, Grown
<1>2. \A u \in Turn : Governed(turn'[u])
  BY <1>0 DEF ChatInv, Becomes
<1>3. Threads'
  <2>1. \A u \in Turn \ {t} : turn'[u] = turn[u]
    BY <1>0 DEF Becomes
  <2> QED  BY <1>0, <2>1, OthersStay DEF Threads
<1>4. Shown' /\ InOrder' /\ Apart'
  BY PageFollows, ApartStays
<1>5. Building'
  BY BuildsStay DEF Building
<1> QED  BY <1>1, <1>2, <1>3, <1>4, <1>5 DEF ChatInv, InTurn, StreamsInv

(* Between the first phase and the record a turn touches no thread.        *)
LEMMA InnerKeeps ==
  ASSUME ChatInv, NEW t \in Turn, NEW n, turn' = [turn EXCEPT ![t] = n], n \in TurnRecord,
         turn[t].stage \in {"classify", "tools", "calling", "compose"},
         n.stage \in {"tools", "calling", "compose", "record", "failed"},
         n.kind = turn[t].kind, n.by = turn[t].by, n.asked = turn[t].asked,
         n.conv = turn[t].conv, n.history = turn[t].history, Governed(n),
         UNCHANGED <<store, conv, minted, heard, page>>,
         faults' = faults \/ Fault,
         NEW events \in Seq(Event), MayTell(turn[t], n, events),
         Report(t, events) \/ (ReportLast(t, events) /\ n.stage = "failed")
  PROVE  ChatInv'
<1>0. Shapes /\ turn[t] \in TurnRecord
  BY StreamShapes DEF ChatInv
<1>1. Becomes(t, n) /\ Grown(t)
  BY <1>0, BecomesBy, SameThreads
<1>2. (StreamsShaped /\ StreamsInv)' /\ wire' = wire
  BY <1>1, Tells DEF Settled
<1>3. faults' \in 0..MaxFaults /\ (faults' = 0 => faults = 0)
  BY <1>0, NoneFacts DEF Shapes, Fault, MayFail
<1>4. GoesOn(t, n)
  BY <1>1, <1>2, <1>3 DEF GoesOn, Settled
<1>5. SameHistory(t, n)
  BY DEF SameHistory, Early
<1>6. Addressed(t)'
  BY <1>1, KeepsThread DEF Early
<1>7. OnRecord(t)'
  <2>1. turn'[t] = n /\ n.stage # "commit" /\ n.stage # "answered" /\ conv' = conv
    BY <1>1 DEF Becomes
  <2>2. faults' = 0 => conv[n.conv] # None
    BY <1>3 DEF ChatInv, Threads, OnRecord, Early
  <2> QED  BY <2>1, <2>2 DEF OnRecord
<1>8. \A c \in Conv : conv'[c] # None => RowsSound(c)'
  BY <1>1, RowsStay
<1>9. minted' \subseteq Conv
  BY <1>0 DEF Shapes
<1> QED  BY <1>2, <1>3, <1>4, <1>5, <1>6, <1>7, <1>8, <1>9, GoesOnKeeps

-----------------------------------------------------------------------------
(* The steps of the Brain's loop. *)

Inner == {"classify", "tools", "calling", "compose"}

LEMMA TellsNothing ==
  ASSUME NEW m, NEW n, n.kind = m.kind, m.stage \in Inner \cup {"record", "commit"},
         n.stage \notin Early \cup {"classify"}, Ahead(n) \subseteq Ahead(m)
  PROVE  MayTell(m, n, <<>>)
BY DEF MayTell, Inner, Early, Settled

LEMMA TellsOne ==
  ASSUME NEW m, NEW n, n.kind = m.kind, m.stage \in Inner \cup {"record", "commit"},
         n.stage \notin Early \cup {"classify"}, Ahead(n) \subseteq Ahead(m),
         NEW e \in Event, e \notin Ahead(n), e \in Phases \cup {"accepted"} => e \in Ahead(m),
         e = "done" => n.stage = "answered", e = "error" => n.stage = "failed"
  PROVE  MayTell(m, n, <<e>>)
<1>1. DOMAIN <<e>> = 1..1 /\ Len(<<e>>) = 1 /\ <<e>>[1] = e
  OBVIOUS
<1> QED  BY <1>1 DEF MayTell, Inner, Early, Settled

(* What a turn decided stays while only its stage changes.                 *)
SameDecisions(m, n) ==
  /\ n.intent = m.intent /\ n.agent = m.agent /\ n.used = m.used /\ n.called = m.called
  /\ n.tool = m.tool /\ n.approval = m.approval /\ n.by = m.by /\ n.message = m.message

LEMMA GovernedStays ==
  ASSUME NEW m, NEW n, Governed(m), SameDecisions(m, n), m.stage # "none",
         \/ n.stage = "failed"
         \/ /\ n.stage \in {"compose", "record", "commit", "answered"} /\ m.intent # None
            /\ m.approval \/ m.tool > Len(ToolPlan[m.intent])
  PROVE  Governed(n)
BY DEF Governed, SameDecisions, Early

Carried(m, n) ==
  /\ n.kind = m.kind /\ n.by = m.by /\ n.asked = m.asked /\ n.conv = m.conv
  /\ n.history = m.history /\ n.message = m.message

(* A turn that fails. *)
LEMMA ErrorKeeps ==
  ASSUME ChatInv, NEW t \in Turn, turn[t].stage \in Inner, Errored(t),
         UNCHANGED <<store, conv, minted, heard, page>>, faults' = faults \/ Fault
  PROVE  ChatInv'
<1>0. PICK m \in TurnRecord : m = turn[t] /\ Governed(m)
  BY StreamShapes DEF ChatInv
<1>1. PICK n : n = [m EXCEPT !.stage = "failed"]
  OBVIOUS
<1>2. n \in TurnRecord /\ n.stage = "failed" /\ SameDecisions(m, n) /\ Carried(m, n)
  BY <1>1 DEF TurnRecord, Stages, Settled, SameDecisions, Carried
<1>3. turn' = [turn EXCEPT ![t] = n] /\ ReportLast(t, <<"error">>)
  BY <1>0, <1>1 DEF Errored
<1>4. Governed(n)
  BY <1>0, <1>2, GovernedStays DEF Inner
<1>5. "error" \in Event /\ <<"error">> \in Seq(Event)
  BY DEF Event
<1>6. MayTell(m, n, <<"error">>)
  <2>1. Ahead(n) = {}
    BY <1>2 DEF Ahead, Early
  <2>2. "error" \notin Phases \cup {"accepted"} /\ "error" # "done"
    BY DEF Phases
  <2>3. m.stage \in Inner \cup {"record", "commit"} /\ n.stage \notin Early \cup {"classify"}
        /\ n.kind = m.kind
    BY <1>0, <1>2 DEF Early, Carried
  <2> QED  BY <1>2, <1>5, <2>1, <2>2, <2>3, TellsOne
<1> QED  BY <1>0, <1>2, <1>3, <1>4, <1>5, <1>6, InnerKeeps DEF Inner, Carried

LEMMA PlanningFacts ==
  ASSUME ChatInv, NEW t \in Turn, turn[t].stage \in {"tools", "calling"}, ~turn[t].approval,
         turn[t].tool <= Len(Plan(t))
  PROVE  /\ turn[t].intent \in Intent /\ turn[t].intent # None
         /\ Len(Plan(t)) \in 1..2 /\ turn[t].tool \in 1..2 /\ turn[t].tool \in DOMAIN Plan(t)
         /\ Current(t) \in Tool
         /\ Current(t) = "knowledge_search" <=> turn[t].tool = 1
<1> DEFINE m == turn[t]
<1>1. m \in TurnRecord /\ Governed(m)
  BY StreamShapes DEF ChatInv
<1>2. m.intent # None /\ m.intent \in Intent /\ m.tool \in Nat \ {0}
  BY <1>1 DEF Governed, Early, TurnRecord
<1>3. PICK plan : plan = Plan(t)
  OBVIOUS
<1>4. /\ Len(plan) \in 1..2 /\ DOMAIN plan = 1..Len(plan) /\ plan[1] = "knowledge_search"
      /\ Len(plan) = 2 => plan[2] # "knowledge_search"
      /\ \A i \in 1..Len(plan) : plan[i] \in Tool
  BY <1>2, <1>3, PlanFacts DEF Plan
<1>5. m.tool = 1 \/ (m.tool = 2 /\ Len(plan) = 2)
  BY <1>2, <1>3, <1>4
<1> QED  BY <1>2, <1>3, <1>4, <1>5 DEF Current

LEMMA UsedMore ==
  ASSUME NEW m \in TurnRecord, NEW n \in TurnRecord, Governed(m), m.intent # None, ~m.approval,
         m.stage \in {"tools", "calling"}, m.tool <= Len(ToolPlan[m.intent]),
         n.stage = "tools", n.intent = m.intent, n.agent = m.agent, n.message = m.message,
         n.by = m.by, n.called = m.called, NEW u \in Use, n.used = Append(m.used, u),
         \/ u.status = "AWAITING_APPROVAL" /\ n.tool = m.tool /\ n.approval
         \/ /\ u.status # "AWAITING_APPROVAL" /\ n.tool = m.tool + 1 /\ ~n.approval
            /\ u.status = "SUCCEEDED" => ToolPlan[m.intent][m.tool] \in m.called
  PROVE  Governed(n)
<1>1. m.used \in Seq(Use) /\ m.tool \in Nat \ {0} /\ Len(m.used) = m.tool - 1
  BY DEF TurnRecord, Governed
<1>2. /\ Len(n.used) = m.tool /\ n.used[m.tool] = u
      /\ \A i \in 1..(m.tool - 1) : n.used[i] = m.used[i]
  BY <1>1, AppendProperties
<1>3. PICK plan : plan = ToolPlan[m.intent]
  OBVIOUS
<1>4. m.intent \in Intent
  BY DEF TurnRecord
<1>5. Len(plan) \in Nat
  BY <1>3, <1>4, PlanFacts
<1>6. /\ n.message # None /\ n.agent = Route(n.intent, n.message.words)
      /\ n.tool <= Len(plan) + 1
      /\ \A tool \in n.called :
           /\ Allowed(tool, Scopes[n.by]) /\ ~RequiresApproval(tool, Threshold)
           /\ \E i \in DOMAIN plan : plan[i] = tool
  BY <1>1, <1>3, <1>5 DEF Governed
<1>7. Len(n.used) = IF n.approval THEN n.tool ELSE n.tool - 1
  BY <1>1, <1>2
<1>8. ASSUME NEW i \in 1..(n.tool - 1)
      PROVE  /\ n.used[i].status # "AWAITING_APPROVAL"
             /\ n.used[i].status = "SUCCEEDED" => plan[i] \in n.called
  <2>1. CASE i \in 1..(m.tool - 1)
    BY <2>1, <1>2, <1>3 DEF Governed
  <2>2. CASE i = m.tool
    BY <2>2, <1>1, <1>2, <1>3
  <2> QED  BY <2>1, <2>2, <1>1
<1> QED  BY <1>3, <1>6, <1>7, <1>8 DEF Governed, Early

LEMMA Pair ==
  ASSUME NEW a \in Event, NEW b \in Event
  PROVE  <<a>> \o <<b>> = <<a, b>> /\ <<a, b>> \in Seq(Event)
<1>1. /\ <<a>> \in Seq(Event) /\ <<b>> \in Seq(Event) /\ <<a, b>> \in Seq(Event)
      /\ Len(<<a>>) = 1 /\ Len(<<b>>) = 1 /\ Len(<<a, b>>) = 2
  OBVIOUS
<1>2. <<a>> \o <<b>> \in Seq(Event) /\ Len(<<a>> \o <<b>>) = 2
  BY <1>1, ConcatProperties
<1>3. (<<a>> \o <<b>>)[1] = a /\ (<<a>> \o <<b>>)[2] = b
  BY <1>1, ConcatProperties
<1>4. PICK s \in Seq(Event), t \in Seq(Event) : s = <<a>> \o <<b>> /\ t = <<a, b>>
  BY <1>1, <1>2
<1>5. Len(s) = 2 /\ Len(t) = 2 /\ s[1] = t[1] /\ s[2] = t[2]
  BY <1>1, <1>2, <1>3, <1>4
<1>6. s = t
  BY <1>5, SeqEqual
<1> QED  BY <1>4, <1>6

LEMMA ClassifyKeeps ==
  ASSUME ChatInv, NEW t \in Turn, Classify(t)
  PROVE  ChatInv'
<1>0. PICK m \in TurnRecord :
        m = turn[t] /\ Governed(m) /\ m.stage = "classify" /\ m.phase = "UNDERSTANDING"
  BY StreamShapes DEF ChatInv, Classify, Streamed, Spoken
<1>1. PICK intent : intent = Classified(m.message)
  OBVIOUS
<1>2. PICK agent : agent = Route(intent, m.message.words)
  OBVIOUS
<1>3. PICK n : n = [m EXCEPT !.stage = "tools", !.intent = intent, !.agent = agent,
                             !.phase = "PLANNING"]
  OBVIOUS
<1>4. /\ m.intent = None /\ m.message # None /\ m.message \in Question /\ m.tool = 1
      /\ m.used = <<>> /\ m.called = {} /\ ~m.approval
  BY <1>0 DEF Governed, TurnRecord
<1>5. intent \in Intent /\ agent \in Agent /\ intent # None
  BY <1>1, <1>2, <1>4, ClassifiedIsIntent, RouteFacts, NoneFacts
<1>6. /\ n \in TurnRecord /\ Carried(m, n) /\ n.stage = "tools" /\ n.intent = intent
      /\ n.agent = agent /\ n.tool = 1 /\ n.used = <<>> /\ n.called = {} /\ ~n.approval
      /\ n.by = m.by
  <2>1. "tools" \in Stages /\ "PLANNING" \in Phases \cup {None}
    BY DEF Stages, Phases
  <2>2. n \in TurnRecord
    BY <1>3, <1>5, <2>1 DEF TurnRecord
  <2> QED  BY <1>3, <1>4, <2>2 DEF TurnRecord, Carried
<1>7. Governed(n)
  <2>1. Len(ToolPlan[intent]) \in 1..2
    BY <1>5, PlanFacts
  <2> QED  BY <1>2, <1>4, <1>5, <1>6, <2>1 DEF Governed, Carried, Early
<1>8. <<"intent">> \o Phase(m.phase, "UNDERSTANDING") \o <<"PLANNING">> = <<"intent", "PLANNING">>
  <2>1. Phase(m.phase, "UNDERSTANDING") = <<>>
    BY <1>0 DEF Phase
  <2>2. <<"intent">> \o <<>> = <<"intent">>
    OBVIOUS
  <2>3. <<"intent">> \o <<"PLANNING">> = <<"intent", "PLANNING">>
    BY Pair DEF Event
  <2> QED  BY <2>1, <2>2, <2>3
<1>9. turn' = [turn EXCEPT ![t] = n] /\ Report(t, <<"intent", "PLANNING">>)
  BY <1>0, <1>1, <1>2, <1>3, <1>8 DEF Classify
<1>e. PICK events : events = <<"intent", "PLANNING">>
  OBVIOUS
<1>10. /\ events \in Seq(Event) /\ DOMAIN events = 1..2 /\ Len(events) = 2
       /\ events[1] = "intent" /\ events[2] = "PLANNING"
  <2>1. "intent" \in Event /\ "PLANNING" \in Event
    BY DEF Event
  <2>2. <<"intent", "PLANNING">> \in Seq(Event)
    BY <2>1
  <2> QED  BY <1>e, <2>2
<1>11. MayTell(m, n, events)
  <2>1. Ahead(m) = Phases \ {"UNDERSTANDING"}
    BY <1>0 DEF Ahead, Early
  <2>2. Ahead(n) = {"COMPOSING", "VERIFYING", "RETRIEVING", "EXECUTING"}
    BY <1>6 DEF Ahead, Early
  <2> QED  BY <1>0, <1>6, <1>10, <2>1, <2>2
           DEF MayTell, Early, Settled, Phases, Ends, Carried
<1> QED  BY <1>0, <1>6, <1>7, <1>9, <1>e, <1>10, <1>11, InnerKeeps DEF Classify, Carried, PageStays

LEMMA BlockToolKeeps ==
  ASSUME ChatInv, NEW t \in Turn, BlockTool(t)
  PROVE  ChatInv'
<1>0. PICK m \in TurnRecord :
        /\ m = turn[t] /\ Governed(m) /\ m.stage = "tools" /\ ~m.approval
        /\ m.tool <= Len(ToolPlan[m.intent])
  BY StreamShapes DEF ChatInv, BlockTool, Planning, Plan
<1>1. m.intent \in Intent /\ m.intent # None /\ m.tool \in 1..2 /\ Current(t) \in Tool
  BY <1>0, PlanningFacts DEF Plan
<1>2. PICK u \in Use : u = [tool |-> Current(t), status |-> "BLOCKED"]
  BY <1>1 DEF Use
<1>3. PICK n : n = [m EXCEPT !.used = Append(m.used, u), !.tool = @ + 1]
  OBVIOUS
<1>4. turn' = [turn EXCEPT ![t] = n]
  BY <1>0, <1>2, <1>3 DEF BlockTool, Used
<1>5. Append(m.used, u) \in Seq(Use) /\ m.tool + 1 \in Nat \ {0}
  BY <1>1 DEF TurnRecord
<1>6. /\ n \in TurnRecord /\ Carried(m, n) /\ n.stage = "tools" /\ n.tool = m.tool + 1
      /\ n.used = Append(m.used, u) /\ n.intent = m.intent /\ n.agent = m.agent
      /\ n.called = m.called /\ ~n.approval
  BY <1>0, <1>3, <1>5 DEF TurnRecord, Carried
<1>7. Governed(n)
  BY <1>0, <1>1, <1>2, <1>6, UsedMore DEF Carried
<1>8. MayTell(m, n, <<>>)
  <2>1. Ahead(n) \subseteq Ahead(m)
    BY <1>0, <1>1, <1>6 DEF Ahead, Early
  <2> QED  BY <1>0, <1>6, <2>1, TellsNothing DEF Inner, Carried, Early
<1>9. Report(t, <<>>) /\ <<>> \in Seq(Event)
  BY QuietIsReport DEF BlockTool, ChatInv
<1> QED  BY <1>0, <1>4, <1>6, <1>7, <1>8, <1>9, InnerKeeps DEF BlockTool, Carried, PageStays

LEMMA GateToolKeeps ==
  ASSUME ChatInv, NEW t \in Turn, GateTool(t)
  PROVE  ChatInv'
<1>0. PICK m \in TurnRecord :
        /\ m = turn[t] /\ Governed(m) /\ m.stage = "tools" /\ ~m.approval
        /\ m.tool <= Len(ToolPlan[m.intent])
  BY StreamShapes DEF ChatInv, GateTool, Planning, Plan
<1>1. CASE Errored(t) /\ (faults' = faults \/ Fault)
  BY <1>0, <1>1, ErrorKeeps DEF GateTool, PageStays, Inner
<1>2. CASE /\ turn' = [turn EXCEPT ![t].used = Used(t, "AWAITING_APPROVAL"), ![t].approval = TRUE]
           /\ Quiet /\ UNCHANGED faults
  <2>1. m.intent \in Intent /\ m.intent # None /\ m.tool \in 1..2 /\ Current(t) \in Tool
    BY <1>0, PlanningFacts DEF Plan
  <2>2. PICK u \in Use : u = [tool |-> Current(t), status |-> "AWAITING_APPROVAL"]
    BY <2>1 DEF Use
  <2>3. PICK n : n = [m EXCEPT !.used = Append(m.used, u), !.approval = TRUE]
    OBVIOUS
  <2>4. turn' = [turn EXCEPT ![t] = n]
    BY <1>0, <1>2, <2>2, <2>3 DEF Used
  <2>5. Append(m.used, u) \in Seq(Use)
    BY DEF TurnRecord
  <2>6. /\ n \in TurnRecord /\ Carried(m, n) /\ n.stage = "tools" /\ n.tool = m.tool
        /\ n.used = Append(m.used, u) /\ n.intent = m.intent /\ n.agent = m.agent
        /\ n.called = m.called /\ n.approval
    BY <1>0, <2>3, <2>5 DEF TurnRecord, Carried
  <2>7. Governed(n)
    BY <1>0, <2>1, <2>2, <2>6, UsedMore DEF Carried
  <2>8. MayTell(m, n, <<>>)
    <3>1. Ahead(n) \subseteq Ahead(m)
      BY <1>0, <2>6 DEF Ahead, Early
    <3> QED  BY <1>0, <2>6, <3>1, TellsNothing DEF Inner, Carried, Early
  <2>9. Report(t, <<>>) /\ <<>> \in Seq(Event)
    BY <1>2, QuietIsReport DEF ChatInv
  <2> QED  BY <1>0, <1>2, <2>4, <2>6, <2>7, <2>8, <2>9, InnerKeeps DEF GateTool, Carried, PageStays
<1> QED  BY <1>1, <1>2 DEF GateTool

LEMMA CallToolKeeps ==
  ASSUME ChatInv, NEW t \in Turn, CallTool(t)
  PROVE  ChatInv'
<1>0. PICK m \in TurnRecord :
        /\ m = turn[t] /\ Governed(m) /\ m.stage = "tools" /\ ~m.approval
        /\ m.tool <= Len(ToolPlan[m.intent])
  BY StreamShapes DEF ChatInv, CallTool, Planning, Plan
<1>1. PICK plan : plan = ToolPlan[m.intent]
  OBVIOUS
<1>2. PICK tool \in Tool : tool = Current(t)
  BY <1>0, PlanningFacts DEF Plan
<1>3. /\ m.intent \in Intent /\ m.intent # None /\ m.tool \in 1..2 /\ m.tool \in DOMAIN plan
      /\ tool = "knowledge_search" <=> m.tool = 1
      /\ tool = plan[m.tool] /\ m.tool <= Len(plan)
  BY <1>0, <1>1, <1>2, PlanningFacts DEF Plan, Current
<1>4. PICK phase : phase = Stage(tool)
  OBVIOUS
<1>5. /\ phase \in {"RETRIEVING", "EXECUTING"} /\ phase \in Event /\ phase \in Phases
      /\ phase = "RETRIEVING" <=> m.tool = 1
  BY <1>3, <1>4 DEF Stage, Event, Phases
<1>6. PICK n : n = [m EXCEPT !.stage = "calling", !.called = @ \cup {tool}, !.phase = phase]
  OBVIOUS
<1>7. turn' = [turn EXCEPT ![t] = n] /\ Report(t, <<phase>>) /\ <<phase>> \in Seq(Event)
  <2>1. turn' = [turn EXCEPT ![t] = n]
    BY <1>0, <1>2, <1>4, <1>6 DEF CallTool
  <2>2. Report(t, <<Stage(Current(t))>>)
    BY DEF CallTool
  <2>3. Report(t, <<phase>>)
    BY <1>2, <1>4, <2>2, Zenon
  <2> QED  BY <1>5, <2>1, <2>3
<1>8. /\ n \in TurnRecord /\ Carried(m, n) /\ n.stage = "calling" /\ n.tool = m.tool
      /\ n.used = m.used /\ n.intent = m.intent /\ n.agent = m.agent
      /\ n.called = m.called \cup {tool} /\ ~n.approval
  <2>1. "calling" \in Stages
    BY DEF Stages
  <2>2. n \in TurnRecord
    BY <1>5, <1>6, <2>1 DEF TurnRecord
  <2> QED  BY <1>0, <1>6, <2>2 DEF TurnRecord, Carried
<1>9. Governed(n)
  <2>1. Allowed(tool, Scopes[m.by]) /\ ~RequiresApproval(tool, Threshold)
    BY <1>0, <1>2 DEF CallTool, Gated
  <2>2. \A other \in n.called :
          /\ Allowed(other, Scopes[n.by]) /\ ~RequiresApproval(other, Threshold)
          /\ \E i \in DOMAIN plan : plan[i] = other
    BY <1>0, <1>1, <1>3, <1>8, <2>1 DEF Governed, Carried
  <2>3. /\ n.message # None /\ n.agent = Route(n.intent, n.message.words)
        /\ n.tool <= Len(plan) + 1 /\ n.intent # None
        /\ Len(n.used) = n.tool - 1
        /\ \A i \in 1..(n.tool - 1) :
             /\ n.used[i].status # "AWAITING_APPROVAL"
             /\ n.used[i].status = "SUCCEEDED" => plan[i] \in n.called
    BY <1>0, <1>1, <1>3, <1>8 DEF Governed, Carried
  <2> QED  BY <1>1, <1>3, <1>8, <2>2, <2>3 DEF Governed, Early
<1>10. MayTell(m, n, <<phase>>)
  <2>1. Ahead(n) = {"COMPOSING", "VERIFYING"} \cup (IF m.tool = 1 THEN {"EXECUTING"} ELSE {})
    BY <1>8 DEF Ahead, Early
  <2>2. Ahead(m) = {"COMPOSING", "VERIFYING", "EXECUTING"}
                     \cup (IF m.tool = 1 THEN {"RETRIEVING"} ELSE {})
    BY <1>0, <1>3 DEF Ahead, Early
  <2>3. Ahead(n) \subseteq Ahead(m) /\ phase \notin Ahead(n) /\ phase \in Ahead(m)
    BY <1>5, <2>1, <2>2
  <2> QED  BY <1>0, <1>5, <1>8, <2>3, TellsOne DEF Inner, Early, Carried
<1> QED  BY <1>0, <1>7, <1>8, <1>9, <1>10, InnerKeeps DEF CallTool, Carried, PageStays

LEMMA ToolReturnsKeeps ==
  ASSUME ChatInv, NEW t \in Turn, ToolReturns(t)
  PROVE  ChatInv'
<1>0. PICK m \in TurnRecord : m = turn[t] /\ Governed(m) /\ m.stage = "calling"
  BY StreamShapes DEF ChatInv, ToolReturns
<1>1. CASE Errored(t) /\ Fault
  BY <1>0, <1>1, ErrorKeeps DEF ToolReturns, PageStays, Inner
<1>2. ASSUME NEW status \in {"SUCCEEDED", "FAILED"}, NEW found \in BOOLEAN,
             turn' = [turn EXCEPT ![t].stage = "tools", ![t].used = Used(t, status),
                                  ![t].tool = @ + 1, ![t].sources = found],
             NEW events \in Seq(Event), Report(t, events),
             events = <<>> \/ events = <<"sources">>, faults' = faults \/ Fault
      PROVE  ChatInv'
  <2>1. ~m.approval /\ m.tool <= Len(ToolPlan[m.intent])
    BY <1>0 DEF Governed
  <2>2. m.intent \in Intent /\ m.intent # None /\ m.tool \in 1..2 /\ Current(t) \in Tool
    BY <1>0, <2>1, PlanningFacts DEF Plan
  <2>3. PICK u \in Use : u = [tool |-> Current(t), status |-> status]
    BY <2>2 DEF Use
  <2>4. PICK n : n = [m EXCEPT !.stage = "tools", !.used = Append(m.used, u), !.tool = @ + 1,
                               !.sources = found]
    OBVIOUS
  <2>5. turn' = [turn EXCEPT ![t] = n]
    BY <1>0, <1>2, <2>3, <2>4 DEF Used
  <2>6. Append(m.used, u) \in Seq(Use) /\ m.tool + 1 \in Nat \ {0} /\ "tools" \in Stages
    BY <2>2 DEF TurnRecord, Stages
  <2>7. n \in TurnRecord
    BY <2>4, <2>6 DEF TurnRecord
  <2>8. /\ Carried(m, n) /\ n.stage = "tools" /\ n.tool = m.tool + 1
        /\ n.used = Append(m.used, u) /\ n.intent = m.intent /\ n.agent = m.agent
        /\ n.called = m.called /\ ~n.approval
    BY <1>0, <2>1, <2>4, <2>7 DEF TurnRecord, Carried
  <2>9. Governed(n)
    <3>1. u.status # "AWAITING_APPROVAL"
      BY <2>3
    <3>2. ToolPlan[m.intent][m.tool] \in m.called
      BY <1>0 DEF Governed
    <3> QED  BY <1>0, <2>1, <2>2, <2>7, <2>8, <3>1, <3>2, UsedMore DEF Carried
  <2>10. MayTell(m, n, events)
    <3>1. Ahead(n) = {"COMPOSING", "VERIFYING"} \cup (IF m.tool = 1 THEN {"EXECUTING"} ELSE {})
      BY <2>2, <2>8 DEF Ahead, Early
    <3>2. Ahead(m) = {"COMPOSING", "VERIFYING"} \cup (IF m.tool = 1 THEN {"EXECUTING"} ELSE {})
      BY <1>0 DEF Ahead, Early
    <3>3. /\ "sources" \in Event /\ "sources" \notin Ahead(n)
          /\ "sources" \notin Phases \cup {"accepted", "done", "error"}
      BY <3>1 DEF Event, Phases
    <3>4. /\ n.kind = m.kind /\ m.stage \in Inner \cup {"record", "commit"}
          /\ n.stage \notin Early \cup {"classify"} /\ Ahead(n) \subseteq Ahead(m)
      BY <1>0, <2>8, <3>1, <3>2 DEF Inner, Carried, Early
    <3>5. MayTell(m, n, <<>>)
      BY <3>4, TellsNothing
    <3>6. MayTell(m, n, <<"sources">>)
      BY <3>3, <3>4, TellsOne
    <3> QED  BY <1>2, <3>5, <3>6
  <2> QED  BY <1>0, <1>2, <2>5, <2>7, <2>8, <2>9, <2>10, InnerKeeps
           DEF ToolReturns, Carried, PageStays
<1>3. CASE Current(t) = "knowledge_search" /\ ~(Errored(t) /\ Fault)
  <2>1. PICK found \in BOOLEAN :
          turn' = [turn EXCEPT ![t].stage = "tools", ![t].used = Used(t, "SUCCEEDED"),
                               ![t].tool = @ + 1, ![t].sources = found]
    BY <1>3 DEF ToolReturns
  <2>2. Report(t, <<"sources">>) /\ faults' = faults
    BY <1>3 DEF ToolReturns
  <2>3. <<"sources">> \in Seq(Event)
    BY DEF Event
  <2> QED  BY <1>2, <2>1, <2>2, <2>3
<1>4. CASE Current(t) # "knowledge_search" /\ ~(Errored(t) /\ Fault)
  <2>1. PICK status \in {"SUCCEEDED", "FAILED"} :
          turn' = [turn EXCEPT ![t].stage = "tools", ![t].used = Used(t, status),
                               ![t].tool = @ + 1]
    BY <1>4 DEF ToolReturns
  <2>2. Quiet /\ (faults' = faults \/ Fault)
    BY <1>4 DEF ToolReturns
  <2>3. PICK found \in BOOLEAN : found = m.sources
    BY DEF TurnRecord
  <2>4. turn' = [turn EXCEPT ![t].stage = "tools", ![t].used = Used(t, status),
                             ![t].tool = @ + 1, ![t].sources = found]
    <3>1. Shapes /\ turn[t] = m
      BY <1>0 DEF ChatInv
    <3>2. [m EXCEPT !.stage = "tools", !.used = Used(t, status), !.tool = @ + 1,
                    !.sources = found]
          = [m EXCEPT !.stage = "tools", !.used = Used(t, status), !.tool = @ + 1]
      BY <2>3 DEF TurnRecord
    <3> QED  BY <2>1, <3>1, <3>2 DEF Shapes
  <2>5. Report(t, <<>>) /\ <<>> \in Seq(Event)
    BY <2>2, QuietIsReport DEF ChatInv
  <2> QED  BY <1>2, <2>2, <2>4, <2>5
<1> QED  BY <1>1, <1>3, <1>4

LEMMA StartAnswerKeeps ==
  ASSUME ChatInv, NEW t \in Turn, StartAnswer(t)
  PROVE  ChatInv'
<1>0. PICK m \in TurnRecord : m = turn[t] /\ Governed(m) /\ m.stage = "tools"
  BY StreamShapes DEF ChatInv, StartAnswer
<1>1. PICK n : n = [m EXCEPT !.stage = "compose", !.phase = "COMPOSING"]
  OBVIOUS
<1>2. turn' = [turn EXCEPT ![t] = n] /\ Report(t, <<"COMPOSING">>)
  BY <1>0, <1>1 DEF StartAnswer
<1>3. n \in TurnRecord /\ n.stage = "compose" /\ SameDecisions(m, n) /\ Carried(m, n)
  <2>1. "compose" \in Stages /\ "COMPOSING" \in Phases
    BY DEF Stages, Phases
  <2>2. n \in TurnRecord
    BY <1>1, <2>1 DEF TurnRecord
  <2> QED  BY <1>1, <2>2 DEF TurnRecord, SameDecisions, Carried
<1>4. m.intent # None /\ m.intent \in Intent
  BY <1>0 DEF Governed, Early, TurnRecord
<1>5. m.approval \/ m.tool > Len(ToolPlan[m.intent])
  <2>1. Len(ToolPlan[m.intent]) \in Nat /\ m.tool \in Nat
    BY <1>4, PlanFacts DEF TurnRecord
  <2> QED  BY <1>0, <2>1 DEF StartAnswer, Planning, Plan
<1>6. Governed(n)
  BY <1>0, <1>3, <1>4, <1>5, GovernedStays
<1>7. "COMPOSING" \in Event /\ <<"COMPOSING">> \in Seq(Event)
  BY DEF Event
<1>8. MayTell(m, n, <<"COMPOSING">>)
  <2>1. Ahead(n) = {"VERIFYING"}
    BY <1>3 DEF Ahead, Early
  <2>2. {"COMPOSING", "VERIFYING"} \subseteq Ahead(m)
    BY <1>0 DEF Ahead, Early
  <2>3. n.kind = m.kind /\ m.stage \in Inner \cup {"record", "commit"}
        /\ n.stage \notin Early \cup {"classify"} /\ Ahead(n) \subseteq Ahead(m)
    BY <1>0, <1>3, <2>1, <2>2 DEF Inner, Carried, Early
  <2> QED  BY <1>7, <2>1, <2>2, <2>3, TellsOne
<1> QED  BY <1>0, <1>2, <1>3, <1>6, <1>7, <1>8, InnerKeeps DEF StartAnswer, Carried, PageStays

LEMMA DeltaKeeps ==
  ASSUME ChatInv, NEW t \in Turn, Delta(t)
  PROVE  ChatInv'
<1>0. PICK m \in TurnRecord :
        m = turn[t] /\ Governed(m) /\ m.stage = "compose" /\ m.text < Parts
  BY StreamShapes DEF ChatInv, Delta
<1>1. PICK n : n = [m EXCEPT !.text = @ + 1]
  OBVIOUS
<1>2. turn' = [turn EXCEPT ![t] = n] /\ Report(t, <<"delta">>)
  BY <1>0, <1>1 DEF Delta
<1>3. n \in TurnRecord /\ n.stage = "compose" /\ SameDecisions(m, n) /\ Carried(m, n)
  <2>1. m.text + 1 \in 0..Parts
    BY <1>0, NoneFacts DEF TurnRecord
  <2>2. n \in TurnRecord
    BY <1>1, <2>1 DEF TurnRecord
  <2> QED  BY <1>0, <1>1, <2>2 DEF TurnRecord, SameDecisions, Carried
<1>4. m.intent # None /\ (m.approval \/ m.tool > Len(ToolPlan[m.intent]))
  BY <1>0 DEF Governed, Early
<1>5. Governed(n)
  BY <1>0, <1>3, <1>4, GovernedStays
<1>6. "delta" \in Event /\ <<"delta">> \in Seq(Event)
  BY DEF Event
<1>7. MayTell(m, n, <<"delta">>)
  <2>1. Ahead(n) = {"VERIFYING"} /\ Ahead(m) = {"VERIFYING"}
    BY <1>0, <1>3 DEF Ahead, Early
  <2>2. "delta" \notin Phases \cup {"accepted", "done", "error", "VERIFYING"}
    BY DEF Phases
  <2>3. n.kind = m.kind /\ m.stage \in Inner \cup {"record", "commit"}
        /\ n.stage \notin Early \cup {"classify"}
    BY <1>0, <1>3 DEF Inner, Carried, Early
  <2> QED  BY <1>6, <2>1, <2>2, <2>3, TellsOne
<1> QED  BY <1>0, <1>2, <1>3, <1>5, <1>6, <1>7, InnerKeeps DEF Delta, Carried, PageStays

LEMMA FinishAnswerKeeps ==
  ASSUME ChatInv, NEW t \in Turn, FinishAnswer(t)
  PROVE  ChatInv'
<1>0. PICK m \in TurnRecord : m = turn[t] /\ Governed(m) /\ m.stage = "compose"
  BY StreamShapes DEF ChatInv, FinishAnswer
<1>1. CASE Errored(t) /\ Fault
  BY <1>0, <1>1, ErrorKeeps DEF FinishAnswer, PageStays, Inner
<1>2. ASSUME NEW text \in 0..Parts, NEW whole \in BOOLEAN, Answered(t, text, whole),
             faults' = faults \/ Fault
      PROVE  ChatInv'
  <2>1. PICK n : n = [m EXCEPT !.stage = "record", !.text = text, !.whole = whole,
                               !.phase = "VERIFYING"]
    OBVIOUS
  <2>2. turn' = [turn EXCEPT ![t] = n] /\ Report(t, <<"VERIFYING">>)
    BY <1>0, <1>2, <2>1 DEF Answered
  <2>3. n \in TurnRecord /\ n.stage = "record" /\ SameDecisions(m, n) /\ Carried(m, n)
    <3>1. "record" \in Stages /\ "VERIFYING" \in Phases
      BY DEF Stages, Phases
    <3>2. n \in TurnRecord
      BY <2>1, <3>1 DEF TurnRecord
    <3> QED  BY <2>1, <3>2 DEF TurnRecord, SameDecisions, Carried
  <2>4. m.intent # None /\ (m.approval \/ m.tool > Len(ToolPlan[m.intent]))
    BY <1>0 DEF Governed, Early
  <2>5. Governed(n)
    BY <1>0, <2>3, <2>4, GovernedStays
  <2>6. "VERIFYING" \in Event /\ <<"VERIFYING">> \in Seq(Event)
    BY DEF Event
  <2>7. MayTell(m, n, <<"VERIFYING">>)
    <3>1. Ahead(n) = {} /\ Ahead(m) = {"VERIFYING"}
      BY <1>0, <2>3 DEF Ahead, Early
    <3>2. n.kind = m.kind /\ m.stage \in Inner \cup {"record", "commit"}
          /\ n.stage \notin Early \cup {"classify"}
      BY <1>0, <2>3 DEF Inner, Carried, Early
    <3> QED  BY <2>6, <3>1, <3>2, TellsOne
  <2> QED  BY <1>0, <1>2, <2>2, <2>3, <2>5, <2>6, <2>7, InnerKeeps
           DEF FinishAnswer, Carried, PageStays
<1>3. Parts \in 0..Parts /\ turn[t].text \in 0..Parts
  BY <1>0, NoneFacts DEF TurnRecord
<1> QED  BY <1>1, <1>2, <1>3 DEF FinishAnswer

-----------------------------------------------------------------------------
(* A question is accepted, and its thread found. *)

LEMMA GovernedEarly ==
  ASSUME NEW m, NEW n, Governed(m), SameDecisions(m, n), m.stage \in Early \ {"none"},
         n.stage \in (Early \ {"none"}) \cup {"classify", "failed"}
  PROVE  Governed(n)
BY DEF Governed, SameDecisions, Early

LEMMA Minted ==
  ASSUME Shapes, minted # Conv
  PROVE  Mint \in Conv /\ Mint \notin minted
<1>1. Conv \subseteq Nat /\ Conv \ minted \subseteq Nat /\ Conv \ minted # {}
  <2>1. Conv \subseteq Nat
    BY NoneFacts DEF Conv
  <2>2. minted \subseteq Conv
    BY DEF Shapes
  <2> QED  BY <2>1, <2>2
<1>2. PICK c \in Conv \ minted : \A d \in Conv \ minted : ~(d < c)
  <2>1. \E c \in Conv \ minted : \A d \in Conv \ minted : ~(<<d, c>> \in OpToRel(<, Nat))
    BY <1>1, NatLessThanWellFounded, WFMin
  <2> QED  BY <2>1, <1>1 DEF OpToRel
<1>3. \A d \in 1..(c - 1) : d \in minted
  BY <1>1, <1>2, NoneFacts DEF Conv
<1>4. \E d \in Conv : d \notin minted /\ \A e \in 1..(d - 1) : e \in minted
  BY <1>2, <1>3
<1> QED  BY <1>4 DEF Mint

LEMMA AcceptKeeps ==
  ASSUME ChatInv, NEW t \in Turn, Accept(t)
  PROVE  ChatInv'
<1>0. PICK m \in TurnRecord : m = turn[t] /\ Governed(m) /\ m.stage = "sent" /\ Shapes
  BY StreamShapes DEF ChatInv, Accept
<1>1. PICK c : c = IF m.asked = None THEN Mint ELSE m.asked
  OBVIOUS
<1>2. c \in Conv /\ (m.asked = None => c \notin minted) /\ minted \subseteq Conv
  BY <1>0, <1>1, Minted DEF Accept, TurnRecord, Shapes
<1>3. PICK n : n = [m EXCEPT !.stage = "ensure", !.conv = c]
  OBVIOUS
<1>4. /\ turn' = [turn EXCEPT ![t] = n] /\ minted' = minted \cup {c} /\ conv' = conv
      /\ UNCHANGED <<store, stream, heard, page, faults>>
  BY <1>0, <1>1, <1>3 DEF Accept
<1>5. /\ n \in TurnRecord /\ n.stage = "ensure" /\ n.conv = c /\ SameDecisions(m, n)
      /\ n.kind = m.kind /\ n.asked = m.asked /\ n.history = m.history
  <2>1. "ensure" \in Stages
    BY DEF Stages, Early
  <2>2. n \in TurnRecord
    BY <1>2, <1>3, <2>1 DEF TurnRecord
  <2> QED  BY <1>3, <2>2 DEF TurnRecord, SameDecisions
<1>6. Becomes(t, n) /\ Grown(t)
  BY <1>0, <1>4, <1>5, BecomesBy, SameThreads
<1>7. (StreamsShaped /\ StreamsInv)'
  BY <1>0, <1>4, <1>5, <1>6, StaysSilent DEF Early
<1>8. GoesOn(t, n) /\ faults' \in 0..MaxFaults /\ minted' \subseteq Conv
  BY <1>0, <1>2, <1>4, <1>5, <1>6 DEF GoesOn, Settled, SameDecisions, stream, Shapes
<1>9. SameHistory(t, n) /\ Governed(n)
  BY <1>0, <1>5, GovernedEarly DEF SameHistory, Early
<1>10. Addressed(t)'
  <2>1. m.history = {} /\ m.asked \in minted \cup {None}
    BY <1>0 DEF ChatInv, Threads, Addressed, Early
  <2> QED  BY <1>1, <1>2, <1>4, <1>5, <1>6, <2>1, NoneFacts DEF Addressed, Becomes
<1>11. OnRecord(t)'
  BY <1>5, <1>6 DEF OnRecord, Becomes
<1>12. \A d \in Conv : conv'[d] # None => RowsSound(d)'
  BY <1>0, <1>4, <1>5, <1>6, RowsStay DEF SameDecisions
<1> QED  BY <1>4, <1>7, <1>8, <1>9, <1>10, <1>11, <1>12, GoesOnKeeps

(* A turn tells that it was accepted once it knows what was said before.   *)
LEMMA AnnouncedKeeps ==
  ASSUME ChatInv, NEW t \in Turn, turn[t].stage \in {"ensure", "history"},
         NEW history \in SUBSET Nat, Announced(t, history), Grown(t),
         faults' = faults \/ Fault, UNCHANGED <<store, minted, heard, page>>,
         \A c \in Conv : conv'[c] # None =>
           conv'[c] = conv[c] \/ (conv'[c].rows = <<>> /\ c \in minted'),
         faults' = 0 => conv'[turn[t].conv] # None,
         history # {} => Owned(turn[t].conv, turn[t].by) /\ conv' = conv,
         history \subseteq Visible(turn[t].conv),
         faults' = 0 /\ HistoryLimit >= 2 => \A a \in Turn : Builds(a, t)'
  PROVE  ChatInv'
<1>0. PICK m \in TurnRecord :
        m = turn[t] /\ Governed(m) /\ m.stage \in {"ensure", "history"} /\ Shapes
  BY StreamShapes DEF ChatInv
<1>1. PICK n : n = [m EXCEPT !.stage = "classify", !.history = history,
                             !.phase = "UNDERSTANDING"]
  OBVIOUS
<1>2. turn' = [turn EXCEPT ![t] = n] /\ Report(t, <<"accepted", "UNDERSTANDING">>)
  BY <1>0, <1>1 DEF Announced
<1>3. /\ n \in TurnRecord /\ n.stage = "classify" /\ n.conv = m.conv /\ SameDecisions(m, n)
      /\ n.kind = m.kind /\ n.asked = m.asked /\ n.history = history
      /\ n.phase = "UNDERSTANDING"
  <2>1. "classify" \in Stages /\ "UNDERSTANDING" \in Phases
    BY DEF Stages, Phases
  <2>2. n \in TurnRecord
    BY <1>1, <2>1 DEF TurnRecord
  <2> QED  BY <1>1, <2>2 DEF TurnRecord, SameDecisions
<1>4. Becomes(t, n)
  BY <1>0, <1>2, <1>3, BecomesBy
<1>5. PICK events : events = <<"accepted", "UNDERSTANDING">>
  OBVIOUS
<1>6. /\ events \in Seq(Event) /\ DOMAIN events = 1..2 /\ Len(events) = 2
      /\ events[1] = "accepted" /\ events[2] = "UNDERSTANDING"
  <2>1. <<"accepted", "UNDERSTANDING">> \in Seq(Event)
    BY Pair DEF Event
  <2> QED  BY <1>5, <2>1
<1>7. MayTell(m, n, events)
  <2>1. Ahead(m) = Phases \cup {"accepted"} /\ Ahead(n) = Phases \ {"UNDERSTANDING"}
    BY <1>0, <1>3 DEF Ahead, Early
  <2>2. /\ Ahead(n) \subseteq Ahead(m) /\ "accepted" \notin Ahead(n)
        /\ "UNDERSTANDING" \notin Ahead(n) /\ {"accepted", "UNDERSTANDING"} \subseteq Ahead(m)
    BY <2>1 DEF Phases
  <2>3. \A i \in DOMAIN events : i = 1 \/ i = 2
    BY <1>6
  <2>4. \A i \in DOMAIN events :
          /\ events[i] \notin Ahead(n) /\ events[i] \in Ahead(m) /\ events[i] \notin Ends
          /\ events[i] # "done" /\ events[i] # "error"
    <3>1. "accepted" \notin Ends /\ "UNDERSTANDING" \notin Ends
      BY DEF Ends
    <3> QED  BY <1>6, <2>2, <2>3, <3>1
  <2>5. \A i, j \in DOMAIN events : events[i] = events[j] => i = j
    BY <1>6, <2>3
  <2>6. events # <<>>
    BY <1>6
  <2> QED  BY <1>0, <1>3, <1>6, <2>2, <2>4, <2>5, <2>6 DEF MayTell, Early, Settled
<1>8. (StreamsShaped /\ StreamsInv)' /\ wire' = wire
  BY <1>0, <1>2, <1>4, <1>5, <1>6, <1>7, Tells
<1>9. faults' \in 0..MaxFaults /\ (faults' = 0 => faults = 0) /\ minted' \subseteq Conv
  BY <1>0, NoneFacts DEF Shapes, Fault, MayFail
<1>10. GoesOn(t, n)
  BY <1>0, <1>3, <1>4, <1>8, <1>9 DEF GoesOn, Settled, SameDecisions
<1>11. Governed(n)
  BY <1>0, <1>3, GovernedEarly DEF Early
<1>12. Addressed(t)'
  <2>1. /\ {m.conv, m.asked} \subseteq minted \cup {None} /\ m.conv # None
        /\ m.asked # None => m.conv = m.asked
    BY <1>0 DEF ChatInv, Threads, Addressed
  <2>2. ASSUME NEW i \in history
        PROVE  i \in Visible(m.conv)' /\ conv'[m.conv].rows[i].turn # t
    <3>1. i \in Visible(m.conv) /\ conv' = conv /\ conv[m.conv] # None /\ m.conv \in Conv
      BY <1>0, <2>1 DEF Owned, TurnRecord
    <3>2. i \in DOMAIN conv[m.conv].rows
      BY <3>1 DEF Visible
    <3>3. turn[conv[m.conv].rows[i].turn].stage \in {"commit", "answered"}
      BY <3>1, <3>2 DEF ChatInv, Threads, RowsSound
    <3>4. conv[m.conv].rows[i].turn # t
      BY <1>0, <3>3
    <3> QED  BY <1>0, <1>3, <1>4, <3>1, <3>4 DEF Visible, Becomes
  <2>3. history # {} => Owned(m.conv, m.by)'
    BY <1>0, <1>3, <1>4 DEF Owned, Becomes, SameDecisions
  <2>4. turn'[t] = n /\ n.by = m.by /\ minted' = minted
    BY <1>3, <1>4 DEF Becomes, SameDecisions
  <2>5. \A i \in n.history : i \in Visible(n.conv)' /\ conv'[n.conv].rows[i].turn # t
    BY <1>3, <2>2 DEF Visible
  <2>6. n.history # {} => n.conv # None /\ Owned(n.conv, n.by)'
    BY <1>3, <2>1, <2>3, <2>4 DEF Owned
  <2>7. /\ n.stage \notin Early \cup {"none", "sent"}
        /\ {n.conv, n.asked} \subseteq minted \cup {None} /\ n.conv # None
        /\ n.asked # None => n.conv = n.asked
    BY <1>3, <2>1 DEF Early
  <2> QED  BY <2>4, <2>5, <2>6, <2>7 DEF Addressed, Early
<1>13. OnRecord(t)'
  BY <1>0, <1>3, <1>4 DEF OnRecord, Becomes
<1>14. \A c \in Conv : conv'[c] # None => RowsSound(c)'
  BY <1>0, <1>3, <1>4, RowsStay DEF SameDecisions
<1> QED  BY <1>8, <1>9, <1>10, <1>11, <1>12, <1>13, <1>14, GoesOnKeeps

LEMMA EnsureKeeps ==
  ASSUME ChatInv, NEW t \in Turn, Ensure(t)
  PROVE  ChatInv'
<1>0. PICK m \in TurnRecord : m = turn[t] /\ Governed(m) /\ m.stage = "ensure" /\ Shapes
  BY StreamShapes DEF ChatInv, Ensure
<1>1. m.conv \in Conv /\ m.conv \in minted /\ m.by \in Actor
  BY <1>0 DEF ChatInv, Threads, Addressed, TurnRecord
<1>2. /\ Grown(t) /\ (faults' = faults \/ Fault) /\ (faults' = 0 => conv'[m.conv] # None)
      /\ \A c \in Conv : conv'[c] # None =>
           conv'[c] = conv[c] \/ (conv'[c].rows = <<>> /\ c \in minted)
  <2>1. CASE conv' = [conv EXCEPT ![m.conv] = IF @ = None THEN NewRow(m.by) ELSE @]
             /\ UNCHANGED faults
    <3>1. /\ Grown(t) /\ conv'[m.conv] # None
          /\ \A d \in Conv : \/ conv'[d] = conv[d]
                             \/ d = m.conv /\ conv[d] = None /\ conv'[d] = NewRow(m.by)
      BY <1>0, <1>1, <2>1, NewThread
    <3> QED  BY <1>1, <2>1, <3>1 DEF NewRow
  <2>2. CASE conv' = conv /\ Fault
    BY <1>0, <2>2, SameThreads, NoneFacts DEF Fault, Shapes
  <2> QED  BY <1>0, <2>1, <2>2 DEF Ensure, Ensured
<1>3. CASE m.asked = None \/ m.kind = "legacy"
  <2>1. Announced(t, {})
    BY <1>0, <1>3 DEF Ensure
  <2>2. ASSUME faults' = 0, NEW a \in Turn
        PROVE  Builds(a, t)'
    <3>1. SUFFICES ASSUME AskedAfter(a, t)', turn'[a].stage = "answered"
                   PROVE  FALSE
      BY DEF Builds
    <3>2. /\ turn' = [turn EXCEPT ![t].stage = "classify", ![t].history = {},
                                  ![t].phase = "UNDERSTANDING"]
      BY <2>1 DEF Announced
    <3>3. /\ turn'[t].kind = m.kind /\ turn'[t].conv = m.conv
          /\ turn'[t].stage = "classify"
      BY <1>0, <3>2 DEF Shapes, TurnRecord
    <3>4. a # t /\ turn'[a] = turn[a]
      BY <1>0, <3>1, <3>2, <3>3 DEF Shapes
    <3>5. a < t /\ turn[a].kind = "stream" /\ m.kind = "stream" /\ turn[a].conv = m.conv
          /\ turn[a].conv # None /\ turn[a].stage = "answered"
      BY <3>1, <3>3, <3>4 DEF AskedAfter
    <3>6. faults = 0
      BY <1>0, <1>2, <2>2, NoneFacts DEF Fault, Shapes
    <3>7. m.asked = None /\ Asked(a) /\ Asked(t)
      BY <1>0, <1>3, <3>5 DEF Asked
    <3> QED  BY <1>0, <3>5, <3>6, <3>7 DEF ChatInv, InTurn, Apart
  <2> QED  BY <1>0, <1>2, <2>1, <2>2, AnnouncedKeeps DEF Ensure, PageStays
<1>4. CASE ~(m.asked = None \/ m.kind = "legacy")
  <2>1. PICK n : n = [m EXCEPT !.stage = "history"]
    OBVIOUS
  <2>2. turn' = [turn EXCEPT ![t] = n] /\ Quiet /\ UNCHANGED <<store, minted, heard, page>>
    BY <1>0, <1>4, <2>1 DEF Ensure, PageStays
  <2>3. /\ n \in TurnRecord /\ n.stage = "history" /\ n.conv = m.conv /\ SameDecisions(m, n)
        /\ n.kind = m.kind /\ n.asked = m.asked /\ n.history = m.history
    <3>1. "history" \in Stages
      BY DEF Stages, Early
    <3>2. n \in TurnRecord
      BY <2>1, <3>1 DEF TurnRecord
    <3> QED  BY <2>1, <3>2 DEF TurnRecord, SameDecisions
  <2>4. Becomes(t, n)
    BY <1>0, <2>2, <2>3, BecomesBy
  <2>5. (StreamsShaped /\ StreamsInv)'
    BY <1>0, <2>2, <2>3, <2>4, StaysSilent DEF Early, Quiet
  <2>6. faults' \in 0..MaxFaults /\ (faults' = 0 => faults = 0) /\ minted' \subseteq Conv
    BY <1>0, <1>2, <2>2, NoneFacts DEF Shapes, Fault, MayFail
  <2>7. GoesOn(t, n)
    BY <1>0, <1>2, <2>2, <2>3, <2>4, <2>6 DEF GoesOn, Settled, SameDecisions, Quiet, stream
  <2>8. SameHistory(t, n) /\ Governed(n)
    BY <1>0, <2>3, GovernedEarly DEF SameHistory, Early
  <2>9. Addressed(t)'
    BY <1>0, <1>2, <2>2, <2>3, <2>4, KeepsThread DEF SameDecisions, Early
  <2>10. OnRecord(t)'
    BY <1>0, <1>2, <2>3, <2>4 DEF OnRecord, Becomes
  <2>11. \A c \in Conv : conv'[c] # None => RowsSound(c)'
    BY <1>0, <1>2, <2>2, <2>3, <2>4, RowsStay DEF SameDecisions
  <2> QED  BY <2>2, <2>5, <2>6, <2>7, <2>8, <2>9, <2>10, <2>11, GoesOnKeeps
<1> QED  BY <1>3, <1>4

(* Of two rows the last two are both.                                      *)
LEMMA BothAreLast ==
  ASSUME NEW places, NEW i \in places, NEW j, places \subseteq {i, j}, HistoryLimit >= 2,
         places \subseteq Nat
  PROVE  i \in LastOf(places)
<1> DEFINE later == {k \in places : k > i}
<1>1. later \subseteq {j}
  <2>1. ASSUME NEW k \in places, k > i
        PROVE  k = j
    <3>1. k \in Nat /\ i \in Nat
      OBVIOUS
    <3>2. k # i
      BY <2>1, <3>1
    <3> QED  BY <3>2
  <2> QED  BY <2>1
<1>2. IsFiniteSet({j}) /\ Cardinality({j}) = 1
  BY FS_Singleton
<1>3. Cardinality(later) <= 1 /\ Cardinality(later) \in Nat
  BY <1>1, <1>2, FS_Subset, FS_CardinalityType
<1>4. Cardinality(later) < HistoryLimit
  BY <1>3, NoneFacts
<1> QED  BY <1>4 DEF LastOf

LEMMA LoadHistoryKeeps ==
  ASSUME ChatInv, NEW t \in Turn, LoadHistory(t)
  PROVE  ChatInv'
<1>0. PICK m \in TurnRecord : m = turn[t] /\ Governed(m) /\ m.stage = "history" /\ Shapes
  BY StreamShapes DEF ChatInv, LoadHistory
<1>1. m.conv \in Conv /\ m.conv \in minted /\ m.by \in Actor
  BY <1>0 DEF ChatInv, Threads, Addressed, TurnRecord
<1>2. Grown(t) /\ conv' = conv /\ UNCHANGED <<store, minted, heard, page>>
  BY <1>0, SameThreads DEF LoadHistory, PageStays
<1>3. CASE Announced(t, {}) /\ Fault
  <2>1. faults' # 0
    BY <1>0, <1>3, NoneFacts DEF Fault, Shapes
  <2> QED  BY <1>0, <1>2, <1>3, <2>1, AnnouncedKeeps
<1>4. CASE Announced(t, HistoryOf(m.conv, m.by)) /\ UNCHANGED faults
  <2>1. PICK history : history = HistoryOf(m.conv, m.by)
    OBVIOUS
  <2>2. /\ history # {} => Owned(m.conv, m.by)
        /\ history \subseteq Visible(m.conv) /\ history \in SUBSET Nat
    <3>1. history # {} => Owned(m.conv, m.by) /\ history \subseteq Visible(m.conv)
      BY <2>1 DEF HistoryOf, LastOf
    <3>2. Owned(m.conv, m.by) => Visible(m.conv) \subseteq Nat
      BY <1>0, <1>1, RowShapes DEF Owned, Visible
    <3> QED  BY <3>1, <3>2
  <2>3. faults = 0 => conv[m.conv] # None
    BY <1>0 DEF ChatInv, Threads, OnRecord
  <2>4. ASSUME faults' = 0, HistoryLimit >= 2, NEW a \in Turn
        PROVE  Builds(a, t)'
    <3>1. SUFFICES ASSUME AskedAfter(a, t)', turn'[a].stage = "answered",
                          Owned(turn[a].conv, Me)',
                          \A w \in Turn : w \notin {a, t} => turn'[w].conv # turn'[a].conv
                   PROVE  \E i \in turn'[t].history :
                            conv'[turn'[t].conv].rows[i] = Row(a, "tania", TRUE)
      BY DEF Builds
    <3>2. turn' = [turn EXCEPT ![t].stage = "classify", ![t].history = history,
                               ![t].phase = "UNDERSTANDING"]
      BY <1>4, <2>1 DEF Announced
    <3>3. /\ turn'[t].kind = m.kind /\ turn'[t].conv = m.conv /\ turn'[t].history = history
          /\ turn'[t].stage = "classify"
          /\ \A w \in Turn \ {t} : turn'[w] = turn[w]
      BY <1>0, <3>2 DEF Shapes, TurnRecord
    <3>4. /\ a # t /\ turn'[a] = turn[a] /\ turn[a].stage = "answered"
          /\ turn[a].kind = "stream" /\ m.kind = "stream" /\ turn[a].conv = m.conv
      BY <3>1, <3>3 DEF AskedAfter
    <3>5. turn[a].by = Me /\ m.by = Me
      BY <1>0, <3>4 DEF ChatInv, Shown
    <3>6. Owned(m.conv, Me)
      BY <1>2, <3>1, <3>4 DEF Owned
    <3>7. PICK i \in Visible(m.conv) : conv[m.conv].rows[i] = Row(a, "tania", TRUE)
      BY <1>2, <1>4, <2>4, <3>4, <3>5, <3>6 DEF ChatInv, Threads, OnRecord
    <3>8. PICK rows : rows = conv[m.conv].rows
      OBVIOUS
    <3>9. conv[m.conv] # None /\ rows \in Seq(MessageRow) /\ RowsSound(m.conv)
          /\ DOMAIN rows \subseteq Nat
          /\ \A k \in DOMAIN rows : rows[k].turn \in Turn /\ rows[k].role \in {"user", "tania"}
      <4>1. conv[m.conv] # None /\ RowsSound(m.conv)
        BY <1>1, <3>6 DEF Owned, ChatInv, Threads
      <4>2. /\ rows \in Seq(MessageRow) /\ DOMAIN rows = 1..Len(rows) /\ Len(rows) \in Nat
            /\ \A k \in DOMAIN rows : rows[k] \in MessageRow
        BY <1>0, <1>1, <3>8, <4>1, RowShapes
      <4> QED  BY <4>1, <4>2 DEF MessageRow
    <3>10. \A k \in DOMAIN rows : rows[k].turn = a
      <4>1. \A k \in DOMAIN rows :
              turn[rows[k].turn].conv = m.conv
                /\ turn[rows[k].turn].stage \in {"commit", "answered"}
        BY <3>8, <3>9 DEF RowsSound
      <4> QED  BY <1>0, <3>1, <3>3, <3>4, <3>9, <4>1
    <3>11. i \in DOMAIN rows /\ rows[i].role = "tania"
      BY <3>7, <3>8 DEF Visible, Row
    <3>12. PICK j : \A k \in DOMAIN rows : k = i \/ k = j
      <4>1. \A k, l \in DOMAIN rows :
              rows[k].turn = rows[l].turn /\ rows[k].role = rows[l].role => k = l
        BY <3>8, <3>9 DEF RowsSound, Distinct
      <4>2. CASE \E j \in DOMAIN rows : rows[j].role = "user"
        <5>1. PICK j \in DOMAIN rows : rows[j].role = "user"
          BY <4>2
        <5>2. \A k \in DOMAIN rows : k = i \/ k = j
          BY <3>9, <3>10, <3>11, <4>1, <5>1
        <5> QED  BY <5>2
      <4>3. CASE ~\E j \in DOMAIN rows : rows[j].role = "user"
        <5>1. \A k \in DOMAIN rows : k = i
          BY <3>9, <3>10, <3>11, <4>1, <4>3
        <5> QED  BY <5>1
      <4> QED  BY <4>2, <4>3
    <3>13. Visible(m.conv) \subseteq {i, j} /\ Visible(m.conv) \subseteq Nat
      BY <3>8, <3>9, <3>12 DEF Visible
    <3>14. i \in history
      <4>1. i \in LastOf(Visible(m.conv))
        BY <2>4, <3>7, <3>13, BothAreLast
      <4> QED  BY <2>1, <3>5, <3>6, <4>1 DEF HistoryOf
    <3> QED  BY <1>2, <3>3, <3>7, <3>14
  <2>5. Announced(t, history)
    BY <1>4, <2>1
  <2> QED  BY <1>0, <1>2, <1>4, <2>2, <2>3, <2>4, <2>5, AnnouncedKeeps
<1> QED  BY <1>0, <1>3, <1>4 DEF LoadHistory

-----------------------------------------------------------------------------
(* A turn is written down, and answered. *)

LEMMA AnsweredFacts ==
  ASSUME ChatInv, NEW t \in Turn, turn[t].stage \in {"record", "commit"}, Responded(t)
  PROVE  \E n \in TurnRecord :
           /\ turn' = [turn EXCEPT ![t] = n] /\ Becomes(t, n) /\ n.stage = "answered"
           /\ SameDecisions(turn[t], n) /\ Carried(turn[t], n) /\ Governed(n)
<1>0. PICK m \in TurnRecord :
        m = turn[t] /\ Governed(m) /\ m.stage \in {"record", "commit"} /\ Shapes
  BY StreamShapes DEF ChatInv
<1>1. PICK n : n = [m EXCEPT !.stage = "answered"]
  OBVIOUS
<1>2. turn' = [turn EXCEPT ![t] = n]
  BY <1>0, <1>1 DEF Responded
<1>3. n \in TurnRecord /\ n.stage = "answered" /\ SameDecisions(m, n) /\ Carried(m, n)
  <2>1. "answered" \in Stages
    BY DEF Stages, Settled
  <2>2. n \in TurnRecord
    BY <1>1, <2>1 DEF TurnRecord
  <2> QED  BY <1>1, <2>2 DEF TurnRecord, SameDecisions, Carried
<1>4. Governed(n)
  <2>1. m.intent # None /\ (m.approval \/ m.tool > Len(ToolPlan[m.intent]))
    BY <1>0 DEF Governed, Early
  <2> QED  BY <1>0, <1>3, <2>1, GovernedStays
<1> QED  BY <1>0, <1>2, <1>3, <1>4, BecomesBy

(* What is left to show when a turn is answered.                           *)
LEMMA RespondedKeeps ==
  ASSUME ChatInv, NEW t \in Turn, turn[t].stage \in {"record", "commit"}, Responded(t),
         Grown(t), faults' = faults \/ Fault, UNCHANGED <<store, minted, heard, page>>,
         \A c \in Conv : conv'[c] # None => conv'[c] = conv[c] \/ RowsSound(c)',
         faults' = 0 /\ conv'[turn[t].conv] # None /\ conv'[turn[t].conv].owner = turn[t].by =>
           \E i \in DOMAIN conv'[turn[t].conv].rows :
             conv'[turn[t].conv].rows[i] = Row(t, "tania", TRUE)
  PROVE  ChatInv'
<1>0. PICK m \in TurnRecord : m = turn[t] /\ m.stage \in {"record", "commit"} /\ Shapes
  BY StreamShapes DEF ChatInv
<1>1. PICK n \in TurnRecord :
        /\ turn' = [turn EXCEPT ![t] = n] /\ Becomes(t, n) /\ n.stage = "answered"
        /\ SameDecisions(m, n) /\ Carried(m, n) /\ Governed(n)
  BY <1>0, AnsweredFacts
<1>2. MayTell(m, n, <<"done">>) /\ <<"done">> \in Seq(Event)
  <2>1. Ahead(n) = {} /\ "done" \in Event /\ "done" \notin Phases \cup {"accepted"}
    BY <1>1 DEF Ahead, Early, Event, Phases
  <2>2. n.kind = m.kind /\ m.stage \in Inner \cup {"record", "commit"}
        /\ n.stage \notin Early \cup {"classify"} /\ "done" # "error"
    BY <1>0, <1>1 DEF Carried, Early
  <2> QED  BY <1>1, <2>1, <2>2, TellsOne
<1>3. (StreamsShaped /\ StreamsInv)' /\ wire' = wire
  BY <1>0, <1>1, <1>2, Tells DEF Responded, Settled
<1>4. faults' \in 0..MaxFaults /\ (faults' = 0 => faults = 0) /\ minted' \subseteq Conv
  BY <1>0, NoneFacts DEF Shapes, Fault, MayFail
<1>5. GoesOn(t, n)
  BY <1>0, <1>1, <1>3, <1>4 DEF GoesOn, Settled, Carried
<1>6. SameHistory(t, n)
  BY <1>0, <1>1 DEF SameHistory, Early, Carried
<1>7. Addressed(t)'
  BY <1>0, <1>1, KeepsThread DEF Carried, Early
<1>8. OnRecord(t)'
  <2>1. m.conv \in Conv
    BY <1>0 DEF ChatInv, Threads, Addressed, TurnRecord
  <2>2. faults' = 0 => conv'[m.conv] # None
    <3>1. faults = 0 => conv[m.conv] # None
      BY <1>0 DEF ChatInv, Threads, OnRecord
    <3> QED  BY <1>4, <2>1, <3>1 DEF Grown
  <2>3. ASSUME faults' = 0, conv'[m.conv].owner = m.by
        PROVE  \E i \in Visible(m.conv)' : conv'[m.conv].rows[i] = Row(t, "tania", TRUE)
    <3>1. PICK i \in DOMAIN conv'[m.conv].rows : conv'[m.conv].rows[i] = Row(t, "tania", TRUE)
      BY <1>0, <2>2, <2>3
    <3>2. conv'[m.conv].rows[i].live
      BY <3>1 DEF Row
    <3>3. turn'[t].conv = m.conv
      BY <1>1 DEF Becomes, Carried
    <3>4. i \in Visible(m.conv)'
      BY <1>0, <3>1, <3>2, <3>3 DEF Visible
    <3> QED  BY <3>1, <3>4
  <2>4. turn'[t] = n /\ n.conv = m.conv /\ n.by = m.by
    BY <1>1 DEF Becomes, Carried
  <2> QED  BY <1>1, <2>2, <2>3, <2>4 DEF OnRecord, Owned
<1>9. \A c \in Conv : conv'[c] # None => RowsSound(c)'
  BY <1>0, <1>1, RowsStay DEF Carried
<1> QED  BY <1>1, <1>3, <1>4, <1>5, <1>6, <1>7, <1>8, <1>9, GoesOnKeeps

(* The rows written before are of others, and in order.                    *)
LEMMA OldRows ==
  ASSUME ChatInv, NEW t \in Turn, turn[t].stage = "record", NEW c \in Conv,
         NEW rows, rows = IF conv[c] = None THEN <<>> ELSE conv[c].rows
  PROVE  /\ rows \in Seq(MessageRow) /\ Len(rows) \in Nat /\ DOMAIN rows = 1..Len(rows)
         /\ \A i \in 1..Len(rows) :
              /\ rows[i] \in MessageRow /\ rows[i].turn \in Turn /\ rows[i].turn # t
              /\ turn[rows[i].turn].conv = c /\ turn[rows[i].turn].by = conv[c].owner
              /\ turn[rows[i].turn].stage \in {"commit", "answered"}
              /\ rows[i].live => turn[rows[i].turn].stage = "answered"
              /\ Paired(rows, i)
         /\ Distinct(rows)
<1>1. CASE conv[c] = None
  <2>1. rows = <<>>
    BY <1>1
  <2>2. rows \in Seq(MessageRow) /\ Len(rows) = 0
    <3>1. \A S : <<>> \in Seq(S) /\ Len(<<>>) = 0
      OBVIOUS
    <3> QED  BY <2>1, <3>1, Zenon
  <2>3. DOMAIN rows = 1..Len(rows) /\ 1..Len(rows) = {}
    BY <2>2
  <2> QED  BY <2>2, <2>3 DEF Distinct
<1>2. CASE conv[c] # None
  <2>1. RowsSound(c) /\ rows = conv[c].rows
    BY <1>2 DEF ChatInv, Threads
  <2>2. /\ rows \in Seq(MessageRow) /\ Len(rows) \in Nat /\ DOMAIN rows = 1..Len(rows)
        /\ \A i \in DOMAIN rows : rows[i] \in MessageRow /\ rows[i].turn \in Turn
    BY <1>2, <2>1, RowShapes DEF ChatInv
  <2>3. /\ Distinct(rows)
        /\ \A i \in DOMAIN rows :
             /\ turn[rows[i].turn].conv = c /\ turn[rows[i].turn].by = conv[c].owner
             /\ turn[rows[i].turn].stage \in {"commit", "answered"}
             /\ rows[i].live => turn[rows[i].turn].stage = "answered"
             /\ Paired(rows, i)
    BY <2>1 DEF RowsSound
  <2>4. \A i \in DOMAIN rows : rows[i].turn # t
    BY <2>3
  <2> QED  BY <2>2, <2>3, <2>4
<1> QED  BY <1>1, <1>2

LEMMA RowFacts ==
  ASSUME NEW t \in Turn, NEW role \in {"user", "tania"}, NEW live \in BOOLEAN
  PROVE  /\ Row(t, role, live) \in MessageRow /\ Row(t, role, live).turn = t
         /\ Row(t, role, live).role = role /\ Row(t, role, live).live = live
BY DEF Row, MessageRow

LEMMA TwoMore ==
  ASSUME NEW S, NEW s \in Seq(S), NEW a \in S, NEW b \in S
  PROVE  LET r == s \o <<a, b>>
         IN  /\ r \in Seq(S) /\ Len(r) = Len(s) + 2 /\ DOMAIN r = 1..(Len(s) + 2)
             /\ \A i \in 1..Len(s) : r[i] = s[i]
             /\ r[Len(s) + 1] = a /\ r[Len(s) + 2] = b
<1>1. PICK p \in Seq(S) : p = <<a, b>>
  <2>1. <<a, b>> \in Seq(S)
    OBVIOUS
  <2> QED  BY <2>1
<1>2. Len(p) = 2 /\ p[1] = a /\ p[2] = b
  BY <1>1
<1>3. PICK r \in Seq(S) : r = s \o p
  BY ConcatProperties
<1>4. /\ Len(r) = Len(s) + Len(p)
      /\ \A i \in 1..Len(r) : r[i] = IF i <= Len(s) THEN s[i] ELSE p[i - Len(s)]
  BY <1>3, ConcatProperties
<1>5. Len(s) \in Nat /\ Len(r) = Len(s) + 2 /\ DOMAIN r = 1..Len(r)
  BY <1>2, <1>4
<1>6. r[Len(s) + 1] = a /\ r[Len(s) + 2] = b
  BY <1>2, <1>4, <1>5
<1>7. \A i \in 1..Len(s) : r[i] = s[i]
  BY <1>4, <1>5
<1> QED  BY <1>1, <1>3, <1>5, <1>6, <1>7

LEMMA RecordInMemoryKeeps ==
  ASSUME ChatInv, NEW t \in Turn, RecordInMemory(t)
  PROVE  ChatInv'
<1>0. PICK m \in TurnRecord : m = turn[t] /\ m.stage = "record" /\ Shapes
  BY StreamShapes DEF ChatInv, RecordInMemory
<1>1. PICK c \in Conv : c = m.conv /\ c \in minted
  BY <1>0 DEF ChatInv, Threads, Addressed, TurnRecord
<1>2. Responded(t) /\ UNCHANGED <<store, minted, faults, heard, page>> /\ m.by \in Actor
  BY <1>0 DEF RecordInMemory, PageStays, TurnRecord
<1>3. CASE Foreign(c, m.by)
  <2>1. conv' = conv /\ conv'[c].owner # m.by
    BY <1>0, <1>1, <1>3 DEF RecordInMemory, Foreign
  <2> QED  BY <1>0, <1>1, <1>2, <2>1, SameThreads, RespondedKeeps
<1>4. CASE ~Foreign(c, m.by)
  <2>1. PICK old : old = IF conv[c] = None THEN <<>> ELSE conv[c].rows
    OBVIOUS
  <2>2. PICK user \in MessageRow, tania \in MessageRow :
          user = Row(t, "user", TRUE) /\ tania = Row(t, "tania", TRUE)
    BY RowFacts
  <2>3. PICK rows : rows = old \o <<user, tania>>
    OBVIOUS
  <2>4. old \in Seq(MessageRow) /\ Len(old) \in Nat
    BY <1>0, <2>1, OldRows
  <2>5. /\ rows \in Seq(MessageRow) /\ Len(rows) = Len(old) + 2 /\ DOMAIN rows = 1..(Len(old) + 2)
        /\ \A i \in 1..Len(old) : rows[i] = old[i]
        /\ rows[Len(old) + 1] = user /\ rows[Len(old) + 2] = tania
    BY <2>3, <2>4, TwoMore
  <2>6. PICK thread \in Conversation : thread = [owner |-> m.by, rows |-> rows]
    BY <1>2, <2>5 DEF Conversation
  <2>7. conv' = [conv EXCEPT ![c] = thread]
    BY <1>0, <1>1, <1>4, <2>1, <2>2, <2>3, <2>6 DEF RecordInMemory
  <2>8. /\ conv'[c] = thread /\ \A d \in Conv \ {c} : conv'[d] = conv[d]
        /\ conv' \in [Conv -> Conversation \cup {None}] /\ thread # None
        /\ thread.owner = m.by /\ thread.rows = rows
    BY <1>0, <2>6, <2>7, NoneFacts DEF Shapes
  <2>9. Grown(t)
    <3>1. ASSUME NEW d \in Conv, conv[d] # None
          PROVE  /\ conv'[d] # None /\ conv'[d].owner = conv[d].owner
                 /\ Len(conv'[d].rows) >= Len(conv[d].rows)
                 /\ \A i \in DOMAIN conv[d].rows : conv'[d].rows[i] = conv[d].rows[i]
      <4>1. CASE d # c
        BY <1>0, <2>8, <3>1, <4>1, RowShapes
      <4>2. CASE d = c
        <5>1. conv[c].owner = m.by /\ old = conv[c].rows
          BY <1>4, <2>1, <3>1, <4>2 DEF Foreign
        <5>2. DOMAIN old = 1..Len(old)
          BY <2>4
        <5> QED  BY <2>4, <2>5, <2>8, <4>2, <5>1, <5>2
      <4> QED  BY <4>1, <4>2
    <3> QED  BY <2>8, <3>1 DEF Grown
  <2>10. PICK n \in TurnRecord : Becomes(t, n) /\ n.stage = "answered" /\ Carried(m, n)
    BY <1>0, <1>2, AnsweredFacts
  <2>11. RowsSound(c)'
    <3>1. /\ \A i \in 1..Len(old) :
               /\ old[i] \in MessageRow /\ old[i].turn \in Turn /\ old[i].turn # t
               /\ turn[old[i].turn].conv = c /\ turn[old[i].turn].by = conv[c].owner
               /\ turn[old[i].turn].stage \in {"commit", "answered"}
               /\ old[i].live => turn[old[i].turn].stage = "answered"
               /\ Paired(old, i)
          /\ Distinct(old) /\ DOMAIN old = 1..Len(old)
      BY <1>0, <2>1, OldRows
    <3>2. /\ turn'[t].conv = c /\ turn'[t].by = m.by /\ turn'[t].stage = "answered"
          /\ \A u \in Turn \ {t} : turn'[u] = turn[u]
      BY <1>1, <2>10 DEF Becomes, Carried
    <3>3. /\ user.turn = t /\ user.role = "user" /\ user.live
          /\ tania.turn = t /\ tania.role = "tania" /\ tania.live
      BY <2>2, RowFacts
    <3>4. ASSUME NEW i \in 1..Len(old)
          PROVE  /\ turn'[rows[i].turn].conv = c /\ turn'[rows[i].turn].by = m.by
                 /\ turn'[rows[i].turn].stage \in {"commit", "answered"}
                 /\ rows[i].live => turn'[rows[i].turn].stage = "answered"
                 /\ Paired(rows, i)
      <4>1. rows[i] = old[i] /\ turn'[old[i].turn] = turn[old[i].turn]
        BY <2>5, <3>1, <3>2
      <4>2. conv[c].owner = m.by
        <5>1. old # <<>>
          BY <2>4
        <5> QED  BY <1>4, <2>1, <5>1 DEF Foreign
      <4>3. Paired(rows, i)
        <5>1. Paired(old, i)
          BY <3>1
        <5>2. ASSUME rows[i].role = "tania"
              PROVE  /\ rows[i].live
                     /\ \E j \in 1..(i - 1) : rows[j] = Row(rows[i].turn, "user", TRUE)
          <6>1. old[i].live /\ \E j \in 1..(i - 1) : old[j] = Row(old[i].turn, "user", TRUE)
            BY <4>1, <5>1, <5>2 DEF Paired
          <6>2. PICK j \in 1..(i - 1) : old[j] = Row(old[i].turn, "user", TRUE)
            BY <6>1
          <6>3. rows[j] = old[j]
            BY <2>4, <2>5
          <6> QED  BY <4>1, <6>1, <6>2, <6>3
        <5>3. ASSUME rows[i].role = "user", rows[i].live
              PROVE  \E j \in (i + 1)..Len(rows) : rows[j] = Row(rows[i].turn, "tania", TRUE)
          <6>1. \E j \in (i + 1)..Len(old) : old[j] = Row(old[i].turn, "tania", TRUE)
            BY <4>1, <5>1, <5>3 DEF Paired
          <6>2. PICK j \in (i + 1)..Len(old) : old[j] = Row(old[i].turn, "tania", TRUE)
            BY <6>1
          <6>3. rows[j] = old[j] /\ j \in (i + 1)..Len(rows)
            BY <2>4, <2>5
          <6> QED  BY <4>1, <6>2, <6>3
        <5> QED  BY <5>2, <5>3 DEF Paired
      <4> QED  BY <3>1, <4>1, <4>2, <4>3
    <3>5. ASSUME NEW i \in {Len(old) + 1, Len(old) + 2}
          PROVE  rows[i].turn = t /\ rows[i].live /\ Paired(rows, i)
      <4>1. rows[i].turn = t /\ rows[i].live
        BY <2>5, <3>3
      <4>2. Len(old) + 1 \in 1..(Len(old) + 2 - 1) /\ Len(old) + 2 \in (Len(old) + 1 + 1)..Len(rows)
        BY <2>4, <2>5
      <4>3. CASE i = Len(old) + 1
        BY <2>2, <2>5, <3>3, <4>2, <4>3 DEF Paired
      <4>4. CASE i = Len(old) + 2
        <5>1. rows[i] = tania /\ rows[i].role = "tania"
          BY <2>5, <3>3, <4>4
        <5>2. Len(old) + 1 \in 1..(i - 1)
          BY <2>4, <4>4
        <5>3. rows[Len(old) + 1] = Row(rows[i].turn, "user", TRUE)
          BY <2>2, <2>5, <4>1
        <5>4. \E j \in 1..(i - 1) : rows[j] = Row(rows[i].turn, "user", TRUE)
          BY <5>2, <5>3
        <5> QED  BY <4>1, <5>1, <5>4 DEF Paired
      <4> QED  BY <4>1, <4>3, <4>4
    <3>6. \A i \in DOMAIN rows : i \in 1..Len(old) \/ i \in {Len(old) + 1, Len(old) + 2}
      BY <2>4, <2>5
    <3>7. Distinct(rows)
      <4>1. SUFFICES ASSUME NEW i \in DOMAIN rows, NEW j \in DOMAIN rows,
                            rows[i].turn = rows[j].turn, rows[i].role = rows[j].role
                     PROVE  i = j
        BY DEF Distinct
      <4>2. CASE i \in 1..Len(old) /\ j \in 1..Len(old)
        BY <2>5, <3>1, <4>1, <4>2 DEF Distinct
      <4>3. CASE i \notin 1..Len(old) /\ j \notin 1..Len(old)
        BY <2>5, <3>3, <3>6, <4>1, <4>3
      <4>4. \A k \in 1..Len(old) : rows[k].turn # t
        BY <2>5, <3>1
      <4> QED  BY <3>5, <3>6, <4>1, <4>2, <4>3, <4>4
    <3>8. /\ c \in minted'
          /\ \A i \in DOMAIN rows :
               /\ turn'[rows[i].turn].conv = c /\ turn'[rows[i].turn].by = m.by
               /\ turn'[rows[i].turn].stage \in {"commit", "answered"}
               /\ rows[i].live => turn'[rows[i].turn].stage = "answered"
               /\ Paired(rows, i)
      BY <1>1, <1>2, <3>2, <3>4, <3>5, <3>6
    <3> QED  BY <2>8, <3>7, <3>8 DEF RowsSound
  <2>12. \E i \in DOMAIN rows : rows[i] = Row(t, "tania", TRUE)
    <3>1. Len(old) + 2 \in DOMAIN rows
      BY <2>4, <2>5
    <3> QED  BY <2>2, <2>5, <3>1
  <2>13. \A d \in Conv : conv'[d] = conv[d] \/ RowsSound(d)'
    BY <2>8, <2>11
  <2> QED  BY <1>0, <1>1, <1>2, <2>8, <2>9, <2>12, <2>13, RespondedKeeps
<1> QED  BY <1>3, <1>4

(* The question is written, and not yet committed.                         *)
Begins(t) ==
  /\ turn[t].stage = "record" /\ store = "backend" /\ Owned(turn[t].conv, turn[t].by)
  /\ conv' = [conv EXCEPT ![turn[t].conv].rows = Append(@, Row(t, "user", FALSE))]
  /\ turn' = [turn EXCEPT ![t].stage = "commit"]
  /\ Quiet /\ UNCHANGED <<store, minted, faults, heard, page>>

LEMMA BeginKeeps ==
  ASSUME ChatInv, NEW t \in Turn, Begins(t)
  PROVE  ChatInv'
<1>0. PICK m \in TurnRecord : m = turn[t] /\ m.stage = "record" /\ Shapes /\ Governed(m)
  BY StreamShapes DEF ChatInv, Begins
<1>b. /\ store = "backend" /\ Owned(m.conv, m.by) /\ Quiet
      /\ UNCHANGED <<store, minted, faults, heard, page>>
  BY <1>0 DEF Begins
<1>1. PICK c \in Conv : c = m.conv /\ c \in minted
  BY <1>0 DEF ChatInv, Threads, Addressed, TurnRecord
<1>2. conv[c] # None /\ conv[c].owner = m.by /\ conv[c] \in Conversation /\ m.by \in Actor
  BY <1>0, <1>b, <1>1, RowShapes DEF Owned
<1>3. PICK old : old = conv[c].rows
  OBVIOUS
<1>4. PICK user \in MessageRow : user = Row(t, "user", FALSE)
  BY RowFacts
<1>5. PICK rows : rows = Append(old, user)
  OBVIOUS
<1>6. /\ old \in Seq(MessageRow) /\ Len(old) \in Nat /\ DOMAIN old = 1..Len(old)
      /\ \A i \in 1..Len(old) :
           /\ old[i] \in MessageRow /\ old[i].turn \in Turn /\ old[i].turn # t
           /\ turn[old[i].turn].conv = c /\ turn[old[i].turn].by = conv[c].owner
           /\ turn[old[i].turn].stage \in {"commit", "answered"}
           /\ old[i].live => turn[old[i].turn].stage = "answered"
           /\ Paired(old, i)
      /\ Distinct(old)
  <2>1. old = IF conv[c] = None THEN <<>> ELSE conv[c].rows
    BY <1>2, <1>3
  <2> QED  BY <1>0, <2>1, OldRows
<1>7. /\ rows \in Seq(MessageRow) /\ Len(rows) = Len(old) + 1 /\ DOMAIN rows = 1..(Len(old) + 1)
      /\ \A i \in 1..Len(old) : rows[i] = old[i]
      /\ rows[Len(old) + 1] = user
  BY <1>5, <1>6, AppendProperties
<1>8. PICK thread \in Conversation : thread = [owner |-> m.by, rows |-> rows]
  BY <1>2, <1>7 DEF Conversation
<1>9. conv' = [conv EXCEPT ![c] = thread]
  <2>1. [conv[c] EXCEPT !.rows = rows] = thread
    BY <1>2, <1>8 DEF Conversation
  <2> QED  BY <1>0, <1>1, <1>3, <1>4, <1>5, <2>1 DEF Begins
<1>10. /\ conv'[c] = thread /\ \A d \in Conv \ {c} : conv'[d] = conv[d]
       /\ conv' \in [Conv -> Conversation \cup {None}] /\ thread # None
       /\ thread.owner = m.by /\ thread.rows = rows
  BY <1>0, <1>8, <1>9, NoneFacts DEF Shapes
<1>11. Grown(t)
  <2>1. ASSUME NEW d \in Conv, conv[d] # None
        PROVE  /\ conv'[d] # None /\ conv'[d].owner = conv[d].owner
               /\ Len(conv'[d].rows) >= Len(conv[d].rows)
               /\ \A i \in DOMAIN conv[d].rows : conv'[d].rows[i] = conv[d].rows[i]
    <3>1. CASE d # c
      BY <1>0, <1>10, <2>1, <3>1, RowShapes
    <3>2. CASE d = c
      <4>1. conv[c].owner = m.by /\ old = conv[c].rows
        BY <1>2, <1>3
      <4>2. DOMAIN old = 1..Len(old) /\ Len(old) \in Nat
        BY <1>6
      <4> QED  BY <1>7, <1>10, <3>2, <4>1, <4>2
    <3> QED  BY <3>1, <3>2
  <2> QED  BY <1>10, <2>1 DEF Grown
<1>12. PICK n : n = [m EXCEPT !.stage = "commit"]
  OBVIOUS
<1>13. turn' = [turn EXCEPT ![t] = n]
  BY <1>0, <1>12 DEF Begins
<1>14. n \in TurnRecord /\ n.stage = "commit" /\ SameDecisions(m, n) /\ Carried(m, n)
  <2>1. "commit" \in Stages
    BY DEF Stages
  <2>2. n \in TurnRecord
    BY <1>12, <2>1 DEF TurnRecord
  <2> QED  BY <1>12, <2>2 DEF TurnRecord, SameDecisions, Carried
<1>15. Becomes(t, n)
  BY <1>0, <1>13, <1>14, BecomesBy
<1>16. Governed(n)
  <2>1. m.intent # None /\ (m.approval \/ m.tool > Len(ToolPlan[m.intent]))
    BY <1>0 DEF Governed, Early
  <2> QED  BY <1>0, <1>14, <2>1, GovernedStays
<1>17. (StreamsShaped /\ StreamsInv)' /\ wire' = wire
  <2>1. Ahead(n) \subseteq Ahead(m)
    BY <1>14 DEF Ahead, Early
  <2>2. MayTell(m, n, <<>>)
    BY <1>0, <1>14, <2>1, TellsNothing DEF Carried, Early
  <2>3. Report(t, <<>>) /\ <<>> \in Seq(Event)
    BY <1>0, <1>b, QuietIsReport
  <2> QED  BY <1>0, <1>b, <1>15, <2>2, <2>3, Tells
<1>18. faults' \in 0..MaxFaults /\ (faults' = 0 => faults = 0) /\ minted' \subseteq Conv
  BY <1>0, <1>b DEF Shapes
<1>19. GoesOn(t, n) /\ SameHistory(t, n)
  BY <1>0, <1>b, <1>11, <1>14, <1>15, <1>17, <1>18 DEF GoesOn, Settled, Carried, SameHistory, Early
<1>20. Addressed(t)'
  BY <1>0, <1>b, <1>11, <1>14, <1>15, KeepsThread DEF Carried, Early
<1>21. turn'[t] = n /\ n.conv = c /\ n.by = m.by
  BY <1>1, <1>14, <1>15 DEF Becomes, Carried
<1>22. OnRecord(t)'
  <2>1. Len(old) + 1 \in DOMAIN rows /\ rows[Len(old) + 1] = Row(t, "user", FALSE)
    BY <1>4, <1>6, <1>7
  <2>2. conv'[c] # None /\ conv'[c].owner = m.by /\ conv'[c].rows = rows
    BY <1>10
  <2>3. Owned(c, m.by)'
    BY <1>0, <1>1, <1>21, <2>2 DEF Owned
  <2>4. \E i \in DOMAIN conv'[c].rows : conv'[c].rows[i] = Row(t, "user", FALSE)
    BY <2>1, <2>2
  <2> QED  BY <1>b, <1>14, <1>21, <2>2, <2>4 DEF OnRecord, Owned
<1>23. RowsSound(c)'
  <2>1. \A u \in Turn \ {t} : turn'[u] = turn[u]
    BY <1>15 DEF Becomes
  <2>2. user.turn = t /\ user.role = "user" /\ user.live = FALSE
    BY <1>4, RowFacts
  <2>3. ASSUME NEW i \in 1..Len(old)
        PROVE  /\ turn'[rows[i].turn].conv = c /\ turn'[rows[i].turn].by = m.by
               /\ turn'[rows[i].turn].stage \in {"commit", "answered"}
               /\ rows[i].live => turn'[rows[i].turn].stage = "answered"
               /\ Paired(rows, i)
    <3>1. rows[i] = old[i] /\ turn'[old[i].turn] = turn[old[i].turn]
      BY <1>6, <1>7, <2>1
    <3>2. Paired(old, i)
      BY <1>6
    <3>3. ASSUME rows[i].role = "tania"
          PROVE  /\ rows[i].live
                 /\ \E j \in 1..(i - 1) : rows[j] = Row(rows[i].turn, "user", TRUE)
      <4>1. old[i].live /\ \E j \in 1..(i - 1) : old[j] = Row(old[i].turn, "user", TRUE)
        BY <3>1, <3>2, <3>3 DEF Paired
      <4>2. PICK j \in 1..(i - 1) : old[j] = Row(old[i].turn, "user", TRUE)
        BY <4>1
      <4>3. rows[j] = old[j]
        BY <1>6, <1>7
      <4> QED  BY <3>1, <4>1, <4>2, <4>3
    <3>4. ASSUME rows[i].role = "user", rows[i].live
          PROVE  \E j \in (i + 1)..Len(rows) : rows[j] = Row(rows[i].turn, "tania", TRUE)
      <4>1. \E j \in (i + 1)..Len(old) : old[j] = Row(old[i].turn, "tania", TRUE)
        BY <3>1, <3>2, <3>4 DEF Paired
      <4>2. PICK j \in (i + 1)..Len(old) : old[j] = Row(old[i].turn, "tania", TRUE)
        BY <4>1
      <4>3. rows[j] = old[j] /\ j \in (i + 1)..Len(rows)
        BY <1>6, <1>7
      <4> QED  BY <3>1, <4>2, <4>3
    <3>5. Paired(rows, i)
      BY <3>3, <3>4 DEF Paired
    <3> QED  BY <1>2, <1>6, <3>1, <3>5
  <2>4. Paired(rows, Len(old) + 1) /\ rows[Len(old) + 1].turn = t /\ ~rows[Len(old) + 1].live
    BY <1>7, <2>2 DEF Paired
  <2>5. \A i \in DOMAIN rows : i \in 1..Len(old) \/ i = Len(old) + 1
    BY <1>6, <1>7
  <2>6. Distinct(rows)
    <3>1. SUFFICES ASSUME NEW i \in DOMAIN rows, NEW j \in DOMAIN rows,
                          rows[i].turn = rows[j].turn, rows[i].role = rows[j].role
                   PROVE  i = j
      BY DEF Distinct
    <3>2. CASE i \in 1..Len(old) /\ j \in 1..Len(old)
      BY <1>6, <1>7, <3>1, <3>2 DEF Distinct
    <3>3. \A k \in 1..Len(old) : rows[k].turn # t
      BY <1>6, <1>7
    <3> QED  BY <2>4, <2>5, <3>1, <3>2, <3>3
  <2>7. /\ c \in minted'
        /\ \A i \in DOMAIN rows :
             /\ turn'[rows[i].turn].conv = c /\ turn'[rows[i].turn].by = m.by
             /\ turn'[rows[i].turn].stage \in {"commit", "answered"}
             /\ rows[i].live => turn'[rows[i].turn].stage = "answered"
             /\ Paired(rows, i)
    BY <1>b, <1>1, <1>14, <1>21, <2>3, <2>4, <2>5
  <2> QED  BY <1>10, <2>6, <2>7 DEF RowsSound
<1>24. \A d \in Conv : conv'[d] # None => RowsSound(d)'
  BY <1>0, <1>b, <1>10, <1>14, <1>15, <1>23, RowsStay DEF Carried
<1> QED  BY <1>b, <1>16, <1>17, <1>18, <1>19, <1>20, <1>22, <1>24, GoesOnKeeps

LEMMA BeginRecordKeeps ==
  ASSUME ChatInv, NEW t \in Turn, BeginRecord(t)
  PROVE  ChatInv'
<1>0. PICK m \in TurnRecord : m = turn[t] /\ m.stage = "record" /\ Shapes
  BY StreamShapes DEF ChatInv, BeginRecord
<1>1. CASE /\ Owned(m.conv, m.by)
           /\ conv' = [conv EXCEPT ![m.conv].rows = Append(@, Row(t, "user", FALSE))]
           /\ turn' = [turn EXCEPT ![t].stage = "commit"]
           /\ Quiet /\ UNCHANGED faults
  BY <1>0, <1>1, BeginKeeps DEF BeginRecord, PageStays, Begins
<1>2. CASE ~Owned(m.conv, m.by) /\ Responded(t) /\ UNCHANGED <<conv, faults>>
  BY <1>0, <1>2, SameThreads, RespondedKeeps DEF BeginRecord, PageStays, Owned
<1>3. CASE Responded(t) /\ Fault /\ UNCHANGED conv
  <2>1. faults' # 0
    BY <1>0, <1>3, NoneFacts DEF Fault, Shapes
  <2> QED  BY <1>0, <1>3, <2>1, SameThreads, RespondedKeeps DEF BeginRecord, PageStays
<1> QED  BY <1>0, <1>1, <1>2, <1>3 DEF BeginRecord

(* The question and the answer are committed together.                     *)
Commits(t) ==
  /\ turn[t].stage = "commit" /\ Responded(t)
  /\ conv' = [conv EXCEPT ![turn[t].conv].rows = Committed(@, t)]
  /\ UNCHANGED <<store, minted, heard, page>> /\ (faults' = faults \/ Fault)

(* A turn that commits has written its question, and nothing else.         *)
Pending(t, c, rows) ==
  /\ Distinct(rows)
  /\ \A i \in DOMAIN rows :
       /\ rows[i] \in MessageRow /\ rows[i].turn \in Turn
       /\ turn[rows[i].turn].conv = c /\ turn[rows[i].turn].by = conv[c].owner
       /\ turn[rows[i].turn].stage \in {"commit", "answered"}
       /\ rows[i].live => turn[rows[i].turn].stage = "answered"
       /\ Paired(rows, i)
       /\ rows[i].turn = t => ~rows[i].live /\ rows[i].role = "user"
  /\ \E q \in DOMAIN rows : \A i \in DOMAIN rows : rows[i].turn = t <=> i = q

LEMMA UncommittedRows ==
  ASSUME ChatInv, NEW t \in Turn, turn[t].stage = "commit",
         NEW c, c = turn[t].conv, c \in Conv, NEW rows, rows = conv[c].rows
  PROVE  /\ conv[c] # None /\ conv[c].owner = turn[t].by
         /\ rows \in Seq(MessageRow) /\ Len(rows) \in Nat /\ DOMAIN rows = 1..Len(rows)
         /\ Pending(t, c, rows)
<1>1. conv[c] # None /\ conv[c].owner = turn[t].by /\ Shapes
  BY DEF ChatInv, Threads, OnRecord, Owned
<1>2. RowsSound(c)
  BY <1>1 DEF ChatInv, Threads
<1>3. /\ rows \in Seq(MessageRow) /\ Len(rows) \in Nat /\ DOMAIN rows = 1..Len(rows)
      /\ \A i \in DOMAIN rows : rows[i] \in MessageRow /\ rows[i].turn \in Turn
  BY <1>1, RowShapes
<1>4. /\ Distinct(rows)
      /\ \A i \in DOMAIN rows :
           /\ turn[rows[i].turn].conv = c /\ turn[rows[i].turn].by = conv[c].owner
           /\ turn[rows[i].turn].stage \in {"commit", "answered"}
           /\ rows[i].live => turn[rows[i].turn].stage = "answered"
           /\ Paired(rows, i)
  BY <1>2 DEF RowsSound
<1>5. ASSUME NEW i \in DOMAIN rows, rows[i].turn = t
      PROVE  ~rows[i].live /\ rows[i].role = "user"
  <2>1. ~rows[i].live
    BY <1>4, <1>5
  <2>2. rows[i].role # "tania"
    BY <1>4, <2>1 DEF Paired
  <2>3. rows[i].role \in {"user", "tania"}
    BY <1>3 DEF MessageRow
  <2> QED  BY <2>1, <2>2, <2>3
<1>6. PICK q \in DOMAIN rows : rows[q] = Row(t, "user", FALSE)
  BY DEF ChatInv, Threads, OnRecord
<1>7. rows[q].turn = t
  BY <1>6 DEF Row
<1>8. ASSUME NEW i \in DOMAIN rows, rows[i].turn = t
      PROVE  i = q
  <2>1. rows[i].role = "user" /\ rows[q].role = "user"
    BY <1>5, <1>7, <1>8
  <2> QED  BY <1>4, <1>7, <1>8, <2>1 DEF Distinct
<1>9. \E r \in DOMAIN rows : \A i \in DOMAIN rows : rows[i].turn = t <=> i = r
  BY <1>7, <1>8
<1>10. Pending(t, c, rows)
  BY <1>3, <1>4, <1>5, <1>9 DEF Pending
<1> QED  BY <1>1, <1>3, <1>10

LEMMA CommitsKeeps ==
  ASSUME ChatInv, NEW t \in Turn, Commits(t)
  PROVE  ChatInv'
<1>0. PICK m \in TurnRecord : m = turn[t] /\ m.stage = "commit" /\ Shapes
  BY StreamShapes DEF ChatInv, Commits
<1>b. Responded(t) /\ UNCHANGED <<store, minted, heard, page>> /\ (faults' = faults \/ Fault)
  BY DEF Commits
<1>1. PICK c \in Conv : c = m.conv /\ c \in minted
  BY <1>0 DEF ChatInv, Threads, Addressed, TurnRecord
<1>2. PICK old : old = conv[c].rows
  OBVIOUS
<1>c. turn[t].stage = "commit" /\ c = turn[t].conv
  BY <1>0, <1>1
<1>3. /\ conv[c] # None /\ conv[c].owner = m.by
      /\ old \in Seq(MessageRow) /\ Len(old) \in Nat /\ DOMAIN old = 1..Len(old)
      /\ Pending(t, c, old)
  BY <1>0, <1>c, <1>2, UncommittedRows
<1>4. /\ Distinct(old)
      /\ \A i \in DOMAIN old :
           /\ old[i] \in MessageRow /\ old[i].turn \in Turn
           /\ turn[old[i].turn].conv = c /\ turn[old[i].turn].by = conv[c].owner
           /\ turn[old[i].turn].stage \in {"commit", "answered"}
           /\ old[i].live => turn[old[i].turn].stage = "answered"
           /\ Paired(old, i)
           /\ old[i].turn = t => ~old[i].live /\ old[i].role = "user"
  BY <1>3 DEF Pending
<1>5. PICK q \in DOMAIN old : \A i \in DOMAIN old : old[i].turn = t <=> i = q
  BY <1>3 DEF Pending
<1>6. conv[c] \in Conversation /\ m.by \in Actor
  BY <1>0, <1>3, RowShapes
<1>7. PICK user \in MessageRow, tania \in MessageRow :
        user = Row(t, "user", TRUE) /\ tania = Row(t, "tania", TRUE)
  BY RowFacts
<1>8. /\ user.turn = t /\ user.role = "user" /\ user.live
      /\ tania.turn = t /\ tania.role = "tania" /\ tania.live
  BY <1>7, RowFacts
<1>9. PICK written : written = [i \in DOMAIN old |-> IF old[i].turn = t THEN user ELSE old[i]]
  OBVIOUS
<1>10. /\ written \in Seq(MessageRow) /\ Len(written) = Len(old)
       /\ \A i \in 1..Len(old) : written[i] = IF i = q THEN user ELSE old[i]
  <2>1. written \in [1..Len(old) -> MessageRow]
    BY <1>3, <1>4, <1>9
  <2>2. written \in Seq(MessageRow)
    BY <1>3, <2>1, SeqDef
  <2>3. Len(written) = Len(old)
    BY <1>3, <2>1, <2>2, LenProperties
  <2> QED  BY <1>3, <1>5, <1>9, <2>2, <2>3
<1>11. PICK rows : rows = Append(written, tania)
  OBVIOUS
<1>12. /\ rows \in Seq(MessageRow) /\ Len(rows) = Len(old) + 1 /\ DOMAIN rows = 1..(Len(old) + 1)
       /\ \A i \in 1..Len(old) : rows[i] = IF i = q THEN user ELSE old[i]
       /\ rows[Len(old) + 1] = tania
  BY <1>3, <1>10, <1>11, AppendProperties
<1>13. PICK thread \in Conversation : thread = [owner |-> m.by, rows |-> rows]
  BY <1>6, <1>12 DEF Conversation
<1>14. conv' = [conv EXCEPT ![c] = thread]
  <2>1. Committed(old, t) = rows
    BY <1>7, <1>9, <1>11 DEF Committed
  <2>2. [conv[c] EXCEPT !.rows = rows] = thread
    BY <1>3, <1>6, <1>13 DEF Conversation
  <2> QED  BY <1>0, <1>1, <1>2, <2>1, <2>2 DEF Commits
<1>15. /\ conv'[c] = thread /\ \A d \in Conv \ {c} : conv'[d] = conv[d]
       /\ conv' \in [Conv -> Conversation \cup {None}] /\ thread # None
       /\ thread.owner = m.by /\ thread.rows = rows
  BY <1>0, <1>13, <1>14, NoneFacts DEF Shapes
<1>16. Grown(t)
  <2>1. ASSUME NEW d \in Conv, conv[d] # None
        PROVE  /\ conv'[d] # None /\ conv'[d].owner = conv[d].owner
               /\ Len(conv'[d].rows) >= Len(conv[d].rows)
               /\ \A i \in DOMAIN conv[d].rows :
                    conv[d].rows[i].turn # t \/ conv[d].rows[i].live =>
                      conv'[d].rows[i] = conv[d].rows[i]
    <3>1. CASE d # c
      BY <1>0, <1>15, <2>1, <3>1, RowShapes
    <3>2. CASE d = c
      <4>1. conv[c].owner = m.by /\ old = conv[c].rows
        BY <1>2, <1>3
      <4>2. DOMAIN old = 1..Len(old) /\ Len(old) \in Nat
        BY <1>3
      <4>3. ASSUME NEW i \in DOMAIN old, old[i].turn # t \/ old[i].live
            PROVE  rows[i] = old[i]
        BY <1>4, <1>5, <1>12, <4>2, <4>3
      <4> QED  BY <1>12, <1>15, <3>2, <4>1, <4>2, <4>3
    <3> QED  BY <3>1, <3>2
  <2> QED  BY <1>15, <2>1 DEF Grown
<1>17. PICK n \in TurnRecord : Becomes(t, n) /\ n.stage = "answered" /\ Carried(m, n)
  BY <1>0, <1>b, AnsweredFacts
<1>18. RowsSound(c)'
  <2>1. /\ turn'[t].conv = c /\ turn'[t].by = m.by /\ turn'[t].stage = "answered"
        /\ \A u \in Turn \ {t} : turn'[u] = turn[u]
    BY <1>1, <1>17 DEF Becomes, Carried
  <2>2. q \in 1..Len(old) /\ rows[q] = user /\ Len(old) + 1 \in (q + 1)..Len(rows)
        /\ q \in 1..(Len(old) + 1 - 1)
    BY <1>3, <1>5, <1>12
  <2>3. ASSUME NEW i \in 1..Len(old), i # q
        PROVE  /\ turn'[rows[i].turn].conv = c /\ turn'[rows[i].turn].by = m.by
               /\ turn'[rows[i].turn].stage \in {"commit", "answered"}
               /\ rows[i].live => turn'[rows[i].turn].stage = "answered"
               /\ Paired(rows, i) /\ rows[i].turn # t
    <3>1. rows[i] = old[i] /\ old[i].turn # t /\ turn'[old[i].turn] = turn[old[i].turn]
      BY <1>3, <1>4, <1>5, <1>12, <2>1, <2>3
    <3>2. Paired(old, i)
      BY <1>3, <1>4
    <3>3. \A j \in 1..Len(old) : old[j].turn # t => rows[j] = old[j]
      BY <1>3, <1>5, <1>12
    <3>4. ASSUME rows[i].role = "tania"
          PROVE  /\ rows[i].live
                 /\ \E j \in 1..(i - 1) : rows[j] = Row(rows[i].turn, "user", TRUE)
      <4>1. old[i].live /\ \E j \in 1..(i - 1) : old[j] = Row(old[i].turn, "user", TRUE)
        BY <3>1, <3>2, <3>4 DEF Paired
      <4>2. PICK j \in 1..(i - 1) : old[j] = Row(old[i].turn, "user", TRUE)
        BY <4>1
      <4>3. old[j].turn # t /\ j \in 1..Len(old)
        BY <1>3, <3>1, <4>2 DEF Row
      <4> QED  BY <3>1, <3>3, <4>1, <4>2, <4>3
    <3>5. ASSUME rows[i].role = "user", rows[i].live
          PROVE  \E j \in (i + 1)..Len(rows) : rows[j] = Row(rows[i].turn, "tania", TRUE)
      <4>1. \E j \in (i + 1)..Len(old) : old[j] = Row(old[i].turn, "tania", TRUE)
        BY <3>1, <3>2, <3>5 DEF Paired
      <4>2. PICK j \in (i + 1)..Len(old) : old[j] = Row(old[i].turn, "tania", TRUE)
        BY <4>1
      <4>3. old[j].turn # t /\ j \in 1..Len(old) /\ j \in (i + 1)..Len(rows)
        BY <1>3, <1>12, <3>1, <4>2 DEF Row
      <4> QED  BY <3>1, <3>3, <4>2, <4>3
    <3>6. Paired(rows, i)
      BY <3>4, <3>5 DEF Paired
    <3>7. /\ turn[old[i].turn].conv = c /\ turn[old[i].turn].by = m.by
          /\ turn[old[i].turn].stage \in {"commit", "answered"}
          /\ old[i].live => turn[old[i].turn].stage = "answered"
      BY <1>3, <1>4
    <3> QED  BY <3>1, <3>6, <3>7
  <2>4. rows[q].turn = t /\ rows[q].role = "user" /\ Paired(rows, q)
    <3>1. rows[Len(old) + 1] = Row(rows[q].turn, "tania", TRUE)
      BY <1>7, <1>8, <1>12, <2>2
    <3>2. rows[q].role = "user" /\ rows[q].live /\ rows[q].turn = t
      BY <1>8, <2>2
    <3>3. \E j \in (q + 1)..Len(rows) : rows[j] = Row(rows[q].turn, "tania", TRUE)
      BY <2>2, <3>1
    <3> QED  BY <3>2, <3>3 DEF Paired
  <2>5. /\ rows[Len(old) + 1].turn = t /\ rows[Len(old) + 1].role = "tania"
        /\ Paired(rows, Len(old) + 1)
    <3>1. rows[q] = Row(rows[Len(old) + 1].turn, "user", TRUE)
      BY <1>7, <1>8, <1>12, <2>2
    <3>2. /\ rows[Len(old) + 1].role = "tania" /\ rows[Len(old) + 1].live
          /\ rows[Len(old) + 1].turn = t
      BY <1>8, <1>12
    <3>4. PICK last : last = Len(old) + 1
      OBVIOUS
    <3>5. rows[last].role = "tania" /\ rows[last].live
      BY <3>2, <3>4
    <3>6. q \in 1..(last - 1) /\ rows[q] = Row(rows[last].turn, "user", TRUE)
      BY <2>2, <3>1, <3>4
    <3>7. \E j \in 1..(last - 1) : rows[j] = Row(rows[last].turn, "user", TRUE)
      BY <3>6
    <3>8. Paired(rows, last)
      BY <3>5, <3>7 DEF Paired
    <3> QED  BY <3>2, <3>4, <3>8
  <2>6. \A i \in DOMAIN rows : (i \in 1..Len(old) /\ i # q) \/ i = q \/ i = Len(old) + 1
    BY <1>3, <1>12
  <2>7. Distinct(rows)
    <3>1. SUFFICES ASSUME NEW i \in DOMAIN rows, NEW j \in DOMAIN rows,
                          rows[i].turn = rows[j].turn, rows[i].role = rows[j].role
                   PROVE  i = j
      BY DEF Distinct
    <3>2. CASE i \in 1..Len(old) /\ i # q /\ j \in 1..Len(old) /\ j # q
      <4>1. rows[i] = old[i] /\ rows[j] = old[j] /\ i \in DOMAIN old /\ j \in DOMAIN old
        BY <1>3, <1>12, <3>2
      <4> QED  BY <1>4, <3>1, <4>1 DEF Distinct
    <3> QED  BY <2>3, <2>4, <2>5, <2>6, <3>1, <3>2
  <2>8. c \in minted'
    BY <1>1, <1>b
  <2>9. ASSUME NEW i \in DOMAIN rows
        PROVE  /\ turn'[rows[i].turn].conv = c /\ turn'[rows[i].turn].by = m.by
               /\ turn'[rows[i].turn].stage \in {"commit", "answered"}
               /\ rows[i].live => turn'[rows[i].turn].stage = "answered"
               /\ Paired(rows, i)
    BY <2>1, <2>3, <2>4, <2>5, <2>6
  <2> QED  BY <1>15, <2>7, <2>8, <2>9 DEF RowsSound
<1>19. \E i \in DOMAIN rows : rows[i] = Row(t, "tania", TRUE)
  <2>1. Len(old) + 1 \in DOMAIN rows
    BY <1>3, <1>12
  <2> QED  BY <1>7, <1>12, <2>1
<1>20. \A d \in Conv : conv'[d] = conv[d] \/ RowsSound(d)'
  BY <1>15, <1>18
<1> QED  BY <1>0, <1>b, <1>1, <1>15, <1>16, <1>19, <1>20, RespondedKeeps

LEMMA CommitRecordKeeps ==
  ASSUME ChatInv, NEW t \in Turn, CommitRecord(t)
  PROVE  ChatInv'
<1>0. PICK m \in TurnRecord : m = turn[t] /\ m.stage = "commit" /\ Shapes
  BY StreamShapes DEF ChatInv, CommitRecord
<1>1. CASE conv' = [conv EXCEPT ![m.conv].rows = Committed(@, t)] /\ (UNCHANGED faults \/ Fault)
  BY <1>0, <1>1, CommitsKeeps DEF CommitRecord, Commits, PageStays
<1>2. CASE UNCHANGED conv /\ Fault
  <2>1. faults' # 0
    BY <1>0, <1>2, NoneFacts DEF Fault, Shapes
  <2> QED  BY <1>0, <1>2, <2>1, SameThreads, RespondedKeeps DEF CommitRecord, PageStays
<1> QED  BY <1>0, <1>1, <1>2 DEF CommitRecord

-----------------------------------------------------------------------------
(* What the page does. *)

(* The server's turns stay; threads may grow, though not by their doing.   *)
TurnsRest ==
  /\ turn' = turn /\ store' = store
  /\ Grown(None) /\ minted \subseteq minted' /\ minted' \subseteq Conv
  /\ faults' \in 0..MaxFaults /\ (faults' = 0 => faults = 0)
  /\ \A c \in Conv : conv'[c] # None =>
       conv'[c] = conv[c] \/ (conv'[c].rows = <<>> /\ c \in minted')

LEMMA TurnsStay ==
  ASSUME ChatInv, TurnsRest
  PROVE  /\ store' \in {"memory", "backend"} /\ conv' \in [Conv -> Conversation \cup {None}]
         /\ turn' \in [Turn -> TurnRecord]
         /\ \A t \in Turn : Governed(turn'[t])
         /\ Threads' /\ Apart' /\ Building'
<1>0. Shapes
  BY DEF ChatInv
<1>1. /\ store' \in {"memory", "backend"} /\ conv' \in [Conv -> Conversation \cup {None}]
      /\ turn' \in [Turn -> TurnRecord]
      /\ \A t \in Turn : Governed(turn'[t])
  BY DEF ChatInv, Shapes, TurnsRest, Grown
<1>2. ASSUME NEW u \in Turn
      PROVE  (Addressed(u) /\ OnRecord(u))'
  <2>1. u # None /\ turn'[u] = turn[u]
    BY NoneFacts DEF TurnsRest
  <2> QED  BY <2>1, OthersStay DEF TurnsRest
<1>3. ASSUME NEW c \in Conv, conv'[c] # None
      PROVE  RowsSound(c)'
  <2>1. CASE conv'[c] = conv[c]
    <3>1. RowsSound(c) /\ turn' = turn /\ minted \subseteq minted'
      BY <1>3, <2>1 DEF ChatInv, Threads, TurnsRest
    <3> QED  BY <2>1, <3>1 DEF RowsSound
  <2>2. CASE conv'[c].rows = <<>> /\ c \in minted'
    BY <2>2 DEF RowsSound, Distinct
  <2> QED  BY <1>3, <2>1, <2>2 DEF TurnsRest
<1>4. Apart'
  BY DEF ChatInv, InTurn, Apart, Asked, TurnsRest
<1>5. ASSUME faults' = 0, HistoryLimit >= 2, NEW a \in Turn, NEW u \in Turn
      PROVE  Builds(a, u)'
  <2>0. turn' = turn /\ faults = 0 /\ Grown(None)
    BY <1>5 DEF TurnsRest
  <2>1. SUFFICES ASSUME /\ AskedAfter(a, u) /\ turn[a].stage = "answered"
                        /\ Owned(turn[a].conv, Me)'
                        /\ turn[u].stage \notin Early \cup {"failed"}
                        /\ \A w \in Turn : w \notin {a, u} => turn[w].conv # turn[a].conv
                 PROVE  \E i \in turn[u].history :
                          conv'[turn[u].conv].rows[i] = Row(a, "tania", TRUE)
    BY <2>0 DEF Builds, AskedAfter
  <2>2. turn[a].conv = turn[u].conv /\ turn[a].conv \in Conv /\ conv[turn[a].conv] # None
    <3>1. turn[a].conv = turn[u].conv /\ turn[a].conv # None
      BY <2>1 DEF AskedAfter
    <3>2. turn[a] \in TurnRecord /\ OnRecord(a)
      BY <1>0, StreamShapes DEF ChatInv, Threads
    <3>3. turn[a].conv \in Conv
      BY <3>1, <3>2 DEF TurnRecord
    <3> QED  BY <2>0, <2>1, <3>1, <3>2, <3>3 DEF OnRecord
  <2>3. Owned(turn[a].conv, Me)
    BY <2>0, <2>1, <2>2 DEF Owned, Grown
  <2>4. PICK i \in turn[u].history : conv[turn[u].conv].rows[i] = Row(a, "tania", TRUE)
    BY <1>5, <2>0, <2>1, <2>3 DEF ChatInv, InTurn, Building, Builds
  <2>5. i \in Visible(turn[u].conv)
    BY DEF ChatInv, Threads, Addressed
  <2>6. i \in DOMAIN conv[turn[u].conv].rows /\ conv[turn[u].conv].rows[i].live
    BY <2>5 DEF Visible
  <2>7. conv'[turn[u].conv].rows[i] = conv[turn[u].conv].rows[i]
    BY <1>0, <2>0, <2>2, <2>6, GrownVisible
  <2> QED  BY <2>4, <2>7
<1> QED  BY <1>1, <1>2, <1>3, <1>4, <1>5 DEF Threads, Building

(* The page lets go of a question only when it has settled, or a call failed. *)
LEMMA PageMoves ==
  ASSUME ChatInv, page' \in PageRecord, minted \subseteq minted',
         page'.conv \in minted' \cup {None},
         \A u \in Turn : /\ turn'[u].kind = turn[u].kind /\ turn'[u].by = turn[u].by
                         /\ turn'[u].stage = "none" <=> turn[u].stage = "none"
                         /\ turn[u].stage \in Settled => turn'[u] = turn[u],
         \/ page'.busy = page.busy
         \/ /\ page'.busy = None
            /\ faults' = 0 /\ page.busy # None => turn'[page.busy].stage \in Settled,
         page'.busy # None /\ page'.result => turn'[page'.busy].stage = "answered",
         \A b \in page'.view :
           /\ turn'[b.turn].stage # "none" /\ turn'[b.turn].kind = "stream"
           /\ b.done => /\ turn'[b.turn].stage = "answered" /\ b.text = turn'[b.turn].text
                        /\ b.turn # page'.busy,
         faults' = 0 => faults = 0 /\ \A u \in Turn : ~wire'[u].gone
  PROVE  Shown' /\ InOrder'
<1>0. Shapes /\ Shown /\ InOrder /\ (page.busy # None => page.busy \in Turn)
  BY DEF ChatInv, InTurn, Shapes, PageRecord
<1>1. \A u \in Turn : Asked(u)' <=> Asked(u)
  BY DEF Asked
<1>2. page'.busy # None =>
        page'.busy = page.busy /\ turn'[page'.busy].stage # "none"
          /\ turn'[page'.busy].kind = "stream"
  BY <1>0 DEF Shown
<1>3. Shown'
  <2>1. \A u \in Turn : turn'[u].kind = "stream" => turn'[u].by = Me
    BY <1>0 DEF Shown
  <2> QED  BY <1>2, <2>1 DEF Shown
<1>4. \A u, w \in Turn : u < w /\ turn'[u].stage = "none" => turn'[w].stage = "none"
  BY <1>0 DEF InOrder
<1>5. page'.busy # None => \A u \in Turn : u > page'.busy => ~Asked(u)'
  BY <1>0, <1>1, <1>2 DEF InOrder
<1>6. ASSUME faults' = 0, NEW u \in Turn, Asked(u), page'.busy # u
      PROVE  turn'[u].stage \in Settled
  <2>1. CASE page.busy = u
    BY <1>0, <1>6, <2>1
  <2>2. CASE page.busy # u
    <3>1. turn[u].stage \in Settled
      BY <1>0, <1>6, <2>2 DEF InOrder
    <3> QED  BY <3>1
  <2> QED  BY <2>1, <2>2
<1> QED  BY <1>1, <1>3, <1>4, <1>5, <1>6 DEF InOrder

(* The page with question t given up. *)
LEMMA FailedShows ==
  ASSUME Shapes, NEW t \in Turn
  PROVE  /\ Failed(t) \in PageRecord
         /\ Failed(t).conv = page.conv /\ Failed(t).result = page.result
         /\ Failed(t).view \subseteq page.view
         /\ page.busy = t => Failed(t).busy = None
         /\ page.busy # t => Failed(t) = page
<1>1. page \in PageRecord /\ Without(t) \subseteq page.view
  BY DEF Shapes, Without
<1>2. page.busy = t => Failed(t) = [page EXCEPT !.busy = None, !.failure = TRUE, !.view = Without(t)]
  BY DEF Failed
<1>3. page.busy # t => Failed(t) = page
  BY DEF Failed
<1> QED  BY <1>1, <1>2, <1>3 DEF PageRecord


LEMMA PageKeeps ==
  ASSUME ChatInv, TurnsRest, page' \in PageRecord, (StreamsShaped /\ StreamsInv)',
         Shown', InOrder'
  PROVE  ChatInv'
<1>1. Shapes'
  BY TurnsStay DEF TurnsRest, StreamsShaped, Shapes
<1> QED  BY <1>1, TurnsStay DEF ChatInv, InTurn, StreamsInv

LEMMA ServerRests ==
  ASSUME ChatInv, UNCHANGED server, faults' = faults \/ Fault
  PROVE  /\ TurnsRest /\ minted' = minted
         /\ \A u \in Turn : /\ turn'[u].kind = turn[u].kind /\ turn'[u].by = turn[u].by
                            /\ turn'[u].stage = "none" <=> turn[u].stage = "none"
                            /\ turn[u].stage \in Settled => turn'[u] = turn[u]
<1>1. Shapes /\ turn' = turn /\ store' = store /\ conv' = conv /\ minted' = minted
  BY DEF ChatInv, server
<1>2. Grown(None)
  BY <1>1, SameThreads
<1>3. faults' \in 0..MaxFaults /\ (faults' = 0 => faults = 0) /\ minted \subseteq Conv
  BY <1>1, NoneFacts DEF Shapes, Fault, MayFail
<1> QED  BY <1>1, <1>2, <1>3 DEF TurnsRest

LEMMA StreamsStay ==
  ASSUME ChatInv, turn' = turn, UNCHANGED <<stream, heard>>
  PROVE  (StreamsShaped /\ StreamsInv)'
BY DEF ChatInv, Shapes, StreamsShaped, StreamsInv, stream

LEMMA RefuseKeeps ==
  ASSUME ChatInv, NEW t \in Turn, Refuse(t)
  PROVE  ChatInv'
<1>0. PICK m \in TurnRecord : m = turn[t] /\ Governed(m) /\ m.stage = "sent" /\ Shapes
  BY StreamShapes DEF ChatInv, Refuse
<1>1. PICK n : n = [m EXCEPT !.stage = "failed"]
  OBVIOUS
<1>2. /\ turn' = [turn EXCEPT ![t] = n] /\ page' = Failed(t)
      /\ UNCHANGED <<store, conv, minted, stream, heard, faults>>
  BY <1>0, <1>1 DEF Refuse
<1>3. n \in TurnRecord /\ n.stage = "failed" /\ SameDecisions(m, n) /\ Carried(m, n)
  BY <1>1 DEF TurnRecord, Stages, Settled, SameDecisions, Carried
<1>4. Becomes(t, n) /\ Grown(t)
  BY <1>0, <1>2, <1>3, BecomesBy, SameThreads
<1>5. (StreamsShaped /\ StreamsInv)' /\ wire' = wire
  BY <1>0, <1>2, <1>3, <1>4, StaysSilent DEF Early, stream
<1>6. GoesOn(t, n) /\ SameHistory(t, n)
  BY <1>0, <1>2, <1>3, <1>4, <1>5 DEF GoesOn, SameHistory, Settled, Carried
<1>7. Governed(n)
  BY <1>0, <1>3, GovernedStays
<1>8. Addressed(t)'
  <2>1. m.conv = None /\ m.asked \in minted \cup {None} /\ m.history = {}
    BY <1>0 DEF ChatInv, Threads, Addressed, Early
  <2> QED  BY <1>2, <1>3, <1>4, <2>1 DEF Addressed, Becomes, Carried
<1>9. OnRecord(t)'
  BY <1>3, <1>4 DEF OnRecord, Becomes
<1>10. Threads'
  <2>1. \A c \in Conv : conv'[c] # None => RowsSound(c)'
    BY <1>0, <1>2, <1>4, RowsStay
  <2>2. \A u \in Turn \ {t} : turn'[u] = turn[u]
    BY <1>4 DEF Becomes
  <2>3. minted \subseteq minted' /\ (faults' = 0 => faults = 0) /\ store' = store
    BY <1>2
  <2> QED  BY <1>4, <1>8, <1>9, <2>1, <2>2, <2>3, OthersStay DEF Threads
<1>11. /\ Failed(t) \in PageRecord /\ Failed(t).conv = page.conv /\ Failed(t).result = page.result
       /\ Failed(t).view \subseteq page.view
       /\ page.busy = t => Failed(t).busy = None
       /\ page.busy # t => Failed(t) = page
  BY <1>0, FailedShows
<1>12. \A u \in Turn : /\ turn'[u].kind = turn[u].kind /\ turn'[u].by = turn[u].by
                       /\ turn'[u].stage = "none" <=> turn[u].stage = "none"
                       /\ turn[u].stage \in Settled => turn'[u] = turn[u]
  BY <1>0, <1>3, <1>4 DEF Becomes, Carried, Settled
<1>13. ASSUME NEW b \in page'.view
       PROVE  /\ turn'[b.turn].stage # "none" /\ turn'[b.turn].kind = "stream"
              /\ b.done => /\ turn'[b.turn].stage = "answered" /\ b.text = turn'[b.turn].text
                           /\ b.turn # page'.busy
  <2>1. b \in page.view /\ b.turn \in Turn /\ b.turn # None
    BY <1>0, <1>2, <1>11, NoneFacts DEF Shapes, PageRecord, Bubble
  <2>2. /\ turn[b.turn].stage # "none" /\ turn[b.turn].kind = "stream"
        /\ b.done => /\ turn[b.turn].stage = "answered" /\ b.text = turn[b.turn].text
                     /\ b.turn # page.busy
    BY <2>1 DEF ChatInv, Shown
  <2>3. page'.busy = page.busy \/ page'.busy = None
    BY <1>2, <1>11
  <2> QED  BY <1>12, <2>1, <2>2, <2>3 DEF Settled
<1>14. page'.busy = page.busy \/ (page'.busy = None /\ page.busy = t /\ turn'[t].stage \in Settled)
  BY <1>2, <1>3, <1>4, <1>11 DEF Becomes, Settled
<1>15. page'.busy # None /\ page'.result => turn'[page'.busy].stage = "answered"
  <2>1. ASSUME page'.busy # None, page'.result
        PROVE  turn'[page'.busy].stage = "answered"
    <3>1. page' = page /\ page.busy \in Turn
      BY <1>0, <1>2, <1>11, <2>1 DEF Shapes, PageRecord
    <3>2. turn[page.busy].stage = "answered"
      BY <2>1, <3>1 DEF ChatInv, Shown
    <3> QED  BY <1>12, <3>1, <3>2 DEF Settled
  <2> QED  BY <2>1
<1>16. /\ page' \in PageRecord /\ page'.conv \in minted' \cup {None} /\ minted \subseteq minted'
       /\ faults' = 0 => faults = 0 /\ \A u \in Turn : ~wire'[u].gone
  BY <1>2, <1>5, <1>11 DEF ChatInv, Shown, InTurn, InOrder
<1>17. Shown' /\ InOrder'
  BY <1>12, <1>13, <1>14, <1>15, <1>16, PageMoves
<1>18. Apart'
  BY <1>6, ApartStays
<1>19. Building'
  BY <1>6, BuildsStay DEF Building
<1>20. Shapes'
  BY <1>0, <1>2, <1>4, <1>5, <1>16 DEF Shapes, StreamsShaped, Becomes, Grown
<1>21. \A u \in Turn : Governed(turn'[u])
  BY <1>4, <1>7 DEF ChatInv, Becomes
<1> QED  BY <1>5, <1>10, <1>17, <1>18, <1>19, <1>20, <1>21 DEF ChatInv, InTurn, StreamsInv


(* A page that shows what it showed, or less. *)
LEMMA PageShows ==
  ASSUME ChatInv, turn' = turn, NEW b \in page.view
  PROVE  /\ b \in Bubble /\ b.turn \in Turn /\ b.turn # None
         /\ turn'[b.turn].stage # "none" /\ turn'[b.turn].kind = "stream"
         /\ b.done => /\ turn'[b.turn].stage = "answered" /\ b.text = turn'[b.turn].text
                      /\ b.turn # page.busy
<1>1. b \in Bubble
  BY DEF ChatInv, Shapes, PageRecord
<1>2. b.turn \in Turn /\ b.turn # None
  BY <1>1, NoneFacts DEF Bubble
<1> QED  BY <1>1, <1>2 DEF ChatInv, Shown

(* An event is read by the page that waits for it. *)
LEMMA UnderstoodShows ==
  ASSUME ChatInv, NEW t \in Turn, page.busy = t, UNCHANGED <<server, wire, faults>>,
         NEW event, event = "done" => turn[t].stage = "answered",
         event = "error" => turn[t].stage = "failed", page' = Understood(t, event)
  PROVE  page' \in PageRecord /\ Shown' /\ InOrder'
<1>0. /\ Shapes /\ turn' = turn /\ minted' = minted /\ faults' = faults /\ wire' = wire
      /\ t # None /\ page \in PageRecord
  BY NoneFacts DEF ChatInv, server, Shapes
<1>1. TurnsRest /\ minted' = minted
      /\ \A u \in Turn : /\ turn'[u].kind = turn[u].kind /\ turn'[u].by = turn[u].by
                         /\ turn'[u].stage = "none" <=> turn[u].stage = "none"
                         /\ turn[u].stage \in Settled => turn'[u] = turn[u]
  BY <1>0, ServerRests
<1>2. faults' = 0 => faults = 0 /\ \A u \in Turn : ~wire'[u].gone
  BY <1>0 DEF ChatInv, InTurn, InOrder
<1>3. /\ page.conv \in minted \cup {None} /\ turn[t].conv \in minted \cup {None}
      /\ turn[t].conv \in Conv \cup {None}
      /\ page.result => turn[t].stage = "answered"
  <2>1. turn[t] \in TurnRecord
    BY <1>0, StreamShapes
  <2> QED  BY <1>0, <2>1 DEF ChatInv, Shown, Threads, Addressed, TurnRecord
<1>4. CASE event = "accepted"
  <2>1. page' = [page EXCEPT !.conv = turn[t].conv]
    BY <1>4 DEF Understood
  <2>2. page' \in PageRecord /\ page'.busy = page.busy /\ page'.view = page.view
        /\ page'.result = page.result /\ page'.conv = turn[t].conv
    BY <1>0, <1>3, <2>1 DEF PageRecord
  <2> QED  BY <1>0, <1>1, <1>2, <1>3, <2>2, PageShows, PageMoves
<1>5. CASE event = "delta"
  <2>1. PICK view : view = Viewed(t, OneMore)
    OBVIOUS
  <2>2. \A b \in view : \E a \in page.view :
          /\ a.turn # t => b = a
          /\ a.turn = t => b = [a EXCEPT !.text = @ + 1]
    BY <2>1 DEF Viewed, OneMore
  <2>3. ASSUME NEW b \in view
        PROVE  /\ b \in Bubble /\ turn'[b.turn].stage # "none" /\ turn'[b.turn].kind = "stream"
               /\ b.done => /\ turn'[b.turn].stage = "answered" /\ b.text = turn'[b.turn].text
                            /\ b.turn # page.busy
    <3>1. PICK a \in page.view : /\ a.turn # t => b = a
                                 /\ a.turn = t => b = [a EXCEPT !.text = @ + 1]
      BY <2>2
    <3>2. /\ a \in Bubble /\ turn'[a.turn].stage # "none" /\ turn'[a.turn].kind = "stream"
          /\ a.done => /\ turn'[a.turn].stage = "answered" /\ a.text = turn'[a.turn].text
                       /\ a.turn # page.busy
      BY <1>0, PageShows
    <3>3. CASE a.turn # t
      BY <3>1, <3>2, <3>3
    <3>4. CASE a.turn = t
      <4>1. b \in Bubble /\ b.turn = a.turn /\ b.done = a.done
        BY <3>1, <3>2, <3>4 DEF Bubble
      <4> QED  BY <3>2, <3>4, <4>1
    <3> QED  BY <3>3, <3>4
  <2>4. page' = [page EXCEPT !.view = view]
    BY <1>5, <2>1 DEF Understood
  <2>5. view \subseteq Bubble
    BY <2>3
  <2>6. page' \in PageRecord /\ page'.busy = page.busy /\ page'.view = view
        /\ page'.result = page.result /\ page'.conv = page.conv
    BY <1>0, <2>4, <2>5 DEF PageRecord
  <2> QED  BY <1>0, <1>1, <1>2, <1>3, <2>3, <2>6, PageMoves
<1>6. CASE event = "done"
  <2>1. page' = [page EXCEPT !.result = TRUE]
    BY <1>6 DEF Understood
  <2>2. page' \in PageRecord /\ page'.busy = page.busy /\ page'.view = page.view
        /\ page'.conv = page.conv
    BY <1>0, <2>1 DEF PageRecord
  <2> QED  BY <1>0, <1>1, <1>2, <1>3, <1>6, <2>2, PageShows, PageMoves
<1>7. CASE event = "error"
  <2>1. page' = Failed(t)
    BY <1>7 DEF Understood
  <2>2. page' \in PageRecord /\ page'.busy = None /\ page'.view \subseteq page.view
        /\ page'.conv = page.conv
    BY <1>0, <2>1, FailedShows
  <2>3. turn'[page.busy].stage \in Settled
    BY <1>0, <1>7 DEF Settled
  <2> QED  BY <1>0, <1>1, <1>2, <1>3, <2>2, <2>3, PageShows, PageMoves
<1>8. CASE event \notin {"accepted", "delta", "done", "error"}
  <2>1. page' = page
    BY <1>8 DEF Understood
  <2> QED  BY <1>0, <1>1, <1>2, <1>3, <2>1, PageShows, PageMoves
<1> QED  BY <1>4, <1>5, <1>6, <1>7, <1>8

LEMMA PageRests ==
  ASSUME ChatInv, UNCHANGED <<server, page>>, faults' = faults,
         \A u \in Turn : wire'[u].gone = wire[u].gone
  PROVE  page' \in PageRecord /\ Shown' /\ InOrder'
<1>1. turn' = turn /\ minted' = minted /\ page' = page
  BY DEF server
<1> QED  BY <1>1 DEF ChatInv, Shapes, Shown, InTurn, InOrder, Asked

LEMMA PumpEventKeeps ==
  ASSUME ChatInv, NEW t \in Turn, PumpEvent(t)
  PROVE  ChatInv'
<1>0. PICK m \in TurnRecord, q \in QueueRecord, w \in WireRecord, told \in Seq(Event),
           read \in Seq(Event) :
        m = turn[t] /\ q = queue[t] /\ w = wire[t] /\ told = said[t] /\ read = heard[t]
  BY StreamShapes DEF ChatInv
<1>1. PICK event : event = Head(q.handed \o q.buffer)
  OBVIOUS
<1>2. PICK p : p = Polled(Taken(q))
  OBVIOUS
<1>3. /\ queue' = [queue EXCEPT ![t] = p] /\ heard' = [heard EXCEPT ![t] = Append(read, event)]
      /\ page' = IF page.busy = t THEN Understood(t, event) ELSE page
      /\ UNCHANGED <<server, wire, said, faults>>
  BY <1>0, <1>1, <1>2 DEF PumpEvent
<1>4. /\ Streamed(m, q, w, told, read) /\ ~w.gone /\ ~w.ended /\ m.conv # None
      /\ q.handed \o q.buffer # <<>> /\ m.stage # "none" /\ Shapes
  <2>1. Addressed(t) /\ ~w.gone /\ ~w.ended /\ m.conv # None
    BY <1>0 DEF ChatInv, Threads, PumpEvent, Pulling
  <2> QED  BY <1>0, <2>1 DEF ChatInv, PumpEvent, Addressed
<1>5. /\ p \in QueueRecord /\ p.closed = q.closed /\ Append(read, event) \in Seq(Event)
      /\ Piped(p, w, told, Append(read, event))
      /\ \E i \in DOMAIN told : told[i] = event
  BY <1>1, <1>2, <1>4, PumpPipes DEF Streamed
<1>6. Streamed(m, p, w, told, Append(read, event))
  BY <1>4, <1>5 DEF Streamed
<1>7. TurnsRest
  BY <1>3, ServerRests
<1>8. (StreamsShaped /\ StreamsInv)'
  <2>1. StreamsShaped'
    BY <1>3, <1>4, <1>5 DEF Shapes, StreamsShaped
  <2>2. ASSUME NEW u \in Turn
        PROVE  Streamed(turn'[u], queue'[u], wire'[u], said'[u], heard'[u])
    <3>1. turn' = turn /\ wire' = wire /\ said' = said
      BY <1>3 DEF server
    <3>2. CASE u = t
      BY <1>0, <1>3, <1>4, <1>6, <3>1, <3>2 DEF Shapes
    <3>3. CASE u # t
      <4>1. queue'[u] = queue[u] /\ heard'[u] = heard[u]
        BY <1>3, <1>4, <3>3 DEF Shapes
      <4> QED  BY <3>1, <4>1 DEF ChatInv
    <3> QED  BY <3>2, <3>3
  <2> QED  BY <2>1, <2>2 DEF StreamsInv
<1>9. page' \in PageRecord /\ Shown' /\ InOrder'
  <2>1. CASE page.busy = t
    <3>1. (event = "done" => m.stage = "answered") /\ (event = "error" => m.stage = "failed")
      BY <1>4, <1>5 DEF Streamed, Spoken
    <3> QED  BY <1>0, <1>3, <2>1, <3>1, UnderstoodShows
  <2>2. CASE page.busy # t
    BY <1>3, <2>2, PageRests
  <2> QED  BY <2>1, <2>2
<1> QED  BY <1>7, <1>8, <1>9, PageKeeps

LEMMA PumpEndKeeps ==
  ASSUME ChatInv, NEW t \in Turn, PumpEnd(t)
  PROVE  ChatInv'
<1>0. PICK w \in WireRecord : w = wire[t] /\ Shapes
  BY StreamShapes DEF ChatInv
<1>1. PICK v : v = [w EXCEPT !.ended = TRUE]
  OBVIOUS
<1>2. /\ wire' = [wire EXCEPT ![t] = v] /\ UNCHANGED <<server, queue, said, heard, page, faults>>
      /\ queue[t].closed /\ turn[t].conv # None
  BY <1>0, <1>1 DEF PumpEnd, Pulling
<1>3. v \in WireRecord /\ v.ended /\ v.gone = w.gone
  BY <1>1 DEF WireRecord
<1>4. TurnsRest
  BY <1>2, ServerRests
<1>5. turn[t].stage # "none"
  BY <1>2 DEF ChatInv, Threads, Addressed
<1>6. (StreamsShaped /\ StreamsInv)'
  <2>1. StreamsShaped'
    BY <1>0, <1>2, <1>3 DEF Shapes, StreamsShaped, WireRecord
  <2>2. ASSUME NEW u \in Turn
        PROVE  Streamed(turn'[u], queue'[u], wire'[u], said'[u], heard'[u])
    <3>1. turn' = turn /\ queue' = queue /\ said' = said /\ heard' = heard
      BY <1>2 DEF server
    <3>2. Streamed(turn[u], queue[u], wire[u], said[u], heard[u])
      BY DEF ChatInv
    <3>3. CASE u = t
      <4>1. wire'[u] = v
        BY <1>0, <1>2, <3>3 DEF Shapes
      <4> QED  BY <1>0, <1>2, <1>3, <1>5, <3>1, <3>2, <3>3, <4>1 DEF Streamed, Piped
    <3>4. CASE u # t
      <4>1. wire'[u] = wire[u]
        BY <1>0, <1>2, <3>4 DEF Shapes
      <4> QED  BY <3>1, <3>2, <4>1
    <3> QED  BY <3>3, <3>4
  <2> QED  BY <2>1, <2>2 DEF StreamsInv
<1>7. \A u \in Turn : wire'[u].gone = wire[u].gone
  BY <1>0, <1>2, <1>3 DEF Shapes
<1> QED  BY <1>2, <1>4, <1>6, <1>7, PageRests, PageKeeps


LEMMA EndStreamKeeps ==
  ASSUME ChatInv, NEW t \in Turn, EndStream(t)
  PROVE  ChatInv'
<1>0. /\ Shapes /\ page \in PageRecord /\ t # None /\ page.busy = t /\ wire[t].ended
      /\ UNCHANGED <<server, stream, heard, faults>> /\ turn' = turn /\ wire' = wire
      /\ minted' = minted /\ faults' = faults
  BY NoneFacts DEF ChatInv, Shapes, EndStream, server, stream
<1>1. TurnsRest
      /\ \A u \in Turn : /\ turn'[u].kind = turn[u].kind /\ turn'[u].by = turn[u].by
                         /\ turn'[u].stage = "none" <=> turn[u].stage = "none"
                         /\ turn[u].stage \in Settled => turn'[u] = turn[u]
  BY <1>0, ServerRests
<1>2. (StreamsShaped /\ StreamsInv)'
  BY <1>0, StreamsStay
<1>3. faults' = 0 => faults = 0 /\ \A u \in Turn : ~wire'[u].gone
  BY <1>0 DEF ChatInv, InTurn, InOrder
<1>4. faults' = 0 => turn'[page.busy].stage \in Settled
  BY <1>0, <1>3 DEF ChatInv, Streamed, Piped
<1>5. PICK m \in TurnRecord : m = turn[t] /\ m.conv \in minted \cup {None} /\ m.text \in Int
  <2>1. turn[t] \in TurnRecord
    BY <1>0, StreamShapes
  <2>2. turn[t].text \in Int
    BY <2>1, NoneFacts DEF TurnRecord
  <2> QED  BY <2>1, <2>2 DEF ChatInv, Threads, Addressed
<1>6. CASE page.result
  <2>1. m.stage = "answered"
    BY <1>0, <1>5, <1>6 DEF ChatInv, Shown
  <2>2. PICK view : view = Viewed(t, LAMBDA b : Completed(t, b))
    OBVIOUS
  <2>3. \A b \in view : \E a \in page.view :
          /\ a.turn # t => b = a
          /\ a.turn = t => b = [a EXCEPT !.text = m.text, !.done = TRUE]
    BY <1>5, <2>2 DEF Viewed, Completed
  <2>4. ASSUME NEW b \in view
        PROVE  /\ b \in Bubble /\ turn'[b.turn].stage # "none" /\ turn'[b.turn].kind = "stream"
               /\ b.done => turn'[b.turn].stage = "answered" /\ b.text = turn'[b.turn].text
               /\ b.turn # None
    <3>1. PICK a \in page.view : /\ a.turn # t => b = a
                                 /\ a.turn = t => b = [a EXCEPT !.text = m.text, !.done = TRUE]
      BY <2>3
    <3>2. /\ a \in Bubble /\ turn'[a.turn].stage # "none" /\ turn'[a.turn].kind = "stream"
          /\ a.done => turn'[a.turn].stage = "answered" /\ a.text = turn'[a.turn].text
          /\ a.turn # None
      BY <1>0, PageShows
    <3>3. CASE a.turn # t
      BY <3>1, <3>2, <3>3
    <3>4. CASE a.turn = t
      <4>1. b \in Bubble /\ b.turn = t /\ b.text = m.text
        BY <1>5, <3>1, <3>2, <3>4 DEF Bubble
      <4> QED  BY <1>0, <1>5, <2>1, <3>2, <3>4, <4>1
    <3> QED  BY <3>3, <3>4
  <2>5. page' = [page EXCEPT !.busy = None, !.conv = m.conv, !.view = view]
    BY <1>5, <1>6, <2>2 DEF EndStream
  <2>6. m.conv \in Conv \cup {None} /\ view \subseteq Bubble
    BY <1>5, <2>4 DEF TurnRecord
  <2>7. page' \in PageRecord /\ page'.busy = None /\ page'.view = view /\ page'.conv = m.conv
    BY <1>0, <2>5, <2>6 DEF PageRecord
  <2>8. Shown' /\ InOrder'
    BY <1>0, <1>1, <1>3, <1>4, <1>5, <2>4, <2>7, PageMoves
  <2> QED  BY <1>1, <1>2, <2>7, <2>8, PageKeeps
<1>7. CASE ~page.result
  <2>1. page' = Failed(t)
    BY <1>7 DEF EndStream
  <2>2. page' \in PageRecord /\ page'.busy = None /\ page'.view \subseteq page.view
        /\ page'.conv = page.conv
    BY <1>0, <2>1, FailedShows
  <2>3. page.conv \in minted \cup {None}
    BY DEF ChatInv, Shown
  <2>4. Shown' /\ InOrder'
    BY <1>0, <1>1, <1>3, <1>4, <2>2, <2>3, PageShows, PageMoves
  <2> QED  BY <1>1, <1>2, <2>2, <2>4, PageKeeps
<1> QED  BY <1>6, <1>7

LEMMA AbandonedKeeps ==
  ASSUME ChatInv, NEW t \in Turn, NEW ended \in BOOLEAN, Abandoned(t, ended),
         page' = Failed(t) \/ page' = page
  PROVE  ChatInv'
<1>0. /\ Shapes /\ page \in PageRecord /\ t # None /\ page.busy = t /\ turn' = turn
      /\ minted' = minted /\ Fault /\ faults' # 0 /\ UNCHANGED server
  BY NoneFacts DEF ChatInv, Shapes, Abandoned, server, Fault, MayFail
<1>1. TurnsRest
      /\ \A u \in Turn : /\ turn'[u].kind = turn[u].kind /\ turn'[u].by = turn[u].by
                         /\ turn'[u].stage = "none" <=> turn[u].stage = "none"
                         /\ turn[u].stage \in Settled => turn'[u] = turn[u]
  BY <1>0, ServerRests
<1>2. PICK v : v = [gone |-> TRUE, ended |-> ended]
  OBVIOUS
<1>3. /\ wire' = [wire EXCEPT ![t] = v] /\ queue' = [queue EXCEPT ![t] = NewQueue]
      /\ said' = [said EXCEPT ![t] = <<>>] /\ heard' = [heard EXCEPT ![t] = <<>>]
  BY <1>2 DEF Abandoned
<1>4. v \in WireRecord /\ v.gone /\ NewQueue \in QueueRecord /\ <<>> \in Seq(Event)
  BY <1>2 DEF WireRecord, QueueRecord, NewQueue
<1>5. (StreamsShaped /\ StreamsInv)'
  <2>1. StreamsShaped'
    BY <1>0, <1>3, <1>4 DEF Shapes, StreamsShaped, WireRecord
  <2>2. ASSUME NEW u \in Turn
        PROVE  Streamed(turn'[u], queue'[u], wire'[u], said'[u], heard'[u])
    <3>1. Streamed(turn[u], queue[u], wire[u], said[u], heard[u])
      BY DEF ChatInv
    <3>2. CASE u = t
      <4>1. wire'[u] = v /\ queue'[u] = NewQueue /\ said'[u] = <<>> /\ heard'[u] = <<>>
        BY <1>0, <1>3, <3>2 DEF Shapes
      <4>2. turn[u].stage # "none"
        BY <1>0, <3>2 DEF ChatInv, Shown
      <4>3. Piped(NewQueue, v, <<>>, <<>>) /\ ~NewQueue.closed
        BY <1>4 DEF Piped, NewQueue
      <4>4. Spoken(turn[u], v.gone, <<>>)
        BY <1>4, <3>1 DEF Streamed, Spoken
      <4> QED  BY <1>0, <4>1, <4>2, <4>3, <4>4 DEF Streamed
    <3>3. CASE u # t
      <4>1. wire'[u] = wire[u] /\ queue'[u] = queue[u] /\ said'[u] = said[u]
            /\ heard'[u] = heard[u]
        BY <1>0, <1>3, <3>3 DEF Shapes
      <4> QED  BY <1>0, <3>1, <4>1
    <3> QED  BY <3>2, <3>3
  <2> QED  BY <2>1, <2>2 DEF StreamsInv
<1>6. page.conv \in minted \cup {None} /\ (page.result => turn[t].stage = "answered")
  BY <1>0 DEF ChatInv, Shown
<1>7. page' \in PageRecord /\ page'.view \subseteq page.view /\ page'.conv = page.conv
      /\ page'.result = page.result /\ (page'.busy = None \/ page'.busy = page.busy)
  BY <1>0, FailedShows
<1>8. Shown' /\ InOrder'
  BY <1>0, <1>1, <1>6, <1>7, PageShows, PageMoves
<1> QED  BY <1>1, <1>5, <1>7, <1>8, PageKeeps

LEMMA OpenKeeps ==
  ASSUME ChatInv, OpenConversation
  PROVE  ChatInv'
<1>0. /\ Shapes /\ page \in PageRecord /\ page.busy = None
      /\ page' = [page EXCEPT !.view = {}, !.failure = FALSE, !.opening = TRUE]
      /\ UNCHANGED <<server, stream, heard, faults>> /\ turn' = turn /\ wire' = wire
      /\ minted' = minted /\ faults' = faults
  BY DEF ChatInv, Shapes, OpenConversation, server, stream
<1>1. TurnsRest
      /\ \A u \in Turn : /\ turn'[u].kind = turn[u].kind /\ turn'[u].by = turn[u].by
                         /\ turn'[u].stage = "none" <=> turn[u].stage = "none"
                         /\ turn[u].stage \in Settled => turn'[u] = turn[u]
  BY <1>0, ServerRests
<1>2. (StreamsShaped /\ StreamsInv)'
  BY <1>0, StreamsStay
<1>3. faults' = 0 => faults = 0 /\ \A u \in Turn : ~wire'[u].gone
  BY <1>0 DEF ChatInv, InTurn, InOrder
<1>4. page' \in PageRecord /\ page'.view = {} /\ page'.busy = None /\ page'.conv = page.conv
  BY <1>0 DEF PageRecord
<1>5. page.conv \in minted \cup {None}
  BY DEF ChatInv, Shown
<1>6. Shown' /\ InOrder'
  BY <1>0, <1>1, <1>3, <1>4, <1>5, PageMoves
<1> QED  BY <1>1, <1>2, <1>4, <1>6, PageKeeps

LEMMA OpenedKeeps ==
  ASSUME ChatInv, Opened
  PROVE  ChatInv'
<1>0. /\ Shapes /\ page \in PageRecord /\ Me \in Actor
      /\ UNCHANGED <<store, turn, stream, heard>> /\ turn' = turn /\ wire' = wire
  BY ChatAssumption DEF ChatInv, Shapes, Opened, stream, ChatAssumption
<1>1. PICK c \in Conv \cup {None} :
        /\ page' = [page EXCEPT !.conv = c, !.opening = FALSE]
        /\ minted' = IF c = None THEN minted ELSE minted \cup {c}
        /\ (conv' = conv /\ Fault)
             \/ (c # None /\ UNCHANGED faults
                   /\ conv' = [conv EXCEPT ![c] = IF @ = None THEN NewRow(Me) ELSE @])
  <2>1. CASE /\ minted # Conv /\ minted' = minted \cup {Mint} /\ Ensured(Mint, Me)
             /\ page' = [page EXCEPT !.conv = Mint, !.opening = FALSE]
    <3>1. Mint \in Conv /\ Mint # None
      BY <1>0, <2>1, Minted, NoneFacts
    <3> QED  BY <2>1, <3>1 DEF Ensured
  <2>2. CASE /\ Fault /\ page' = [page EXCEPT !.conv = None, !.opening = FALSE]
             /\ UNCHANGED <<minted, conv>>
    BY <2>2
  <2> QED  BY <2>1, <2>2 DEF Opened
<1>2. /\ minted \subseteq minted' /\ minted' \subseteq Conv /\ c \in minted' \cup {None}
      /\ faults' \in 0..MaxFaults /\ (faults' = 0 => faults = 0)
  BY <1>0, <1>1, NoneFacts DEF Shapes, Fault, MayFail
<1>3. /\ Grown(None)
      /\ \A d \in Conv : conv'[d] # None =>
           conv'[d] = conv[d] \/ (conv'[d].rows = <<>> /\ d \in minted')
  <2>1. CASE conv' = conv
    BY <1>0, <2>1, SameThreads
  <2>2. CASE c # None /\ conv' = [conv EXCEPT ![c] = IF @ = None THEN NewRow(Me) ELSE @]
    <3>1. /\ Grown(None)
          /\ \A d \in Conv : \/ conv'[d] = conv[d]
                             \/ d = c /\ conv[d] = None /\ conv'[d] = NewRow(Me)
      BY <1>0, <2>2, NewThread
    <3> QED  BY <1>2, <2>2, <3>1 DEF NewRow
  <2> QED  BY <1>1, <2>1, <2>2
<1>4. TurnsRest
  BY <1>0, <1>2, <1>3 DEF TurnsRest
<1>5. (StreamsShaped /\ StreamsInv)'
  BY <1>0, StreamsStay
<1>6. page' \in PageRecord /\ page'.busy = page.busy /\ page'.view = page.view
      /\ page'.result = page.result /\ page'.conv = c
  BY <1>0, <1>1 DEF PageRecord
<1>7. /\ \A b \in page'.view :
           /\ turn'[b.turn].stage # "none" /\ turn'[b.turn].kind = "stream"
           /\ b.done => /\ turn'[b.turn].stage = "answered" /\ b.text = turn'[b.turn].text
                        /\ b.turn # page'.busy
      /\ page'.busy # None /\ page'.result => turn'[page'.busy].stage = "answered"
      /\ faults' = 0 => faults = 0 /\ \A u \in Turn : ~wire'[u].gone
  BY <1>0, <1>2, <1>6 DEF ChatInv, Shown, InTurn, InOrder
<1>8. \A u \in Turn : /\ turn'[u].kind = turn[u].kind /\ turn'[u].by = turn[u].by
                      /\ turn'[u].stage = "none" <=> turn[u].stage = "none"
                      /\ turn[u].stage \in Settled => turn'[u] = turn[u]
  BY <1>0
<1>9. Shown' /\ InOrder'
  BY <1>2, <1>6, <1>7, <1>8, PageMoves
<1> QED  BY <1>4, <1>5, <1>6, <1>9, PageKeeps

-----------------------------------------------------------------------------
(* A question is asked. *)

LEMMA AskingKeeps ==
  ASSUME ChatInv, NEW t \in Turn, Fresh(t), NEW kind \in {"stream", "json", "legacy"},
         NEW actor \in Actor, NEW message \in Question, NEW c \in minted \cup {None},
         Asking(t, kind, actor, message, c),
         UNCHANGED <<store, conv, minted, stream, heard, faults>>,
         \/ /\ kind = "stream" /\ actor = Me /\ page.busy = None
            /\ page' = [page EXCEPT !.busy = t, !.view = @ \cup {Placeholder(t)},
                                    !.result = FALSE, !.failure = FALSE]
         \/ kind # "stream" /\ page' = page
  PROVE  ChatInv'
<1>0. /\ Shapes /\ Shown /\ InOrder /\ turn[t].stage = "none" /\ t # None /\ t \in Nat
      /\ page \in PageRecord /\ \A u \in 1..(t - 1) : turn[u].stage # "none"
  BY NoneFacts DEF ChatInv, InTurn, Fresh, Shapes
<1>1. turn[t] = NoTurn /\ NoTurn \in TurnRecord
  <2>1. turn[t] = NoTurn
    BY <1>0 DEF ChatInv, Threads, Addressed
  <2>2. turn[t] \in TurnRecord
    BY <1>0, StreamShapes
  <2> QED  BY <2>1, <2>2
<1>2. PICK n : n = [NoTurn EXCEPT !.stage = "sent", !.kind = kind, !.by = actor,
                                  !.message = message, !.asked = c]
  OBVIOUS
<1>3. /\ n \in TurnRecord /\ n.stage = "sent" /\ n.kind = kind /\ n.by = actor
      /\ n.message = message /\ n.asked = c /\ n.conv = None /\ n.history = {}
      /\ n.intent = None /\ n.agent = None /\ n.used = <<>> /\ n.called = {} /\ n.tool = 1
      /\ n.approval = FALSE
  <2>1. "sent" \in Stages /\ c \in Conv \cup {None}
    BY <1>0 DEF Stages, Early, Shapes
  <2>2. n = [stage |-> "sent", kind |-> kind, by |-> actor, message |-> message, asked |-> c,
             conv |-> None, history |-> {}, intent |-> None, agent |-> None, phase |-> None,
             tool |-> 1, used |-> <<>>, called |-> {}, approval |-> FALSE, sources |-> FALSE,
             text |-> 0, whole |-> FALSE]
    BY <1>2 DEF NoTurn
  <2>3. n \in TurnRecord
    BY <2>1, <2>2, NoneFacts DEF TurnRecord
  <2> QED  BY <2>2, <2>3
<1>4. turn' = [turn EXCEPT ![t] = n]
  BY <1>1, <1>2 DEF Asking
<1>5. Becomes(t, n) /\ Grown(t)
  BY <1>0, <1>3, <1>4, BecomesBy, SameThreads
<1>6. turn'[t] = n /\ \A u \in Turn \ {t} : turn'[u] = turn[u]
  BY <1>5 DEF Becomes
<1>7. (StreamsShaped /\ StreamsInv)' /\ wire' = wire
  BY <1>0, <1>3, <1>5, StaysSilent DEF Early, stream
<1>8. \A u \in Turn : Governed(turn'[u])
  <2>1. message # None
    BY NoneFacts
  <2>2. Governed(n)
    BY <1>3, <2>1 DEF Governed, Early
  <2> QED  BY <1>6, <2>2 DEF ChatInv
<1>9. Threads'
  <2>1. Addressed(t)' /\ OnRecord(t)'
    BY <1>3, <1>6 DEF Addressed, OnRecord
  <2>2. \A d \in Conv : conv'[d] # None => RowsSound(d)'
    BY <1>0, <1>5, RowsStay
  <2>3. \A u \in Turn \ {t} : (Addressed(u) /\ OnRecord(u))'
    BY <1>5, <1>6, OthersStay
  <2> QED  BY <2>1, <2>2, <2>3 DEF Threads
<1>10. /\ page'.busy = IF kind = "stream" THEN t ELSE page.busy
       /\ page'.view = IF kind = "stream" THEN page.view \cup {Placeholder(t)} ELSE page.view
       /\ page'.conv = page.conv /\ page' \in PageRecord
       /\ kind # "stream" => page'.result = page.result
       /\ kind = "stream" => page'.result = FALSE /\ actor = Me /\ page.busy = None
  <2>1. Placeholder(t) \in Bubble
    BY DEF Placeholder, Bubble
  <2>2. CASE kind # "stream"
    BY <1>0, <2>2
  <2>3. CASE kind = "stream"
    <3>1. page' = [page EXCEPT !.busy = t, !.view = @ \cup {Placeholder(t)},
                               !.result = FALSE, !.failure = FALSE]
          /\ actor = Me /\ page.busy = None
      BY <2>3
    <3> QED  BY <1>0, <2>1, <2>3, <3>1 DEF PageRecord
  <2> QED  BY <2>2, <2>3
<1>11. \A u \in Turn : Asked(u)' <=> Asked(u) \/ (u = t /\ kind = "stream")
  <2>1. ~Asked(t) /\ (Asked(t)' <=> kind = "stream")
    BY <1>0, <1>3, <1>6 DEF Asked
  <2>2. \A u \in Turn \ {t} : Asked(u)' <=> Asked(u)
    BY <1>6 DEF Asked
  <2> QED  BY <2>1, <2>2
<1>12. Shown'
  <2>1. \A u \in Turn : turn'[u].kind = "stream" => turn'[u].by = Me
    BY <1>0, <1>3, <1>6, <1>10 DEF Shown
  <2>2. ASSUME page'.busy # None
        PROVE  /\ turn'[page'.busy].stage # "none" /\ turn'[page'.busy].kind = "stream"
               /\ page'.result => turn'[page'.busy].stage = "answered"
    <3>1. CASE kind = "stream"
      BY <1>3, <1>6, <1>10, <3>1
    <3>2. CASE kind # "stream"
      <4>1. page.busy # None /\ page.busy \in Turn /\ page'.busy = page.busy
        BY <1>0, <1>10, <2>2, <3>2 DEF PageRecord
      <4>2. page.busy # t
        BY <1>0, <4>1 DEF Shown
      <4> QED  BY <1>0, <1>6, <1>10, <3>2, <4>1, <4>2 DEF Shown
    <3> QED  BY <3>1, <3>2
  <2>3. ASSUME NEW b \in page'.view
        PROVE  /\ turn'[b.turn].stage # "none" /\ turn'[b.turn].kind = "stream"
               /\ b.done => /\ turn'[b.turn].stage = "answered" /\ b.text = turn'[b.turn].text
                            /\ b.turn # page'.busy
    <3>1. CASE b \in page.view
      <4>1. b.turn \in Turn
        BY <1>0, <3>1 DEF PageRecord, Bubble
      <4>2. b.turn # t
        BY <1>0, <3>1 DEF Shown
      <4>3. turn'[b.turn] = turn[b.turn]
        BY <1>6, <4>1, <4>2
      <4> QED  BY <1>0, <1>10, <3>1, <4>2, <4>3 DEF Shown
    <3>2. CASE b \notin page.view
      <4>1. b = Placeholder(t) /\ kind = "stream"
        BY <1>10, <3>2
      <4>2. b.turn = t /\ b.done = FALSE
        BY <4>1 DEF Placeholder
      <4> QED  BY <1>3, <1>6, <4>1, <4>2
    <3> QED  BY <3>1, <3>2
  <2>4. page'.conv \in minted' \cup {None}
    BY <1>0, <1>10 DEF Shown
  <2> QED  BY <2>1, <2>2, <2>3, <2>4 DEF Shown
<1>13. InOrder'
  <2>1. ASSUME NEW a \in Turn, NEW b \in Turn, a < b, turn'[a].stage = "none"
        PROVE  turn'[b].stage = "none"
    <3>1. a # t /\ turn[a].stage = "none"
      BY <1>3, <1>6, <2>1
    <3>2. b # t
      <4>1. a \in Nat /\ a >= 1
        BY DEF Turn
      <4> QED  BY <1>0, <2>1, <3>1, <4>1
    <3>3. turn[b].stage = "none"
      BY <1>0, <2>1, <3>1 DEF InOrder
    <3> QED  BY <1>6, <3>2, <3>3
  <2>2. ASSUME page'.busy # None, NEW u \in Turn, u > page'.busy
        PROVE  ~Asked(u)'
    <3>1. CASE kind = "stream"
      <4>1. t < u /\ u # t
        BY <1>0, <1>10, <2>2, <3>1, NoneFacts
      <4>2. turn[u].stage = "none"
        BY <1>0, <4>1 DEF InOrder
      <4> QED  BY <1>11, <4>1, <4>2 DEF Asked
    <3>2. CASE kind # "stream"
      BY <1>0, <1>10, <1>11, <2>2, <3>2 DEF InOrder
    <3> QED  BY <3>1, <3>2
  <2>3. ASSUME faults' = 0, NEW u \in Turn
        PROVE  ~wire'[u].gone /\ (Asked(u)' /\ page'.busy # u => turn'[u].stage \in Settled)
    <3>1. faults = 0 /\ ~wire'[u].gone
      BY <1>0, <1>7, <2>3 DEF InOrder
    <3>2. ASSUME Asked(u)', page'.busy # u
          PROVE  turn'[u].stage \in Settled
      <4>1. u # t /\ Asked(u) /\ page.busy # u
        BY <1>0, <1>10, <1>11, <3>2, NoneFacts DEF Asked
      <4> QED  BY <1>0, <1>6, <3>1, <4>1 DEF InOrder
    <3> QED  BY <3>1, <3>2
  <2> QED  BY <2>1, <2>2, <2>3 DEF InOrder
<1>14. Apart'
  <2>1. SUFFICES ASSUME faults' = 0, NEW a \in Turn, NEW u \in Turn, Asked(a)', Asked(u)', a < u,
                        turn'[u].asked = None, turn'[a].conv # None
                 PROVE  turn'[a].conv # turn'[u].conv
    BY DEF Apart
  <2>2. CASE u = t
    BY <1>3, <1>6, <2>1, <2>2
  <2>3. CASE u # t
    <3>1. a # t
      BY <1>3, <1>6, <2>1
    <3> QED  BY <1>6, <1>11, <2>1, <2>3, <3>1 DEF ChatInv, InTurn, Apart
  <2> QED  BY <2>2, <2>3
<1>15. ASSUME faults' = 0, HistoryLimit >= 2, NEW a \in Turn, NEW u \in Turn
       PROVE  Builds(a, u)'
  <2>1. SUFFICES ASSUME /\ AskedAfter(a, u)' /\ turn'[a].stage = "answered"
                        /\ Owned(turn[a].conv, Me)'
                        /\ turn'[u].stage \notin Early \cup {"failed"}
                        /\ \A w \in Turn : w \notin {a, u} => turn'[w].conv # turn'[a].conv
                 PROVE  \E i \in turn'[u].history :
                          conv'[turn'[u].conv].rows[i] = Row(a, "tania", TRUE)
    BY DEF Builds
  <2>2. a # t /\ u # t
    BY <1>3, <1>6, <2>1 DEF Early
  <2>3. turn'[a] = turn[a] /\ turn'[u] = turn[u] /\ conv' = conv
    BY <1>6, <2>2
  <2>4. AskedAfter(a, u) /\ Owned(turn[a].conv, Me)
    BY <2>1, <2>3 DEF AskedAfter, Owned
  <2>5. turn[a].conv # None /\ turn[t].conv = None
    BY <1>1, <2>4 DEF AskedAfter, NoTurn
  <2>6. \A w \in Turn : w \notin {a, u} => turn[w].conv # turn[a].conv
    BY <1>6, <2>1, <2>3, <2>5
  <2> QED  BY <1>15, <2>1, <2>3, <2>4, <2>6 DEF ChatInv, InTurn, Building, Builds
<1>16. Shapes'
  BY <1>0, <1>5, <1>7, <1>10 DEF Shapes, StreamsShaped, Becomes, Grown
<1> QED  BY <1>7, <1>8, <1>9, <1>12, <1>13, <1>14, <1>15, <1>16
         DEF ChatInv, InTurn, StreamsInv, Building

LEMMA AskKeeps ==
  ASSUME ChatInv, NEW t \in Turn, Ask(t)
  PROVE  ChatInv'
<1>1. Me \in Actor /\ Message[t] \in Question /\ page.conv \in minted \cup {None}
  BY ChatAssumption DEF ChatAssumption, ChatInv, Shown
<1> QED  BY <1>1, AskingKeeps DEF Ask

LEMMA ElsewhereKeeps ==
  ASSUME ChatInv, NEW t \in Turn, NEW call \in Calls, NEW c \in minted, Elsewhere(t, call, c)
  PROVE  ChatInv'
<1>1. call.kind \in {"json", "legacy"} /\ call.by \in Actor /\ call.message \in Question
  BY ChatAssumption DEF ChatAssumption
<1>2. Asking(t, call.kind, call.by, call.message, c) /\ Fresh(t)
      /\ UNCHANGED <<store, conv, minted, stream, heard, page, faults>>
  BY DEF Elsewhere
<1> QED  BY <1>1, <1>2, AskingKeeps

-----------------------------------------------------------------------------
(* Every step. *)

LEMMA ServeKeeps ==
  ASSUME ChatInv, NEW t \in Turn, Serve(t)
  PROVE  ChatInv'
BY AcceptKeeps, EnsureKeeps, LoadHistoryKeeps, ClassifyKeeps, BlockToolKeeps, GateToolKeeps,
   CallToolKeeps, ToolReturnsKeeps, StartAnswerKeeps, DeltaKeeps, FinishAnswerKeeps,
   RecordInMemoryKeeps, BeginRecordKeeps, CommitRecordKeeps
   DEF Serve

LEMMA NothingKeeps ==
  ASSUME ChatInv, UNCHANGED vars
  PROVE  ChatInv'
<1>1. /\ UNCHANGED <<server, page>> /\ UNCHANGED <<stream, heard>> /\ faults' = faults
      /\ wire' = wire /\ turn' = turn
  BY DEF vars, server, stream
<1> QED  BY <1>1, ServerRests, StreamsStay, PageRests, PageKeeps

LEMMA StepKeeps ==
  ASSUME ChatInv, [Next]_vars
  PROVE  ChatInv'
<1>1. CASE \E t \in Turn : Serve(t)
  BY <1>1, ServeKeeps
<1>2. CASE \E t \in Turn : Ask(t) \/ \E call \in Calls, c \in minted : Elsewhere(t, call, c)
  BY <1>2, AskKeeps, ElsewhereKeeps
<1>3. CASE \E t \in Turn : Pump(t)
  BY <1>3, PumpEventKeeps, PumpEndKeeps DEF Pump
<1>4. CASE \E t \in Turn : EndStream(t) \/ Refuse(t)
  BY <1>4, EndStreamKeeps, RefuseKeeps
<1>5. CASE \E t \in Turn : Break(t) \/ CutShort(t)
  BY <1>5, AbandonedKeeps DEF Break, CutShort
<1>6. CASE OpenConversation \/ Opened
  BY <1>6, OpenKeeps, OpenedKeeps
<1>7. CASE UNCHANGED vars
  BY <1>7, NothingKeeps
<1> QED  BY <1>1, <1>2, <1>3, <1>4, <1>5, <1>6, <1>7 DEF Next

LEMMA StartHolds ==
  ASSUME Init
  PROVE  ChatInv
<1>0. /\ conv = [c \in Conv |-> None] /\ minted = {} /\ faults = 0
      /\ turn = [t \in Turn |-> NoTurn] /\ queue = [t \in Turn |-> NewQueue]
      /\ wire = [t \in Turn |-> NewWire] /\ said = [t \in Turn |-> <<>>]
      /\ heard = [t \in Turn |-> <<>>] /\ page = EmptyPage /\ store \in {"memory", "backend"}
      /\ Me \in Actor
  BY ChatAssumption DEF Init, ChatAssumption
<1>1. NoTurn \in TurnRecord
  BY <1>0, NoneFacts DEF NoTurn, TurnRecord, Stages, Early
<1>2. /\ NoTurn.stage = "none" /\ NoTurn.conv = None /\ NoTurn.asked = None
      /\ NoTurn.history = {} /\ NoTurn.kind = "stream" /\ NoTurn.by = Me
      /\ NoTurn.intent = None /\ NoTurn.agent = None /\ NoTurn.used = <<>>
      /\ NoTurn.called = {} /\ NoTurn.tool = 1 /\ NoTurn.approval = FALSE
  BY DEF NoTurn
<1>3. Shapes
  <2>1. NewQueue \in QueueRecord /\ NewWire \in [ended : BOOLEAN, gone : BOOLEAN]
    BY DEF NewQueue, QueueRecord, NewWire
  <2>2. EmptyPage \in PageRecord
    BY DEF EmptyPage, PageRecord
  <2>3. <<>> \in Seq(Event) /\ 0 \in 0..MaxFaults
    BY NoneFacts
  <2> QED  BY <1>0, <1>1, <2>1, <2>2, <2>3 DEF Shapes
<1>4. \A t \in Turn : Governed(turn[t])
  <2>1. Governed(NoTurn)
    BY <1>2 DEF Governed, Early
  <2> QED  BY <1>0, <2>1
<1>5. \A t \in Turn : Streamed(turn[t], queue[t], wire[t], said[t], heard[t])
  <2>1. Streamed(NoTurn, NewQueue, NewWire, <<>>, <<>>)
    <3>1. Piped(NewQueue, NewWire, <<>>, <<>>)
      BY DEF Piped, NewQueue, NewWire
    <3>2. Spoken(NoTurn, NewWire.gone, <<>>)
      BY <1>2 DEF Spoken, Early
    <3> QED  BY <1>2, <3>1, <3>2 DEF Streamed, NewQueue, NewWire
  <2> QED  BY <1>0, <2>1
<1>6. Threads
  <2>1. \A t \in Turn : Addressed(t) /\ OnRecord(t)
    BY <1>0, <1>2 DEF Addressed, OnRecord, Early
  <2>2. \A c \in Conv : conv[c] = None
    BY <1>0
  <2> QED  BY <2>1, <2>2 DEF Threads
<1>7. Shown
  <2>1. page.conv = None /\ page.busy = None /\ page.view = {}
    BY <1>0 DEF EmptyPage
  <2> QED  BY <1>0, <1>2, <2>1 DEF Shown
<1>8. InTurn
  <2>1. page.busy = None /\ \A t \in Turn : turn[t] = NoTurn /\ ~wire[t].gone
    BY <1>0 DEF EmptyPage, NewWire
  <2>2. \A t \in Turn : ~Asked(t)
    BY <1>2, <2>1 DEF Asked
  <2>3. \A t, u \in Turn : ~AskedAfter(t, u)
    BY <1>2, <2>1 DEF AskedAfter
  <2> QED  BY <1>2, <2>1, <2>2, <2>3 DEF InTurn, InOrder, Apart, Building, Builds
<1> QED  BY <1>3, <1>4, <1>5, <1>6, <1>7, <1>8 DEF ChatInv

(* The turns, their streams, the transcripts and the page keep in step:    *)
(* what was told is between the turn and its reader, what is stored are    *)
(* whole exchanges of the turns that asked there, and the page waits for   *)
(* the last question it asked (chat-service.ts, event-queue.ts, sse.ts,    *)
(* workspace.tsx).                                                         *)
THEOREM Invariance == Spec => []ChatInv
<1>1. Init => ChatInv
  BY StartHolds
<1>2. ChatInv /\ [Next]_vars => ChatInv'
  BY StepKeeps
<1> QED  BY <1>1, <1>2, PTL DEF Spec

(* A turn has its asker and a conversation in use, its queue holds at most *)
(* one handed event, and what it reports and the page keeps has its shape. *)
THEOREM TypeCorrect == Spec => []TypeOK
<1>1. ChatInv => TypeOK
  <2> SUFFICES ASSUME ChatInv PROVE TypeOK
    OBVIOUS
  <2>0. Shapes
    BY DEF ChatInv
  <2>1. \A c \in Conv \ minted : conv[c] = None
    BY DEF ChatInv, Threads, RowsSound
  <2>2. ASSUME NEW t \in Turn
        PROVE  /\ turn[t].by \in Actor /\ turn[t].conv \in minted \cup {None}
               /\ turn[t].intent \in Intent \cup {None} /\ turn[t].agent \in Agent \cup {None}
               /\ turn[t].text \in 0..Parts
               /\ Len(queue[t].handed) <= 1
               /\ {said[t][i] : i \in DOMAIN said[t]} \subseteq Event
    <3>1. turn[t] \in TurnRecord /\ said[t] \in Seq(Event)
      BY <2>0, StreamShapes
    <3>2. turn[t].conv \in minted \cup {None}
      BY DEF ChatInv, Threads, Addressed
    <3>3. Len(queue[t].handed) <= 1
      BY DEF ChatInv, Streamed, Piped
    <3> QED  BY <3>1, <3>2, <3>3 DEF TurnRecord
  <2>3. page.busy \in Turn \cup {None} /\ page.conv \in minted \cup {None}
    BY <2>0 DEF Shapes, PageRecord, ChatInv, Shown
  <2>4. \A b \in page.view : turn[b.turn].kind = "stream"
    BY DEF ChatInv, Shown
  <2> QED  BY <2>0, <2>1, <2>2, <2>3, <2>4 DEF Shapes, TypeOK
<1> QED  BY <1>1, Invariance, PTL

LEMMA PrefixOf ==
  ASSUME NEW s \in Seq(Event), NEW u \in Seq(Event)
  PROVE  IsPrefix(s, s \o u)
<1>1. PICK w \in Seq(Event) : w = s \o u
  BY ConcatProperties
<1>2. /\ Len(w) = Len(s) + Len(u) /\ Len(s) \in Nat /\ Len(u) \in Nat
      /\ \A i \in 1..Len(s) : w[i] = s[i]
  BY <1>1, ConcatProperties
<1>3. SubSeq(s, 1, Len(s)) = [i \in 1..Len(s) |-> s[i]]
  BY <1>2
<1>4. SubSeq(w, 1, Len(s)) = [i \in 1..Len(s) |-> w[i]]
  BY <1>2
<1>5. SubSeq(s, 1, Len(s)) = SubSeq(w, 1, Len(s))
  BY <1>2, <1>3, <1>4
<1> QED  BY <1>1, <1>2, <1>5 DEF IsPrefix

(* From the turn to the page nothing is lost, doubled or out of order: a   *)
(* reader has a prefix of what was told, the rest is on its way, and what  *)
(* shows as finished the server finished and, if no call failed, has on    *)
(* record (event-queue.ts, sse.ts, workspace.tsx).                         *)
THEOREM StreamHolds == Spec => []StreamIsFaithful
<1>1. ChatInv => ToldInOrder
  <2> SUFFICES ASSUME ChatInv, NEW t \in Turn
               PROVE  LET under == heard[t] \o queue[t].handed \o queue[t].buffer
                      IN  /\ IsPrefix(heard[t], said[t])
                          /\ ~wire[t].gone => under = said[t]
                          /\ said[t] # <<>> => said[t][1] = "accepted"
                          /\ \A i, j \in DOMAIN said[t] :
                               /\ said[t][i] \in Ends => i = Len(said[t])
                               /\ said[t][i] = said[t][j]
                                    /\ said[t][i] \in Phases \cup {"accepted"} => i = j
    BY DEF ToldInOrder
  <2>1. PICK q \in QueueRecord, told \in Seq(Event), read \in Seq(Event) :
          q = queue[t] /\ told = said[t] /\ read = heard[t]
    BY StreamShapes DEF ChatInv
  <2>2. Piped(q, wire[t], told, read) /\ Spoken(turn[t], wire[t].gone, told)
    BY <2>1 DEF ChatInv, Streamed
  <2>3. IsPrefix(read, told)
    <3>1. CASE wire[t].gone
      <4>1. told = read \o <<>> /\ <<>> \in Seq(Event)
        BY <2>2, <3>1, ConcatEmptySeq DEF Piped
      <4> QED  BY <4>1, PrefixOf
    <3>2. CASE ~wire[t].gone
      <4>1. q.handed \in Seq(Event) /\ q.buffer \in Seq(Event)
        BY DEF QueueRecord
      <4>2. told = (read \o q.handed) \o q.buffer
        BY <2>2, <3>2 DEF Piped
      <4>3. told = read \o (q.handed \o q.buffer) /\ q.handed \o q.buffer \in Seq(Event)
        BY <4>1, <4>2, Joined
      <4> QED  BY <4>3, PrefixOf
    <3> QED  BY <3>1, <3>2
  <2>4. ~wire[t].gone => read \o q.handed \o q.buffer = told
    BY <2>2 DEF Piped
  <2> QED  BY <2>1, <2>2, <2>3, <2>4 DEF Spoken
<1>2. ChatInv => ShownAnswersAreReal
  <2> SUFFICES ASSUME ChatInv, NEW b \in page.view, b.done
               PROVE  /\ turn[b.turn].stage = "answered" /\ b.text = turn[b.turn].text
                      /\ faults = 0 /\ Owned(turn[b.turn].conv, Me) =>
                           \E i \in Visible(turn[b.turn].conv) :
                             conv[turn[b.turn].conv].rows[i] = Row(b.turn, "tania", TRUE)
    BY DEF ShownAnswersAreReal
  <2>1. b.turn \in Turn
    BY DEF ChatInv, Shapes, PageRecord, Bubble
  <2>2. turn[b.turn].stage = "answered" /\ b.text = turn[b.turn].text /\ turn[b.turn].by = Me
    BY <2>1 DEF ChatInv, Shown
  <2>3. OnRecord(b.turn)
    BY <2>1 DEF ChatInv, Threads
  <2> QED  BY <2>2, <2>3 DEF OnRecord
<1>3. ChatInv => StreamIsFaithful
  BY <1>1, <1>2 DEF StreamIsFaithful
<1> QED  BY <1>3, Invariance, PTL


(* What is stored of a turn in a conversation is its question and, later,  *)
(* its answer.                                                             *)
LEMMA OnceEach ==
  ASSUME ChatInv, NEW c \in Conv, conv[c] # None, NEW t \in Turn, RowsOf(c, t) # {}
  PROVE  /\ turn[t].conv = c /\ turn[t].by = conv[c].owner
         /\ \E i, j \in RowsOf(c, t) :
              /\ i < j /\ RowsOf(c, t) = {i, j}
              /\ conv[c].rows[i].role = "user" /\ conv[c].rows[j].role = "tania"
<1>0. RowsSound(c) /\ Shapes
  BY DEF ChatInv, Threads
<1>1. PICK rows \in Seq(MessageRow) : rows = conv[c].rows
  BY <1>0, RowShapes
<1>2. DOMAIN rows = 1..Len(rows) /\ Len(rows) \in Nat /\ Distinct(rows)
  BY <1>0, <1>1 DEF RowsSound
<1>3. RowsOf(c, t) = {i \in DOMAIN rows : rows[i].live /\ rows[i].turn = t}
  BY <1>1 DEF RowsOf, Visible
<1>4. \A i \in DOMAIN rows : rows[i] \in MessageRow /\ Paired(rows, i)
  BY <1>0, <1>1 DEF RowsSound
<1>5. PICK k \in RowsOf(c, t) : k \in DOMAIN rows /\ rows[k].live /\ rows[k].turn = t
  BY <1>3
<1>6. turn[t].conv = c /\ turn[t].by = conv[c].owner
  BY <1>0, <1>1, <1>5 DEF RowsSound
<1>7. PICK i \in DOMAIN rows, j \in DOMAIN rows :
        /\ i < j /\ rows[i] = Row(t, "user", TRUE) /\ rows[j] = Row(t, "tania", TRUE)
  <2>1. CASE rows[k].role = "user"
    <3>1. PICK j \in (k + 1)..Len(rows) : rows[j] = Row(t, "tania", TRUE)
      BY <1>4, <1>5, <2>1 DEF Paired
    <3>2. rows[k] = Row(t, "user", TRUE)
      BY <1>4, <1>5, <2>1 DEF MessageRow, Row
    <3>3. j \in DOMAIN rows /\ k < j
      BY <1>2, <1>5
    <3> QED  BY <1>5, <3>1, <3>2, <3>3, Zenon
  <2>2. CASE rows[k].role = "tania"
    <3>1. PICK i \in 1..(k - 1) : rows[i] = Row(t, "user", TRUE)
      BY <1>4, <1>5, <2>2 DEF Paired
    <3>2. rows[k] = Row(t, "tania", TRUE)
      BY <1>4, <1>5, <2>2 DEF MessageRow, Row
    <3>3. i \in DOMAIN rows /\ i < k
      BY <1>2, <1>5
    <3> QED  BY <1>5, <3>1, <3>2, <3>3, Zenon
  <2> QED  BY <1>4, <1>5, <2>1, <2>2 DEF MessageRow
<1>8. /\ rows[i].turn = t /\ rows[i].role = "user" /\ rows[i].live
      /\ rows[j].turn = t /\ rows[j].role = "tania" /\ rows[j].live
  BY <1>7 DEF Row
<1>9. ASSUME NEW l \in RowsOf(c, t)
      PROVE  l \in {i, j}
  <2>1. l \in DOMAIN rows /\ rows[l].turn = t /\ rows[l].role \in {"user", "tania"}
    BY <1>3, <1>4 DEF MessageRow
  <2> QED  BY <1>2, <1>8, <2>1 DEF Distinct
<1>10. i \in RowsOf(c, t) /\ j \in RowsOf(c, t)
  BY <1>3, <1>8
<1> QED  BY <1>1, <1>6, <1>7, <1>8, <1>9, <1>10

(* A conversation is its owner's and grows in the order it was asked in:   *)
(* no one reads or adds to another's, and unless a call failed an answer   *)
(* that was shown is part of what the next question there builds on        *)
(* (context-service.ts, chat-service.ts, transcript-store.ts).             *)
THEOREM ThreadsHold == Spec => []ThreadsAreOwn
<1>1. ChatInv => OnlyOwnThreads
  <2> SUFFICES ASSUME ChatInv PROVE OnlyOwnThreads
    OBVIOUS
  <2>1. ASSUME NEW t \in Turn, NEW i \in turn[t].history, NEW u, u = conv[turn[t].conv].rows[i].turn
        PROVE  /\ turn[u].by = turn[t].by /\ turn[u].conv = turn[t].conv
               /\ turn[u].stage \in {"commit", "answered"} /\ u # t
    <3>1. PICK m \in TurnRecord : m = turn[t]
      BY StreamShapes DEF ChatInv
    <3>2. PICK c : c = m.conv
      OBVIOUS
    <3>3. /\ c # None /\ c \in Conv /\ Owned(c, m.by) /\ i \in Visible(c)
          /\ conv[c].rows[i].turn # t
      BY <2>1, <3>1, <3>2 DEF ChatInv, Threads, Addressed, TurnRecord
    <3>4. conv[c] # None /\ conv[c].owner = m.by /\ i \in DOMAIN conv[c].rows
      BY <3>3 DEF Owned, Visible
    <3>5. RowsSound(c)
      BY <3>3, <3>4 DEF ChatInv, Threads
    <3> QED  BY <2>1, <3>1, <3>2, <3>3, <3>4, <3>5 DEF RowsSound
  <2> QED  BY <2>1, OnceEach DEF OnlyOwnThreads
<1>2. ChatInv => AnswersBuildOnTheThread
  <2> SUFFICES ASSUME ChatInv, NEW t \in Turn, NEW u \in Turn,
                      AskedAfter(t, u), faults = 0, HistoryLimit >= 2,
                      "done" \in {heard[t][i] : i \in DOMAIN heard[t]},
                      Owned(turn[t].conv, Me),
                      turn[u].stage \notin {"none", "sent", "ensure", "history", "failed"},
                      \A w \in Turn : w \notin {t, u} => turn[w].conv # turn[t].conv
               PROVE  \E i \in turn[u].history : conv[turn[u].conv].rows[i] = Row(t, "tania", TRUE)
    BY DEF AnswersBuildOnTheThread
  <2>1. PICK q \in QueueRecord, told \in Seq(Event), read \in Seq(Event) :
          q = queue[t] /\ told = said[t] /\ read = heard[t]
    BY StreamShapes DEF ChatInv
  <2>2. Piped(q, wire[t], told, read) /\ Spoken(turn[t], wire[t].gone, told) /\ ~wire[t].gone
    BY <2>1 DEF ChatInv, Streamed, InTurn, InOrder
  <2>3. PICK i \in DOMAIN read : read[i] = "done"
    BY <2>1
  <2>4. i \in DOMAIN told /\ told[i] = "done"
    <3>1. q.handed \in Seq(Event) /\ q.buffer \in Seq(Event)
      BY DEF QueueRecord
    <3>2. PICK rest \in Seq(Event) : rest = q.handed \o q.buffer
      BY <3>1, Joined
    <3>3. told = read \o rest
      <4>1. told = (read \o q.handed) \o q.buffer
        BY <2>2 DEF Piped
      <4>2. \A h, b \in Seq(Event) : (read \o h) \o b = read \o (h \o b)
        BY Joined
      <4>3. (read \o q.handed) \o q.buffer = read \o (q.handed \o q.buffer)
        BY <3>1, <4>2, Zenon
      <4> QED  BY <3>2, <4>1, <4>3, Zenon
    <3>4. /\ Len(read \o rest) = Len(read) + Len(rest) /\ read \o rest \in Seq(Event)
          /\ \A k \in 1..Len(read) + Len(rest) :
               (read \o rest)[k] = IF k <= Len(read) THEN read[k] ELSE rest[k - Len(read)]
      BY ConcatProperties
    <3>5. i \in 1..Len(read) /\ Len(read) \in Nat /\ Len(rest) \in Nat
      BY <2>3
    <3>6. DOMAIN told = 1..Len(told)
      OBVIOUS
    <3> QED  BY <2>3, <3>3, <3>4, <3>5, <3>6
  <2>5. turn[t].stage = "answered"
    BY <2>2, <2>4 DEF Spoken
  <2> QED  BY <2>5 DEF ChatInv, InTurn, Building, Builds, Early
<1>3. ChatInv => ThreadsAreOwn
  BY <1>1, <1>2 DEF ThreadsAreOwn
<1> QED  BY <1>3, Invariance, PTL

(* An answer says truly who gave it and which tools it used: only planned  *)
(* tools the asker may use and no human must approve were called, and who  *)
(* it is attributed to earned it (brain.ts, agent-router.ts).              *)
THEOREM GovernedHolds == Spec => []AnswersAreGoverned
<1>1. ChatInv => OnlyAllowedTools
  <2> SUFFICES ASSUME ChatInv, NEW t \in Turn
               PROVE  /\ \A tool \in turn[t].called :
                           /\ Allowed(tool, Scopes[turn[t].by])
                           /\ ~RequiresApproval(tool, Threshold)
                           /\ \E i \in DOMAIN Plan(t) : Plan(t)[i] = tool
                      /\ turn[t].stage = "answered" /\ State(t) = "COMPLETED" =>
                           /\ turn[t].called = {Plan(t)[i] : i \in DOMAIN Plan(t)}
                           /\ \A i \in DOMAIN turn[t].used : turn[t].used[i].status = "SUCCEEDED"
    BY DEF OnlyAllowedTools
  <2>1. PICK m \in TurnRecord : m = turn[t] /\ Governed(m)
    BY StreamShapes DEF ChatInv
  <2>2. PICK plan : plan = Plan(t)
    OBVIOUS
  <2>3. plan = ToolPlan[m.intent]
    BY <2>1, <2>2 DEF Plan
  <2>4. ASSUME NEW tool \in m.called
        PROVE  /\ Allowed(tool, Scopes[m.by]) /\ ~RequiresApproval(tool, Threshold)
               /\ \E i \in DOMAIN plan : plan[i] = tool
    <3>1. m.intent # None
      BY <2>1 DEF Governed
    <3> QED  BY <2>1, <2>3, <3>1 DEF Governed
  <2>5. ASSUME m.stage = "answered", State(t) = "COMPLETED"
        PROVE  /\ m.called = {plan[i] : i \in DOMAIN plan}
               /\ \A i \in DOMAIN m.used : m.used[i].status = "SUCCEEDED"
    <3>1. m.intent # None /\ m.intent \in Intent /\ m.tool \in Nat \ {0} /\ m.used \in Seq(Use)
      BY <2>1, <2>5 DEF Governed, Early, TurnRecord
    <3>2. ~m.approval /\ \A i \in DOMAIN m.used : m.used[i].status \notin {"BLOCKED", "FAILED"}
      BY <2>1, <2>5 DEF State
    <3>3. DOMAIN plan = 1..Len(plan) /\ Len(plan) \in Nat
      BY <2>3, <3>1, PlanFacts
    <3>4. m.tool = Len(plan) + 1 /\ Len(m.used) = Len(plan)
      BY <2>1, <2>3, <2>5, <3>1, <3>2, <3>3 DEF Governed
    <3>5. ASSUME NEW i \in 1..Len(plan)
          PROVE  m.used[i].status = "SUCCEEDED" /\ plan[i] \in m.called
      <4>1. i \in DOMAIN m.used /\ m.used[i] \in Use
        BY <3>1, <3>3, <3>4
      <4>2. /\ m.used[i].status # "AWAITING_APPROVAL"
            /\ m.used[i].status = "SUCCEEDED" => plan[i] \in m.called
        BY <2>1, <2>3, <3>1, <3>3, <3>4 DEF Governed
      <4> QED  BY <3>2, <4>1, <4>2 DEF Use
    <3>6. DOMAIN m.used = 1..Len(plan)
      BY <3>1, <3>4
    <3> QED  BY <2>4, <3>3, <3>5, <3>6
  <2> QED  BY <2>1, <2>2, <2>4, <2>5
<1>2. ChatInv => AttributionsAreEarned
  <2> SUFFICES ASSUME ChatInv, NEW t \in Turn, turn[t].agent # None
               PROVE  LET words == turn[t].message.words
                          agent == turn[t].agent
                          Counted(a) == IF words[a] > 3 THEN 3 ELSE words[a]
                      IN  /\ (\E a \in Agent : words[a] > 0) => words[agent] > 0
                          /\ turn[t].intent \notin Agents[agent].intents =>
                               \A a \in Agent : words[a] > 0 /\ turn[t].intent \in Agents[a].intents =>
                                 Counted(agent) >= Counted(a) + 2
    BY DEF AttributionsAreEarned
  <2>1. PICK m \in TurnRecord : m = turn[t] /\ Governed(m)
    BY StreamShapes DEF ChatInv
  <2>2. m.intent # None /\ m.message # None /\ m.agent = Route(m.intent, m.message.words)
    BY <2>1 DEF Governed
  <2>3. m.message \in Question
    BY <2>2 DEF TurnRecord
  <2> QED  BY <2>1, <2>2, <2>3, RouteIsEarned
<1>3. ChatInv => AnswersAreGoverned
  BY <1>1, <1>2 DEF AnswersAreGoverned
<1> QED  BY <1>3, Invariance, PTL
=============================================================================
