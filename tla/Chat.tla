-------------------------------- MODULE Chat --------------------------------
(***************************************************************************)
(* A conversation with TANIA: the portal page (workspace.tsx and           *)
(* TaniaChatClient), the SSE response and its event queue, the chat        *)
(* service, the Brain's loop and the transcript store, which is a map of   *)
(* the web process or the sessions backend. Other callers (another tab, an *)
(* API client, the deprecated /api/chat) ask through the same service and  *)
(* may name any conversation.                                              *)
(*                                                                         *)
(* An answer's text is the number of its parts. What the model provider,   *)
(* the retriever and the runtime return is chosen by the environment.      *)
(***************************************************************************)
EXTENDS Routing

CONSTANTS
  Actor,         \* people; Me is the one at the page
  Me,
  Scopes,        \* the scopes of each actor
  MaxConvs,      \* bound: conversation ids minted
  MaxTurns,      \* bound: questions asked in a behaviour
  Message,       \* the message of each turn asked at the page, see Routing
  Calls,         \* what others ask: [kind, by, message], kind "json" or "legacy"
  Parts,         \* bound: parts of an answer
  HistoryLimit,  \* HISTORY_LIMIT, in messages
  Threshold,     \* risk from which a tool waits for a human
  MaxFaults      \* bound: calls that fail and streams that are cut short

Turn == 1..MaxTurns

(* Ids are random, and so all alike: they are minted in order.             *)
Conv == 1..MaxConvs

(* A message row: whose turn, question or answer, and whether committed.   *)
MessageRow == [turn : Turn, role : {"user", "tania"}, live : BOOLEAN]

Conversation == [owner : Actor, rows : Seq(MessageRow)]

ASSUME ChatAssumption ==
  /\ Me \in Actor
  /\ Scopes \in [Actor -> SUBSET Scope]
  /\ Message \in [Turn -> Question]
  /\ Calls \subseteq [kind : {"json", "legacy"}, by : Actor, message : Question]
  /\ {MaxTurns, MaxConvs, Parts, HistoryLimit, MaxFaults} \subseteq Nat
  /\ Threshold \in RiskLevel
  /\ None \notin Turn /\ None \notin Conv /\ None \notin Conversation
  /\ None \notin Intent /\ None \notin Agent /\ None \notin Question

VARIABLES
  store,    \* "memory" or "backend": the transcript store configured
  conv,     \* stored conversations: owner and message rows
  minted,   \* conversation ids in use, stored or not
  turn,     \* each turn on the server
  queue,    \* the AsyncEventQueue of each streamed turn
  wire,     \* its SSE response
  said,     \* events a turn reported, for the properties
  heard,    \* events the page read of it, for the properties
  page,     \* the state of the workspace component
  faults    \* faults so far

vars == <<store, conv, minted, turn, queue, wire, said, heard, page, faults>>
server == <<store, conv, minted, turn>>
stream == <<queue, wire, said>>

Mint == CHOOSE c \in Conv : c \notin minted /\ \A d \in 1..(c - 1) : d \in minted

NoTurn ==
  [stage |-> "none", kind |-> "stream", by |-> Me, message |-> None, asked |-> None,
   conv |-> None, history |-> {}, intent |-> None, agent |-> None, phase |-> None,
   tool |-> 1, used |-> <<>>, called |-> {}, approval |-> FALSE, sources |-> FALSE,
   text |-> 0, whole |-> FALSE]

NewQueue == [buffer |-> <<>>, waiting |-> TRUE, handed |-> <<>>, closed |-> FALSE]
NewWire  == [ended |-> FALSE, gone |-> FALSE]

EmptyPage ==
  [conv |-> None, busy |-> None, view |-> {}, result |-> FALSE, failure |-> FALSE,
   opening |-> FALSE]

Init ==
  /\ store \in {"memory", "backend"}
  /\ conv = [c \in Conv |-> None]
  /\ minted = {}
  /\ turn = [t \in Turn |-> NoTurn]
  /\ queue = [t \in Turn |-> NewQueue]
  /\ wire = [t \in Turn |-> NewWire]
  /\ said = [t \in Turn |-> <<>>]
  /\ heard = [t \in Turn |-> <<>>]
  /\ page = EmptyPage
  /\ faults = 0

-----------------------------------------------------------------------------
(* AsyncEventQueue: a reader that waits is handed the event, otherwise it  *)
(* is buffered; nothing is taken once the queue closed.                    *)

(* Mutant of Pushed: the waiting reader gets the event and so does the buffer. *)
PushedTwice(q, events) ==
  IF q.closed \/ events = <<>> THEN q
  ELSE IF q.waiting
       THEN [q EXCEPT !.waiting = FALSE, !.handed = <<events[1]>>, !.buffer = @ \o events]
       ELSE [q EXCEPT !.buffer = @ \o events]

(* Mutant of Pushed: all events of a step are handed over, one is meant.   *)
PushedAtOnce(q, events) ==
  IF q.closed \/ events = <<>> THEN q
  ELSE IF q.waiting THEN [q EXCEPT !.waiting = FALSE, !.handed = events]
       ELSE [q EXCEPT !.buffer = @ \o events]

Pushed(q, events) ==
  IF q.closed \/ events = <<>> THEN q
  ELSE IF q.waiting
       THEN [q EXCEPT !.waiting = FALSE, !.handed = <<events[1]>>, !.buffer = @ \o Tail(events)]
       ELSE [q EXCEPT !.buffer = @ \o events]

Closed(q) == [q EXCEPT !.closed = TRUE, !.waiting = FALSE]

(* Hooks exist only for a streamed turn; what it reports once its reader   *)
(* is gone stays in a buffer nobody empties, and is left out.              *)
Told(t, events) == IF turn[t].kind = "stream" /\ ~wire[t].gone THEN events ELSE <<>>

Report(t, events) ==
  LET told == Told(t, events)
  IN  /\ queue' = [queue EXCEPT ![t] = Pushed(@, told)]
      /\ said' = [said EXCEPT ![t] = @ \o told]
      /\ UNCHANGED wire

ReportLast(t, events) ==
  LET told == Told(t, events)
  IN  /\ queue' = [queue EXCEPT ![t] = Closed(Pushed(@, told))]
      /\ said' = [said EXCEPT ![t] = @ \o told]
      /\ UNCHANGED wire

(* reportPhase: the service and the Brain both report, a client sees it once. *)
Phase(last, phase) == IF phase = last THEN <<>> ELSE <<phase>>

(* The web process runs a handler until it awaits: while one is deciding   *)
(* on its tools no other moves.                                            *)
Awaiting == \A t \in Turn : turn[t].stage # "tools"

Quiet == UNCHANGED stream
PageStays == UNCHANGED <<heard, page>>
MayFail == faults < MaxFaults
Fault == MayFail /\ faults' = faults + 1

-----------------------------------------------------------------------------
(* The transcript store. *)

Owned(c, actor) == conv[c] # None /\ conv[c].owner = actor
Foreign(c, actor) == conv[c] # None /\ conv[c].owner # actor
NewRow(actor) == [owner |-> actor, rows |-> <<>>]

(* Rows are known by their place. Nobody else sees those of a transaction  *)
(* under way, and nobody ever those of one that was rolled back.           *)
Visible(c) == {i \in DOMAIN conv[c].rows : conv[c].rows[i].live}

LastOf(places) == {i \in places : Cardinality({j \in places : j > i}) < HistoryLimit}

(* Mutant of HistoryOf: whoever names a conversation is told what was said. *)
HistoryOfAnyone(c, actor) == IF conv[c] # None THEN LastOf(Visible(c)) ELSE {}

(* Somebody else's conversation reads as an unknown one: empty.            *)
HistoryOf(c, actor) == IF Owned(c, actor) THEN LastOf(Visible(c)) ELSE {}

-----------------------------------------------------------------------------
(* The page asks, and the request is accepted or refused. *)

Fresh(t) == turn[t].stage = "none" /\ \A u \in 1..(t - 1) : turn[u].stage # "none"

Asking(t, kind, actor, message, c) ==
  turn' = [turn EXCEPT ![t] = [@ EXCEPT !.stage = "sent", !.kind = kind, !.by = actor,
                                        !.message = message, !.asked = c]]

(* The bubbles of the page, one for each question, show in the order asked. *)
Placeholder(t) == [turn |-> t, text |-> 0, done |-> FALSE]

Without(t) == {b \in page.view : b.turn # t}

(* send(): typed, spoken, a suggestion or a retry; ignored while busy.     *)
Ask(t) ==
  /\ Fresh(t) /\ page.busy = None
  /\ Asking(t, "stream", Me, Message[t], page.conv)
  /\ page' = [page EXCEPT !.busy = t, !.view = @ \cup {Placeholder(t)},
                          !.result = FALSE, !.failure = FALSE]
  /\ UNCHANGED <<store, conv, minted, stream, heard, faults>>

(* A JSON turn, or one of the deprecated /api/chat, from anywhere.         *)
Elsewhere(t, call, c) ==
  /\ Fresh(t)
  /\ Asking(t, call.kind, call.by, call.message, c)
  /\ UNCHANGED <<store, conv, minted, stream, heard, page, faults>>

(* Mutant of Failed: busy is cleared only after an answer.                 *)
FailedBusy(t) ==
  IF page.busy = t
  THEN [page EXCEPT !.failure = TRUE, !.view = Without(t)]
  ELSE page

(* The catch of send(): the placeholder goes, the failure shows.           *)
Failed(t) ==
  IF page.busy = t
  THEN [page EXCEPT !.busy = None, !.failure = TRUE, !.view = Without(t)]
  ELSE page

(* No actor, a foreign origin, the rate limit, an invalid body, no network. *)
Refuse(t) ==
  /\ turn[t].stage = "sent"
  /\ turn' = [turn EXCEPT ![t].stage = "failed"]
  /\ page' = Failed(t)
  /\ UNCHANGED <<store, conv, minted, stream, heard, faults>>

Accept(t) ==
  /\ turn[t].stage = "sent"
  /\ minted # Conv
  /\ LET c == IF turn[t].asked = None THEN Mint ELSE turn[t].asked
     IN  /\ minted' = minted \cup {c}
         /\ turn' = [turn EXCEPT ![t].stage = "ensure", ![t].conv = c]
  /\ UNCHANGED <<store, conv, stream, heard, page, faults>>

-----------------------------------------------------------------------------
(* TaniaChatService.chat. *)

(* ensureSession, whose failure costs nothing: creating is idempotent and  *)
(* a foreign conversation is left to its owner.                            *)
Ensured(c, actor) ==
  \/ conv' = [conv EXCEPT ![c] = IF @ = None THEN NewRow(actor) ELSE @] /\ UNCHANGED faults
  \/ UNCHANGED conv /\ Fault

(* onAccepted, then the first phase. *)
Announced(t, history) ==
  /\ turn' = [turn EXCEPT ![t].stage = "classify", ![t].history = history,
                          ![t].phase = "UNDERSTANDING"]
  /\ Report(t, <<"accepted", "UNDERSTANDING">>)

Ensure(t) ==
  /\ turn[t].stage = "ensure"
  /\ Ensured(turn[t].conv, turn[t].by)
  /\ IF turn[t].asked = None \/ turn[t].kind = "legacy"
     THEN Announced(t, {})
     ELSE turn' = [turn EXCEPT ![t].stage = "history"] /\ Quiet
  /\ UNCHANGED <<store, minted>> /\ PageStays

LoadHistory(t) ==
  /\ turn[t].stage = "history"
  /\ \/ Announced(t, HistoryOf(turn[t].conv, turn[t].by)) /\ UNCHANGED faults
     \/ Announced(t, {}) /\ Fault
  /\ UNCHANGED <<store, conv, minted>> /\ PageStays

(* The intent, the routed agent (attribution only), and the Brain starts.  *)
Classify(t) ==
  /\ turn[t].stage = "classify"
  /\ LET intent == Classified(turn[t].message)
     IN  turn' = [turn EXCEPT ![t].stage = "tools", ![t].intent = intent,
                              ![t].agent = Route(intent, turn[t].message.words),
                              ![t].phase = "PLANNING"]
  /\ Report(t, <<"intent">> \o Phase(turn[t].phase, "UNDERSTANDING") \o <<"PLANNING">>)
  /\ UNCHANGED <<store, conv, minted, faults>> /\ PageStays
-----------------------------------------------------------------------------
(* TaniaBrain.ask: the planned tools in order; after a gate the rest are   *)
(* only listed as held.                                                    *)

Plan(t) == ToolPlan[turn[t].intent]
Current(t) == Plan(t)[turn[t].tool]
Planning(t) ==
  turn[t].stage = "tools" /\ ~turn[t].approval /\ turn[t].tool <= Len(Plan(t))

Used(t, status) == Append(turn[t].used, [tool |-> Current(t), status |-> status])

BlockTool(t) ==
  /\ Planning(t) /\ ~Allowed(Current(t), Scopes[turn[t].by])
  /\ turn' = [turn EXCEPT ![t].used = Used(t, "BLOCKED"), ![t].tool = @ + 1]
  /\ Quiet /\ UNCHANGED <<store, conv, minted, faults>> /\ PageStays

(* Mutant of Gated: the threshold is exclusive. *)
GatedAbove(tool) == Rank[Registry[tool].risk] > Rank[Threshold]

Gated(tool) == RequiresApproval(tool, Threshold)

(* The turn ends in an error event, or an error response.                  *)
Errored(t) ==
  /\ turn' = [turn EXCEPT ![t].stage = "failed"]
  /\ ReportLast(t, <<"error">>)

(* approvals.save: the backend wants the session row, and the caller's own. *)
GateTool(t) ==
  /\ Planning(t) /\ Allowed(Current(t), Scopes[turn[t].by]) /\ Gated(Current(t))
  /\ \/ /\ store = "backend" => Owned(turn[t].conv, turn[t].by)
        /\ turn' = [turn EXCEPT ![t].used = Used(t, "AWAITING_APPROVAL"), ![t].approval = TRUE]
        /\ Quiet /\ UNCHANGED faults
     \/ /\ store = "backend" /\ ~Owned(turn[t].conv, turn[t].by)
        /\ Errored(t) /\ UNCHANGED faults
     \/ Errored(t) /\ Fault
  /\ UNCHANGED <<store, conv, minted>> /\ PageStays

Stage(tool) == IF tool = "knowledge_search" THEN "RETRIEVING" ELSE "EXECUTING"

CallTool(t) ==
  /\ Planning(t) /\ Allowed(Current(t), Scopes[turn[t].by]) /\ ~Gated(Current(t))
  /\ turn' = [turn EXCEPT ![t].stage = "calling", ![t].called = @ \cup {Current(t)},
                          ![t].phase = Stage(Current(t))]
  /\ Report(t, <<Stage(Current(t))>>)
  /\ UNCHANGED <<store, conv, minted, faults>> /\ PageStays

(* The retriever found something readable or nothing; the runtime          *)
(* succeeded or failed; either call may throw.                             *)
ToolReturns(t) ==
  /\ turn[t].stage = "calling"
  /\ \/ /\ Current(t) = "knowledge_search"
        /\ \E found \in BOOLEAN :
             turn' = [turn EXCEPT ![t].stage = "tools", ![t].used = Used(t, "SUCCEEDED"),
                                  ![t].tool = @ + 1, ![t].sources = found]
        /\ Report(t, <<"sources">>) /\ UNCHANGED faults
     \/ /\ Current(t) # "knowledge_search"
        /\ \/ turn' = [turn EXCEPT ![t].stage = "tools", ![t].used = Used(t, "SUCCEEDED"),
                                   ![t].tool = @ + 1] /\ UNCHANGED faults
           \/ turn' = [turn EXCEPT ![t].stage = "tools", ![t].used = Used(t, "FAILED"),
                                   ![t].tool = @ + 1] /\ Fault
        /\ Quiet
     \/ Errored(t) /\ Fault
  /\ UNCHANGED <<store, conv, minted>> /\ PageStays

StartAnswer(t) ==
  /\ turn[t].stage = "tools" /\ ~Planning(t)
  /\ turn' = [turn EXCEPT ![t].stage = "compose", ![t].phase = "COMPOSING"]
  /\ Report(t, <<"COMPOSING">>)
  /\ UNCHANGED <<store, conv, minted, faults>> /\ PageStays

Delta(t) ==
  /\ turn[t].stage = "compose" /\ turn[t].kind = "stream" /\ turn[t].text < Parts
  /\ turn' = [turn EXCEPT ![t].text = @ + 1]
  /\ Report(t, <<"delta">>)
  /\ UNCHANGED <<store, conv, minted, faults>> /\ PageStays

(* The model ends its answer, or its connection just ends: the provider    *)
(* reports both as the end. Without hooks the whole answer is one call.    *)
Answered(t, text, whole) ==
  /\ turn' = [turn EXCEPT ![t].stage = "record", ![t].text = text, ![t].whole = whole,
                          ![t].phase = "VERIFYING"]
  /\ Report(t, <<"VERIFYING">>)

FinishAnswer(t) ==
  /\ turn[t].stage = "compose"
  /\ \/ /\ turn[t].kind = "stream" => turn[t].text = Parts
        /\ Answered(t, Parts, TRUE) /\ UNCHANGED faults
     \/ /\ turn[t].kind = "stream" /\ turn[t].text < Parts
        /\ Answered(t, turn[t].text, FALSE) /\ Fault
     \/ Errored(t) /\ Fault
  /\ UNCHANGED <<store, conv, minted>> /\ PageStays
-----------------------------------------------------------------------------
(* persist, best effort, and the response. *)

(* toChatState. *)
State(t) ==
  LET statuses == {turn[t].used[i].status : i \in DOMAIN turn[t].used}
  IN  IF turn[t].approval THEN "AWAITING_APPROVAL"
      ELSE IF "BLOCKED" \in statuses THEN "BLOCKED"
      ELSE IF "FAILED" \in statuses THEN "FAILED"
      ELSE "COMPLETED"

Row(t, role, live) == [turn |-> t, role |-> role, live |-> live]

Responded(t) ==
  /\ turn' = [turn EXCEPT ![t].stage = "answered"]
  /\ ReportLast(t, <<"done">>)

(* The process-local map: both rows at once; a missing conversation is     *)
(* created, somebody else's is refused.                                    *)
RecordInMemory(t) ==
  /\ turn[t].stage = "record" /\ store = "memory"
  /\ LET c == turn[t].conv
     IN  conv' = IF Foreign(c, turn[t].by) THEN conv
                 ELSE [conv EXCEPT ![c] =
                   [owner |-> turn[t].by,
                    rows |-> (IF conv[c] = None THEN <<>> ELSE conv[c].rows)
                               \o <<Row(t, "user", TRUE), Row(t, "tania", TRUE)>>]]
  /\ Responded(t)
  /\ UNCHANGED <<store, minted, faults>> /\ PageStays

(* The backend writes the question, then the answer, in one transaction;   *)
(* rows are read back by their time of writing.                            *)
BeginRecord(t) ==
  /\ turn[t].stage = "record" /\ store = "backend"
  /\ \/ /\ Owned(turn[t].conv, turn[t].by)
        /\ conv' = [conv EXCEPT ![turn[t].conv].rows = Append(@, Row(t, "user", FALSE))]
        /\ turn' = [turn EXCEPT ![t].stage = "commit"]
        /\ Quiet /\ UNCHANGED faults
     \/ /\ ~Owned(turn[t].conv, turn[t].by)
        /\ Responded(t) /\ UNCHANGED <<conv, faults>>
     \/ Responded(t) /\ Fault /\ UNCHANGED conv
  /\ UNCHANGED <<store, minted>> /\ PageStays

Committed(rows, t) ==
  Append([i \in DOMAIN rows |-> IF rows[i].turn = t THEN Row(t, "user", TRUE) ELSE rows[i]],
         Row(t, "tania", TRUE))

(* The call may fail though the transaction committed, or roll back.       *)
CommitRecord(t) ==
  /\ turn[t].stage = "commit"
  /\ \/ conv' = [conv EXCEPT ![turn[t].conv].rows = Committed(@, t)]
        /\ (UNCHANGED faults \/ Fault)
     \/ UNCHANGED conv /\ Fault
  /\ Responded(t)
  /\ UNCHANGED <<store, minted>> /\ PageStays

-----------------------------------------------------------------------------
(* toSseResponse: the loop that pulls the queue and writes to the wire.    *)

Viewed(t, Change(_)) ==
  {IF b.turn = t THEN Change(b) ELSE b : b \in page.view}

OneMore(b) == [b EXCEPT !.text = @ + 1]

(* streamChat: what the page makes of an event. *)
Understood(t, event) ==
  CASE event = "accepted" -> [page EXCEPT !.conv = turn[t].conv]
    [] event = "delta"    -> [page EXCEPT !.view = Viewed(t, OneMore)]
    [] event = "done"     -> [page EXCEPT !.result = TRUE]
    [] event = "error"    -> Failed(t)
    [] OTHER              -> page

(* The event read is gone from where it was. *)
Taken(q) ==
  IF q.handed # <<>> THEN [q EXCEPT !.handed = <<>>] ELSE [q EXCEPT !.buffer = Tail(@)]

(* The iterator asks for the next event: it waits when there is none yet.  *)
Polled(q) == [q EXCEPT !.waiting = q.buffer = <<>> /\ ~q.closed]

Pulling(t) ==
  /\ turn[t].kind = "stream" /\ turn[t].conv # None
  /\ ~wire[t].ended /\ ~wire[t].gone

(* An event is written, and read by the page.                              *)
PumpEvent(t) ==
  /\ Pulling(t)
  /\ queue[t].handed \o queue[t].buffer # <<>>
  /\ queue' = [queue EXCEPT ![t] = Polled(Taken(@))]
  /\ LET event == Head(queue[t].handed \o queue[t].buffer)
     IN  /\ heard' = [heard EXCEPT ![t] = Append(@, event)]
         /\ page' = IF page.busy = t THEN Understood(t, event) ELSE page
  /\ UNCHANGED <<server, wire, said, faults>>

(* The queue closed and is empty: the response ends. *)
PumpEnd(t) ==
  /\ Pulling(t)
  /\ queue[t].closed /\ queue[t].handed \o queue[t].buffer = <<>>
  /\ wire' = [wire EXCEPT ![t].ended = TRUE]
  /\ UNCHANGED <<server, queue, said, heard, page, faults>>

-----------------------------------------------------------------------------
(* send() on the page. *)

Completed(t, b) == [b EXCEPT !.text = turn[t].text, !.done = TRUE]

(* The stream ended: the response if there was one, INCOMPLETE otherwise.  *)
EndStream(t) ==
  /\ page.busy = t /\ wire[t].ended
  /\ page' = IF page.result
             THEN [page EXCEPT !.busy = None, !.conv = turn[t].conv,
                               !.view = Viewed(t, LAMBDA b : Completed(t, b))]
             ELSE Failed(t)
  /\ UNCHANGED <<server, stream, heard, faults>>

(* The reader is gone: cancel() runs or enqueue() throws, the loop stops   *)
(* pulling, and the turn goes on by itself.                                *)
Abandoned(t, ended) ==
  /\ page.busy = t /\ ~wire[t].gone /\ ~wire[t].ended
  /\ Fault
  /\ wire' = [wire EXCEPT ![t] = [gone |-> TRUE, ended |-> ended]]
  /\ queue' = [queue EXCEPT ![t] = NewQueue]
  /\ said' = [said EXCEPT ![t] = <<>>]
  /\ heard' = [heard EXCEPT ![t] = <<>>]
  /\ UNCHANGED server

(* A spoken turn is aborted, or the connection breaks.                     *)
Break(t) == Abandoned(t, FALSE) /\ page' = Failed(t)

(* A proxy ends the response early, and cleanly.                           *)
CutShort(t) == Abandoned(t, TRUE) /\ turn[t].conv # None /\ UNCHANGED page

(* startNewConversation: the list empties at once, the id changes when the *)
(* reply arrives; questions may be sent meanwhile.                         *)
OpenConversation ==
  /\ page.busy = None /\ ~page.opening /\ page.view # {}
  /\ page' = [page EXCEPT !.view = {}, !.failure = FALSE, !.opening = TRUE]
  /\ UNCHANGED <<server, stream, heard, faults>>

Opened ==
  /\ page.opening
  /\ \/ /\ minted # Conv /\ minted' = minted \cup {Mint}
        /\ Ensured(Mint, Me)
        /\ page' = [page EXCEPT !.conv = Mint, !.opening = FALSE]
     \/ /\ Fault
        /\ page' = [page EXCEPT !.conv = None, !.opening = FALSE]
        /\ UNCHANGED <<minted, conv>>
  /\ UNCHANGED <<store, turn, stream, heard>>

-----------------------------------------------------------------------------
Serve(t) ==
  \/ BlockTool(t) \/ GateTool(t) \/ CallTool(t) \/ StartAnswer(t)
  \/ /\ Awaiting
     /\ \/ Accept(t) \/ Ensure(t) \/ LoadHistory(t) \/ Classify(t)
        \/ ToolReturns(t) \/ Delta(t) \/ FinishAnswer(t)
        \/ RecordInMemory(t) \/ BeginRecord(t) \/ CommitRecord(t)

Pump(t) == Awaiting /\ (PumpEvent(t) \/ PumpEnd(t))

Next ==
  \/ \E t \in Turn : \/ Ask(t)
                     \/ Serve(t) \/ Pump(t) \/ EndStream(t)
                     \/ Refuse(t) \/ Break(t) \/ CutShort(t)
                     \/ \E call \in Calls, c \in minted : Elsewhere(t, call, c)
  \/ OpenConversation
  \/ Opened

Spec == Init /\ [][Next]_vars

(* The process keeps serving, the loop keeps pulling, the page reading.    *)
FairSpec ==
  /\ Spec
  /\ \A t \in Turn : WF_vars(Serve(t)) /\ WF_vars(Pump(t)) /\ WF_vars(EndStream(t))
=============================================================================
