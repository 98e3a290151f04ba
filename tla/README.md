# TANIA portal: specifications, model runs and proofs

TANIA is an enterprise assistant: a Next.js portal (`src/apps/web`) that routes
a request to a specialist agent, plans it with a controlled registry of tools,
holds risky actions behind a human decision, carries them out through the
JARVIS runtime (`src/apps/runtime`) and records everything in a NestJS backend
on PostgreSQL (`src/apps/api`). These modules model the parts of it where steps
of several actors meet, state what they promise, check it with TLC on small
instances and prove the central results with TLAPS for every value of the
constants.

Paths below are relative to the repository. `web/lib` stands for
`src/apps/web/src/lib`.

## 1. Inventory

What the system consists of, what each part remembers, what it does, and what
would make it wrong. `PROJECT.json` lists the same components with their files.

**Task orchestrator** (`web/lib/orchestration`, `POST /api/tania/tasks`,
`/tasks/:id/decision`, `POST /api/approvals`). State: one TaskReport per task
(status, plan with per-action status and approval id) and one record per
approval. Operations: start, resume, cancel, decide. Each request keeps a
private copy of the report between awaits and writes it back whole; nothing is
saved between the first save and parking or settling. Hard: overlapping
requests on one task, a second gate raised mid-run, retries, compensation,
decisions from somebody other than the task owner, a process lost half-way.
Right when: nothing guarded runs without a decision or twice, reports are true,
endings are final, no task is stuck, no gate is orphaned.

**Tool registry and policy** (`web/lib/tania/tools`, `src/packages/types/src/task.ts`).
Stateless tables: six tools with risk, scope and reversibility, the approval
threshold, the task transition table. Shared by every door.

**TANIA Brain** (`web/lib/tania/brain.ts`). The conversational path: intent,
retrieval, planning, tool calls, answer; `resolveApproval` executes an action
approved in a conversation. The latter is part of the orchestrator model (the
two paths share the approvals inbox), the former of the chat model.

**Approvals, sessions and audit backend** (`src/apps/api/src/{approvals,sessions,audit}`).
State: approval, session and turn rows; audit events chained by hash. Each
request checks outside a transaction, then writes and appends to the chain in
one. Hard: READ COMMITTED, row locks and an advisory lock, lost transactions,
verification that pages through a chain while it grows. Right when: rows and
chain move together, the chain never forks, verification answers correctly,
nobody waits for ever.

**Runtime adapter and JARVIS runtime** (`web/lib/tania/runtime`,
`src/apps/runtime/src`). One door from TANIA to JARVIS: dispatch with
admission, timeouts, retries, cancellation; ten simulated capabilities and HTTP
ones; on the other side a service with tools, files, skills, sessions. Hard:
an attempt given up may still run; answers get lost; the caller walks away.
Right when: nothing unapproved runs, reports are true, everybody is answered.

**Rate limiting** (`web/lib/governance/policies`). State: a counter per key in
Redis, a map of counters per process, a degraded flag with a cooldown. Hard:
Redis failing before or after it counted, keys without an expiry, late
execution. Right when: each counter holds its limit, refusals are earned,
`Retry-After` is honest, memory is bounded, degradation is visible.

**Voice and avatar** (`web/lib/voice`, `web/lib/avatar`, `src/apps/web/src/components/tania`).
State: one visible state (IDLE, LISTENING, PROCESSING, SPEAKING, ERROR), the
current recognition, utterance and microphone stream; the pose on the avatar's
command bus and its moving mouth. Hard: every step waits for the browser, the
user or the Brain, the button can be pressed between any two of them, and page
and voice command one avatar. Right when: one recognition at a time, state and
face are the true ones, silence after a stop, every turn ends, the microphone
is released.

**Chat stream** (`web/lib/tania/services`, `web/lib/http/sse.ts`, transcript
stores, the page that asks). State: an event queue per stream, the SSE
response, the transcript, what the page shows. Hard: events before, during and
after a reader waits; a client that leaves; calls that fail half-way; other
callers on the same conversations. Right when: events arrive once and in order
and the last is `done` or `error`; what shows as an answer is one and is on
record; nobody reads or extends another's conversation; only allowed tools run.

**Agent routing** (`web/lib/agents`, `web/lib/tania/intent.ts`): nine
specialists with intents, tools and a risk ceiling, a keyword router. Functions
without state; right when an attribution is earned.

**Knowledge and retrieval** (`web/lib/knowledge`, `src/packages/tania/src/knowledge`).
State: documents, a dense and a keyword index, the promise of the first
indexing. Hard: ingestion, removal and search each wait several times; the
keyword index is rebuilt from what was listed earlier; an embedding fails after
the store has the new revision. Right when: nothing unreadable or replaced is
cited, indexes follow the store, an answer rests on passages or says it has
none.

**Identity** (`web/lib/identity`, `src/apps/web/src/app/api/auth`, `src/apps/api/src/auth`).
State: the parked sign-in and the session, both in signed cookies; nothing on
the server. Hard: two tabs share the cookies, sign-ins expire, the directory
changes while a session lives. Right when: only the sign-in a browser began
last opens a session, and a revocation takes effect in bounded time.

**Workspace backend, governance records and memory** (`src/apps/api/src/workspace`,
`web/lib/tania/durable`, `web/lib/governance/audit`). State: task reports,
memory records and governance events, in the backend or in the process. Hard:
answers that come late or not at all, several removals of which one is refused,
a restart. Right when: what a request is told is true of the records, and
nobody is shown what only an auditor may see.

**Insights and evaluation** (`web/lib/insights`, `web/lib/governance/ai-evaluation`).
State: the insights known, per process. Hard: two scans at once, sources that
fail, a list that is full, two places that judge one history. Right when: each
subject is kept once, nothing found is lost, alarms and quality numbers agree.

**HTTP validation and configuration**: parsing, left out (section 8).

**User interface** (`src/apps/web/src/components`) is layout and wording;
`src/apps/api/.agents` is vendored documentation.

### How they interact

The routes call the guard (rate limit), resolve the actor, and then either the
chat service (→ Brain → retriever, LLM, runtime) or the orchestrator (→ agent →
tool invoker → runtime). Both raise approvals in one store, which is process
memory or the backend; `POST /api/approvals` looks the gate up among the
actor's tasks and resumes one, or hands it to the Brain. With the backend
configured, task reports, approvals and turns are HTTP calls, each of which is
one audited transaction there. The voice controller lives in the page and asks
its questions through the chat stream. Every request acts for the actor of the
session cookie; governance records and memory are written on that actor's
behalf, and task history is what insights and evaluation read.

## 2. Modules

| Module | Role |
|---|---|
| `ToolPolicy` | registry, policy and transition table, as functions |
| `GovernedTask` | abstract: what a governed task promises |
| `Orchestrator` | orchestrator, doors, both stores, Brain's execution of approved actions |
| `OrchestratorProperties` | its properties, and the mapping onto `GovernedTask` |
| `Orchestrator_proof` | inductive invariant, theorems and proofs for any number of handlers; the same for requests served one at a time, and the step-simulation of `GovernedTask` |
| `MCOrchestrator` | constants for TLC |
| `AuditedLedger` | abstract: rows and audit entries change together |
| `Ledger` | the backend's transactions, locks, chain and verification |
| `LedgerProperties`, `MCLedger` | its properties; constants |
| `Ledger_proof` | inductive invariant, theorems, the step-simulation of `AuditedLedger` |
| `RuntimeCapabilities` | what both ends of the runtime contract know, as functions |
| `RuntimeDispatch` | adapter, network and service |
| `RuntimeDispatchProperties`, `MCRuntime` | its properties; constants |
| `RuntimeDispatch_proof` | inductive invariant, theorems and proofs |
| `RateLimiter` | guard, Redis counter, fallback |
| `RateLimiterProperties`, `MCRateLimiter` | its properties; constants |
| `RateLimiter_proof` | inductive invariant, theorems and proofs |
| `Voice`, `Avatar` | voice controller and adapters; pose and mouth, as functions of the same state |
| `VoiceProperties` | their properties |
| `Voice_proof` | inductive invariant, theorems and proofs |
| `Routing` | intents, planned tools, specialists and their choice, as functions; extends `ToolPolicy` |
| `Chat` | page, SSE stream, event queue, chat service, the Brain's answer path, transcript |
| `ChatProperties`, `MCChat` | its properties; constants |
| `Chat_proof` | inductive invariant, theorems and proofs, the router's among them |
| `Permissions` | classification, scopes, access lists, the shipped corpus, as functions |
| `Ranking` | fusion, reranking, grounding and confidence, as functions |
| `Knowledge` | ingestion, removal and search over the store and both indexes |
| `KnowledgeProperties`, `MCKnowledge` | its properties; constants |
| `Knowledge_proof` | inductive invariants, theorems and proofs, those of `Insights` among them |
| `SignIn` | sign-in, session, directory |
| `Records` | what requests write and read under a session; extends `SignIn` |
| `AccessProperties`, `MCAccess` | the properties of both; constants |
| `Access_proof` | sign-in and records: inductive invariants, theorems and proofs |
| `Insights` | scans, detectors, the list, the evaluator |
| `InsightsProperties`, `MCInsights` | its properties; constants |

Definitions that begin "Mutant of" or that no action uses are plausible bugs of
the definition below them. `PROJECT.json` pairs each property with the one that
must break it, so that no property holds by accident.

### Correspondence with the code

*Granularity.* JavaScript runs to the next `await`. An action is the code
between two awaits on something another request can see (a store, the runtime,
Redis, a browser event); awaits on nothing shared are not interleaving points.
What a request holds meanwhile is its own record: `h[r]` (Orchestrator, Ledger),
`job[c]` (RuntimeDispatch), `call[q]` (RateLimiter). In Voice the microtasks a
callback settles are part of its action, as functions of the state.

*Orchestrator.* `tasks[t]` is what the task store holds, `gates[g]` an approval
record. `StartTask … Park` is `start`; `LoadParked, CheckGate, BeginRun` is
`resume`; `SkipAction … ExecuteFails` is the execution manager with the governed
invoker in it; `Compensate, Compensated, Verify, Settle` is compensation,
verification and `settle`; `LoadForCancel` is `cancel`; `FindTask, Decide,
DecideRefused, BrainExecutes, RecordExecution` is the approvals route with
`resolveApproval`. UNDERSTANDING, PLANNING, EXECUTING, VERIFYING, REPORTING and
REMEMBERING exist in memory only, as in the code, so a store never shows them.
`Durable` chooses the backend's conditional update or the in-memory store that
returns the record it holds. `ran` and `undone` count what the runtime did:
the world's side of the story, which no code reads. A runtime call that reports
FAILED is taken to have had no effect; RuntimeDispatch is where that assumption
is looked at, and found wanting. `Abort` is a store call that throws or a
process that dies. EXPIRED approvals do not occur: no code of the repository
ever writes that status, so the branch that reads it is unreachable.

*Ledger.* The unlocked checks are in `Accept`; the statements of the
transaction are `InsertRow, TouchSession, DecideRow, ExecutionRow`, each under
a row lock kept to the end; `TakeAuditLock, AppendEvent` is `append`;
`Commit`, and `Abort` for every way a transaction is lost. Sequence numbers
survive a rollback, so the chain has gaps. The hash is free of collisions, and
so stands for all that was chained: the sequence of requests up to the event.
`CheckPage` is one page of `verify`, a set of events each of which is compared
with the one before it (`Checked`); `Tamper` is somebody with database access.

*RuntimeDispatch.* `net` and `replies` outlive the attempt that sent them.
`TimeOut` is the adapter's race, `Backoff` its sleep, `WalkAway` the caller's
signal, `Disconnect` and `Fault` what the network does, `CallDirectly` a client
that does not use the adapter. What a command does is a function of the command
(`RuntimeCapabilities`); the two tables there differ where the code's do:
`session.open`/`session.close`/`skills.run` are addressed by the portal and
unknown to the service, and so answered UNSUPPORTED.

*RateLimiter.* Time is a shared clock in ticks; `Second` ticks make one second,
so rounding is visible. `Script` is the Lua script, one atomic step; `AskRedis`,
`Execute`, `Answer` and `Fail` are one call, and `Execute` may come after `Fail`.
`ends` and `window` are history. The cooldown runs from the start of the check
that failed, as in the code.

*Voice.* `v` is the controller with its adapters. `Converse, Say, Cancel, Reset,
Dispose` are the page, `Grant, Refuse` the permission prompt, `Hear, HearNothing,
UtteranceEnds` the browser's engines, `Delta, Answer, Unanswered` the Brain.
`HearPartly` and `Pronounce` are loudness and words on the way; `PageCommands`
is the page's own use of the avatar, at any time and in any of `PagePoses`.
`Cued` is the voice bridge with the animator behind it: every accepted move of
the state machine and every patch of it reaches the bus.
`overlapped` is history: properties about the state shown are claimed for turns
that were alone, because the controller has one state for all of them.

*Chat.* `Ask` is `send()` on the page, `Elsewhere` another tab, an API client or
the deprecated `/api/chat`; `Serve` takes a turn through its stages (ensure the
conversation, read its history, understand, plan, each tool, compose, persist);
`Pump` moves events from queue to wire to page, `EndStream, CutShort, Break`
end it. `said`, `heard` are history. What the model, the retriever and the
runtime return is a choice. A text is the number of its parts. Of a message the
model keeps what the code reads: keyword counts and the intent the caller
chose. A row of a transcript is known by its place in it, and a history is a set
of places: rows are only ever appended and read back by their time of writing,
so the places say the order too. The bubbles of the page are a set, one for each
question, shown in the order asked.

*Knowledge.* `Write` is one step of an ingestion or removal between two awaits
(store, embed, index, rebuild), `SeedNext, SeedDone` the lazy indexing of the
corpus by the first search, `Start, Answer, SearchFails` a search. A query
carries the signals each passage would get; scores are integers, and passages
of equal score come in any order. `retired` and `gone` are history: what
finished writes had replaced, now and when a search began; a revision written
again leaves both. `tidy` says whether writes ran one after another and without
failure.

*SignIn and Records.* Cookies are `parked` and `session`; `attempt` is what the
provider and the callback know of each sign-in; `Directory` changes once. A
request carries the actor of its session from the start. `Serve` is a step of a
task, trail or forget request, `durable` chooses the backend or the process,
and a call may be answered late, or carried out after its caller gave up. Notes
and trail give each entry a place, the order of creation, so that a page of the
newest is what has fewer than a page of entries above it.

*Insights.* A scan begins, reads its tasks separately from its other sources
(which answer at once in the model), and finishes with what its detectors find.
Detectors and evaluator are functions of what was read, with the code's
thresholds and samples; a detector finds something or None at each entry of its
source. `known` is the service's map in its order of insertion: a place for
each insight. What a scan keeps is said of all its findings at once: what its
reader does not know yet and what was not found earlier in the scan, which is
what the loop over them leaves.

## 3. Runs

| Run | Question | Bounds |
|---|---|---|
| `automation_sequential` | One request at a time, in every order: does the orchestrator keep the promise of `GovernedTask`, respect a refusal, tell the truth and leave nothing stuck? | 1 task, the shipped automation manifest, 2 gates, 3 attempts, 7 requests, three scope sets |
| `approvals_concurrent` | Two requests at every interleaving, one lost: do decisions stand, does nothing run unapproved, is every request answered? | 2 handlers, 2 approvers, two heavy tools, threshold MEDIUM so that a gate may be raised mid-run, 3 gates, 4 requests, 1 loss |
| `chat` | From question to settled turn, beside another caller: is the stream faithful, is the thread one's own, is the answer governed, does every question settle? | 2 turns, 4 conversation ids, 1 part, history of 2, 1 failure or cut stream, both transcript stores |
| `knowledge` | Writes and searches at every interleaving: what may be cited, do the indexes follow, what does an answer rest on? | 2 shipped documents, 2 revisions, 4 writes of which 2 happen beside the seeding, 1 search of 5 kinds, markers that fit, point nowhere or have three digits, 1 failure |
| `access` | Two tabs of two browsers sign in while one person is demoted; three requests under their sessions: whose session, how long, and is what is told true? | 2 people, 2 sign-ins, 3 ticks, 3 requests, recall page 2, ring of 1, both stores, a restart |
| `insights` | Two scans of a growing history over days: are findings kept, once, and the worst shown; do alarms and numbers agree? | 2 readers, 2 scanners, 5 tasks of 3 kinds, days 0, 3 and 20, list of 2, window of 5, 1 dismissal |
| `audit_ledger` | Do rows and chain move together, does verification answer correctly, does everybody finish? | 2 requests of 3 at once, 1 lost transaction, 1 walk with pages of 1, 1 act of tampering |
| `runtime_dispatch` | Does the adapter tell the truth over a bad network? | 2 callers, 2 attempts, 1 fault, one command of each way it may end |
| `rate_limiter` | Do the counters hold, and the promises made with a 429? | 2 replicas, 2 keys (one left without an expiry), 3 requests, 2 failures, 2½ windows |
| `voice` | Two turns overlapping at every event, on a page that commands the avatar too: does what is shown agree with microphone and voice, does every turn end? | 2 turns, 2 streamed sentences, replay and barge-in on, 2 page poses |
| `separate_approver_runs_twice`, `retried_command_runs_twice` | the disagreements of section 6 | as small as shows them |

*Why the bounds are enough.* The orchestrator never looks at two tasks
together, except to find one by its gate, so one task shows what a task can
suffer; in the sequential run the manifest is the shipped one, a harmless and a
heavy tool, the combination the code treats differently; seven requests are a
start, decisions through both doors, two resumes and a cancel. Two handlers
suffice for races on whole-record
saves: every check-then-write has one other writer. In the ledger, pages of one
put a page boundary between any two events, and a chain of three has a first,
a middle and a newest event. In the dispatch the second attempt is the last,
so the retry budget is reached. In the limiter one key has a limit of two and
three requests exceed it; the clock runs far enough for a window to be over for
a whole further window, which is when sweeping matters. Voice turns interact
through one state, one ear and one mouth, all of which two turns contend for;
of the page's poses one is also a voice pose and one is not. In the chat one
question needs a human and one only reads, so a turn can follow a gate, a
failure or a success; four ids let each turn open a conversation of its own. In
knowledge the public document becomes a restricted one for a unit, so a stale
passage or a stale list shows; a limit of one makes every cut bite. In access
sessions, tokens and parked sign-ins expire within three ticks; a ring of one
overflows with the second record and a page of two is full with the second
note. In insights five tasks reach the evaluator's and the detector's minimum
samples and fill the window (20 in the code, where the order of tasks matters
as little), and more is found than a list of two shows.

*Focus.* Two runs look at part of their space (a CONSTRAINT that skips states,
so that what is found there is real and what is checked is named): `access`
explores requests in the first tick, with both browsers signed in and before
the directory changes, since requests read nothing of sign-in but their actor;
`insights` lets tasks end in one order, for the reader who sees more, and not
on the first day.

Deadlock checking is off in all runs: the bounds on requests, faults and time
end every behaviour, and the real system may rest as well. Symmetry is used in
runs of safety properties only.

*Fairness.* `FairSpec` of the orchestrator: weak fairness of each handler's
work — Node runs every ready callback, and the stores and the runtime answer
or throw. Ledger: PostgreSQL grants a free lock to a waiter, a walk goes on.
RuntimeDispatch: timers fire and a caller that can move does; nothing is
assumed of the network. Voice: the listening timer fires, a chat request is
answered or fails, the engine reports the end of what it was given; *nobody
need answer the permission prompt*, and a turn that waits for it is owed no
end. Chat: the process serves, the loop pulls, the page reads. No fairness is
assumed of requests, decisions, or users.

## 4. What the runs show

Sequentially the orchestrator implements `GovernedTask`: a guarded step runs
only with consent and once, work happens only while a task is open, and the
report that ends a task accounts for what stands. What was refused stays
undone. Gates lead back to their task, parked tasks have run nothing, and open
tasks can be closed.

Concurrently less holds, and the runs say what: decisions are taken once, by
somebody allowed to, and nothing guarded runs without an approval. Running
*once*, *endings are final* and *refusals bind* are lost under concurrency
(section 6; a cancel and a resume of one task each save their own copy, so the
later save replaces an ending), which is why those are properties of the
sequential run.

The backend implements `AuditedLedger` step by step, whatever overlaps or is
lost: each commit is one legal change and the next audit entry. The chain never
forks, verification raises no false alarm while appends go on, and finds every
edit and every deletion except that of the newest events.

The adapter's reports are true in the direction that matters (SUCCEEDED means
done, REJECTED and UNSUPPORTED mean not done); a FAILED or TIMEOUT says nothing
about whether the work was done.

Each rate counter admits at most its limit per window and its windows do not
overlap; with outages a deployment admits at most (replicas + 1) times the
limit, one more than `resilient.ts` says, because what Redis admitted before
the outage counts as well.

The stream loses, doubles and reorders nothing, also for a reader that comes
late or goes; an answer shown as finished is one the server finished, on record
before it shows unless a call failed. Conversations stay their owner's under
both stores. Tools at the threshold wait for a human in the answer path too.

The knowledge pipeline cites what its asker may read as long as writes run one
after another and none fails (`tidy`); overlapping writes of one document can
leave the two indexes on different revisions. Grounding and citations hold
always.

Only the sign-in a browser began last opens a session. A demotion takes effect
after the session's life plus that of the token at the latest.
Counts, records and trails told to a caller are true, with two exceptions that
the property names: a process without a backend forgets at a restart, and keeps
only the newest records.

Scans that overlap keep one insight per subject because the look-up and the
push are in one step after the last await. The performance alarm and the
evaluator never contradict each other on one history.

## 5. Proofs

Each `*_proof` module extends the properties of its component. Constants are
arbitrary within the named assumptions of the component's module, which TLC
evaluates in every run: any number of tasks, handlers, replicas, callers,
documents or turns, any manifest, corpus, limits and bounds. All proofs have one
shape: an inductive invariant, checked with TLC before it was proved; a lemma
per action (or per function of the code, where an action runs through several)
saying what it keeps; `Invariance` from these; and the properties read off it.

| Module | Theorem | States |
|---|---|---|
| `Orchestrator_proof` | `TypeCorrectness` | `Spec => []TypeOK` |
| | `NothingGuardedRunsUnapproved` | with `Durable`: `Spec => GuardedRunsAreApproved` |
| | `DecisionsStand` | `Spec => DecisionsAreFinal` |
| | `DutiesAreSeparate` | with `Durable` and `RequireSeparateApprover`: `Spec => []SeparationOfDuty` |
| | `CompletedIsApproved` | `Spec => []CompletedWasApproved` |
| | `EveryMoveIsLegal` | `Spec => []MovesAreLegal` |
| | `Invariance` | `Spec => []IInv` |
| | `PromiseIsKept` | with `OneAtATime`: `Spec => KeepsThePromise`, the refinement of `GovernedTask` |
| | `ReportsAreTrue` | with `OneAtATime`: `Spec => []ReportsTellTheTruth` |
| | `NothingIsLeftBehind` | with `OneAtATime`: `Spec => []NothingIsStranded` |
| | `TheRefusedStayRefused` | with `OneAtATime`: `Spec => RefusedNeverRuns` |
| | `NothingRunsTwice` | with `OneAtATime`: an action succeeds at most once |
| | `AloneInvariance` | with `OneAtATime`: `Spec => [](IInv /\ PInv)` |
| `Ledger_proof` | `LedgerIsAudited` | `Spec => ChangesAreAudited`, the refinement of `AuditedLedger` |
| | `VerificationHolds`, `TypeCorrect` | `Spec => []VerificationIsRight`, `[]TypeOK` |
| | `Invariance` | `Spec => []LedgerInv` |
| `RuntimeDispatch_proof` | `NeverWithoutApproval`, `CallersAreToldTheTruth` | `Spec => []UnapprovedNeverRuns`, `[]ReportsAreTrue` |
| | `TypeCorrect`, `Invariance` | `Spec => []TypeOK`, `[]IInv` |
| `RateLimiter_proof` | `LimitsHold` | `Spec => LimitsAreKept` |
| | `TypeCorrect`, `Invariance` | `Spec => []TypeOK`, `[]IInv` |
| `Knowledge_proof` | `CitationsHold`, `IndexesHold`, `AnswersHold` | `Spec => []CitesOnlyWhatMayBeRead`, `[]IndexesFollowTheStore`, `[]AnswersRestOnPassages` |
| | `TypeCorrect`, `Invariance` | `Spec => []TypeOK`, `[]KnowledgeInv` |
| | `InsightsAreTrue` | `InsightsSpec => InsightsAreHonest` |
| | `ListKeepsShape`, `InsightsInvariance` | `InsightsSpec => []InsightsTypeOK`, `[]InsightsInv` |
| `Access_proof` | `SignInIsTheLastOne`, `RightsAreRevokedInTime` | `Spec => []OnlyTheLastAttemptSignsIn`, `[]RevocationIsBounded` |
| | `AnswersAreTrue`, `TypeCorrect` | `Spec => []ToldIsTrue`, `[]TypeOK` |
| | `Invariance`, `RecordsInvariance` | `Spec => []IInv`, `[]RecordsInv` |
| `Voice_proof` | `ShownTruly`, `SilenceHolds` | `Spec => []ShownAsItIs`, `SilentAfterStop` |
| | `TypeCorrect`, `Invariance` | `Spec => []TypeOK`, `[]VInv` |
| `Chat_proof` | `StreamHolds`, `ThreadsHold`, `GovernedHolds` | `Spec => []StreamIsFaithful`, `[]ThreadsAreOwn`, `[]AnswersAreGoverned` |
| | `TypeCorrect`, `Invariance` | `Spec => []TypeOK`, `[]ChatInv` |

*Orchestrator.* That an approved gate stands behind a run is not inductive: the
run reads a grant the handler collected several steps before, from a plan
another request stored. `IInv` says what survives on the way: every gate a plan
names was raised for that step of that task (`PlanRefers`); heavy steps of a
plan past planning wait behind a gate or are blocked (`HeavyHeld`); a grant
names an approved gate (`GrantsHold`); at each stage a handler's job is what
that stage may assume (`JobOK`, `StatusOK`); a stored report refers to its own
gates and, when COMPLETED, to approved ones (`ReportOK`). Each part speaks of
the approval store as an argument. `Evolves(gates, gates')` — records are added,
never dropped or re-aimed, and a decision stays — makes them stable for every
handler that does not move (`JobOKStable`, `ReportOKStable`), and is
`DecisionsStand` itself. `NothingGuardedRunsUnapproved` reads its conclusion off
the two actions that can run anything. It needs `Durable`: on the in-memory
store a refused decision returns the record as it stands and the caller carries
on by the decision that was asked for, so the Brain may run an action whose gate
was refused.

*One request at a time.* `OneAtATime` says what the run `automation_sequential`
instantiates: one handler at most, no request lost, tasks owned by who approves
them, and no gate that only the deployment's lower threshold asks for. Each part
is needed; section 6 tells what goes wrong without it. Tasks, manifest, scopes
and number of requests stay arbitrary. `PInv` adds to `IInv` that nothing has
succeeded twice (`RanOnce`), that heavy steps are the ones with gates
(`HeavyGates`), that what the handler holds, what is stored and what was run and
undone agree at each stage (`HandsInv`), and that tasks in nobody's hands are
parked with nothing run, ended with a true account, or at rest (`RestInv`).
`PromiseIsKept` maps each action to a step of `GovernedTask` or to a stutter.

*Ledger.* Mutual exclusion comes from the locks: who is past its first statement
holds the lock of what it wrote (`JobsInv`, `LocksInv`), so the row it read is
the row it replaces, and one transaction at a time appends. Events have numbers
of their own, in the order of commits (`NumbersInv`), and each is chained to the
one before it as long as nobody tampered (`ChainInv`). `WalkInv` says that a
verification has seen a sound part of the chain up to its cursor, and that
tampering that came before it lies ahead of it. `LedgerIsAudited` shows `Commit`
to be one legal change with the next entry, and everything else to be a stutter
or the tampering `AuditedLedger` allows for.

*RuntimeDispatch.* Reports are about what an attempt given up may still do. The
invariant counts: what ran plus what may still run is no more than what was sent
(`BudgetInv`), requests on the way carry the command of their dispatch
(`RequestsInv`), answers on the way are already true of it (`RepliesInv`), and a
dispatch at a stage has done what that stage implies (`DispatchesInv`).

*RateLimiter.* A counter says how many it let in, not when. `CountersInv` equates
it with the requests the history attributes to its current window plus what an
older deployment left in it; `WindowsApart` puts earlier windows at least a
window before; `AdmittedInv` bounds what a window admitted, `RefusedInv` keeps
with each refusal that it was earned.

*Knowledge.* Both indexes are written in several steps after the store.
`IndexInv` says, while writes stay in turn (`SerialInv`), what each half-done
write has made of either index and which passages it has read; `RetiredInv` that
what was replaced is in none; `SearchInv` that what a half-done search has found
fits its asker, which its later cuts only narrow.

*Sign-in.* `ParkedIsLast` and `PassedWasLast`: a parked state is that of the last
attempt its browser began, and an attempt past the callback was the last when it
passed. `AttemptsInv`, `TokensInv`, `SessionsInv`: attempt, token and session
carry the rights of a directory entry no older than their own issue, from which
the bound on revocation follows.

*Records.* That an answer is true is not inductive: a forgetting removes its
notes one by one, while others are added and removed. `TrailInv` relates what is
kept to what was ever recorded, and to the size of the ring. `Forgets` says of a
forgetting under way that what it removed was there before it, is its asker's
own and never comes back; `PastNote` is why: a task writes its note before its
record and once. `WholePage` says that what is still due and what is removed
together are all the notes it is about, or a whole page. `CutFacts` is the lemma
under it: of entries in an order, those with fewer than n others above them are
all there are or at least n. A step that carries a request on is one lemma,
`GoesOnKeeps`, and each action has only to say what it does to its own request.

*Insights.* `EachOnce`, no reader has a thing on the list twice, needs no more
than the scan that finishes: `KeptFacts` shows that what is kept is new, distinct
and complete, because for every finding the first one like it is kept or known.
`Discreet`, a headline is of a document its reader may read, holds of what a
scan has in hand from the moment it asked (`Findings`). `TopFacts` sharpens
`CutFacts`: in a total order the cut has exactly as many entries as the limit,
all of them above what is left out, from which the order by severity follows.
`Backed` counts: both judges of a history work with the same three numbers,
completed, failed and cancelled, and differ in which of them they add
(`MeasuredFacts`); the rest is arithmetic.

*Voice.* One event runs through several functions of controller, adapters and
face, and between them the invariant does not hold. Its parts therefore speak of
a controller `s`: which functions keep which part is a lemma each, and events
compose them. `EarInv` and `MouthInv` tie recognition and utterances to turns
that listen and speak, `BusyInv` says that a busy state stands for a turn that
is engaged, `StopInv` and `Settled` what a stop leaves behind, `StreamInv`
counts capture streams, `AloneInv` is what holds of turns that were never
overlapped. `VoiceAssumption` asks for finitely many turns, since streams are
counted.

*Chat.* A turn, its stream, its transcript and the page are each spoken of by a
part of the invariant. `Streamed`: what was told and not read lies in the queue,
in order (`Piped`), and at each stage a turn has still some phases to tell,
`Ahead`, none of which it has told (`Spoken`), which is why a phase is told once.
`Governed`: what a stage has decided about its tools. `Threads`: a turn's
conversation is in use and its history is of rows that were committed before, by
the same asker (`Addressed`); a row that was committed comes with its other half
(`Paired`, `Distinct`); while no call failed an answered turn is on record
(`OnRecord`). `Shown` and `InOrder`: questions of the page are asked one after
another, each when the one before has settled, so an answer that was shown is on
record before the next question reads its history (`Building`), and a question
asked in a new conversation finds no earlier one in it (`Apart`). A step that
carries a turn on is one lemma, `GoesOnKeeps`, which asks of an action only what
it does to its own turn; a step of the page is another, `PageKeeps`.
`RouteIsEarned` says of any message and any intent whom the router chooses.

*Only model-checked:* liveness (properties of `FairSpec`, and ENABLED, are out of
the prover's reach). Every safety property that a passing run checks is a
theorem. The two disagreements of section 6 are counterexamples, which TLC
finds.

## 6. Disagreements between the code and what is said of it

Each is a run that stops at the counterexample, and an entry under "findings".

- `separate_approver_runs_twice`: with separation of duty the approver is never
  the owner; the inbox searches the approver's own tasks, finds none, lets the
  Brain run the action, and the parked task can be resumed and runs it again.
- `retried_command_runs_twice`: the request id is called an idempotency key, but
  the runtime keeps none, so a timed-out attempt and its retry both run.

Met while modelling, without a run of their own.

*Orchestrator and ledger.* EXECUTING is not saved, so two overlapping resumes
both pass the status check and both run the approved action
(`orchestrator.ts:140`); deleting the newest audit events is not noticed though
the schema says any deletion is (`AnyDeletionShows` is stated and does not
hold); an in-memory approval decided after a refusal executes; a cancelled task's gate can still be approved in the
inbox; a request lost before planning is saved leaves a task without an agent
that neither resume nor cancel can move; a title set by a second first turn
replaces the first one's; two overlapping resumes that come to the same later
step each raise a gate for it, the plan saved last names one of them, and
refusing the other in the inbox stops nothing (met at six requests). A task
that parks at a gate raised before anything
ran has called no tool: the recorder takes its record, the backend's DTO asks
for a tool and answers 400, and the request fails although the task is parked;
asking again starts a second one (`record-governance.dto.ts:6` says the two
rules are the same).

*Limiter, voice, avatar.* `retryRedisAt` can move back when failures settle out
of order, and every call under way when Redis fails pays the timeout, not one
per cooldown; all logouts share one rate-limit subject; a permission granted
after voice was switched off opens a capture stream nobody releases; stopping
while an answer is awaited shows an error banner; the JARVIS speech input is stopped
only by the signal that also reports it cancelled, so it never transcribes.
The page's command replaces the voice's pose while it listens or speaks, until
the next cue; naming a conversation cues IDLE while a typed question is being
thought about; looping gestures are not stopped in IDLE and LISTENING, which
`avatar.ts:104` calls deliberately still.

*Chat.* A stream cut after its last part shows as a complete answer
(`HalfAnswersNeverLookComplete`); a conversation opened while a question is on
its way leaves answers of two conversations on one page (`OneThread`); both are
stated in `ChatProperties` and do not hold. Overlapping turns may interleave in
the sessions backend, which orders messages by time. No caller passes
`permittedTools`.

*Knowledge.* A write made before the first search is undone by the lazy
seeding; the search route asks for no `knowledge:read`; kinds are filtered after
the candidates are cut; markers of three digits are not stripped; a rejected
first indexing is kept for ever; the Brain still asks the model when there is
no evidence, which `rag-service.ts:41` rules out.

*Access.* The governance route promises only the actor's own records, and the
backend shows everybody's to holders of `audit:read`; an actor without an
e-mail address gets 401 for every backend call; forgetting a session removes at
most one page and only what its clearance shows; the in-memory recall knows no
expiry; recall of the backend with a query returns expired records
(`workspace.service.ts:105`), though the portal sets no expiry. Recall and
forget have no production caller yet.

*Insights.* A dismissed insight comes back with the next scan
(`DismissedStaysAway` does not hold); the severity of a known insight is never
raised and an insight is never withdrawn; due dates written with Indonesian
month names are never overdue; `citationAccuracy` compares evidence with
itself; the map grows without bound.

## 7. Plan

Done: every component whose steps meet those of another actor is modelled and
checked, and its safety proved. Left are models: gestures with their minimum
interval, the JARVIS speech engines, memory as the backend queries it (expiry,
query, statistics). The runs stay few: one per question.

## 8. Not modelled, and why

- Prompting, LLM and embedding providers, document parsing: answers of an
  external service, represented by a choice where they matter.
- HTTP validation, configuration, logging: data checks without state.
- React components, styling, 3D rendering: presentation.
- In the runtime, the token guard and request DTO; no HTTP capability of the
  portal sends the bearer token the guard asks for, so a live deployment needs
  a proxy that adds one.
- In voice, the JARVIS and mock engines: what the adapters see of them is what
  they see of the browser's. In the avatar, gestures, gaze, mouth shapes, idle
  motion and the choice between scene and fallback: presentation computed per
  frame from the pose.
- `BaseAgent.execute` and `verify`, which nothing in production calls.
- Chunking and embedding: a passage and its signals are given.
- The evaluator's latency and citation metrics; governance aggregates and
  memory statistics: sums over records.
