------------------------------- MODULE Records -------------------------------
(***************************************************************************)
(* What the portal writes down about a task on behalf of the actor of a    *)
(* session: a note in memory, and a governance record. Both are kept by    *)
(* the backend, which scopes every statement by the actor asserted to it,  *)
(* or by the process itself where no backend is configured.                *)
(***************************************************************************)
EXTENDS SignIn, FiniteSetsExt, Functions

CONSTANTS
  Request,        \* requests served, each by its number
  Conversation,   \* session identifiers of the chat
  RecallLimit,    \* records a recall returns at most, 100
  RingLimit       \* records the process keeps of its trail, 1000

ASSUME RecordsAssumption == {RecallLimit, RingLimit} \subseteq Nat \ {0} /\ Request \subseteq Nat

VARIABLES
  durable,  \* the backend keeps the records
  memory,   \* the requests whose note is kept -> its place among the notes
  trail,    \* the requests whose governance record is kept -> its place in the trail
  recorded, \* governance records kept since the start, for the properties
  erased,   \* those a restart erased, for the properties
  request

records == <<durable, memory, trail, recorded, erased, request>>
vars == <<signin, records>>

Kind == {"task", "forget", "read"}

(* How a task leaves the orchestrator: parked at a gate raised before the  *)
(* run or within it, with every action blocked by the plan, or ended after *)
(* a tool was called.                                                      *)
Outcome == {"parked", "parkedMidRun", "barred", "ended"}

(* A list that keeps nothing. A list gives every entry a place, the newest *)
(* the highest: the order of creation, which the backend sorts by and in   *)
(* which the process pushes.                                               *)
Empty == [p \in {} |-> 0]

Unused == [kind |-> "task", step |-> "unused", actor |-> NoActor, conversation |-> "none",
           outcome |-> "ended", todo |-> Empty, before |-> {}, removed |-> {}, count |-> 0, shown |-> {},
           told |-> "nothing"]

RecordsInit ==
  /\ durable \in BOOLEAN
  /\ memory = Empty /\ trail = Empty /\ recorded = {} /\ erased = {}
  /\ request = [q \in Request |-> Unused]

Change(q, r) == request' = [request EXCEPT ![q] = r]
Answer(q, r, told) == Change(q, [r EXCEPT !.step = "done", !.told = told])
At(q, step) == request[q].step = step

(* The next request, with the actor of the session the browser presents.   *)
Accept(q, r) ==
  /\ At(q, "unused") /\ \A p \in Request : p < q => ~At(p, "unused")
  /\ Change(q, r)
  /\ UNCHANGED <<signin, durable, memory, trail, recorded, erased>>

(* The backend wants an e-mail address of every actor asserted to it. A    *)
(* claim without one leaves the actor with an empty one (oidc.ts).         *)
Trusts(actor) == actor.email

-----------------------------------------------------------------------------
Added(list, q) ==
  [p \in DOMAIN list \cup {q} |-> IF p = q THEN 1 + Max({0} \cup Range(list)) ELSE list[p]]

Newest(list, limit) ==
  Restrict(list, {p \in DOMAIN list :
                    Cardinality({o \in DOMAIN list : list[o] > list[p]}) < limit})

Without(list, gone) == Restrict(list, DOMAIN list \ gone)

Held == DOMAIN memory

Mine(q, p) == request[p].actor.subject = request[q].actor.subject

(* The note of a task is internal, and belongs to its conversation.        *)
Matches(q, p) == Mine(q, p) /\ request[p].conversation = request[q].conversation

Recalled(q) ==
  Newest(Restrict(memory, {p \in Held : CanAccess(request[q].actor.clearance, "INTERNAL")
                                        /\ Matches(q, p)}), RecallLimit)

(* The session row and the task are written first, so an actor the backend *)
(* does not trust gets no further.                                         *)
StartTask(q, b, c, outcome) ==
  /\ SignedInAs(b)
  /\ LET r == [Unused EXCEPT !.actor = OpenSession(b), !.conversation = c, !.outcome = outcome]
     IN  Accept(q, IF durable /\ ~Trusts(r.actor) THEN [r EXCEPT !.step = "done", !.told = "failed"]
                   ELSE IF outcome \in {"parked", "parkedMidRun"} THEN [r EXCEPT !.step = "record"]
                   ELSE [r EXCEPT !.step = "settle"])

(* settle: the note is best effort.                                        *)
Remember(q, kept) ==
  /\ At(q, "settle")
  /\ durable \/ kept
  /\ memory' = IF kept THEN Added(memory, q) ELSE memory
  /\ Change(q, [request[q] EXCEPT !.step = "record"])
  /\ UNCHANGED <<signin, durable, trail, recorded, erased>>

-----------------------------------------------------------------------------
(* eventFromTask and what is asked of its record on either side.           *)
RequiredOfEvents ==
  {"user", "intent", "dataAccess", "action", "result", "verification", "timestamp", "correlationId"}

RequiredByBackend ==
  {"intent", "agent", "tool", "action", "result", "risk", "dataAccess", "verification", "correlationId"}

EventFields(outcome) ==
  RequiredOfEvents \cup {"agent", "risk"} \cup IF outcome \in {"parkedMidRun", "ended"} THEN {"tool"} ELSE {}

AcceptedByBackend(outcome) == RequiredByBackend \subseteq EventFields(outcome)

IsComplete(outcome) == RequiredOfEvents \subseteq EventFields(outcome)

(* The process drops its oldest record to keep RingLimit of them.          *)
Kept(q) == IF durable THEN Added(trail, q) ELSE Newest(Added(trail, q), RingLimit)

(* Mutant of Record: a record the sink did not take is passed over.        *)
RecordQuietly(q, stored) ==
  /\ At(q, "record")
  /\ trail' = IF stored THEN Kept(q) ELSE trail
  /\ recorded' = IF stored THEN recorded \cup {q} ELSE recorded
  /\ Answer(q, request[q], "ok")
  /\ UNCHANGED <<signin, durable, memory, erased>>

(* GovernanceRecorder.record: the record is stored and the request         *)
(* answered, or the request fails after all that its task did.             *)
Record(q, stored) ==
  /\ At(q, "record")
  /\ stored => IsComplete(request[q].outcome) /\ (durable => AcceptedByBackend(request[q].outcome))
  /\ durable \/ stored
  /\ trail' = IF stored THEN Kept(q) ELSE trail
  /\ recorded' = IF stored THEN recorded \cup {q} ELSE recorded
  /\ \E heard \in BOOLEAN :      \* the answer of the backend may come too late
       /\ heard \/ durable
       /\ Answer(q, request[q], CASE stored /\ heard -> "ok"
                                  [] ~stored /\ heard /\ ~AcceptedByBackend(request[q].outcome) -> "refused"
                                  [] OTHER -> "failed")
  /\ UNCHANGED <<signin, durable, memory, erased>>

(* GET /api/tania/governance. The scope is asked for by the route; with it *)
(* the backend no longer narrows the rows to their actor.                  *)
Listed(q) ==
  DOMAIN Newest(Restrict(trail, {p \in DOMAIN trail :
                                   Mine(q, p) \/ (durable /\ Holds(request[q].actor, "audit:read"))}),
                RecallLimit)

StartRead(q, b) ==
  /\ SignedInAs(b)
  /\ LET r == [Unused EXCEPT !.kind = "read", !.actor = OpenSession(b)]
     IN  Accept(q, IF "audit:read" \in OpenSession(b).scopes THEN [r EXCEPT !.step = "list"]
                   ELSE [r EXCEPT !.step = "done", !.told = "forbidden"])

ReadTrail(q, answered) ==
  /\ At(q, "list")
  /\ answered /\ durable => Trusts(request[q].actor)
  /\ durable \/ answered
  /\ IF answered
     THEN Answer(q, [request[q] EXCEPT !.shown = Listed(q)], "ok")
     ELSE Answer(q, request[q], "failed")
  /\ UNCHANGED <<signin, durable, memory, trail, recorded, erased>>

-----------------------------------------------------------------------------
(* forgetSession. The process removes at once; the portal asks the backend *)
(* for the records, and then for the removal of one after the other.       *)
StartForget(q, b, c) ==
  /\ SignedInAs(b)
  /\ Accept(q, [Unused EXCEPT !.kind = "forget", !.actor = OpenSession(b), !.conversation = c,
                              !.step = "recall"])

ForgetAtOnce(q) ==
  /\ At(q, "recall") /\ ~durable
  /\ LET gone == {p \in Held : Matches(q, p)}
     IN  /\ memory' = Without(memory, gone)
         /\ Answer(q, [request[q] EXCEPT !.before = Held, !.removed = gone, !.count = Cardinality(gone)], "ok")
  /\ UNCHANGED <<signin, durable, trail, recorded, erased>>

Recall(q) ==
  /\ At(q, "recall") /\ durable /\ Trusts(request[q].actor)
  /\ Change(q, [request[q] EXCEPT !.step = "forget", !.before = Held, !.todo = Recalled(q)])
  /\ UNCHANGED <<signin, durable, memory, trail, recorded, erased>>

(* The newest of the records recalled is asked for first.                  *)
Due(q) == LET todo == request[q].todo IN {p \in DOMAIN todo : \A o \in DOMAIN todo : todo[o] <= todo[p]}

(* A record that is gone already is answered 404, which ends the request.  *)
Forget(q) ==
  /\ At(q, "forget")
  /\ \E p \in Due(q) :
       /\ memory' = Without(memory, {p})
       /\ IF p \in Held
          THEN Change(q, [request[q] EXCEPT !.todo = Without(@, {p}), !.count = @ + 1,
                                            !.removed = @ \cup {p}])
          ELSE Answer(q, request[q], "failed")
  /\ UNCHANGED <<signin, durable, trail, recorded, erased>>

Forgotten(q) ==
  /\ At(q, "forget") /\ DOMAIN request[q].todo = {}
  /\ Answer(q, request[q], "ok")
  /\ UNCHANGED <<signin, durable, memory, trail, recorded, erased>>

(* The backend cannot be reached, or its answer comes too late.            *)
Unreachable(q) ==
  /\ durable
  /\ \/ At(q, "recall") /\ memory' = memory
     \/ At(q, "forget") /\ \E p \in Due(q) : memory' \in {memory, Without(memory, {p})}
  /\ Answer(q, request[q], "failed")
  /\ UNCHANGED <<signin, durable, trail, recorded, erased>>

-----------------------------------------------------------------------------
Serve ==
  \E q \in Request :
    \/ \E b \in Browser, c \in Conversation :
         \/ \E outcome \in Outcome : StartTask(q, b, c, outcome)
         \/ StartForget(q, b, c)
    \/ \E b \in Browser : StartRead(q, b)
    \/ \E done \in BOOLEAN : Remember(q, done) \/ Record(q, done) \/ ReadTrail(q, done)
    \/ ForgetAtOnce(q) \/ Recall(q) \/ Forget(q) \/ Forgotten(q) \/ Unreachable(q)

(* A restart of the portal loses what the process keeps, and the requests. *)
Restart ==
  /\ memory' = IF durable THEN memory ELSE Empty
  /\ trail' = IF durable THEN trail ELSE Empty
  /\ recorded' = IF durable THEN recorded ELSE {}
  /\ erased' = IF durable THEN erased ELSE erased \cup recorded
  /\ request' = [q \in Request |->
       IF request[q].step \in {"unused", "done"} THEN request[q] ELSE [request[q] EXCEPT !.step = "done",
                                                                                       !.told = "failed"]]
  /\ UNCHANGED <<signin, durable>>

Init == SignInInit /\ RecordsInit
Next == (SignInNext /\ UNCHANGED records) \/ Serve \/ Restart
Spec == Init /\ [][Next]_vars
=============================================================================
