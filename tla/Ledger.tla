------------------------------- MODULE Ledger -------------------------------
(***************************************************************************)
(* The backend's tables and the audit chain over them (apps/api):          *)
(* approvals.service.ts, sessions.service.ts and audit.service.ts on       *)
(* PostgreSQL at its default isolation level, READ COMMITTED.              *)
(*                                                                         *)
(* A request first reads and checks outside any transaction.  What is left *)
(* runs in one: its statements take row locks they keep until the end, the *)
(* audit append takes the advisory lock, and nothing is seen by others     *)
(* before the commit.  A transaction may be lost at any point: the         *)
(* connection drops, the process stops, or Prisma's five seconds pass.     *)
(*                                                                         *)
(* The hash is taken to be free of collisions: it is all that was chained. *)
(***************************************************************************)
EXTENDS Integers, FiniteSets, Sequences

CONSTANTS
  Actor, Approver,          \* actors, and those holding workflow:approve
  Approval, Session, Turn,  \* identifiers of the rows
  None,                     \* absent value
  RequireSeparateApprover,  \* APPROVAL_REQUIRE_SEPARATE_APPROVER
  PageSize,                 \* rows verify() reads at a time
  Handler,                  \* requests that may be served together
  MaxRequests, MaxAborts, MaxVerifications, MaxTampers \* bounds

VARIABLES
  rows,      \* the committed rows
  events,    \* the committed audit events
  nextSeq,   \* the sequence audit rows are numbered from; never rolled back
  locks,     \* who holds each row
  auditLock, \* who holds the advisory lock
  pc, h,     \* where each request is, and what it holds
  walk,      \* the verification under way, or the last one
  tampered,  \* what somebody with database access did to the audit table
  sent, aborted, walks

vars == <<rows, events, nextSeq, locks, auditLock, pc, h, walk, tampered, sent, aborted, walks>>
tables == <<rows, events, nextSeq, locks, auditLock>>
audits == <<walk, tampered, walks>>

Ideal == INSTANCE AuditedLedger WITH trail <- {[seq |-> e.seq, req |-> e.req] : e \in events}

Key == Ideal!Key
Row == Ideal!ApprovalRecord \cup Ideal!SessionRecord \cup Ideal!TurnRecord

Genesis == <<>>
HashOf(prev, req) == Append(prev, req)
Hash == Seq(Ideal!Request)

Event == [seq : Nat \ {0}, req : Ideal!Request, prev : Hash, hash : Hash]

(* What a transaction has written so far, and the event it is to commit. *)
Writes == UNION {[K -> Row] : K \in SUBSET Key}
Job == [req : Ideal!Request, writes : Writes, event : Event \cup {None}, titled : BOOLEAN]

(* Identifiers do not clash, and an absent value is no other. *)
ASSUME LedgerAssumption ==
  /\ Approver \subseteq Actor /\ RequireSeparateApprover \in BOOLEAN
  /\ Approval \cap Session = {} /\ Approval \cap Turn = {} /\ Session \cap Turn = {}
  /\ None \notin Actor \cup Key \cup Handler \cup Row \cup Job
  /\ PageSize \in Nat \ {0} /\ MaxRequests \in Nat
  /\ MaxAborts \in Nat /\ MaxVerifications \in Nat /\ MaxTampers \in Nat

NoWrites == [k \in {} |-> None]
Latest(S) == CHOOSE e \in S : \A d \in S : d.seq <= e.seq

Init ==
  /\ rows = [k \in Key |-> None] /\ events = {} /\ nextSeq = 1
  /\ locks = [k \in Key |-> None] /\ auditLock = None
  /\ pc = [r \in Handler |-> "idle"] /\ h = [r \in Handler |-> None]
  /\ walk = [on |-> FALSE, cursor |-> 0, prev |-> Genesis, count |-> 0, verdict |-> "none",
             due |-> 0, after |-> "nothing"]
  /\ tampered = "nothing" /\ sent = 0 /\ aborted = 0 /\ walks = 0

-----------------------------------------------------------------------------
(* The checks a request makes before its transaction. *)

Owns(actor, s) == Ideal!Owns(actor, s)

(* sessions.create with an id that exists returns or refuses at once. *)
MayOpen(req) == req.op = "session" /\ rows[req.key] = None

(* findOwned *)
MayRecord(req) == req.op = "turn" /\ Owns(req.actor, req.session)

MayRequest(req) == req.op = "request" /\ (req.session # None => Owns(req.actor, req.session))

MayDecide(req) ==
  /\ req.op = "decide" /\ req.actor \in Approver
  /\ rows[req.key] # None /\ rows[req.key].status = "PENDING"
  /\ RequireSeparateApprover => rows[req.key].by # req.actor

MayRecordExecution(req) ==
  /\ req.op = "execute"
  /\ rows[req.key] # None /\ rows[req.key].status = "APPROVED"

(* Requests that get as far as their transaction.  A turn remembers        *)
(* whether the session had a title when it was read.                       *)
Accept(r, req) ==
  /\ pc[r] = "idle" /\ sent < MaxRequests
  /\ \/ MayOpen(req) \/ MayRecord(req) \/ MayRequest(req)
     \/ MayDecide(req) \/ MayRecordExecution(req)
  /\ pc' = [pc EXCEPT ![r] = "write"]
  /\ h' = [h EXCEPT ![r] = [req |-> req, writes |-> NoWrites, event |-> None,
       titled |-> req.op = "turn" /\ rows[req.session].title # None]]
  /\ sent' = sent + 1
  /\ UNCHANGED <<tables, audits, aborted>>

-----------------------------------------------------------------------------
(* The transaction. *)

Holds(r, k) == locks[k] = r
Free(k) == locks[k] = None

Goto(r, stage, job) ==
  /\ pc' = [pc EXCEPT ![r] = stage] /\ h' = [h EXCEPT ![r] = job]
  /\ UNCHANGED <<sent, audits>>

(* Mutant of Release: the advisory lock is held by the session, not by the *)
(* transaction.                                                            *)
ReleaseRowsOnly(r) ==
  /\ locks' = [k \in Key |-> IF locks[k] = r THEN None ELSE locks[k]]
  /\ Goto(r, "idle", None)
  /\ UNCHANGED auditLock

(* Commit and rollback both end the transaction and give up its locks.     *)
Release(r) ==
  /\ locks' = [k \in Key |-> IF locks[k] = r THEN None ELSE locks[k]]
  /\ auditLock' = IF auditLock = r THEN None ELSE auditLock
  /\ Goto(r, "idle", None)

Rollback(r) == Release(r) /\ UNCHANGED <<rows, events, nextSeq, aborted>>

WithRow(job, k, row) ==
  [job EXCEPT !.writes = [j \in DOMAIN @ \cup {k} |-> IF j = k THEN row ELSE @[j]]]

(* A statement that writes row k waits for whoever holds it, and then sees *)
(* the newest committed version.                                           *)
Write(r, k, row, stage) ==
  /\ Free(k) /\ locks' = [locks EXCEPT ![k] = r]
  /\ Goto(r, stage, WithRow(h[r], k, row))
  /\ UNCHANGED <<rows, events, nextSeq, auditLock, aborted>>

(* An insert: a row committed meanwhile under the same key fails it. *)
InsertRow(r) ==
  LET req == h[r].req IN
  /\ pc[r] = "write" /\ req.op \in {"session", "request", "turn"}
  /\ \/ /\ rows[req.key] = None
        /\ CASE req.op = "session" -> Write(r, req.key, Ideal!SessionRow(req), "lock")
             [] req.op = "request" -> Write(r, req.key, Ideal!ApprovalRow(req), "lock")
             [] req.op = "turn"    -> Write(r, req.key, Ideal!TurnRow(req), "touch")
     \/ Free(req.key) /\ rows[req.key] # None /\ Rollback(r)

(* recordTurn updates the session the turn belongs to; the first question  *)
(* becomes its title.                                                      *)
TouchSession(r) ==
  LET req == h[r].req IN
  /\ pc[r] = "touch"
  /\ Write(r, req.session,
       IF h[r].titled THEN rows[req.session] ELSE [rows[req.session] EXCEPT !.title = req.key],
       "lock")

(* Mutant of DecideRow: the update names the approval only. *)
DecideRowAnyway(r) ==
  LET req == h[r].req IN
  /\ pc[r] = "write" /\ req.op = "decide"
  /\ Write(r, req.key,
       [rows[req.key] EXCEPT !.status = req.value, !.decidedBy = req.actor], "lock")

(* updateMany where the approval is still PENDING. *)
DecideRow(r) ==
  LET req == h[r].req IN
  /\ pc[r] = "write" /\ req.op = "decide" /\ Free(req.key)
  /\ \/ /\ rows[req.key].status = "PENDING"
        /\ Write(r, req.key,
             [rows[req.key] EXCEPT !.status = req.value, !.decidedBy = req.actor], "lock")
     \/ rows[req.key].status # "PENDING" /\ Rollback(r)

(* update by id, whatever the row says by now. *)
ExecutionRow(r) ==
  LET req == h[r].req IN
  /\ pc[r] = "write" /\ req.op = "execute"
  /\ Write(r, req.key, [rows[req.key] EXCEPT !.execution = req.value], "lock")

(* Mutant of TakeAuditLock: appends are not serialised. *)
TakeNoLock(r) ==
  /\ pc[r] = "lock"
  /\ Goto(r, "append", h[r])
  /\ UNCHANGED tables /\ UNCHANGED aborted

TakeAuditLock(r) ==
  /\ pc[r] = "lock" /\ auditLock = None
  /\ auditLock' = r
  /\ Goto(r, "append", h[r])
  /\ UNCHANGED <<rows, events, nextSeq, locks, aborted>>

(* Chained to the newest committed event, and numbered as it is inserted. *)
AppendEvent(r) ==
  LET prev == IF events = {} THEN Genesis ELSE Latest(events).hash
  IN
  /\ pc[r] = "append"
  /\ Goto(r, "commit", [h[r] EXCEPT !.event =
       [seq |-> nextSeq, req |-> h[r].req, prev |-> prev, hash |-> HashOf(prev, h[r].req)]])
  /\ nextSeq' = nextSeq + 1
  /\ UNCHANGED <<rows, events, locks, auditLock, aborted>>

Commit(r) ==
  /\ pc[r] = "commit"
  /\ Ideal!Change(h[r].writes)
  /\ events' = events \cup {h[r].event}
  /\ Release(r)
  /\ UNCHANGED <<nextSeq, aborted>>

Abort(r) ==
  /\ pc[r] # "idle" /\ aborted < MaxAborts
  /\ aborted' = aborted + 1
  /\ Release(r)
  /\ UNCHANGED <<rows, events, nextSeq>>

-----------------------------------------------------------------------------
(* GET /v1/audit/verify walks the chain a page at a time, with no lock. *)

StartVerify ==
  /\ ~walk.on /\ walks < MaxVerifications
  /\ walks' = walks + 1
  /\ walk' = [on |-> TRUE, cursor |-> 0, prev |-> Genesis, count |-> 0, verdict |-> "none",
              due |-> Cardinality(events), after |-> tampered]
  /\ UNCHANGED <<tables, pc, h, tampered, sent, aborted>>

(* The next rows in the order of their numbers.  A cursor starts at the     *)
(* row it names and skips it; with that row gone the page is empty.         *)
Page ==
  LET after == {e \in events : e.seq > walk.cursor}
      known == walk.cursor = 0 \/ \E e \in events : e.seq = walk.cursor
  IN  {e \in after : known /\ Cardinality({d \in after : d.seq < e.seq}) < PageSize}

(* The hash of the event that was checked before event e of a page. *)
Checked(page, e) ==
  LET before == {d \in page : d.seq < e.seq}
  IN  IF before = {} THEN walk.prev ELSE Latest(before).hash

(* Events of a page that do not follow from the one before. *)
Broken(page) ==
  {e \in page : e.prev # Checked(page, e) \/ e.hash # HashOf(Checked(page, e), e.req)}

CheckPage ==
  /\ walk.on
  /\ walk' =
       IF Page = {} THEN [walk EXCEPT !.on = FALSE, !.verdict = "ok"]
       ELSE IF Broken(Page) # {} THEN [walk EXCEPT !.on = FALSE, !.verdict = "broken"]
       ELSE [walk EXCEPT !.cursor = Latest(Page).seq, !.prev = Latest(Page).hash,
                         !.count = @ + Cardinality(Page)]
  /\ UNCHANGED <<tables, pc, h, tampered, sent, aborted, walks>>

(* Somebody with access to the database changes an event, or deletes one.  *)
(* Deleting the newest is told apart: nothing is chained to it yet.        *)
Tamper ==
  /\ tampered = "nothing" /\ MaxTampers > 0
  /\ \E e \in events :
       \/ /\ \E actor \in Actor \ {e.req.actor} :
               events' = (events \ {e}) \cup {[e EXCEPT !.req.actor = actor]}
          /\ tampered' = "edited"
       \/ /\ events' = events \ {e}
          /\ tampered' = IF e = Latest(events) THEN "shortened" ELSE "deleted"
  /\ UNCHANGED <<rows, nextSeq, locks, auditLock, pc, h, walk, sent, aborted, walks>>

-----------------------------------------------------------------------------
Work(r) == \/ InsertRow(r) \/ TouchSession(r) \/ DecideRow(r) \/ ExecutionRow(r)
           \/ TakeAuditLock(r) \/ AppendEvent(r) \/ Commit(r)

Next ==
  \/ \E r \in Handler : Work(r) \/ Abort(r) \/ \E req \in Ideal!Request : Accept(r, req)
  \/ StartVerify \/ CheckPage \/ Tamper

Spec == Init /\ [][Next]_vars

(* The database serves whoever waits, and a walk in progress goes on. *)
FairSpec == Spec /\ WF_vars(CheckPage) /\ \A r \in Handler : WF_vars(Work(r))
=============================================================================
