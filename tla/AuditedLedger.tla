---------------------------- MODULE AuditedLedger ----------------------------
(***************************************************************************)
(* What the backend promises of its tables: a change to an approval, a     *)
(* session or a conversation turn and the audit entry that tells of it     *)
(* happen together, in the order the entries are numbered, and only when   *)
(* the change is a legal one.  Locks, transactions, hashes and lost        *)
(* connections are below this level (module Ledger).                       *)
(***************************************************************************)
EXTENDS Integers

CONSTANTS
  Actor, Approver,         \* actors, and those holding workflow:approve
  Approval, Session, Turn, \* identifiers of the rows
  None,                    \* absent value
  RequireSeparateApprover  \* APPROVAL_REQUIRE_SEPARATE_APPROVER

VARIABLES rows, trail

Key == Approval \cup Session \cup Turn

(* What the tables may hold. *)
ApprovalRecord ==
  [by : Actor, status : {"PENDING", "APPROVED", "REJECTED"}, decidedBy : Actor \cup {None},
   execution : {"NOT_EXECUTED", "SUCCEEDED", "FAILED"}]
SessionRecord == [owner : Actor, title : Turn \cup {None}]
TurnRecord == [session : Session]

(* What a caller asks for, and what the audit entry says happened. *)
Asked(op, keys, sessions, values) ==
  [op : {op}, actor : Actor, key : keys, session : sessions, value : values]

Request ==
  UNION {Asked("session", Session, {None}, {None}),
         Asked("turn", Turn, Session, {None}),
         Asked("request", Approval, Session \cup {None}, {None}),
         Asked("decide", Approval, {None}, {"APPROVED", "REJECTED"}),
         Asked("execute", Approval, {None}, {"SUCCEEDED", "FAILED"})}

ApprovalRow(req) == [by |-> req.actor, status |-> "PENDING", decidedBy |-> None,
                     execution |-> "NOT_EXECUTED"]
SessionRow(req)  == [owner |-> req.actor, title |-> None]
TurnRow(req)     == [session |-> req.session]

Owns(actor, s) == rows[s] # None /\ rows[s].owner = actor

Change(new) == rows' = [k \in Key |-> IF k \in DOMAIN new THEN new[k] ELSE rows[k]]

OpenSession(req) ==
  /\ req.op = "session" /\ rows[req.key] = None
  /\ Change([k \in {req.key} |-> SessionRow(req)])

(* The title may be set, or replaced by a turn that was under way when the *)
(* first one set it.                                                       *)
RecordTurn(req) ==
  /\ req.op = "turn" /\ rows[req.key] = None /\ Owns(req.actor, req.session)
  /\ \E title \in {rows[req.session].title, req.key} :
       Change([k \in {req.key, req.session} |->
         IF k = req.key THEN TurnRow(req) ELSE [rows[k] EXCEPT !.title = title]])

RequestApproval(req) ==
  /\ req.op = "request" /\ rows[req.key] = None
  /\ req.session # None => Owns(req.actor, req.session)
  /\ Change([k \in {req.key} |-> ApprovalRow(req)])

Decide(req) ==
  /\ req.op = "decide"
  /\ rows[req.key] # None /\ rows[req.key].status = "PENDING"
  /\ req.actor \in Approver
  /\ RequireSeparateApprover => req.actor # rows[req.key].by
  /\ Change([k \in {req.key} |->
       [rows[k] EXCEPT !.status = req.value, !.decidedBy = req.actor]])

RecordExecution(req) ==
  /\ req.op = "execute"
  /\ rows[req.key] # None /\ rows[req.key].status = "APPROVED"
  /\ Change([k \in {req.key} |-> [rows[k] EXCEPT !.execution = req.value]])

Init ==
  /\ rows = [k \in Key |-> None]
  /\ trail = {}

(* One entry, numbered after all others, and the change it tells of.       *)
Next == \E e \in trail' \ trail :
  /\ e.req \in Request /\ \A d \in trail : d.seq < e.seq
  /\ trail' = trail \cup {e}
  /\ \/ OpenSession(e.req) \/ RecordTurn(e.req)
     \/ RequestApproval(e.req) \/ Decide(e.req) \/ RecordExecution(e.req)

Spec == Init /\ [][Next]_<<rows, trail>>
=============================================================================
