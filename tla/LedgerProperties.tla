-------------------------- MODULE LedgerProperties --------------------------
(***************************************************************************)
(* What the backend's tables and its audit chain promise.                  *)
(***************************************************************************)
EXTENDS Ledger

(* Rows and events are well-formed, locks belong to requests in their      *)
(* transaction, and an idle request holds nothing.                         *)
TypeOK ==
  /\ \A a \in Approval : rows[a] \in Ideal!ApprovalRecord \cup {None}
  /\ \A s \in Session : rows[s] \in Ideal!SessionRecord \cup {None}
  /\ \A m \in Turn : rows[m] \in Ideal!TurnRecord \cup {None}
  /\ DOMAIN rows = Key /\ nextSeq \in Nat \ {0}
  /\ \A e \in events : e.req \in Ideal!Request /\ e.seq < nextSeq
  /\ locks \in [Key -> Handler \cup {None}] /\ auditLock \in Handler \cup {None}
  /\ pc \in [Handler -> {"idle", "write", "touch", "lock", "append", "commit"}]
  /\ \A r \in Handler : pc[r] = "idle" <=> h[r] = None
  /\ \A k \in Key : locks[k] # None => k \in DOMAIN h[locks[k]].writes
  /\ auditLock # None => pc[auditLock] \in {"append", "commit"}

(* The rows and the audit trail change together, by one legal change at a  *)
(* time, and in the order of the trail, whatever requests overlap or are   *)
(* lost (approvals.service.ts, audit.service.ts:52 "so the event cannot be *)
(* lost on rollback"): but for tampering, every step is one of the ideal   *)
(* ledger's, or none.                                                      *)
ChangesAreAudited ==
  /\ Ideal!Init
  /\ [][tampered' = tampered => [Ideal!Next]_<<rows, events>>]_vars

NoFalseAlarm == tampered = "nothing" => walk.verdict # "broken"

TamperingShows == walk.verdict = "ok" => walk.after \notin {"edited", "deleted"}

VerifiedMeansAll ==
  walk.verdict = "ok" /\ tampered = "nothing" => walk.count >= walk.due

(* A verification may be believed (audit.service.ts:42): an untouched      *)
(* chain always verifies, with appends going on while it is walked and     *)
(* numbers lost to transactions rolled back; a change to a past event, or  *)
(* the removal of one that another is chained to, is found by every walk   *)
(* that starts afterwards; and a walk that finds nothing has counted every *)
(* event there was when it began.                                          *)
VerificationIsRight == NoFalseAlarm /\ TamperingShows /\ VerifiedMeansAll

(* The schema's promise (prisma/schema.prisma) that any deletion breaks    *)
(* verification.                                                           *)
AnyDeletionShows == walk.verdict = "ok" => walk.after = "nothing"

(* Every request and every verification comes to an end: row locks are     *)
(* always taken before the advisory lock, so nobody waits in a circle.     *)
EveryoneFinishes ==
  /\ \A r \in Handler : (pc[r] # "idle") ~> (pc[r] = "idle")
  /\ walk.on ~> ~walk.on
=============================================================================
