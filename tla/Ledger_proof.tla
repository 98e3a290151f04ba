----------------------------- MODULE Ledger_proof -----------------------------
(***************************************************************************)
(* Theorems about the backend's tables and its audit chain for any actors, *)
(* identifiers, requests served together, page size, lost transactions and *)
(* verifications.                                                          *)
(***************************************************************************)
EXTENDS LedgerProperties, TLAPS, FiniteSetTheorems, WellFoundedInduction

Stage == {"idle", "write", "touch", "lock", "append", "commit"}

Tampering == {"nothing", "edited", "deleted", "shortened"}

Walk ==
  [on : BOOLEAN, cursor : Nat, prev : Hash, count : Nat, verdict : {"none", "ok", "broken"},
   due : Nat, after : Tampering]

Shapes ==
  /\ rows \in [Key -> Row \cup {None}]
  /\ \A a \in Approval : rows[a] \in Ideal!ApprovalRecord \cup {None}
  /\ \A s \in Session : rows[s] \in Ideal!SessionRecord \cup {None}
  /\ \A m \in Turn : rows[m] \in Ideal!TurnRecord \cup {None}
  /\ events \in SUBSET Event /\ IsFiniteSet(events) /\ nextSeq \in Nat \ {0}
  /\ locks \in [Key -> Handler \cup {None}] /\ auditLock \in Handler \cup {None}
  /\ pc \in [Handler -> Stage] /\ h \in [Handler -> Job \cup {None}]
  /\ tampered \in Tampering

(* Every event has a number of its own, and the sequence is past them all. *)
NumbersInv ==
  /\ \A e \in events : e.seq < nextSeq
  /\ \A d, e \in events : d.seq = e.seq => d = e

(* A transaction has locked what it has written, and nothing else; who is  *)
(* about to append or to commit has the advisory lock.                     *)
LocksInv ==
  /\ \A r \in Handler : pc[r] = "idle" <=> h[r] = None
  /\ \A k \in Key : locks[k] # None => h[locks[k]] # None /\ k \in DOMAIN h[locks[k]].writes
  /\ \A r \in Handler : h[r] # None => \A k \in DOMAIN h[r].writes : locks[k] = r
  /\ \A r \in Handler : auditLock = r <=> pc[r] \in {"append", "commit"}

(* What a request found when it was checked, and nobody can undo.          *)
Legal(req) ==
  /\ req.op = "turn" => Owns(req.actor, req.session)
  /\ req.op = "request" /\ req.session # None => Owns(req.actor, req.session)
  /\ req.op = "decide" =>
       /\ req.actor \in Approver /\ rows[req.key] # None
       /\ RequireSeparateApprover => rows[req.key].by # req.actor
  /\ req.op = "execute" => rows[req.key] # None /\ rows[req.key].status = "APPROVED"

(* What a transaction that has written all its rows is about to change.    *)
Effect(req, writes) ==
  \/ /\ req.op = "session" /\ rows[req.key] = None
     /\ DOMAIN writes = {req.key} /\ writes[req.key] = Ideal!SessionRow(req)
  \/ /\ req.op = "request" /\ rows[req.key] = None
     /\ DOMAIN writes = {req.key} /\ writes[req.key] = Ideal!ApprovalRow(req)
  \/ /\ req.op = "turn" /\ rows[req.key] = None
     /\ DOMAIN writes = {req.key, req.session} /\ writes[req.key] = Ideal!TurnRow(req)
     /\ \E title \in {rows[req.session].title, req.key} :
          writes[req.session] = [rows[req.session] EXCEPT !.title = title]
  \/ /\ req.op = "decide" /\ rows[req.key].status = "PENDING" /\ DOMAIN writes = {req.key}
     /\ writes[req.key] = [rows[req.key] EXCEPT !.status = req.value, !.decidedBy = req.actor]
  \/ /\ req.op = "execute" /\ DOMAIN writes = {req.key}
     /\ writes[req.key] = [rows[req.key] EXCEPT !.execution = req.value]

(* Event e comes after all that are committed.                             *)
Newest(e) == e \in Event /\ e.seq < nextSeq /\ \A d \in events : d.seq < e.seq

JobOk(stage, job) ==
  /\ job \in Job /\ Legal(job.req)
  /\ stage = "write" => DOMAIN job.writes = {}
  /\ stage = "touch" =>
       /\ job.req.op = "turn" /\ rows[job.req.key] = None
       /\ DOMAIN job.writes = {job.req.key} /\ job.writes[job.req.key] = Ideal!TurnRow(job.req)
  /\ stage \in {"lock", "append", "commit"} => Effect(job.req, job.writes)
  /\ stage = "commit" => Newest(job.event) /\ job.event.req = job.req

JobsInv == \A r \in Handler : pc[r] # "idle" => JobOk(pc[r], h[r])

RowsInv == Shapes /\ NumbersInv /\ LocksInv /\ JobsInv

-----------------------------------------------------------------------------
(* What the tables may hold, and what may be asked for.                    *)

LEMMA NoneIsNothing ==
  /\ None \notin Handler /\ None \notin Actor /\ None \notin Key /\ None \notin Row /\ None \notin Job
  /\ Approval \cap Session = {} /\ Approval \cap Turn = {} /\ Session \cap Turn = {}
  /\ PageSize \in Nat \ {0}
BY LedgerAssumption DEF LedgerAssumption

LEMMA RequestFields ==
  ASSUME NEW req \in Ideal!Request
  PROVE  /\ req.op \in {"session", "turn", "request", "decide", "execute"}
         /\ req.actor \in Actor /\ req.key \in Key /\ req.session \in Session \cup {None}
         /\ req.op = "session" => req.key \in Session
         /\ req.op = "turn" => req.key \in Turn /\ req.session \in Session
         /\ req.op \in {"request", "decide", "execute"} => req.key \in Approval
         /\ req.op = "decide" => req.value \in {"APPROVED", "REJECTED"}
         /\ req.op = "execute" => req.value \in {"SUCCEEDED", "FAILED"}
BY DEF Ideal!Request, Ideal!Asked, Key, Ideal!Key

LEMMA RowSets ==
  /\ Ideal!ApprovalRecord \subseteq Row /\ Ideal!SessionRecord \subseteq Row
  /\ Ideal!TurnRecord \subseteq Row /\ None \notin Row
  /\ Approval \subseteq Key /\ Session \subseteq Key /\ Turn \subseteq Key
BY NoneIsNothing DEF Row, Key, Ideal!Key

LEMMA WritesType ==
  ASSUME NEW w
  PROVE  w \in Writes <=> /\ w = [k \in DOMAIN w |-> w[k]] /\ DOMAIN w \subseteq Key
                         /\ \A k \in DOMAIN w : w[k] \in Row
<1>1. ASSUME w \in Writes
      PROVE  /\ w = [k \in DOMAIN w |-> w[k]] /\ DOMAIN w \subseteq Key
             /\ \A k \in DOMAIN w : w[k] \in Row
  <2>1. PICK K \in SUBSET Key : w \in [K -> Row]
    BY <1>1 DEF Writes
  <2> QED  BY <2>1
<1>2. ASSUME w = [k \in DOMAIN w |-> w[k]], DOMAIN w \subseteq Key, \A k \in DOMAIN w : w[k] \in Row
      PROVE  w \in Writes
  <2>1. w \in [DOMAIN w -> Row]
    BY <1>2
  <2> QED  BY <1>2, <2>1 DEF Writes
<1> QED  BY <1>1, <1>2

(* A row of its table goes into it.                                        *)
FitsAt(k, row) ==
  /\ k \in Approval => row \in Ideal!ApprovalRecord
  /\ k \in Session => row \in Ideal!SessionRecord
  /\ k \in Turn => row \in Ideal!TurnRecord

(* What may become of a row: ownership and authorship stay, and so does an *)
(* approval once it is given.                                              *)
Follows(k, old, new) ==
  /\ old # None => new # None
  /\ k \in Session /\ old # None => new.owner = old.owner
  /\ k \in Approval /\ old # None =>
       new.by = old.by /\ (old.status = "APPROVED" => new.status = "APPROVED")

LEMMA EffectRows ==
  ASSUME RowsInv, NEW req \in Ideal!Request, NEW w, Legal(req), Effect(req, w)
  PROVE  /\ DOMAIN w \subseteq Key
         /\ \A k \in DOMAIN w : FitsAt(k, w[k]) /\ Follows(k, rows[k], w[k]) /\ w[k] \in Row
<1>1. /\ req.op \in {"session", "turn", "request", "decide", "execute"}
      /\ req.actor \in Actor /\ req.key \in Key /\ req.session \in Session \cup {None}
      /\ req.op = "session" => req.key \in Session
      /\ req.op = "turn" => req.key \in Turn /\ req.session \in Session
      /\ req.op \in {"request", "decide", "execute"} => req.key \in Approval
      /\ req.op = "decide" => req.value \in {"APPROVED", "REJECTED"}
      /\ req.op = "execute" => req.value \in {"SUCCEEDED", "FAILED"}
  BY RequestFields
<1>2. CASE req.op = "session"
  <2>1. rows[req.key] = None /\ DOMAIN w = {req.key} /\ w[req.key] = Ideal!SessionRow(req)
    BY <1>2 DEF Effect
  <2>2. w[req.key] \in Ideal!SessionRecord
    BY <1>1, <2>1 DEF Ideal!SessionRow, Ideal!SessionRecord
  <2> QED  BY <1>1, <1>2, <2>1, <2>2, NoneIsNothing, RowSets DEF FitsAt, Follows
<1>3. CASE req.op = "request"
  <2>1. rows[req.key] = None /\ DOMAIN w = {req.key} /\ w[req.key] = Ideal!ApprovalRow(req)
    BY <1>3 DEF Effect
  <2>2. w[req.key] \in Ideal!ApprovalRecord
    BY <1>1, <2>1 DEF Ideal!ApprovalRow, Ideal!ApprovalRecord
  <2> QED  BY <1>1, <1>3, <2>1, <2>2, NoneIsNothing, RowSets DEF FitsAt, Follows
<1>4. CASE req.op = "turn"
  <2>1. /\ rows[req.key] = None /\ DOMAIN w = {req.key, req.session}
        /\ w[req.key] = Ideal!TurnRow(req)
    BY <1>4 DEF Effect
  <2>2. PICK title \in {rows[req.session].title, req.key} :
          w[req.session] = [rows[req.session] EXCEPT !.title = title]
    BY <1>4 DEF Effect
  <2>3. w[req.key] \in Ideal!TurnRecord
    BY <1>1, <1>4, <2>1 DEF Ideal!TurnRow, Ideal!TurnRecord
  <2>4. rows[req.session] \in Ideal!SessionRecord /\ rows[req.session] # None
    BY <1>1, <1>4 DEF Legal, Owns, Ideal!Owns, RowsInv, Shapes
  <2>5. /\ w[req.session] \in Ideal!SessionRecord
        /\ w[req.session].owner = rows[req.session].owner
    BY <1>1, <1>4, <2>2, <2>4 DEF Ideal!SessionRecord
  <2>6. \A k \in DOMAIN w : k = req.key \/ k = req.session
    BY <2>1
  <2>7. FitsAt(req.key, w[req.key]) /\ Follows(req.key, rows[req.key], w[req.key])
    BY <1>1, <1>4, <2>1, <2>3, NoneIsNothing DEF FitsAt, Follows
  <2>8. FitsAt(req.session, w[req.session]) /\ Follows(req.session, rows[req.session], w[req.session])
    BY <1>1, <1>4, <2>4, <2>5, NoneIsNothing, RowSets DEF FitsAt, Follows
  <2> QED  BY <1>1, <1>4, <2>1, <2>3, <2>5, <2>6, <2>7, <2>8, RowSets
<1>5. CASE req.op = "decide"
  <2>1. /\ rows[req.key].status = "PENDING" /\ DOMAIN w = {req.key}
        /\ w[req.key] = [rows[req.key] EXCEPT !.status = req.value, !.decidedBy = req.actor]
    BY <1>5 DEF Effect
  <2>2. rows[req.key] \in Ideal!ApprovalRecord
    BY <1>1, <1>5 DEF Legal, RowsInv, Shapes
  <2>3. w[req.key] \in Ideal!ApprovalRecord /\ w[req.key].by = rows[req.key].by
    BY <1>1, <1>5, <2>1, <2>2 DEF Ideal!ApprovalRecord
  <2> QED  BY <1>1, <1>5, <2>1, <2>3, NoneIsNothing, RowSets DEF FitsAt, Follows
<1>6. CASE req.op = "execute"
  <2>1. DOMAIN w = {req.key} /\ w[req.key] = [rows[req.key] EXCEPT !.execution = req.value]
    BY <1>6 DEF Effect
  <2>2. rows[req.key] \in Ideal!ApprovalRecord
    BY <1>1, <1>6 DEF Legal, RowsInv, Shapes
  <2>3. /\ w[req.key] \in Ideal!ApprovalRecord /\ w[req.key].by = rows[req.key].by
        /\ w[req.key].status = rows[req.key].status
    BY <1>1, <1>6, <2>1, <2>2 DEF Ideal!ApprovalRecord
  <2> QED  BY <1>1, <1>6, <2>1, <2>3, NoneIsNothing, RowSets DEF FitsAt, Follows
<1> QED  BY <1>1, <1>2, <1>3, <1>4, <1>5, <1>6

-----------------------------------------------------------------------------
(* What a request has found and written stays as it is while others work.  *)

LEMMA JobKept ==
  ASSUME NEW stage, NEW job, JobOk(stage, job), rows' = rows,
         nextSeq \in Nat, nextSeq' \in Nat, nextSeq <= nextSeq',
         \A d \in events' : \E e \in events : e.seq = d.seq
  PROVE  JobOk(stage, job)'
<1>1. Legal(job.req)' <=> Legal(job.req)
  BY DEF Legal, Owns, Ideal!Owns
<1>2. Effect(job.req, job.writes)' <=> Effect(job.req, job.writes)
  BY DEF Effect
<1>3. Newest(job.event) => Newest(job.event)'
  BY DEF Newest, Event
<1> QED  BY <1>1, <1>2, <1>3 DEF JobOk

LEMMA JobKeptByCommit ==
  ASSUME NEW stage, NEW job, JobOk(stage, job), stage # "commit",
         \A k \in DOMAIN job.writes : rows'[k] = rows[k],
         \A k \in Key : Follows(k, rows[k], rows'[k])
  PROVE  JobOk(stage, job)'
<1>1. job.req \in Ideal!Request
  BY DEF JobOk, Job
<1>2. PICK req, w : req = job.req /\ w = job.writes /\ req \in Ideal!Request
  BY <1>1
<1>3. /\ req.key \in Key
      /\ req.op \in {"request", "decide", "execute"} => req.key \in Approval
      /\ req.op = "turn" => req.session \in Session
      /\ req.session \in Session \cup {None}
  BY <1>2, RequestFields
<1>4. Legal(req) => Legal(req)'
  BY <1>3, RowSets DEF Legal, Owns, Ideal!Owns, Follows
<1>5. Effect(req, w) => Effect(req, w)'
  <2> SUFFICES ASSUME Effect(req, w) PROVE Effect(req, w)'
    OBVIOUS
  <2>1. rows'[req.key] = rows[req.key]
    BY <1>2 DEF Effect
  <2>2. req.op = "turn" => rows'[req.session] = rows[req.session]
    BY <1>2 DEF Effect
  <2> QED  BY <2>1, <2>2 DEF Effect
<1>6. stage = "touch" => rows'[req.key] = rows[req.key]
  BY <1>2 DEF JobOk
<1> QED  BY <1>2, <1>4, <1>5, <1>6 DEF JobOk

(* The jobs of all but request r are untouched.                            *)
LEMMA OthersKept ==
  ASSUME RowsInv, NEW r \in Handler, rows' = rows,
         nextSeq' \in Nat, nextSeq <= nextSeq', events' = events,
         \A p \in Handler \ {r} : pc'[p] = pc[p] /\ h'[p] = h[p]
  PROVE  \A p \in Handler \ {r} : pc'[p] # "idle" => JobOk(pc[p], h[p])'
<1> SUFFICES ASSUME NEW p \in Handler \ {r}, pc'[p] # "idle"
             PROVE  JobOk(pc[p], h[p])'
  OBVIOUS
<1>1. PICK stage, job : stage = pc[p] /\ job = h[p]
  OBVIOUS
<1>2. JobOk(stage, job) /\ nextSeq \in Nat
  BY <1>1 DEF RowsInv, Shapes, JobsInv
<1>3. JobOk(stage, job)'
  BY <1>2, JobKept
<1>4. stage = pc'[p] /\ job = h'[p]
  BY <1>1
<1> QED  BY <1>3, <1>4 DEF JobOk

(* The end of a transaction gives up its locks, and no others.             *)
LEMMA Released ==
  ASSUME RowsInv, NEW r \in Handler, Release(r)
  PROVE  /\ LocksInv'
         /\ locks' \in [Key -> Handler \cup {None}] /\ auditLock' \in Handler \cup {None}
         /\ pc' \in [Handler -> Stage] /\ h' \in [Handler -> Job \cup {None}]
         /\ pc'[r] = "idle" /\ \A p \in Handler \ {r} : pc'[p] = pc[p] /\ h'[p] = h[p]
         /\ walk' = walk /\ tampered' = tampered
<1>1. /\ locks' = [k \in Key |-> IF locks[k] = r THEN None ELSE locks[k]]
      /\ auditLock' = IF auditLock = r THEN None ELSE auditLock
      /\ pc' = [pc EXCEPT ![r] = "idle"] /\ h' = [h EXCEPT ![r] = None]
      /\ walk' = walk /\ tampered' = tampered
  BY DEF Release, Goto, audits
<1>2. /\ locks \in [Key -> Handler \cup {None}] /\ auditLock \in Handler \cup {None}
      /\ pc \in [Handler -> Stage] /\ h \in [Handler -> Job \cup {None}] /\ LocksInv
      /\ None \notin Handler
  BY NoneIsNothing DEF RowsInv, Shapes
<1>3. /\ locks' \in [Key -> Handler \cup {None}] /\ auditLock' \in Handler \cup {None}
      /\ pc' \in [Handler -> Stage] /\ h' \in [Handler -> Job \cup {None}]
      /\ pc'[r] = "idle" /\ h'[r] = None
      /\ \A p \in Handler \ {r} : pc'[p] = pc[p] /\ h'[p] = h[p]
  BY <1>1, <1>2 DEF Stage
<1>4. LocksInv'
  <2>1. \A p \in Handler : pc'[p] = "idle" <=> h'[p] = None
    BY <1>2, <1>3 DEF LocksInv
  <2>2. \A k \in Key : locks'[k] # None =>
          h'[locks'[k]] # None /\ k \in DOMAIN h'[locks'[k]].writes
    <3> SUFFICES ASSUME NEW k \in Key, locks'[k] # None
                 PROVE  h'[locks'[k]] # None /\ k \in DOMAIN h'[locks'[k]].writes
      OBVIOUS
    <3>1. locks'[k] = locks[k] /\ locks[k] \in Handler \ {r}
      BY <1>1, <1>2
    <3>2. h'[locks[k]] = h[locks[k]]
      BY <1>3, <3>1
    <3> QED  BY <1>2, <3>1, <3>2 DEF LocksInv
  <2>3. \A p \in Handler : h'[p] # None => \A k \in DOMAIN h'[p].writes : locks'[k] = p
    <3> SUFFICES ASSUME NEW p \in Handler, h'[p] # None, NEW k \in DOMAIN h'[p].writes
                 PROVE  locks'[k] = p
      OBVIOUS
    <3>1. p # r /\ h'[p] = h[p]
      BY <1>3
    <3>2. locks[k] = p /\ h[p] \in Job
      BY <1>2, <3>1 DEF LocksInv
    <3>3. k \in Key
      BY <3>1, <3>2, WritesType DEF Job
    <3> QED  BY <1>1, <3>1, <3>2, <3>3
  <2>4. \A p \in Handler : auditLock' = p <=> pc'[p] \in {"append", "commit"}
    BY <1>1, <1>2, <1>3 DEF LocksInv
  <2> QED  BY <2>1, <2>2, <2>3, <2>4 DEF LocksInv
<1> QED  BY <1>1, <1>3, <1>4

LEMMA Ended ==
  ASSUME RowsInv, NEW r \in Handler, Release(r), rows' = rows, events' = events, nextSeq' = nextSeq
  PROVE  RowsInv'
<1>1. /\ LocksInv'
      /\ locks' \in [Key -> Handler \cup {None}] /\ auditLock' \in Handler \cup {None}
      /\ pc' \in [Handler -> Stage] /\ h' \in [Handler -> Job \cup {None}]
      /\ pc'[r] = "idle" /\ \A p \in Handler \ {r} : pc'[p] = pc[p] /\ h'[p] = h[p]
      /\ walk' = walk /\ tampered' = tampered
  BY Released
<1>2. Shapes' /\ NumbersInv' /\ nextSeq \in Nat /\ nextSeq' \in Nat /\ nextSeq <= nextSeq'
  BY <1>1 DEF RowsInv, Shapes, NumbersInv
<1>3. \A p \in Handler \ {r} : pc'[p] # "idle" => JobOk(pc[p], h[p])'
  BY <1>1, <1>2, OthersKept
<1>4. JobsInv'
  BY <1>1, <1>3 DEF JobsInv
<1> QED  BY <1>1, <1>2, <1>4 DEF RowsInv

(* A statement that writes a row leaves the request with one lock more.    *)
LEMMA Written ==
  ASSUME RowsInv, NEW r \in Handler, NEW k \in Key, NEW row \in Row, NEW stage \in {"touch", "lock"},
         Write(r, k, row, stage), pc[r] \in {"write", "touch"},
         NEW job \in Job, job.req = h[r].req,
         job = WithRow(h[r], k, row),
         JobOk(stage, job)
  PROVE  RowsInv'
<1>1. /\ locks[k] = None /\ locks' = [locks EXCEPT ![k] = r]
      /\ pc' = [pc EXCEPT ![r] = stage] /\ h' = [h EXCEPT ![r] = job]
      /\ rows' = rows /\ events' = events /\ nextSeq' = nextSeq /\ auditLock' = auditLock
      /\ walk' = walk /\ tampered' = tampered
  BY DEF Write, Free, Goto, audits
<1>2. /\ locks \in [Key -> Handler \cup {None}] /\ pc \in [Handler -> Stage]
      /\ h \in [Handler -> Job \cup {None}] /\ LocksInv /\ None \notin Handler /\ None \notin Job
  BY NoneIsNothing DEF RowsInv, Shapes
<1>3. h[r] \in Job /\ DOMAIN job.writes = DOMAIN h[r].writes \cup {k}
  <2>1. h[r] \in Job
    BY <1>2 DEF LocksInv
  <2>2. job.writes = [j \in DOMAIN h[r].writes \cup {k} |-> IF j = k THEN row ELSE h[r].writes[j]]
    BY <2>1 DEF Job, WithRow
  <2> QED  BY <2>1, <2>2
<1>4. /\ pc' \in [Handler -> Stage] /\ h' \in [Handler -> Job \cup {None}]
      /\ locks' \in [Key -> Handler \cup {None}]
      /\ pc'[r] = stage /\ h'[r] = job
      /\ \A p \in Handler \ {r} : pc'[p] = pc[p] /\ h'[p] = h[p]
      /\ \A j \in Key : locks'[j] = IF j = k THEN r ELSE locks[j]
  BY <1>1, <1>2 DEF Stage
<1>5. LocksInv'
  <2>1. \A p \in Handler : pc'[p] = "idle" <=> h'[p] = None
    BY <1>2, <1>4 DEF LocksInv
  <2>2. \A j \in Key : locks'[j] # None =>
          h'[locks'[j]] # None /\ j \in DOMAIN h'[locks'[j]].writes
    <3> SUFFICES ASSUME NEW j \in Key, locks'[j] # None
                 PROVE  h'[locks'[j]] # None /\ j \in DOMAIN h'[locks'[j]].writes
      OBVIOUS
    <3>1. CASE j = k
      BY <1>2, <1>3, <1>4, <3>1
    <3>2. CASE j # k
      <4>1. locks'[j] = locks[j] /\ locks[j] \in Handler
        BY <1>2, <1>4, <3>2
      <4>2. h[locks[j]] # None /\ j \in DOMAIN h[locks[j]].writes
        BY <1>2, <4>1 DEF LocksInv
      <4>3. CASE locks[j] = r
        BY <1>2, <1>3, <1>4, <4>1, <4>2, <4>3
      <4>4. CASE locks[j] # r
        BY <1>4, <4>1, <4>2, <4>4
      <4> QED  BY <4>3, <4>4
    <3> QED  BY <3>1, <3>2
  <2>3. \A p \in Handler : h'[p] # None => \A j \in DOMAIN h'[p].writes : locks'[j] = p
    <3> SUFFICES ASSUME NEW p \in Handler, h'[p] # None, NEW j \in DOMAIN h'[p].writes
                 PROVE  locks'[j] = p
      OBVIOUS
    <3>1. CASE p = r
      <4>1. j = k \/ j \in DOMAIN h[r].writes
        BY <1>3, <1>4, <3>1
      <4>2. CASE j = k
        BY <1>4, <3>1, <4>2
      <4>3. CASE j \in DOMAIN h[r].writes
        <5>1. locks[j] = r
          BY <1>2, <1>3, <4>3 DEF LocksInv
        <5>2. j \in Key
          BY <1>3, <4>3, WritesType DEF Job
        <5> QED  BY <1>4, <3>1, <5>1, <5>2
      <4> QED  BY <4>1, <4>2, <4>3
    <3>2. CASE p # r
      <4>1. h'[p] = h[p] /\ locks[j] = p /\ h[p] \in Job
        BY <1>2, <1>4, <3>2 DEF LocksInv
      <4>2. j \in Key
        BY <4>1, WritesType DEF Job
      <4> QED  BY <1>1, <1>2, <1>4, <4>1, <4>2
    <3> QED  BY <3>1, <3>2
  <2>4. \A p \in Handler : auditLock' = p <=> pc'[p] \in {"append", "commit"}
    BY <1>1, <1>2, <1>4 DEF LocksInv
  <2> QED  BY <2>1, <2>2, <2>3, <2>4 DEF LocksInv
<1>6. Shapes' /\ NumbersInv' /\ nextSeq' \in Nat /\ nextSeq <= nextSeq'
  BY <1>1, <1>4 DEF RowsInv, Shapes, NumbersInv
<1>7. \A p \in Handler \ {r} : pc'[p] # "idle" => JobOk(pc[p], h[p])'
  BY <1>1, <1>4, <1>6, OthersKept
<1>8. JobOk(stage, job)'
  BY <1>1 DEF JobOk, Legal, Owns, Ideal!Owns, Effect, Newest
<1>9. JobsInv'
  <2>1. JobOk(pc[r], h[r])'
    BY <1>4, <1>8 DEF JobOk
  <2> QED  BY <1>4, <1>7, <2>1 DEF JobsInv
<1> QED  BY <1>5, <1>6, <1>9 DEF RowsInv

(* What a job becomes when it has written row k.                           *)
LEMMA JobWrites ==
  ASSUME NEW old \in Job, NEW k \in Key, NEW row \in Row
  PROVE  LET job == WithRow(old, k, row)
         IN  /\ job \in Job /\ job.req = old.req /\ job.event = old.event /\ job.titled = old.titled
             /\ DOMAIN job.writes = DOMAIN old.writes \cup {k}
             /\ \A j \in DOMAIN job.writes : job.writes[j] = IF j = k THEN row ELSE old.writes[j]
<1> DEFINE w == [j \in DOMAIN old.writes \cup {k} |-> IF j = k THEN row ELSE old.writes[j]]
<1>1. old.writes \in Writes
  BY DEF Job
<1>2. w \in Writes
  <2>1. DOMAIN w = DOMAIN old.writes \cup {k} /\ w = [j \in DOMAIN w |-> w[j]]
    OBVIOUS
  <2>2. \A j \in DOMAIN w : j \in Key /\ w[j] \in Row
    BY <1>1, WritesType
  <2> HIDE DEF w
  <2> QED  BY <2>1, <2>2, WritesType
<1>3. /\ DOMAIN w = DOMAIN old.writes \cup {k}
      /\ \A j \in DOMAIN w : w[j] = IF j = k THEN row ELSE old.writes[j]
  OBVIOUS
<1> HIDE DEF w
<1>4. LET job == [old EXCEPT !.writes = w]
      IN  /\ job \in Job /\ job.req = old.req /\ job.event = old.event /\ job.titled = old.titled
          /\ job.writes = w
  BY <1>2 DEF Job
<1> QED  BY <1>3, <1>4 DEF w, WithRow

(* A request moves on, and what it has written stays.                      *)
LEMMA Moved ==
  ASSUME RowsInv, NEW r \in Handler, NEW stage \in Stage \ {"idle"}, NEW job \in Job,
         pc' = [pc EXCEPT ![r] = stage], h' = [h EXCEPT ![r] = job],
         rows' = rows, events' = events, locks' = locks, tampered' = tampered,
         nextSeq' \in Nat \ {0}, nextSeq <= nextSeq',
         DOMAIN job.writes = IF pc[r] = "idle" THEN {} ELSE DOMAIN h[r].writes,
         auditLock' \in Handler \cup {None},
         \A p \in Handler : auditLock' = p <=> IF p = r THEN stage \in {"append", "commit"}
                                                        ELSE auditLock = p,
         JobOk(stage, job)'
  PROVE  RowsInv'
<1>1. /\ locks \in [Key -> Handler \cup {None}] /\ pc \in [Handler -> Stage]
      /\ h \in [Handler -> Job \cup {None}] /\ LocksInv /\ None \notin Handler /\ None \notin Job
      /\ nextSeq \in Nat
  BY NoneIsNothing DEF RowsInv, Shapes
<1>2. /\ pc' \in [Handler -> Stage] /\ h' \in [Handler -> Job \cup {None}]
      /\ pc'[r] = stage /\ h'[r] = job
      /\ \A p \in Handler \ {r} : pc'[p] = pc[p] /\ h'[p] = h[p]
  BY <1>1
<1>3. Shapes' /\ NumbersInv'
  <2>1. NumbersInv /\ Shapes
    BY DEF RowsInv
  <2>2. \A e \in events : e.seq \in Nat
    BY <2>1 DEF Shapes, Event
  <2>3. NumbersInv'
    BY <1>1, <2>1, <2>2 DEF NumbersInv
  <2> QED  BY <1>2, <2>1, <2>3 DEF Shapes
<1>4. LocksInv'
  <2>1. \A p \in Handler : pc'[p] = "idle" <=> h'[p] = None
    BY <1>1, <1>2 DEF LocksInv
  <2>2. \A k \in Key : locks'[k] # None =>
          h'[locks'[k]] # None /\ k \in DOMAIN h'[locks'[k]].writes
    <3> SUFFICES ASSUME NEW k \in Key, locks[k] # None
                 PROVE  h'[locks[k]] # None /\ k \in DOMAIN h'[locks[k]].writes
      OBVIOUS
    <3>1. locks[k] \in Handler /\ h[locks[k]] # None /\ k \in DOMAIN h[locks[k]].writes
      BY <1>1 DEF LocksInv
    <3>2. CASE locks[k] = r
      BY <1>1, <1>2, <3>1, <3>2 DEF LocksInv
    <3>3. CASE locks[k] # r
      BY <1>2, <3>1, <3>3
    <3> QED  BY <3>2, <3>3
  <2>3. \A p \in Handler : h'[p] # None => \A k \in DOMAIN h'[p].writes : locks'[k] = p
    <3> SUFFICES ASSUME NEW p \in Handler, h'[p] # None, NEW k \in DOMAIN h'[p].writes
                 PROVE  locks[k] = p
      OBVIOUS
    <3>1. CASE p = r
      BY <1>1, <1>2, <3>1 DEF LocksInv
    <3>2. CASE p # r
      BY <1>1, <1>2, <3>2 DEF LocksInv
    <3> QED  BY <3>1, <3>2
  <2>4. \A p \in Handler : auditLock' = p <=> pc'[p] \in {"append", "commit"}
    BY <1>1, <1>2 DEF LocksInv
  <2> QED  BY <2>1, <2>2, <2>3, <2>4 DEF LocksInv
<1>5. \A p \in Handler \ {r} : pc'[p] # "idle" => JobOk(pc[p], h[p])'
  BY <1>2, OthersKept
<1>6. JobsInv'
  <2>1. JobOk(pc[r], h[r])'
    BY <1>2 DEF JobOk
  <2> QED  BY <1>2, <1>5, <2>1 DEF JobsInv
<1> QED  BY <1>3, <1>4, <1>6 DEF RowsInv

-----------------------------------------------------------------------------
(* The steps of a request.                                                 *)

LEMMA AcceptStep ==
  ASSUME RowsInv, NEW r \in Handler, NEW req \in Ideal!Request, Accept(r, req)
  PROVE  RowsInv'
<1>1. PICK job : job = [req |-> req, writes |-> NoWrites, event |-> None,
                        titled |-> req.op = "turn" /\ rows[req.session].title # None]
  OBVIOUS
<1>2. /\ pc[r] = "idle" /\ pc' = [pc EXCEPT ![r] = "write"] /\ h' = [h EXCEPT ![r] = job]
      /\ rows' = rows /\ events' = events /\ locks' = locks /\ auditLock' = auditLock
      /\ nextSeq' = nextSeq /\ tampered' = tampered
  BY <1>1 DEF Accept, tables, audits
<1>3. DOMAIN NoWrites = {} /\ NoWrites \in Writes
  <2>1. DOMAIN NoWrites = {} /\ NoWrites = [k \in DOMAIN NoWrites |-> NoWrites[k]]
    BY DEF NoWrites
  <2> QED  BY <2>1, WritesType
<1>4. job \in Job /\ job.req = req /\ DOMAIN job.writes = {}
  <2>1. PICK titled \in BOOLEAN : titled = (req.op = "turn" /\ rows[req.session].title # None)
    OBVIOUS
  <2>2. job = [req |-> req, writes |-> NoWrites, event |-> None, titled |-> titled]
    BY <1>1, <2>1
  <2> QED  BY <1>3, <2>2 DEF Job
<1>5. Legal(req)
  BY DEF Accept, MayOpen, MayRecord, MayRequest, MayDecide, MayRecordExecution, Legal
<1>6. JobOk("write", job)
  BY <1>4, <1>5 DEF JobOk
<1>7. nextSeq \in Nat \ {0} /\ auditLock \in Handler \cup {None} /\ LocksInv
  BY DEF RowsInv, Shapes
<1>8. JobOk("write", job)'
  <2>1. \A d \in events' : \E e \in events : e.seq = d.seq
    BY <1>2
  <2> QED  BY <1>2, <1>6, <1>7, <2>1, JobKept
<1>9. \A p \in Handler : auditLock' = p <=> IF p = r THEN "write" \in {"append", "commit"}
                                                     ELSE auditLock = p
  BY <1>2, <1>7 DEF LocksInv
<1>10. /\ "write" \in Stage \ {"idle"} /\ nextSeq <= nextSeq' /\ nextSeq' \in Nat \ {0}
       /\ DOMAIN job.writes = IF pc[r] = "idle" THEN {} ELSE DOMAIN h[r].writes
       /\ auditLock' \in Handler \cup {None}
  BY <1>2, <1>4, <1>7 DEF Stage
<1> QED  BY <1>2, <1>4, <1>8, <1>9, <1>10, Moved

LEMMA InsertRowStep ==
  ASSUME RowsInv, NEW r \in Handler, InsertRow(r)
  PROVE  RowsInv'
<1>1. /\ pc[r] = "write" /\ h[r] \in Job /\ JobOk("write", h[r]) /\ h[r].req \in Ideal!Request
  BY DEF InsertRow, RowsInv, Shapes, LocksInv, JobsInv, Job
<1>2. PICK old \in Job, req \in Ideal!Request : old = h[r] /\ req = old.req
  BY <1>1
<1>3. /\ req.op \in {"session", "request", "turn"} /\ req.key \in Key /\ req.actor \in Actor
      /\ req.op = "session" => req.key \in Session
      /\ req.op = "turn" => req.key \in Turn /\ req.session \in Session
      /\ req.op = "request" => req.key \in Approval
  BY <1>2, RequestFields DEF InsertRow
<1>4. ASSUME NEW row \in Row, NEW stage \in {"touch", "lock"}, rows[req.key] = None,
             Write(r, req.key, row, stage),
             stage = "touch" => req.op = "turn" /\ row = Ideal!TurnRow(req),
             stage = "lock" => \/ req.op = "session" /\ row = Ideal!SessionRow(req)
                               \/ req.op = "request" /\ row = Ideal!ApprovalRow(req)
      PROVE  RowsInv'
  <2>1. PICK job : job = WithRow(old, req.key, row)
    OBVIOUS
  <2>2. /\ job \in Job /\ job.req = req
        /\ DOMAIN job.writes = DOMAIN old.writes \cup {req.key} /\ job.writes[req.key] = row
    BY <1>2, <1>3, <2>1, JobWrites
  <2>3. DOMAIN job.writes = {req.key}
    BY <1>1, <1>2, <2>2 DEF JobOk
  <2>4. JobOk(stage, job)
    <3>1. Legal(req)
      BY <1>1, <1>2 DEF JobOk
    <3>2. stage = "lock" => Effect(req, job.writes)
      BY <1>4, <2>2, <2>3 DEF Effect
    <3> QED  BY <1>4, <2>2, <2>3, <3>1, <3>2 DEF JobOk
  <2> QED  BY <1>1, <1>2, <1>3, <1>4, <2>1, <2>2, <2>4, Written
<1>5. CASE Rollback(r)
  BY <1>5, Ended DEF Rollback
<1>6. CASE ~Rollback(r)
  <2>1. rows[req.key] = None
        /\ \/ req.op = "session" /\ Write(r, req.key, Ideal!SessionRow(req), "lock")
           \/ req.op = "request" /\ Write(r, req.key, Ideal!ApprovalRow(req), "lock")
           \/ req.op = "turn" /\ Write(r, req.key, Ideal!TurnRow(req), "touch")
    BY <1>2, <1>3, <1>6 DEF InsertRow
  <2>2. CASE req.op = "session" /\ Write(r, req.key, Ideal!SessionRow(req), "lock")
    <3>1. Ideal!SessionRow(req) \in Ideal!SessionRecord
      BY <1>3 DEF Ideal!SessionRow, Ideal!SessionRecord
    <3> QED  BY <1>4, <2>1, <2>2, <3>1, RowSets
  <2>3. CASE req.op = "request" /\ Write(r, req.key, Ideal!ApprovalRow(req), "lock")
    <3>1. Ideal!ApprovalRow(req) \in Ideal!ApprovalRecord
      BY <1>3 DEF Ideal!ApprovalRow, Ideal!ApprovalRecord
    <3> QED  BY <1>4, <2>1, <2>3, <3>1, RowSets
  <2>4. CASE req.op = "turn" /\ Write(r, req.key, Ideal!TurnRow(req), "touch")
    <3>1. Ideal!TurnRow(req) \in Ideal!TurnRecord
      BY <1>3, <2>4 DEF Ideal!TurnRow, Ideal!TurnRecord
    <3> QED  BY <1>4, <2>1, <2>4, <3>1, RowSets
  <2> QED  BY <2>1, <2>2, <2>3, <2>4
<1> QED  BY <1>5, <1>6

LEMMA TouchSessionStep ==
  ASSUME RowsInv, NEW r \in Handler, TouchSession(r)
  PROVE  RowsInv'
<1>1. /\ pc[r] = "touch" /\ h[r] \in Job /\ JobOk("touch", h[r]) /\ h[r].req \in Ideal!Request
  BY DEF TouchSession, RowsInv, Shapes, LocksInv, JobsInv, Job
<1>2. PICK old \in Job, req \in Ideal!Request : old = h[r] /\ req = old.req
  BY <1>1
<1>3. /\ req.op = "turn" /\ rows[req.key] = None /\ Legal(req) /\ DOMAIN old.writes = {req.key}
      /\ old.writes[req.key] = Ideal!TurnRow(req)
  BY <1>1, <1>2 DEF JobOk
<1>4. req.key \in Turn /\ req.session \in Session /\ req.session \in Key /\ req.key # req.session
  BY <1>3, RequestFields, NoneIsNothing, RowSets
<1>5. rows[req.session] \in Ideal!SessionRecord
  BY <1>3, <1>4 DEF Legal, Owns, Ideal!Owns, RowsInv, Shapes
<1>6. PICK title \in {rows[req.session].title, req.key}, row \in Row :
        /\ row = [rows[req.session] EXCEPT !.title = title]
        /\ Write(r, req.session, row, "lock")
  <2>1. CASE h[r].titled
    <3>1. Write(r, req.session, rows[req.session], "lock")
      BY <1>2, <2>1 DEF TouchSession
    <3>2. rows[req.session] = [rows[req.session] EXCEPT !.title = rows[req.session].title]
      BY <1>5 DEF Ideal!SessionRecord
    <3> QED  BY <1>5, <3>1, <3>2, RowSets
  <2>2. CASE ~h[r].titled
    <3>1. Write(r, req.session, [rows[req.session] EXCEPT !.title = req.key], "lock")
      BY <1>2, <2>2 DEF TouchSession
    <3>2. [rows[req.session] EXCEPT !.title = req.key] \in Ideal!SessionRecord
      BY <1>4, <1>5 DEF Ideal!SessionRecord
    <3> QED  BY <3>1, <3>2, RowSets
  <2> QED  BY <2>1, <2>2
<1>7. PICK job : job = WithRow(old, req.session, row)
  OBVIOUS
<1>8. /\ job \in Job /\ job.req = req
      /\ DOMAIN job.writes = DOMAIN old.writes \cup {req.session}
      /\ \A j \in DOMAIN job.writes : job.writes[j] = IF j = req.session THEN row ELSE old.writes[j]
  BY <1>2, <1>4, <1>7, JobWrites
<1>9. /\ DOMAIN job.writes = {req.key, req.session}
      /\ job.writes[req.key] = Ideal!TurnRow(req) /\ job.writes[req.session] = row
  BY <1>3, <1>4, <1>8
<1>10. JobOk("lock", job)
  <2>1. Effect(req, job.writes)
    BY <1>3, <1>6, <1>9 DEF Effect
  <2> QED  BY <1>3, <1>8, <2>1 DEF JobOk
<1> QED  BY <1>1, <1>2, <1>4, <1>6, <1>7, <1>8, <1>10, Written

LEMMA DecideRowStep ==
  ASSUME RowsInv, NEW r \in Handler, DecideRow(r)
  PROVE  RowsInv'
<1>1. /\ pc[r] = "write" /\ h[r] \in Job /\ JobOk("write", h[r]) /\ h[r].req \in Ideal!Request
  BY DEF DecideRow, RowsInv, Shapes, LocksInv, JobsInv, Job
<1>2. PICK old \in Job, req \in Ideal!Request : old = h[r] /\ req = old.req
  BY <1>1
<1>3. /\ req.op = "decide" /\ Legal(req) /\ DOMAIN old.writes = {}
      /\ req.key \in Approval /\ req.key \in Key /\ req.value \in {"APPROVED", "REJECTED"}
      /\ req.actor \in Actor
  BY <1>1, <1>2, RequestFields DEF JobOk, DecideRow
<1>4. CASE Rollback(r)
  BY <1>4, Ended DEF Rollback
<1>5. CASE ~Rollback(r)
  <2>1. rows[req.key] \in Ideal!ApprovalRecord
    BY <1>3 DEF Legal, RowsInv, Shapes
  <2>2. PICK row \in Row :
          /\ row = [rows[req.key] EXCEPT !.status = req.value, !.decidedBy = req.actor]
          /\ rows[req.key].status = "PENDING" /\ Write(r, req.key, row, "lock")
    <3>1. [rows[req.key] EXCEPT !.status = req.value, !.decidedBy = req.actor]
            \in Ideal!ApprovalRecord
      BY <1>3, <2>1 DEF Ideal!ApprovalRecord
    <3> QED  BY <1>2, <1>5, <3>1, RowSets DEF DecideRow
  <2>3. PICK job : job = WithRow(old, req.key, row)
    OBVIOUS
  <2>4. /\ job \in Job /\ job.req = req
        /\ DOMAIN job.writes = DOMAIN old.writes \cup {req.key} /\ job.writes[req.key] = row
    BY <1>2, <1>3, <2>3, JobWrites
  <2>5. JobOk("lock", job)
    <3>1. Effect(req, job.writes)
      BY <1>3, <2>2, <2>4 DEF Effect
    <3> QED  BY <1>3, <2>4, <3>1 DEF JobOk
  <2> QED  BY <1>1, <1>2, <1>3, <2>2, <2>3, <2>4, <2>5, Written
<1> QED  BY <1>4, <1>5

LEMMA ExecutionRowStep ==
  ASSUME RowsInv, NEW r \in Handler, ExecutionRow(r)
  PROVE  RowsInv'
<1>1. /\ pc[r] = "write" /\ h[r] \in Job /\ JobOk("write", h[r]) /\ h[r].req \in Ideal!Request
  BY DEF ExecutionRow, RowsInv, Shapes, LocksInv, JobsInv, Job
<1>2. PICK old \in Job, req \in Ideal!Request : old = h[r] /\ req = old.req
  BY <1>1
<1>3. /\ req.op = "execute" /\ Legal(req) /\ DOMAIN old.writes = {}
      /\ req.key \in Approval /\ req.key \in Key /\ req.value \in {"SUCCEEDED", "FAILED"}
  BY <1>1, <1>2, RequestFields DEF JobOk, ExecutionRow
<1>4. rows[req.key] \in Ideal!ApprovalRecord
  BY <1>3 DEF Legal, RowsInv, Shapes
<1>5. PICK row \in Row : /\ row = [rows[req.key] EXCEPT !.execution = req.value]
                         /\ Write(r, req.key, row, "lock")
  <2>1. [rows[req.key] EXCEPT !.execution = req.value] \in Ideal!ApprovalRecord
    BY <1>3, <1>4 DEF Ideal!ApprovalRecord
  <2> QED  BY <1>2, <2>1, RowSets DEF ExecutionRow
<1>6. PICK job : job = WithRow(old, req.key, row)
  OBVIOUS
<1>7. /\ job \in Job /\ job.req = req
      /\ DOMAIN job.writes = DOMAIN old.writes \cup {req.key} /\ job.writes[req.key] = row
  BY <1>2, <1>3, <1>6, JobWrites
<1>8. JobOk("lock", job)
  <2>1. Effect(req, job.writes)
    BY <1>3, <1>5, <1>7 DEF Effect
  <2> QED  BY <1>3, <1>7, <2>1 DEF JobOk
<1> QED  BY <1>1, <1>2, <1>3, <1>5, <1>6, <1>7, <1>8, Written

LEMMA TakeAuditLockStep ==
  ASSUME RowsInv, NEW r \in Handler, TakeAuditLock(r)
  PROVE  RowsInv'
<1>1. /\ pc[r] = "lock" /\ auditLock = None /\ auditLock' = r
      /\ pc' = [pc EXCEPT ![r] = "append"] /\ h' = [h EXCEPT ![r] = h[r]]
      /\ rows' = rows /\ events' = events /\ locks' = locks /\ nextSeq' = nextSeq
      /\ tampered' = tampered
  BY DEF TakeAuditLock, Goto, audits
<1>2. PICK job \in Job : job = h[r] /\ JobOk("lock", job)
  BY <1>1 DEF RowsInv, Shapes, LocksInv, JobsInv
<1>3. JobOk("append", job)
  BY <1>2 DEF JobOk
<1>4. /\ nextSeq \in Nat \ {0} /\ None \notin Handler /\ LocksInv
      /\ "append" \in Stage \ {"idle"} /\ nextSeq <= nextSeq' /\ nextSeq' \in Nat \ {0}
      /\ auditLock' \in Handler \cup {None}
      /\ DOMAIN job.writes = IF pc[r] = "idle" THEN {} ELSE DOMAIN h[r].writes
  BY <1>1, <1>2, NoneIsNothing DEF RowsInv, Shapes, Stage
<1>5. \A d \in events' : \E e \in events : e.seq = d.seq
  BY <1>1
<1>6. JobOk("append", job)'
  BY <1>1, <1>3, <1>4, <1>5, JobKept
<1>7. \A p \in Handler : auditLock' = p <=> IF p = r THEN "append" \in {"append", "commit"}
                                                     ELSE auditLock = p
  BY <1>1, <1>4
<1>8. h' = [h EXCEPT ![r] = job]
  BY <1>1, <1>2
<1> QED  BY <1>1, <1>4, <1>6, <1>7, <1>8, Moved

(* The advisory lock makes the number the highest, whoever else runs.      *)
LEMMA AppendEventStep ==
  ASSUME RowsInv, NEW r \in Handler, AppendEvent(r),
         \A e \in events : e.hash \in Hash, events # {} => Latest(events) \in events
  PROVE  RowsInv'
<1> DEFINE prev == IF events = {} THEN Genesis ELSE Latest(events).hash
<1>1. PICK old \in Job : old = h[r] /\ JobOk("append", old)
  BY DEF AppendEvent, RowsInv, Shapes, LocksInv, JobsInv
<1>2. PICK e : e = [seq |-> nextSeq, req |-> old.req, prev |-> prev, hash |-> HashOf(prev, old.req)]
  OBVIOUS
<1>3. PICK job : job = [old EXCEPT !.event = e]
  OBVIOUS
<1>4. /\ pc[r] = "append" /\ pc' = [pc EXCEPT ![r] = "commit"] /\ h' = [h EXCEPT ![r] = job]
      /\ nextSeq' = nextSeq + 1 /\ auditLock' = auditLock
      /\ rows' = rows /\ events' = events /\ locks' = locks /\ tampered' = tampered
  BY <1>1, <1>2, <1>3 DEF AppendEvent, Goto, audits
<1>5. /\ nextSeq \in Nat \ {0} /\ nextSeq' \in Nat \ {0} /\ nextSeq <= nextSeq'
      /\ LocksInv /\ NumbersInv /\ old.req \in Ideal!Request
      /\ auditLock' \in Handler \cup {None}
  BY <1>4 DEF RowsInv, Shapes, Job
<1>6. e \in Event /\ e.seq = nextSeq /\ e.req = old.req
  <2>1. prev \in Hash
    BY DEF Genesis, Hash
  <2>2. HashOf(prev, old.req) \in Hash
    BY <1>5, <2>1 DEF HashOf, Hash
  <2> HIDE DEF prev
  <2> QED  BY <1>2, <1>5, <2>1, <2>2 DEF Event
<1>7. job \in Job /\ job.req = old.req /\ job.writes = old.writes /\ job.event = e
  BY <1>3, <1>6 DEF Job
<1>8. JobOk("commit", job)'
  <2>1. Legal(job.req)' /\ Effect(job.req, job.writes)'
    <3>1. Legal(job.req) /\ Effect(job.req, job.writes)
      BY <1>1, <1>7 DEF JobOk
    <3> QED  BY <1>4, <3>1 DEF Legal, Effect, Owns, Ideal!Owns
  <2>2. Newest(job.event)'
    BY <1>4, <1>5, <1>6, <1>7 DEF Newest, NumbersInv
  <2> QED  BY <1>6, <1>7, <2>1, <2>2 DEF JobOk
<1>9. \A p \in Handler : auditLock' = p <=> IF p = r THEN "commit" \in {"append", "commit"}
                                                     ELSE auditLock = p
  BY <1>4, <1>5 DEF LocksInv
<1>10. DOMAIN job.writes = IF pc[r] = "idle" THEN {} ELSE DOMAIN h[r].writes
  BY <1>1, <1>4, <1>7
<1>11. "commit" \in Stage \ {"idle"}
  BY DEF Stage
<1> HIDE DEF prev
<1> QED  BY <1>4, <1>5, <1>7, <1>8, <1>9, <1>10, <1>11, Moved

LEMMA CommitStep ==
  ASSUME RowsInv, NEW r \in Handler, Commit(r)
  PROVE  RowsInv'
<1>1. PICK job \in Job : job = h[r] /\ JobOk("commit", job)
  BY DEF Commit, RowsInv, Shapes, LocksInv, JobsInv
<1>2. PICK req, w, e :
        req = job.req /\ w = job.writes /\ e = job.event /\ req \in Ideal!Request
  BY <1>1 DEF Job
<1>3. /\ pc[r] = "commit" /\ Release(r) /\ nextSeq' = nextSeq /\ events' = events \cup {e}
      /\ rows' = [k \in Key |-> IF k \in DOMAIN w THEN w[k] ELSE rows[k]]
  BY <1>1, <1>2 DEF Commit, Ideal!Change, Key
<1>4. Legal(req) /\ Effect(req, w) /\ Newest(e)
  BY <1>1, <1>2 DEF JobOk
<1>5. /\ DOMAIN w \subseteq Key
      /\ \A k \in DOMAIN w : FitsAt(k, w[k]) /\ Follows(k, rows[k], w[k]) /\ w[k] \in Row
  BY <1>2, <1>4, EffectRows
<1>6. /\ LocksInv'
      /\ locks' \in [Key -> Handler \cup {None}] /\ auditLock' \in Handler \cup {None}
      /\ pc' \in [Handler -> Stage] /\ h' \in [Handler -> Job \cup {None}]
      /\ pc'[r] = "idle" /\ \A p \in Handler \ {r} : pc'[p] = pc[p] /\ h'[p] = h[p]
      /\ walk' = walk /\ tampered' = tampered
  BY <1>3, Released
<1>7. \A k \in Key : Follows(k, rows[k], rows'[k])
  BY <1>3, <1>5 DEF Follows
<1>8. Shapes'
  <2>1. rows' \in [Key -> Row \cup {None}]
    BY <1>3, <1>5 DEF RowsInv, Shapes
  <2>2. /\ \A a \in Approval : rows'[a] \in Ideal!ApprovalRecord \cup {None}
        /\ \A s \in Session : rows'[s] \in Ideal!SessionRecord \cup {None}
        /\ \A m \in Turn : rows'[m] \in Ideal!TurnRecord \cup {None}
    BY <1>3, <1>5, RowSets DEF RowsInv, Shapes, FitsAt
  <2>3. events' \in SUBSET Event /\ IsFiniteSet(events')
    BY <1>3, <1>4, FS_AddElement DEF RowsInv, Shapes, Newest
  <2> QED  BY <1>3, <1>6, <2>1, <2>2, <2>3 DEF RowsInv, Shapes
<1>9. NumbersInv'
  <2>1. e \in Event /\ e.seq < nextSeq /\ (\A d \in events : d.seq < e.seq) /\ events \subseteq Event
    BY <1>4 DEF Newest, RowsInv, Shapes
  <2>2. e.seq \in Nat /\ \A d \in events : d.seq \in Nat
    BY <2>1 DEF Event
  <2> QED  BY <1>3, <2>1, <2>2 DEF RowsInv, NumbersInv
<1>10. JobsInv'
  <2> SUFFICES ASSUME NEW p \in Handler, pc'[p] # "idle"
               PROVE  JobOk(pc[p], h[p])'
    BY DEF JobsInv
  <2>1. p # r /\ pc'[p] = pc[p] /\ h'[p] = h[p] /\ LocksInv /\ pc[p] # "idle"
    BY <1>6 DEF RowsInv
  <2>2. PICK stage, other : stage = pc[p] /\ other = h[p] /\ JobOk(stage, other)
    BY <2>1 DEF RowsInv, JobsInv
  <2>3. stage # "commit"
    BY <1>3, <2>1, <2>2 DEF LocksInv
  <2>4. \A k \in DOMAIN other.writes : rows'[k] = rows[k]
    <3> SUFFICES ASSUME NEW k \in DOMAIN other.writes
                 PROVE  rows'[k] = rows[k]
      OBVIOUS
    <3>1. h[p] # None /\ locks[k] = p
      BY <2>1, <2>2 DEF LocksInv
    <3>2. k \in Key
      BY <2>2, WritesType DEF JobOk, Job
    <3>3. h[r] # None /\ (k \in DOMAIN w => locks[k] = r)
      BY <1>1, <1>2, NoneIsNothing, <2>1 DEF LocksInv
    <3> QED  BY <1>3, <2>1, <3>1, <3>2, <3>3
  <2>5. JobOk(stage, other)'
    BY <1>7, <2>2, <2>3, <2>4, JobKeptByCommit
  <2>6. stage = pc'[p] /\ other = h'[p]
    BY <2>1, <2>2
  <2> QED  BY <2>5, <2>6 DEF JobOk
<1> QED  BY <1>6, <1>8, <1>9, <1>10 DEF RowsInv

LEMMA AbortStep ==
  ASSUME RowsInv, NEW r \in Handler, Abort(r)
  PROVE  RowsInv'
BY Ended DEF Abort

(* Whoever tampers leaves a table of events, with no number new or twice.  *)
LEMMA TamperStep ==
  ASSUME RowsInv, Tamper
  PROVE  RowsInv'
<1>1. /\ tampered = "nothing" /\ tampered' \in Tampering \ {"nothing"}
      /\ rows' = rows /\ nextSeq' = nextSeq /\ locks' = locks /\ auditLock' = auditLock
      /\ pc' = pc /\ h' = h /\ walk' = walk
  BY DEF Tamper, Tampering
<1>2. PICK e \in events :
        \/ \E actor \in Actor \ {e.req.actor} :
             events' = (events \ {e}) \cup {[e EXCEPT !.req.actor = actor]}
        \/ events' = events \ {e}
  BY DEF Tamper
<1>3. events \in SUBSET Event /\ IsFiniteSet(events) /\ nextSeq \in Nat /\ NumbersInv
  BY DEF RowsInv, Shapes
<1>4. \A actor \in Actor : [e EXCEPT !.req.actor = actor] \in Event
                        /\ [e EXCEPT !.req.actor = actor].seq = e.seq
  <2> SUFFICES ASSUME NEW actor \in Actor
               PROVE  [e EXCEPT !.req.actor = actor] \in Event
                        /\ [e EXCEPT !.req.actor = actor].seq = e.seq
    OBVIOUS
  <2>1. e \in Event /\ e.req \in Ideal!Request
    BY <1>3 DEF Event
  <2>2. PICK req : req = [e.req EXCEPT !.actor = actor]
    OBVIOUS
  <2>3. req \in Ideal!Request
    BY <2>1, <2>2 DEF Ideal!Request, Ideal!Asked
  <2>4. [e EXCEPT !.req.actor = actor] = [e EXCEPT !.req = req]
    BY <2>2
  <2> QED  BY <2>1, <2>3, <2>4 DEF Event
<1>5. IsFiniteSet(events \ {e}) /\ events' \in SUBSET Event /\ IsFiniteSet(events')
  <2>1. IsFiniteSet(events \ {e})
    BY <1>3, FS_RemoveElement
  <2>2. CASE events' = events \ {e}
    BY <1>3, <2>1, <2>2
  <2>3. CASE events' # events \ {e}
    <3>1. PICK actor \in Actor : events' = (events \ {e}) \cup {[e EXCEPT !.req.actor = actor]}
      BY <1>2, <2>3
    <3>2. PICK f \in Event : f = [e EXCEPT !.req.actor = actor]
      BY <1>4
    <3>3. IsFiniteSet((events \ {e}) \cup {f})
      BY <2>1, FS_AddElement
    <3> QED  BY <1>3, <2>1, <3>1, <3>2, <3>3
  <2> QED  BY <2>2, <2>3
<1>6. \A d \in events' : \E f \in events : f.seq = d.seq /\ (f # e => d = f)
  BY <1>2, <1>4
<1>7. NumbersInv'
  <2>1. \A d \in events' : d.seq < nextSeq'
    BY <1>1, <1>3, <1>6 DEF NumbersInv
  <2>2. ASSUME NEW c \in events', NEW d \in events', c.seq = d.seq PROVE c = d
    <3>1. PICK f \in events, g \in events :
            /\ f.seq = c.seq /\ (f # e => c = f) /\ g.seq = d.seq /\ (g # e => d = g)
      BY <1>6
    <3>2. f = g
      BY <1>3, <2>2, <3>1 DEF NumbersInv
    <3>3. CASE f # e
      BY <3>1, <3>2, <3>3
    <3>4. CASE f = e
      <4>1. c \notin events \ {e} /\ d \notin events \ {e}
        BY <1>3, <2>2, <3>1, <3>4 DEF NumbersInv
      <4> QED  BY <1>2, <4>1
    <3> QED  BY <3>3, <3>4
  <2> QED  BY <2>1, <2>2 DEF NumbersInv
<1>8. JobsInv'
  <2> SUFFICES ASSUME NEW p \in Handler, pc'[p] # "idle"
               PROVE  JobOk(pc[p], h[p])'
    BY DEF JobsInv
  <2>1. PICK stage, job : stage = pc[p] /\ job = h[p] /\ JobOk(stage, job)
    BY <1>1 DEF RowsInv, JobsInv
  <2>2. \A d \in events' : \E f \in events : f.seq = d.seq
    BY <1>6
  <2>3. nextSeq' \in Nat /\ nextSeq <= nextSeq'
    BY <1>1, <1>3
  <2>4. JobOk(stage, job)'
    BY <1>1, <1>3, <2>1, <2>2, <2>3, JobKept
  <2>5. stage = pc'[p] /\ job = h'[p]
    BY <1>1, <2>1
  <2> QED  BY <2>4, <2>5 DEF JobOk
<1>9. Shapes' /\ LocksInv'
  BY <1>1, <1>5 DEF RowsInv, Shapes, LocksInv
<1> QED  BY <1>7, <1>8, <1>9 DEF RowsInv

-----------------------------------------------------------------------------
(* The chain.                                                              *)

First(e) == \A d \in events : d.seq >= e.seq
Precedes(d, e) == d.seq < e.seq /\ \A c \in events : c.seq < e.seq => c.seq <= d.seq

(* Event e says what it was chained to, and that is the event before it.   *)
Sound(e) ==
  /\ First(e) => e.prev = Genesis
  /\ \A d \in events : Precedes(d, e) => e.prev = d.hash
  /\ e.hash = HashOf(e.prev, e.req)

(* An untouched chain is sound, and so is what is about to be added to it. *)
(* One in which an event was changed, or one lost that another is chained  *)
(* to, is not, and never will be again.                                    *)
ChainInv ==
  /\ tampered = "nothing" =>
       /\ \A e \in events : Sound(e)
       /\ \A r \in Handler : pc[r] = "commit" => Sound(h[r].event)
  /\ tampered \in {"edited", "deleted"} => \E e \in events : ~Sound(e)

(* What a walk has seen when nothing was changed since it began.           *)
Seen == {e \in events : e.seq <= walk.cursor}

Started ==
  \/ walk.cursor = 0 /\ walk.prev = Genesis
  \/ \E c \in events : c.seq = walk.cursor /\ c.hash = walk.prev

Faithful ==
  /\ Started /\ \A e \in Seen : Sound(e)
  /\ walk.count = Cardinality(Seen) /\ walk.due <= Cardinality(events)

WalkInv ==
  /\ walk \in Walk /\ walk.after \in {"nothing", tampered}
  /\ walk.on => walk.verdict = "none"
  /\ walk.on /\ walk.after = tampered => Faithful

LedgerInv == RowsInv /\ ChainInv /\ WalkInv /\ VerificationIsRight

(* The newest and the oldest of some events.                               *)
LEMMA LatestFacts ==
  ASSUME NEW S \in SUBSET Event, S # {}, NEW n \in Nat, \A e \in S : e.seq < n
  PROVE  Latest(S) \in S /\ \A d \in S : d.seq <= Latest(S).seq
<1>1. \A e \in S : e.seq \in Nat /\ n - e.seq \in Nat
  BY DEF Event
<1> DEFINE T == {n - e.seq : e \in S}
<1>2. T \subseteq Nat /\ T # {}
  BY <1>1
<1>3. \E x \in T : \A y \in T : ~(<<y, x>> \in OpToRel(<, Nat))
  BY <1>2, NatLessThanWellFounded, WFMin
<1>4. PICK x \in T : \A y \in T : ~(y < x)
  BY <1>2, <1>3 DEF OpToRel
<1>5. PICK e \in S : x = n - e.seq
  BY <1>4
<1>6. \A d \in S : d.seq <= e.seq
  <2> SUFFICES ASSUME NEW d \in S PROVE d.seq <= e.seq
    OBVIOUS
  <2>1. n - d.seq \in T
    OBVIOUS
  <2>2. ~(n - d.seq < n - e.seq)
    BY <1>4, <1>5, <2>1
  <2>3. d.seq \in Nat /\ e.seq \in Nat
    BY <1>1
  <2> QED  BY <2>2, <2>3
<1> QED  BY <1>6 DEF Latest

LEMMA FirstFacts ==
  ASSUME NEW S \in SUBSET Event, S # {}
  PROVE  \E e \in S : \A d \in S : e.seq <= d.seq
<1>1. \A e \in S : e.seq \in Nat
  BY DEF Event
<1> DEFINE T == {e.seq : e \in S}
<1>2. T \subseteq Nat /\ T # {}
  BY <1>1
<1>3. \E x \in T : \A y \in T : ~(<<y, x>> \in OpToRel(<, Nat))
  BY <1>2, NatLessThanWellFounded, WFMin
<1>4. PICK x \in T : \A y \in T : ~(y < x)
  BY <1>2, <1>3 DEF OpToRel
<1>5. PICK e \in S : x = e.seq
  BY <1>4
<1>6. \A d \in S : e.seq <= d.seq
  <2> SUFFICES ASSUME NEW d \in S PROVE e.seq <= d.seq
    OBVIOUS
  <2>1. d.seq \in T
    OBVIOUS
  <2>2. ~(d.seq < e.seq)
    BY <1>4, <1>5, <2>1
  <2>3. d.seq \in Nat /\ e.seq \in Nat
    BY <1>1
  <2> QED  BY <2>2, <2>3
<1> QED  BY <1>6

LEMMA NewestEvent ==
  ASSUME RowsInv, NEW S \in SUBSET events, S # {}
  PROVE  Latest(S) \in S /\ \A d \in S : d.seq <= Latest(S).seq
<1>1. S \in SUBSET Event /\ nextSeq \in Nat /\ \A e \in S : e.seq < nextSeq
  BY DEF RowsInv, Shapes, NumbersInv
<1> QED  BY <1>1, LatestFacts

(* A hash tells what was chained, and in which order.                      *)
LEMMA HashesDiffer ==
  ASSUME NEW prev \in Hash, NEW req \in Ideal!Request, NEW other \in Ideal!Request
  PROVE  /\ HashOf(prev, req) # prev /\ HashOf(prev, req) # Genesis
         /\ HashOf(prev, req) = HashOf(prev, other) => req = other
<1>1. /\ prev \in Seq(Ideal!Request) /\ Len(prev) \in Nat
      /\ Len(Append(prev, req)) = Len(prev) + 1
      /\ Append(prev, req)[Len(prev) + 1] = req
      /\ Append(prev, other)[Len(prev) + 1] = other
  BY DEF Hash
<1>2. Len(<<>>) = 0
  OBVIOUS
<1> QED  BY <1>1, <1>2 DEF HashOf, Genesis

(* An event added after all others leaves the rest of the chain as it is.  *)
LEMMA SoundKept ==
  ASSUME RowsInv, NEW new, Newest(new), events' = events \cup {new}, NEW e \in events
  PROVE  Sound(e)' <=> Sound(e)
<1>1. /\ new.seq \in Nat /\ e.seq \in Nat /\ e.seq < new.seq
      /\ \A d \in events : d.seq \in Nat
  BY DEF Newest, RowsInv, Shapes, Event
<1>2. First(e)' <=> First(e)
  BY <1>1 DEF First
<1>3. \A d \in events : Precedes(d, e)' <=> Precedes(d, e)
  BY <1>1 DEF Precedes
<1>4. ~Precedes(new, e)'
  BY <1>1 DEF Precedes
<1> QED  BY <1>2, <1>3, <1>4 DEF Sound

LEMMA SoundSame ==
  ASSUME events' = events, NEW e
  PROVE  Sound(e)' <=> Sound(e)
BY DEF Sound, First, Precedes

-----------------------------------------------------------------------------
(* Steps of requests that add no event.                                    *)

NoNewEvent(r) ==
  \/ InsertRow(r) \/ TouchSession(r) \/ DecideRow(r) \/ ExecutionRow(r) \/ TakeAuditLock(r)
  \/ Abort(r) \/ \E req \in Ideal!Request : Accept(r, req)

LEMMA NothingAdded ==
  ASSUME RowsInv, NEW r \in Handler, NoNewEvent(r)
  PROVE  /\ events' = events /\ tampered' = tampered /\ walk' = walk
         /\ \A p \in Handler : pc'[p] = "commit" => pc[p] = "commit" /\ h'[p] = h[p]
<1>1. pc \in [Handler -> Stage] /\ h \in [Handler -> Job \cup {None}]
  BY DEF RowsInv, Shapes
<1>2. ASSUME NEW stage, NEW job, stage # "commit", Goto(r, stage, job)
      PROVE  /\ tampered' = tampered /\ walk' = walk
             /\ \A p \in Handler : pc'[p] = "commit" => pc[p] = "commit" /\ h'[p] = h[p]
  BY <1>1, <1>2 DEF Goto, audits
<1>3. ASSUME NEW k, NEW row, NEW stage, stage # "commit", Write(r, k, row, stage)
      PROVE  /\ events' = events /\ tampered' = tampered /\ walk' = walk
             /\ \A p \in Handler : pc'[p] = "commit" => pc[p] = "commit" /\ h'[p] = h[p]
  BY <1>2, <1>3 DEF Write
<1>4. ASSUME Release(r)
      PROVE  /\ tampered' = tampered /\ walk' = walk
             /\ \A p \in Handler : pc'[p] = "commit" => pc[p] = "commit" /\ h'[p] = h[p]
  BY <1>2, <1>4 DEF Release
<1>5. CASE Rollback(r)
  BY <1>4, <1>5 DEF Rollback
<1>6. CASE InsertRow(r) /\ ~Rollback(r)
  BY <1>3, <1>6 DEF InsertRow
<1>7. CASE TouchSession(r)
  BY <1>3, <1>7 DEF TouchSession
<1>8. CASE DecideRow(r) /\ ~Rollback(r)
  BY <1>3, <1>8 DEF DecideRow
<1>9. CASE ExecutionRow(r)
  BY <1>3, <1>9 DEF ExecutionRow
<1>10. CASE TakeAuditLock(r)
  BY <1>2, <1>10 DEF TakeAuditLock
<1>11. CASE Abort(r)
  BY <1>4, <1>11 DEF Abort
<1>12. CASE \E req \in Ideal!Request : Accept(r, req)
  BY <1>1, <1>12 DEF Accept, tables, audits
<1> QED  BY <1>5, <1>6, <1>7, <1>8, <1>9, <1>10, <1>11, <1>12 DEF NoNewEvent

LEMMA ChainKept ==
  ASSUME ChainInv, events' = events, tampered' = tampered,
         \A p \in Handler : pc'[p] = "commit" => pc[p] = "commit" /\ h'[p] = h[p]
  PROVE  ChainInv'
<1>1. \A e : Sound(e)' <=> Sound(e)
  BY SoundSame
<1>2. tampered = "nothing" => \A e \in events : Sound(e)'
  BY <1>1 DEF ChainInv
<1>3. tampered \in {"edited", "deleted"} => \E e \in events : ~Sound(e)'
  BY <1>1 DEF ChainInv
<1>4. ASSUME tampered = "nothing", NEW r \in Handler, pc'[r] = "commit"
      PROVE  Sound(h[r].event)'
  <2>1. PICK e : e = h[r].event
    OBVIOUS
  <2>2. Sound(e)
    BY <1>4, <2>1 DEF ChainInv
  <2>3. e = h'[r].event
    BY <1>4, <2>1
  <2> QED  BY <1>1, <2>1, <2>2, <2>3 DEF Sound, First, Precedes
<1> QED  BY <1>2, <1>3, <1>4 DEF ChainInv

LEMMA WalkKept ==
  ASSUME WalkInv, VerificationIsRight, walk' = walk, events' = events, tampered' = tampered
  PROVE  WalkInv' /\ VerificationIsRight'
<1>1. Seen' = Seen
  BY DEF Seen
<1>2. \A e : Sound(e)' <=> Sound(e)
  BY SoundSame
<1>3. Faithful => Faithful'
  BY <1>1, <1>2 DEF Faithful, Started, Sound, First, Precedes
<1> QED  BY <1>3 DEF WalkInv, VerificationIsRight, NoFalseAlarm, TamperingShows, VerifiedMeansAll

-----------------------------------------------------------------------------
(* The steps that touch the chain.                                         *)

(* What is appended follows from the newest event, which stays the newest: *)
(* the advisory lock keeps everybody else from committing.                 *)
LEMMA AppendChain ==
  ASSUME LedgerInv, NEW r \in Handler, AppendEvent(r)
  PROVE  ChainInv' /\ WalkInv' /\ VerificationIsRight'
<1> DEFINE prev == IF events = {} THEN Genesis ELSE Latest(events).hash
<1>1. PICK old \in Job : old = h[r]
  BY DEF AppendEvent, LedgerInv, RowsInv, Shapes, LocksInv, JobsInv
<1>2. PICK e : e = [seq |-> nextSeq, req |-> old.req, prev |-> prev, hash |-> HashOf(prev, old.req)]
  OBVIOUS
<1>3. PICK job : job = [old EXCEPT !.event = e]
  OBVIOUS
<1>4. /\ pc' = [pc EXCEPT ![r] = "commit"] /\ h' = [h EXCEPT ![r] = job]
      /\ events' = events /\ tampered' = tampered /\ walk' = walk
  BY <1>1, <1>2, <1>3 DEF AppendEvent, Goto, audits
<1>5. /\ pc \in [Handler -> Stage] /\ h \in [Handler -> Job \cup {None}] /\ RowsInv
      /\ nextSeq \in Nat /\ \A d \in events : d.seq < nextSeq /\ d.seq \in Nat
  BY DEF LedgerInv, RowsInv, Shapes, NumbersInv, Event
<1>6. job.event = e
  BY <1>3 DEF Job
<1>7. Sound(e)
  <2>1. e.seq = nextSeq /\ e.prev = prev /\ e.hash = HashOf(e.prev, e.req)
    BY <1>2
  <2>2. First(e) => e.prev = Genesis
    BY <1>5, <2>1 DEF First
  <2>3. ASSUME NEW d \in events, Precedes(d, e) PROVE e.prev = d.hash
    <3>1. Latest(events) \in events /\ \A c \in events : c.seq <= Latest(events).seq
      BY <1>5, NewestEvent
    <3>2. d.seq = Latest(events).seq
      BY <1>5, <2>1, <2>3, <3>1 DEF Precedes
    <3>3. d = Latest(events)
      BY <1>5, <3>1, <3>2 DEF RowsInv, NumbersInv
    <3> QED  BY <2>1, <3>3
  <2> HIDE DEF prev
  <2> QED  BY <2>1, <2>2, <2>3 DEF Sound
<1> HIDE DEF prev
<1>8. ChainInv'
  <2>1. \A d : Sound(d)' <=> Sound(d)
    BY <1>4, SoundSame
  <2>2. tampered = "nothing" => \A d \in events : Sound(d)'
    BY <2>1 DEF LedgerInv, ChainInv
  <2>3. tampered \in {"edited", "deleted"} => \E d \in events : ~Sound(d)'
    BY <2>1 DEF LedgerInv, ChainInv
  <2>4. ASSUME tampered = "nothing", NEW p \in Handler, pc'[p] = "commit"
        PROVE  Sound(h[p].event)'
    <3>1. PICK d : d = IF p = r THEN e ELSE h[p].event
      OBVIOUS
    <3>2. Sound(d)
      <4>1. CASE p = r
        BY <1>7, <3>1, <4>1
      <4>2. CASE p # r
        BY <1>4, <1>5, <2>4, <3>1, <4>2 DEF LedgerInv, ChainInv
      <4> QED  BY <4>1, <4>2
    <3>3. d = h'[p].event
      BY <1>4, <1>5, <1>6, <3>1
    <3> QED  BY <2>1, <3>2, <3>3 DEF Sound, First, Precedes
  <2> QED  BY <1>4, <2>2, <2>3, <2>4 DEF ChainInv
<1> QED  BY <1>4, <1>8, WalkKept DEF LedgerInv

LEMMA CommitChain ==
  ASSUME LedgerInv, NEW r \in Handler, Commit(r)
  PROVE  ChainInv' /\ WalkInv' /\ VerificationIsRight'
<1>1. PICK e : e = h[r].event
  OBVIOUS
<1>2. Newest(e) /\ pc[r] = "commit" /\ RowsInv
  BY <1>1 DEF Commit, LedgerInv, RowsInv, JobsInv, JobOk
<1>3. /\ events' = events \cup {e} /\ tampered' = tampered /\ walk' = walk
      /\ pc' = [pc EXCEPT ![r] = "idle"]
  BY <1>1 DEF Commit, Release, Goto, audits
<1>4. /\ pc \in [Handler -> Stage] /\ LocksInv /\ events \in SUBSET Event /\ IsFiniteSet(events)
      /\ e \in Event /\ e.seq \in Nat \ {0} /\ \A d \in events : d.seq < e.seq /\ d.seq \in Nat \ {0}
  BY <1>2 DEF RowsInv, Shapes, Newest, Event
<1>5. \A d \in events : Sound(d)' <=> Sound(d)
  BY <1>2, <1>3, SoundKept
<1>6. Sound(e) => Sound(e)'
  <2>1. First(e)' <=> First(e)
    BY <1>3, <1>4 DEF First
  <2>2. \A d \in events : Precedes(d, e)' <=> Precedes(d, e)
    BY <1>3, <1>4 DEF Precedes
  <2>3. ~Precedes(e, e)'
    BY <1>4 DEF Precedes
  <2> QED  BY <1>3, <2>1, <2>2, <2>3 DEF Sound
<1>7. ChainInv'
  <2>1. tampered = "nothing" => \A d \in events' : Sound(d)'
    <3> SUFFICES ASSUME tampered = "nothing", NEW d \in events' PROVE Sound(d)'
      OBVIOUS
    <3>1. CASE d \in events
      BY <1>5, <3>1 DEF LedgerInv, ChainInv
    <3>2. CASE d = e
      <4>1. Sound(e)'
        BY <1>1, <1>2, <1>6 DEF LedgerInv, ChainInv
      <4> QED  BY <3>2, <4>1 DEF Sound, First, Precedes
    <3> QED  BY <1>3, <3>1, <3>2
  <2>2. tampered \in {"edited", "deleted"} => \E d \in events' : ~Sound(d)'
    BY <1>3, <1>5 DEF LedgerInv, ChainInv
  <2>3. \A p \in Handler : pc'[p] # "commit"
    BY <1>2, <1>3, <1>4 DEF LocksInv
  <2> QED  BY <1>3, <2>1, <2>2, <2>3 DEF ChainInv
<1>8. WalkInv'
  <2>1. walk \in Walk /\ WalkInv
    BY DEF LedgerInv, WalkInv
  <2>2. ASSUME Faithful PROVE Faithful'
    <3>1. walk.cursor < e.seq
      BY <1>4, <2>2 DEF Faithful, Started
    <3>2. Seen' = Seen
      BY <1>3, <1>4, <2>1, <3>1 DEF Seen, Walk
    <3>3. Started'
      BY <1>3, <2>2 DEF Faithful, Started
    <3>4. \A d \in Seen : d \in events /\ Sound(d)'
      BY <1>5, <2>2 DEF Faithful, Seen
    <3>5. Cardinality(events) <= Cardinality(events') /\ walk.due \in Nat
          /\ Cardinality(events) \in Nat /\ Cardinality(events') \in Nat
      <4>1. IsFiniteSet(events \cup {e}) /\ Cardinality(events) \in Nat
        BY <1>4, FS_AddElement, FS_CardinalityType
      <4>2. Cardinality(events \cup {e}) \in Nat
        BY <4>1, FS_CardinalityType
      <4>3. Cardinality(events) <= Cardinality(events \cup {e})
        BY <1>4, <4>1, FS_AddElement
      <4> QED  BY <1>3, <2>1, <4>1, <4>2, <4>3 DEF Walk
    <3>6. walk'.due <= Cardinality(events')
      BY <1>3, <2>2, <3>5 DEF Faithful
    <3>7. walk'.count = Cardinality(Seen')
      BY <1>3, <2>2, <3>2 DEF Faithful
    <3>8. \A d \in Seen' : Sound(d)'
      BY <3>2, <3>4
    <3> QED  BY <3>3, <3>6, <3>7, <3>8 DEF Faithful
  <2> QED  BY <1>3, <2>1, <2>2 DEF WalkInv
<1>9. VerificationIsRight'
  BY <1>3 DEF LedgerInv, VerificationIsRight, NoFalseAlarm, TamperingShows, VerifiedMeansAll
<1> QED  BY <1>7, <1>8, <1>9

(* A change to an event shows in its own hash, a lost one in the hash that *)
(* the event after it was chained to.                                      *)
LEMMA TamperChain ==
  ASSUME LedgerInv, Tamper
  PROVE  ChainInv' /\ WalkInv' /\ VerificationIsRight'
<1>1. /\ tampered = "nothing" /\ tampered' \in {"edited", "deleted", "shortened"} /\ walk' = walk
      /\ \A e \in events : Sound(e)
  BY DEF Tamper, LedgerInv, ChainInv
<1>2. /\ events \in SUBSET Event /\ RowsInv
      /\ \A e \in events : e.seq \in Nat /\ e.req \in Ideal!Request /\ e.prev \in Hash
  BY DEF LedgerInv, RowsInv, Shapes, Event
<1>3. ASSUME NEW e \in events, NEW actor \in Actor \ {e.req.actor},
             events' = (events \ {e}) \cup {[e EXCEPT !.req.actor = actor]}
      PROVE  \E d \in events' : ~Sound(d)'
  <2>1. PICK d : d = [e EXCEPT !.req.actor = actor]
    OBVIOUS
  <2>2. PICK req : req = [e.req EXCEPT !.actor = actor]
    OBVIOUS
  <2>3. req \in Ideal!Request /\ req # e.req
    BY <1>2, <2>2 DEF Ideal!Request, Ideal!Asked
  <2>4. d = [e EXCEPT !.req = req]
    BY <2>1, <2>2
  <2>5. d.prev = e.prev /\ d.hash = e.hash /\ d.req = req
    BY <1>2, <2>4 DEF Event
  <2>6. e.hash = HashOf(e.prev, e.req)
    BY <1>1 DEF Sound
  <2>7. d.hash # HashOf(d.prev, d.req)
    BY <1>2, <2>3, <2>5, <2>6, HashesDiffer
  <2> QED  BY <1>3, <2>1, <2>7 DEF Sound
<1>4. ASSUME NEW e \in events, e # Latest(events), events' = events \ {e}
      PROVE  \E d \in events' : ~Sound(d)'
  <2> DEFINE After == {c \in events : c.seq > e.seq}  Before == {c \in events : c.seq < e.seq}
  <2>1. After # {}
    <3>1. Latest(events) \in events /\ \A c \in events : c.seq <= Latest(events).seq
      BY <1>2, NewestEvent
    <3>2. Latest(events).seq # e.seq
      BY <1>2, <1>4, <3>1 DEF RowsInv, NumbersInv
    <3>3. Latest(events) \in After
      BY <1>2, <3>1, <3>2
    <3> QED  BY <3>3
  <2>2. PICK f \in After : \A c \in After : f.seq <= c.seq
    <3>1. After \in SUBSET Event
      BY <1>2
    <3> QED  BY <2>1, <3>1, FirstFacts
  <2>3. f \in events' /\ f \in events /\ f.seq > e.seq /\ Precedes(e, f)
    BY <1>2, <1>4, <2>2 DEF Precedes
  <2>4. f.prev = e.hash /\ e.hash = HashOf(e.prev, e.req)
    BY <1>1, <2>3 DEF Sound
  <2>5. \A c \in events' : c \in events /\ c.seq < f.seq => c \in Before
    <3> SUFFICES ASSUME NEW c \in events', c.seq < f.seq PROVE c.seq < e.seq
      BY <1>4
    <3>1. c \in events /\ c.seq # e.seq
      BY <1>2, <1>4 DEF RowsInv, NumbersInv
    <3>2. c \notin After
      BY <1>2, <2>2, <3>1
    <3> QED  BY <1>2, <3>1, <3>2
  <2>6. CASE Before = {}
    <3>1. First(f)'
      BY <1>2, <1>4, <2>3, <2>5, <2>6 DEF First
    <3>2. f.prev # Genesis
      BY <1>2, <2>4, HashesDiffer
    <3> QED  BY <2>3, <3>1, <3>2 DEF Sound
  <2>7. CASE Before # {}
    <3>1. PICK d \in Before : \A c \in Before : c.seq <= d.seq
      BY <1>2, <2>7, NewestEvent
    <3>2. d \in events' /\ d.seq < e.seq /\ Precedes(d, e)
      BY <1>2, <1>4, <3>1 DEF Precedes
    <3>3. Precedes(d, f)'
      BY <1>2, <1>4, <2>3, <2>5, <3>1, <3>2 DEF Precedes
    <3>4. e.prev = d.hash
      BY <1>1, <3>1, <3>2 DEF Sound
    <3>5. f.prev # d.hash
      BY <1>2, <2>4, <3>4, HashesDiffer
    <3> QED  BY <2>3, <3>2, <3>3, <3>5 DEF Sound
  <2> QED  BY <2>6, <2>7
<1>5. tampered' \in {"edited", "deleted"} => \E d \in events' : ~Sound(d)'
  BY <1>3, <1>4 DEF Tamper
<1>6. ChainInv'
  BY <1>1, <1>5 DEF ChainInv
<1>7. WalkInv' /\ VerificationIsRight'
  BY <1>1 DEF LedgerInv, WalkInv, VerificationIsRight, NoFalseAlarm, TamperingShows,
     VerifiedMeansAll
<1> QED  BY <1>6, <1>7

-----------------------------------------------------------------------------
(* The walk.                                                               *)

After == {e \in events : e.seq > walk.cursor}

LEMMA PageFacts ==
  ASSUME RowsInv, Started, walk.cursor \in Nat
  PROVE  /\ Page \subseteq After /\ IsFiniteSet(After) /\ After \subseteq events
         /\ \A e \in Page, d \in After : d.seq < e.seq => d \in Page
         /\ Page = {} => After = {}
<1>1. /\ events \in SUBSET Event /\ IsFiniteSet(events) /\ PageSize \in Nat \ {0}
      /\ \A e \in events : e.seq \in Nat
  BY NoneIsNothing DEF RowsInv, Shapes, Event
<1>2. After \subseteq events /\ IsFiniteSet(After)
  <2>1. After \in SUBSET events
    BY DEF After
  <2> QED  BY <1>1, <2>1, FS_Subset
<1>3. Page = {e \in After : Cardinality({d \in After : d.seq < e.seq}) < PageSize}
  <2>1. walk.cursor = 0 \/ \E e \in events : e.seq = walk.cursor
    BY DEF Started
  <2> QED  BY <2>1 DEF Page, After
<1>4. ASSUME NEW e \in Page, NEW d \in After, d.seq < e.seq PROVE d \in Page
  <2> DEFINE S == {c \in After : c.seq < d.seq}  T == {c \in After : c.seq < e.seq}
  <2>1. S \in SUBSET T
    BY <1>1, <1>2, <1>3, <1>4
  <2>2. IsFiniteSet(T)
    <3>1. T \in SUBSET After
      OBVIOUS
    <3> QED  BY <1>2, <3>1, FS_Subset
  <2>3. Cardinality(S) <= Cardinality(T) /\ IsFiniteSet(S)
    BY <2>1, <2>2, FS_Subset
  <2>4. Cardinality(S) \in Nat /\ Cardinality(T) \in Nat
    BY <2>2, <2>3, FS_CardinalityType
  <2>5. Cardinality(T) < PageSize
    BY <1>3
  <2>6. Cardinality(S) < PageSize
    BY <1>1, <2>3, <2>4, <2>5
  <2> QED  BY <1>3, <2>6
<1>5. ASSUME After # {} PROVE Page # {}
  <2>1. After \in SUBSET Event
    BY <1>1, <1>2
  <2>2. PICK f \in After : \A c \in After : f.seq <= c.seq
    BY <1>5, <2>1, FirstFacts
  <2>3. {c \in After : c.seq < f.seq} = {}
    BY <1>1, <1>2, <2>2
  <2>4. Cardinality({c \in After : c.seq < f.seq}) = 0
    BY <2>3, FS_EmptySet
  <2>5. f \in Page
    BY <1>1, <1>3, <2>4
  <2> QED  BY <2>5
<1> QED  BY <1>2, <1>3, <1>4, <1>5

(* What an event of the page is compared with is the event before it.      *)
LEMMA PageFollows ==
  ASSUME RowsInv, Started, walk.cursor \in Nat, NEW e \in Page
  PROVE  \/ First(e) /\ Checked(Page, e) = Genesis
         \/ \E d \in events : Precedes(d, e) /\ Checked(Page, e) = d.hash
<1> DEFINE before == {d \in Page : d.seq < e.seq}
<1>1. /\ Page \subseteq After /\ After \subseteq events
      /\ \A d \in After : d.seq < e.seq => d \in Page
  BY PageFacts
<1>2. \A d \in events : d.seq \in Nat \ {0}
  BY DEF RowsInv, Shapes, Event
<1>3. \A d \in events : d.seq < e.seq /\ d.seq > walk.cursor => d \in before
  BY <1>1 DEF After
<1>4. CASE before = {}
  <2>1. Checked(Page, e) = walk.prev
    BY <1>4 DEF Checked
  <2>2. \A d \in events : d.seq < e.seq => d.seq <= walk.cursor
    BY <1>2, <1>3, <1>4
  <2>3. CASE walk.cursor = 0 /\ walk.prev = Genesis
    <3>1. First(e)
      BY <1>1, <1>2, <2>2, <2>3 DEF First
    <3> QED  BY <2>1, <2>3, <3>1
  <2>4. CASE \E c \in events : c.seq = walk.cursor /\ c.hash = walk.prev
    <3>1. PICK c \in events : c.seq = walk.cursor /\ c.hash = walk.prev
      BY <2>4
    <3>2. Precedes(c, e)
      BY <1>1, <1>2, <2>2, <3>1 DEF Precedes, After
    <3> QED  BY <2>1, <3>1, <3>2
  <2> QED  BY <2>3, <2>4 DEF Started
<1>5. CASE before # {}
  <2>1. before \in SUBSET events
    BY <1>1
  <2>2. PICK d : d = Latest(before)
    OBVIOUS
  <2>3. d \in before /\ \A c \in before : c.seq <= d.seq
    BY <1>5, <2>1, <2>2, NewestEvent
  <2>4. Checked(Page, e) = d.hash
    BY <1>5, <2>2 DEF Checked
  <2>5. d \in events /\ d \in After /\ d.seq < e.seq
    BY <1>1, <2>3
  <2>6. \A c \in events : c.seq < e.seq => c.seq <= d.seq
    BY <1>2, <1>3, <2>3, <2>5 DEF After
  <2> QED  BY <2>4, <2>5, <2>6 DEF Precedes
<1> QED  BY <1>4, <1>5

LEMMA BrokenIsUnsound ==
  ASSUME RowsInv, Started, walk.cursor \in Nat, NEW e \in Page
  PROVE  e \in Broken(Page) <=> ~Sound(e)
<1>1. /\ e \in events /\ \A d \in events : d.seq \in Nat
      /\ \A c, d \in events : c.seq = d.seq => c = d
  <2>1. e \in events
    BY PageFacts
  <2> QED  BY <2>1 DEF RowsInv, Shapes, NumbersInv, Event
<1>2. PICK checked : checked = Checked(Page, e)
  OBVIOUS
<1>3. e \in Broken(Page) <=> e.prev # checked \/ e.hash # HashOf(checked, e.req)
  BY <1>2 DEF Broken
<1>4. CASE First(e) /\ checked = Genesis
  <2>1. \A d \in events : ~Precedes(d, e)
    BY <1>1, <1>4 DEF First, Precedes
  <2> QED  BY <1>3, <1>4, <2>1 DEF Sound
<1>5. CASE \E d \in events : Precedes(d, e) /\ checked = d.hash
  <2>1. PICK d \in events : Precedes(d, e) /\ checked = d.hash
    BY <1>5
  <2>2. ~First(e)
    BY <1>1, <2>1 DEF First, Precedes
  <2>3. \A c \in events : Precedes(c, e) => c = d
    BY <1>1, <2>1 DEF Precedes
  <2> QED  BY <1>3, <2>1, <2>2, <2>3 DEF Sound
<1> QED  BY <1>2, <1>4, <1>5, PageFollows

LEMMA RowsKept ==
  ASSUME RowsInv, rows' = rows, events' = events, nextSeq' = nextSeq, locks' = locks,
         auditLock' = auditLock, pc' = pc, h' = h, tampered' = tampered
  PROVE  RowsInv'
<1>1. Shapes' /\ NumbersInv' /\ LocksInv'
  BY DEF RowsInv, Shapes, NumbersInv, LocksInv
<1>2. JobsInv'
  <2> SUFFICES ASSUME NEW r \in Handler, pc'[r] # "idle"
               PROVE  JobOk(pc[r], h[r])'
    BY DEF JobsInv
  <2>1. PICK stage, job : stage = pc[r] /\ job = h[r] /\ JobOk(stage, job)
    BY DEF RowsInv, JobsInv
  <2>2. nextSeq \in Nat /\ nextSeq' \in Nat /\ nextSeq <= nextSeq'
    BY DEF RowsInv, Shapes
  <2>3. JobOk(stage, job)'
    BY <2>1, <2>2, JobKept
  <2>4. stage = pc'[r] /\ job = h'[r]
    BY <2>1
  <2> QED  BY <2>3, <2>4 DEF JobOk
<1> QED  BY <1>1, <1>2 DEF RowsInv

LEMMA StartVerifyStep ==
  ASSUME LedgerInv, StartVerify
  PROVE  LedgerInv'
<1>1. PICK due : due = Cardinality(events)
  OBVIOUS
<1>2. /\ walk' = [on |-> TRUE, cursor |-> 0, prev |-> Genesis, count |-> 0, verdict |-> "none",
                  due |-> due, after |-> tampered]
      /\ rows' = rows /\ events' = events /\ nextSeq' = nextSeq /\ locks' = locks
      /\ auditLock' = auditLock /\ pc' = pc /\ h' = h /\ tampered' = tampered
  BY <1>1 DEF StartVerify, tables
<1>3. RowsInv'
  BY <1>2, RowsKept DEF LedgerInv
<1>4. ChainInv'
  BY <1>2, ChainKept DEF LedgerInv
<1>5. WalkInv'
  <2>1. due \in Nat /\ Genesis \in Hash /\ tampered \in Tampering
    BY <1>1, FS_CardinalityType DEF Genesis, Hash, LedgerInv, RowsInv, Shapes
  <2>2. walk' \in Walk
    BY <1>2, <2>1 DEF Walk
  <2>3. Seen' = {}
    BY <1>2 DEF Seen, LedgerInv, RowsInv, Shapes, Event
  <2>4. Faithful'
    BY <1>1, <1>2, <2>1, <2>3, FS_EmptySet DEF Faithful, Started
  <2> QED  BY <1>2, <2>2, <2>4 DEF WalkInv
<1>6. VerificationIsRight'
  BY <1>2 DEF VerificationIsRight, NoFalseAlarm, TamperingShows, VerifiedMeansAll
<1> QED  BY <1>3, <1>4, <1>5, <1>6 DEF LedgerInv

LEMMA CheckPageStep ==
  ASSUME LedgerInv, CheckPage
  PROVE  LedgerInv'
<1>1. /\ rows' = rows /\ events' = events /\ nextSeq' = nextSeq /\ locks' = locks
      /\ auditLock' = auditLock /\ pc' = pc /\ h' = h /\ tampered' = tampered /\ walk.on
  BY DEF CheckPage, tables
<1>2. RowsInv' /\ ChainInv'
  BY <1>1, RowsKept, ChainKept DEF LedgerInv
<1>3. PICK w \in Walk : w = walk
  BY DEF LedgerInv, WalkInv
<1>4. /\ RowsInv /\ ChainInv /\ w.on /\ w.verdict = "none" /\ w.after \in {"nothing", tampered}
      /\ w.after = tampered => Faithful
      /\ w.cursor \in Nat /\ w.count \in Nat /\ w.due \in Nat
  BY <1>1, <1>3 DEF LedgerInv, WalkInv, Walk
<1>5. CASE Page = {}
  <2>1. /\ walk' = [w EXCEPT !.on = FALSE, !.verdict = "ok"]
    BY <1>3, <1>5 DEF CheckPage
  <2>2. PICK next : next = walk'
    OBVIOUS
  <2>3. /\ next \in Walk /\ ~next.on /\ next.verdict = "ok" /\ next.after = w.after
        /\ next.count = w.count /\ next.due = w.due
    BY <2>1, <2>2 DEF Walk
  <2>4. ASSUME w.after = tampered
        PROVE  tampered \notin {"edited", "deleted"} /\ next.count >= next.due
    <3>1. Faithful
      BY <1>4, <2>4
    <3>2. After = {}
      BY <1>3, <1>4, <1>5, <3>1, PageFacts DEF Faithful
    <3>3. events = Seen
      BY <1>3, <1>4, <3>2 DEF After, Seen, RowsInv, Shapes, Event
    <3>4. \A e \in events : Sound(e)
      BY <3>1, <3>3 DEF Faithful
    <3>5. w.count = Cardinality(events) /\ w.due <= Cardinality(events)
      BY <1>3, <3>1, <3>3 DEF Faithful
    <3> QED  BY <1>4, <2>3, <3>4, <3>5 DEF ChainInv
  <2>5. WalkInv'
    BY <1>1, <1>4, <2>2, <2>3 DEF WalkInv
  <2>6. VerificationIsRight'
    BY <1>1, <1>4, <2>2, <2>3, <2>4
    DEF VerificationIsRight, NoFalseAlarm, TamperingShows, VerifiedMeansAll
  <2> QED  BY <1>2, <2>5, <2>6 DEF LedgerInv
<1>6. CASE Page # {} /\ Broken(Page) # {}
  <2>1. walk' = [w EXCEPT !.on = FALSE, !.verdict = "broken"]
    BY <1>3, <1>6 DEF CheckPage
  <2>2. PICK next : next = walk'
    OBVIOUS
  <2>3. /\ next \in Walk /\ ~next.on /\ next.verdict = "broken" /\ next.after = w.after
    BY <2>1, <2>2 DEF Walk
  <2>4. tampered # "nothing"
    <3> SUFFICES ASSUME tampered = "nothing" PROVE FALSE
      OBVIOUS
    <3>1. PICK e \in Page : e \in Broken(Page)
      BY <1>6 DEF Broken
    <3>2. Started
      BY <1>4 DEF Faithful
    <3>3. ~Sound(e) /\ e \in events
      BY <1>3, <1>4, <3>1, <3>2, BrokenIsUnsound, PageFacts
    <3> QED  BY <1>4, <3>3 DEF ChainInv
  <2>5. WalkInv'
    BY <1>1, <1>4, <2>2, <2>3 DEF WalkInv
  <2>6. VerificationIsRight'
    BY <1>1, <2>2, <2>3, <2>4
    DEF VerificationIsRight, NoFalseAlarm, TamperingShows, VerifiedMeansAll
  <2> QED  BY <1>2, <2>5, <2>6 DEF LedgerInv
<1>7. CASE Page # {} /\ Broken(Page) = {}
  <2>1. PICK last, seen : last = Latest(Page) /\ seen = Cardinality(Page)
    OBVIOUS
  <2>2. walk' = [w EXCEPT !.cursor = last.seq, !.prev = last.hash, !.count = @ + seen]
    BY <1>3, <1>7, <2>1 DEF CheckPage
  <2>3. Page \in SUBSET events
    BY DEF Page
  <2>4. /\ last \in Page /\ \A e \in Page : e.seq <= last.seq
        /\ last \in events /\ last.seq \in Nat /\ last.hash \in Hash
    <3>1. last \in Page /\ \A e \in Page : e.seq <= last.seq
      BY <1>4, <1>7, <2>1, <2>3, NewestEvent
    <3> QED  BY <1>4, <2>3, <3>1 DEF RowsInv, Shapes, Event
  <2>5. IsFiniteSet(events) /\ IsFiniteSet(Page) /\ seen \in Nat
    <3>1. IsFiniteSet(events)
      BY <1>4 DEF RowsInv, Shapes
    <3>2. IsFiniteSet(Page)
      BY <2>3, <3>1, FS_Subset
    <3> QED  BY <2>1, <3>1, <3>2, FS_CardinalityType
  <2>6. PICK next : next = walk'
    OBVIOUS
  <2>7. PICK count \in Nat : count = w.count + seen
    BY <1>4, <2>5
  <2>8. /\ next \in Walk /\ next.on /\ next.verdict = "none" /\ next.after = w.after
        /\ next.cursor = last.seq /\ next.prev = last.hash /\ next.count = count
        /\ next.due = w.due
    <3>1. next = [w EXCEPT !.cursor = last.seq, !.prev = last.hash, !.count = count]
      BY <2>2, <2>6, <2>7 DEF Walk
    <3> QED  BY <1>4, <2>4, <3>1 DEF Walk
  <2>9. ASSUME w.after = tampered PROVE Faithful'
    <3>1. Faithful /\ Started
      BY <1>4, <2>9 DEF Faithful
    <3>2. /\ Page \subseteq After /\ \A e \in Page, d \in After : d.seq < e.seq => d \in Page
      BY <1>3, <1>4, <3>1, PageFacts
    <3>3. \A e \in events : e.seq \in Nat
      BY <1>4 DEF RowsInv, Shapes, Event
    <3>4. Seen' = Seen \cup Page /\ Seen \cap Page = {}
      <4>1. Seen' = {e \in events : e.seq <= last.seq}
        BY <1>1, <2>6, <2>8 DEF Seen
      <4>2. \A e \in Page : e \in events /\ e.seq > w.cursor /\ e.seq <= last.seq
        BY <1>3, <2>3, <2>4, <3>2 DEF After
      <4>3. \A e \in events : e.seq > w.cursor /\ e.seq <= last.seq => e \in Page
        <5> SUFFICES ASSUME NEW e \in events, e.seq > w.cursor, e.seq <= last.seq
                     PROVE  e \in Page
          OBVIOUS
        <5>1. CASE e.seq = last.seq
          BY <1>4, <2>4, <5>1 DEF RowsInv, NumbersInv
        <5>2. CASE e.seq < last.seq
          BY <1>3, <2>4, <3>2, <5>2 DEF After
        <5> QED  BY <2>4, <3>3, <5>1, <5>2
      <4>4. Seen = {e \in events : e.seq <= w.cursor}
        BY <1>3 DEF Seen
      <4>5. last.seq > w.cursor
        BY <2>4, <4>2
      <4> QED  BY <1>4, <2>4, <3>3, <4>1, <4>2, <4>3, <4>4, <4>5
    <3>5. \A e \in Page : Sound(e)
      BY <1>3, <1>4, <1>7, <3>1, BrokenIsUnsound
    <3>6. \A e \in Seen' : Sound(e)'
      <4>1. \A e : Sound(e)' <=> Sound(e)
        BY <1>1, SoundSame
      <4> QED  BY <3>1, <3>4, <3>5, <4>1 DEF Faithful
    <3>7. walk'.count = Cardinality(Seen')
      <4>1. IsFiniteSet(Seen) /\ Seen \in SUBSET events
        <5>1. Seen \in SUBSET events
          BY DEF Seen
        <5> QED  BY <2>5, <5>1, FS_Subset
      <4>2. /\ Cardinality(Seen \cup Page)
                 = Cardinality(Seen) + Cardinality(Page) - Cardinality(Seen \cap Page)
            /\ Cardinality(Seen) \in Nat
        BY <2>5, <4>1, FS_Union, FS_CardinalityType
      <4>3. Cardinality(Seen \cap Page) = 0
        BY <3>4, FS_EmptySet
      <4>4. w.count = Cardinality(Seen)
        BY <1>3, <3>1 DEF Faithful
      <4> QED  BY <2>1, <2>5, <2>6, <2>7, <2>8, <3>4, <4>2, <4>3, <4>4
    <3>8. Started'
      BY <1>1, <2>4, <2>6, <2>8 DEF Started
    <3>9. walk'.due <= Cardinality(events')
      BY <1>1, <1>3, <2>6, <2>8, <3>1 DEF Faithful
    <3> QED  BY <3>6, <3>7, <3>8, <3>9 DEF Faithful
  <2>10. WalkInv'
    BY <1>1, <1>4, <2>6, <2>8, <2>9 DEF WalkInv
  <2>11. VerificationIsRight'
    BY <2>6, <2>8 DEF VerificationIsRight, NoFalseAlarm, TamperingShows, VerifiedMeansAll
  <2> QED  BY <1>2, <2>10, <2>11 DEF LedgerInv
<1> QED  BY <1>5, <1>6, <1>7

-----------------------------------------------------------------------------
LEMMA InitLedger ==
  ASSUME Init
  PROVE  LedgerInv
<1>1. IsFiniteSet(events) /\ events = {} /\ None \notin Handler
  BY FS_EmptySet, NoneIsNothing DEF Init
<1>2. RowsInv
  <2>1. Shapes
    BY <1>1, RowSets DEF Init, Shapes, Stage, Tampering
  <2>2. NumbersInv /\ LocksInv
    BY <1>1, NoneIsNothing DEF Init, NumbersInv, LocksInv
  <2>3. JobsInv
    BY DEF Init, JobsInv
  <2> QED  BY <2>1, <2>2, <2>3 DEF RowsInv
<1>3. ChainInv
  BY DEF Init, ChainInv
<1>4. WalkInv
  <2>1. Genesis \in Hash
    BY DEF Genesis, Hash
  <2> QED  BY <2>1 DEF Init, WalkInv, Walk, Tampering
<1>5. VerificationIsRight
  BY DEF Init, VerificationIsRight, NoFalseAlarm, TamperingShows, VerifiedMeansAll
<1> QED  BY <1>2, <1>3, <1>4, <1>5 DEF LedgerInv

LEMMA NextLedger ==
  ASSUME LedgerInv, [Next]_vars
  PROVE  LedgerInv'
<1>1. ASSUME NEW r \in Handler, NoNewEvent(r)
      PROVE  LedgerInv'
  <2>1. RowsInv'
    BY <1>1, InsertRowStep, TouchSessionStep, DecideRowStep, ExecutionRowStep, TakeAuditLockStep,
       AbortStep, AcceptStep DEF NoNewEvent, LedgerInv
  <2>2. /\ events' = events /\ tampered' = tampered /\ walk' = walk
        /\ \A p \in Handler : pc'[p] = "commit" => pc[p] = "commit" /\ h'[p] = h[p]
    BY <1>1, NothingAdded DEF LedgerInv
  <2> QED  BY <2>1, <2>2, ChainKept, WalkKept DEF LedgerInv
<1>2. ASSUME NEW r \in Handler, AppendEvent(r)
      PROVE  LedgerInv'
  <2>1. \A e \in events : e.hash \in Hash
    BY DEF LedgerInv, RowsInv, Shapes, Event
  <2>2. events # {} => Latest(events) \in events
    BY NewestEvent DEF LedgerInv
  <2>3. RowsInv'
    BY <1>2, <2>1, <2>2, AppendEventStep DEF LedgerInv
  <2> QED  BY <1>2, <2>3, AppendChain DEF LedgerInv
<1>3. ASSUME NEW r \in Handler, Commit(r)
      PROVE  LedgerInv'
  BY <1>3, CommitStep, CommitChain DEF LedgerInv
<1>4. CASE Tamper
  BY <1>4, TamperStep, TamperChain DEF LedgerInv
<1>5. CASE UNCHANGED vars
  BY <1>5, RowsKept, ChainKept, WalkKept DEF vars, LedgerInv
<1> QED  BY <1>1, <1>2, <1>3, <1>4, <1>5, StartVerifyStep, CheckPageStep
         DEF Next, Work, NoNewEvent

(* The rows, the locks, the chain and the walk stay in step whatever       *)
(* requests overlap, whichever are lost, and whoever tampers.              *)
THEOREM Invariance == Spec => []LedgerInv
BY InitLedger, NextLedger, PTL DEF Spec

(* Rows and events are well-formed, and a request holds the locks of what  *)
(* it has written, and of nothing else, from the first statement of its    *)
(* transaction (approvals.service.ts, sessions.service.ts) to the end.     *)
THEOREM TypeCorrect == Spec => []TypeOK
<1>1. ASSUME LedgerInv PROVE TypeOK
  <2>1. Shapes /\ NumbersInv /\ LocksInv
    BY <1>1 DEF LedgerInv, RowsInv
  <2>2. \A e \in events : e.req \in Ideal!Request /\ e.seq < nextSeq
    BY <2>1 DEF Shapes, NumbersInv, Event
  <2>3. auditLock # None => pc[auditLock] \in {"append", "commit"}
    BY <2>1 DEF Shapes, LocksInv
  <2> QED  BY <2>1, <2>2, <2>3 DEF TypeOK, Shapes, LocksInv, Stage
<1> QED  BY <1>1, Invariance, PTL

(* A verification may be believed (audit.service.ts:42): no false alarm    *)
(* while appends go on, no change to a past event unseen, and no event     *)
(* skipped, whatever the size of the pages.                                *)
THEOREM VerificationHolds == Spec => []VerificationIsRight
<1>1. LedgerInv => VerificationIsRight
  BY DEF LedgerInv
<1> QED  BY <1>1, Invariance, PTL

-----------------------------------------------------------------------------
(* The tables and the chain over them are the audited ledger: a commit is  *)
(* one of its changes, and nothing else shows.                             *)

LEMMA SameChange ==
  ASSUME NEW w, NEW v, DOMAIN v = DOMAIN w, \A k \in DOMAIN w : v[k] = w[k], Ideal!Change(w)
  PROVE  Ideal!Change(v)
BY DEF Ideal!Change

LEMMA CommitIsLegal ==
  ASSUME RowsInv, NEW req \in Ideal!Request, NEW w, Legal(req), Effect(req, w), Ideal!Change(w)
  PROVE  \/ Ideal!OpenSession(req) \/ Ideal!RecordTurn(req) \/ Ideal!RequestApproval(req)
         \/ Ideal!Decide(req) \/ Ideal!RecordExecution(req)
<1>1. CASE req.op = "session"
  <2>1. PICK v : v = [k \in {req.key} |-> Ideal!SessionRow(req)]
    OBVIOUS
  <2>2. Ideal!Change(v)
    <3>1. DOMAIN v = DOMAIN w /\ \A k \in DOMAIN w : v[k] = w[k]
      BY <1>1, <2>1 DEF Effect
    <3> QED  BY <3>1, SameChange
  <2> QED  BY <1>1, <2>1, <2>2 DEF Ideal!OpenSession, Effect
<1>2. CASE req.op = "turn"
  <2>1. PICK title \in {rows[req.session].title, req.key} :
          w[req.session] = [rows[req.session] EXCEPT !.title = title]
    BY <1>2 DEF Effect
  <2>2. PICK v : v = [k \in {req.key, req.session} |->
                        IF k = req.key THEN Ideal!TurnRow(req) ELSE [rows[k] EXCEPT !.title = title]]
    OBVIOUS
  <2>3. Ideal!Change(v)
    <3>1. DOMAIN v = DOMAIN w /\ \A k \in DOMAIN w : v[k] = w[k]
      BY <1>2, <2>1, <2>2 DEF Effect
    <3> QED  BY <3>1, SameChange
  <2>4. rows[req.key] = None /\ Ideal!Owns(req.actor, req.session)
    BY <1>2 DEF Effect, Legal, Owns
  <2> QED  BY <1>2, <2>2, <2>3, <2>4 DEF Ideal!RecordTurn
<1>3. CASE req.op = "request"
  <2>1. PICK v : v = [k \in {req.key} |-> Ideal!ApprovalRow(req)]
    OBVIOUS
  <2>2. Ideal!Change(v)
    <3>1. DOMAIN v = DOMAIN w /\ \A k \in DOMAIN w : v[k] = w[k]
      BY <1>3, <2>1 DEF Effect
    <3> QED  BY <3>1, SameChange
  <2>3. rows[req.key] = None /\ (req.session # None => Ideal!Owns(req.actor, req.session))
    BY <1>3 DEF Effect, Legal, Owns
  <2> QED  BY <1>3, <2>1, <2>2, <2>3 DEF Ideal!RequestApproval
<1>4. CASE req.op = "decide"
  <2>1. PICK v : v = [k \in {req.key} |->
                        [rows[k] EXCEPT !.status = req.value, !.decidedBy = req.actor]]
    OBVIOUS
  <2>2. Ideal!Change(v)
    <3>1. DOMAIN v = DOMAIN w /\ \A k \in DOMAIN w : v[k] = w[k]
      BY <1>4, <2>1 DEF Effect
    <3> QED  BY <3>1, SameChange
  <2>3. /\ rows[req.key] # None /\ rows[req.key].status = "PENDING" /\ req.actor \in Approver
        /\ RequireSeparateApprover => req.actor # rows[req.key].by
    BY <1>4 DEF Effect, Legal
  <2> QED  BY <1>4, <2>1, <2>2, <2>3 DEF Ideal!Decide
<1>5. CASE req.op = "execute"
  <2>1. PICK v : v = [k \in {req.key} |-> [rows[k] EXCEPT !.execution = req.value]]
    OBVIOUS
  <2>2. Ideal!Change(v)
    <3>1. DOMAIN v = DOMAIN w /\ \A k \in DOMAIN w : v[k] = w[k]
      BY <1>5, <2>1 DEF Effect
    <3> QED  BY <3>1, SameChange
  <2>3. rows[req.key] # None /\ rows[req.key].status = "APPROVED"
    BY <1>5 DEF Effect, Legal
  <2> QED  BY <1>5, <2>1, <2>2, <2>3 DEF Ideal!RecordExecution
<1> QED  BY <1>1, <1>2, <1>3, <1>4, <1>5, RequestFields

LEMMA CommitIsAChange ==
  ASSUME LedgerInv, NEW r \in Handler, Commit(r)
  PROVE  Ideal!Next
<1>1. PICK job \in Job : job = h[r] /\ JobOk("commit", job)
  BY DEF Commit, LedgerInv, RowsInv, Shapes, LocksInv, JobsInv
<1>2. PICK req, w, e :
        req = job.req /\ w = job.writes /\ e = job.event /\ req \in Ideal!Request
  BY <1>1 DEF Job
<1>3. /\ Legal(req) /\ Effect(req, w) /\ Newest(e) /\ e.req = req /\ RowsInv
      /\ Ideal!Change(w) /\ events' = events \cup {e}
  BY <1>1, <1>2 DEF JobOk, Commit, LedgerInv
<1>4. \/ Ideal!OpenSession(req) \/ Ideal!RecordTurn(req) \/ Ideal!RequestApproval(req)
      \/ Ideal!Decide(req) \/ Ideal!RecordExecution(req)
  BY <1>2, <1>3, CommitIsLegal
<1>5. PICK entry : entry = [seq |-> e.seq, req |-> e.req]
  OBVIOUS
<1> DEFINE trail == {[seq |-> d.seq, req |-> d.req] : d \in events}
<1>6. \A d \in trail : d.seq < entry.seq
  BY <1>3, <1>5 DEF Newest
<1>7. entry \notin trail
  <2>1. entry.seq = e.seq /\ e.seq \in Nat
    BY <1>3, <1>5 DEF Newest, Event
  <2>2. ~(entry.seq < entry.seq)
    BY <2>1
  <2> HIDE DEF trail
  <2> QED  BY <1>6, <2>2
<1>8. trail' = trail \cup {entry}
  BY <1>3, <1>5
<1>9. entry.req = req
  BY <1>3, <1>5
<1> QED  BY <1>2, <1>4, <1>6, <1>7, <1>8, <1>9 DEF Ideal!Next

(* The rows and the audit trail change together, by one legal change at a  *)
(* time and in the order of the trail (approvals.service.ts,               *)
(* audit.service.ts:52): the ledger implements the audited one.            *)
THEOREM LedgerIsAudited == Spec => ChangesAreAudited
<1>1. Init => Ideal!Init
  BY DEF Init, Ideal!Init, Key
<1>2. LedgerInv /\ [Next]_vars => [tampered' = tampered => [Ideal!Next]_<<rows, events>>]_vars
  <2> SUFFICES ASSUME LedgerInv, Next, tampered' = tampered
               PROVE  Ideal!Next \/ UNCHANGED <<rows, events>>
    OBVIOUS
  <2>1. ASSUME NEW r \in Handler, InsertRow(r) \/ DecideRow(r)
        PROVE  UNCHANGED <<rows, events>>
    BY <2>1 DEF InsertRow, DecideRow, Write, Rollback
  <2>2. ASSUME NEW r \in Handler, TouchSession(r) \/ ExecutionRow(r)
        PROVE  UNCHANGED <<rows, events>>
    BY <2>2 DEF TouchSession, ExecutionRow, Write
  <2>3. ASSUME NEW r \in Handler, TakeAuditLock(r) \/ AppendEvent(r) \/ Abort(r)
        PROVE  UNCHANGED <<rows, events>>
    BY <2>3 DEF TakeAuditLock, AppendEvent, Abort
  <2>4. ASSUME NEW r \in Handler, NEW req \in Ideal!Request, Accept(r, req)
        PROVE  UNCHANGED <<rows, events>>
    BY <2>4 DEF Accept, tables
  <2>5. CASE StartVerify \/ CheckPage
    BY <2>5 DEF StartVerify, CheckPage, tables
  <2>6. ~Tamper
    BY DEF Tamper
  <2> QED  BY <2>1, <2>2, <2>3, <2>4, <2>5, <2>6, CommitIsAChange DEF Next, Work
<1> QED  BY <1>1, <1>2, Invariance, PTL DEF Spec, ChangesAreAudited
=============================================================================
