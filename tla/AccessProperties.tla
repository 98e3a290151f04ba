-------------------------- MODULE AccessProperties ---------------------------
(* What sign-in and the records made under a session promise. *)
EXTENDS Records

Actors == [subject : Person \cup {"nobody"}, scopes : SUBSET ScopesForRoles(TaniaRole),
           clearance : Classification, email : BOOLEAN]

(* Every variable keeps its shape; no two entries of a list share a place. *)
TypeOK ==
  /\ clock \in 0..MaxClock /\ lost \in [Person -> -1..MaxClock]
  /\ parked \in [Browser -> [attempt : 0..MaxAttempts, until : Nat]]
  /\ \A a \in Attempt : attempt[a].actor \in Actors
  /\ \A b \in Browser : session[b].actor \in Actors /\ session[b].until \in Nat
  /\ durable \in BOOLEAN
  /\ \A q \in Request : request[q].kind \in Kind /\ request[q].actor \in Actors
  /\ IsInjective(memory) /\ IsInjective(trail)
  /\ Held \cup recorded \subseteq {q \in Request : request[q].kind = "task"}

(* callback/route.ts:57: what comes back is believed only if it answers    *)
(* the sign-in this browser began last. A session is of a sign-in its own  *)
(* browser went through, for the person the provider signed in, and which  *)
(* no later sign-in of the browser had overtaken.                          *)
OnlyTheLastAttemptSignsIn ==
  \A b \in Browser : session[b] # NoSession =>
    LET a == attempt[session[b].attempt]
    IN  /\ a.browser = b /\ a.stage = "done"
        /\ session[b].actor.subject = a.person
        /\ ~a.overtaken

(* session.ts:12: a session outlives a change in the directory by its own  *)
(* life and that of the token it was made from, and no longer: until then  *)
(* its rights are those of the directory before or after the change.       *)
RevocationIsBounded ==
  \A b \in Browser : SignedInAs(b) =>
    LET actor == OpenSession(b)
        p == actor.subject
        now == ScopesForRoles(ResolveRoles(Directory(p).groups))
    IN  \/ actor.scopes \subseteq now /\ actor.clearance = ClearanceOf(Directory(p).clearance)
        \/ lost[p] # -1 /\ clock - lost[p] < SessionTtl + TokenLife

(* stores.ts:144: the count is of what this request removed itself, all of *)
(* it the asker's own and of the conversation named. If the asker may read *)
(* the notes and there were fewer than one page of them, none is left.     *)
ForgettingIsHonest ==
  \A q \in Request : request[q].kind = "forget" /\ request[q].told = "ok" =>
    LET r == request[q]
    IN  /\ r.count = Cardinality(r.removed)
        /\ \A p \in r.removed : p \in r.before /\ Matches(q, p)
        /\ r.count < RecallLimit /\ CanAccess(r.actor.clearance, "INTERNAL") =>
             \A p \in r.before : Matches(q, p) => p \notin Held

(* recorder.ts:60: a request is answered only once its record is kept,     *)
(* which a process without a backend does until it restarts and for the    *)
(* newest records only; and what another person did is shown only to who   *)
(* holds audit:read.                                                       *)
AnsweredMeansRecorded ==
  \A q \in Request : request[q].told = "ok" =>
    /\ request[q].kind = "task" =>
         \/ q \in DOMAIN trail
         \/ ~durable /\ (q \in erased \/ Cardinality(recorded) > RingLimit)
    /\ \A p \in request[q].shown :
         request[p].actor.subject # request[q].actor.subject => "audit:read" \in request[q].actor.scopes

(* client.ts:71: what a request is told is true of the records, also when  *)
(* the backend's answer came late, not at all, or refused one of several   *)
(* removals.                                                               *)
ToldIsTrue == AnsweredMeansRecorded /\ ForgettingIsHonest
=============================================================================
