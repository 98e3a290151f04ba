----------------------------- MODULE Access_proof -----------------------------
(***************************************************************************)
(* Theorems about sign-in and the records kept of tasks, for any browsers, *)
(* people, directory, lifetimes, attempts, requests, conversations and     *)
(* limits.                                                                 *)
(***************************************************************************)
EXTENDS AccessProperties, TLAPS, FiniteSetTheorems, WellFoundedInduction

Stage == {"unused", "atIdP", "returned", "exchanging", "verifying", "done", "failed"}

AttemptRecord ==
  [stage : Stage, browser : Browser \cup {0}, person : Person \cup {"nobody"}, actor : Actors,
   issued : Int, overtaken : BOOLEAN]

(* The callback has let the attempt through. *)
Passed(a) == attempt[a].stage \in {"exchanging", "verifying", "done"}

(* The actor has the rights the directory gives p, where gone says when    *)
(* people lost theirs.                                                     *)
Current(actor, p, gone) ==
  LET entry == IF gone[p] = -1 THEN Groups[p].before ELSE Groups[p].after IN
  /\ actor.scopes = ScopesForRoles(ResolveRoles(entry.groups))
  /\ actor.clearance = ClearanceOf(entry.clearance)

Shapes ==
  /\ clock \in 0..MaxClock
  /\ lost \in [Person -> -1..MaxClock]
  /\ parked \in [Browser -> [attempt : Attempt \cup {0}, until : Nat]]
  /\ attempt \in [Attempt -> AttemptRecord]
  /\ session \in [Browser -> [attempt : Attempt \cup {0}, actor : Actors, until : Nat]]

(* Who parked an attempt that is still in flight is who began it, and has  *)
(* begun none since; an attempt nobody began is parked nowhere.            *)
ParkedIsLast ==
  \A b \in Browser : parked[b].attempt # 0 =>
    /\ attempt[parked[b].attempt].stage # "unused"
    /\ InFlight(parked[b].attempt) =>
         attempt[parked[b].attempt].browser = b /\ ~attempt[parked[b].attempt].overtaken

(* An attempt past the callback was the last of its browser when it passed.*)
PassedWasLast ==
  \A a \in Attempt : Passed(a) => ~attempt[a].overtaken /\ attempt[a].person \in Person
                                  /\ attempt[a].browser \in Browser

AttemptsInv ==
  \A a \in Attempt :
    /\ InFlight(a) => attempt[a].browser \in Browser
    /\ attempt[a].stage = "returned" => attempt[a].person \in Person
    /\ attempt[a].stage \in {"verifying", "done"} => attempt[a].actor.subject = attempt[a].person

(* The claims of a token are those of now, or from before the directory    *)
(* changed.                                                                *)
TokensInv ==
  \A a \in Attempt : attempt[a].stage = "verifying" =>
    LET p == attempt[a].person IN
    /\ attempt[a].issued <= clock
    /\ Current(attempt[a].actor, p, lost) \/ (lost[p] # -1 /\ attempt[a].issued <= lost[p])

SessionsInv ==
  \A b \in Browser : session[b] # NoSession =>
    LET p == session[b].actor.subject IN
    /\ session[b].attempt \in Attempt /\ attempt[session[b].attempt].stage = "done"
    /\ attempt[session[b].attempt].browser = b
    /\ attempt[session[b].attempt].person = p
    /\ p \in Person
    /\ session[b].until <= clock + SessionTtl
    /\ Current(session[b].actor, p, lost)
         \/ (lost[p] # -1 /\ session[b].until < lost[p] + TokenLife + SessionTtl)

IInv == Shapes /\ ParkedIsLast /\ PassedWasLast /\ AttemptsInv /\ TokensInv /\ SessionsInv

LEMMA ConstantsFacts ==
  /\ {MaxAttempts, MaxClock, SessionTtl, ParkedTtl, TokenLife} \subseteq Nat \ {0}
  /\ Attempt \subseteq Nat \ {0}
BY SignInAssumption DEF Attempt

LEMMA NoActorType == NoActor \in Actors
<1>1. "PUBLIC" = Classifications[1] /\ 1 \in DOMAIN Classifications
  BY DEF Classifications
<1>2. "PUBLIC" \in Classification
  BY <1>1 DEF Classification
<1> QED  BY <1>2 DEF NoActor, Actors

LEMMA NoAttemptType == NoAttempt \in AttemptRecord
BY NoActorType DEF NoAttempt, AttemptRecord, Stage

LEMMA DirectoryType == ASSUME NEW p \in Person PROVE Directory(p) \in Claims
BY SignInAssumption DEF Directory

(* A token becomes an actor with the rights of the directory it was made from. *)
LEMMA ActorOfToken ==
  ASSUME NEW p \in Person, NEW claims \in Claims
  PROVE  LET actor == ActorFromClaims([claims EXCEPT !.subject = p])
         IN  /\ actor \in Actors /\ actor.subject = p
             /\ actor.scopes = ScopesForRoles(ResolveRoles(claims.groups))
             /\ actor.clearance = ClearanceOf(claims.clearance)
<1> DEFINE token == [claims EXCEPT !.subject = p]
<1>1. /\ token.subject = p /\ token.groups = claims.groups
      /\ token.clearance = claims.clearance /\ token.email \in BOOLEAN
  BY DEF Claims
<1>2. ScopesForRoles(ResolveRoles(claims.groups)) \in SUBSET ScopesForRoles(TaniaRole)
  BY DEF ScopesForRoles, ResolveRoles
<1>3. "INTERNAL" \in Classification
  <2>1. "INTERNAL" = Classifications[2] /\ 2 \in DOMAIN Classifications
    BY DEF Classifications
  <2> QED  BY <2>1 DEF Classification
<1>4. ClearanceOf(claims.clearance) \in Classification
  BY <1>3 DEF ClearanceOf
<1> HIDE DEF token
<1> QED  BY <1>1, <1>2, <1>4 DEF ActorFromClaims, Actors, token

LEMMA InitIInv == Init => IInv
<1> SUFFICES ASSUME Init PROVE IInv
  OBVIOUS
<1>1. Shapes
  BY NoActorType, NoAttemptType, ConstantsFacts DEF Init, SignInInit, Shapes, NotParked, NoSession
<1>2. ParkedIsLast /\ SessionsInv
  BY DEF Init, SignInInit, ParkedIsLast, SessionsInv, NotParked
<1>3. PassedWasLast /\ AttemptsInv /\ TokensInv
  BY DEF Init, SignInInit, PassedWasLast, AttemptsInv, TokensInv, NoAttempt, Passed, InFlight
<1> QED  BY <1>1, <1>2, <1>3 DEF IInv

-----------------------------------------------------------------------------
(* One lemma per action. *)

LEMMA LoginKeeps == ASSUME IInv, NEW b \in Browser, Login(b) PROVE IInv'
<1>1. PICK a \in Attempt :
        /\ attempt[a].stage = "unused"
        /\ attempt' = [c \in Attempt |->
                         IF c = a THEN [NoAttempt EXCEPT !.stage = "atIdP", !.browser = b]
                         ELSE IF InFlight(c) /\ attempt[c].browser = b
                              THEN [attempt[c] EXCEPT !.overtaken = TRUE] ELSE attempt[c]]
        /\ parked' = [parked EXCEPT ![b] = Park(b, a)]
  BY DEF Login
<1>2. UNCHANGED <<clock, lost, session>>
  BY DEF Login
<1>3. /\ attempt'[a].stage = "atIdP" /\ attempt'[a].browser = b /\ ~attempt'[a].overtaken
      /\ attempt'[a] \in AttemptRecord
  BY <1>1, NoAttemptType DEF NoAttempt, AttemptRecord, Stage
<1>4. ASSUME NEW c \in Attempt \ {a}
      PROVE  /\ attempt'[c] \in AttemptRecord
             /\ attempt'[c].stage = attempt[c].stage /\ attempt'[c].browser = attempt[c].browser
             /\ attempt'[c].person = attempt[c].person /\ attempt'[c].actor = attempt[c].actor
             /\ attempt'[c].issued = attempt[c].issued
             /\ attempt'[c].overtaken # attempt[c].overtaken => InFlight(c) /\ attempt[c].browser = b
  <2>1. attempt[c] \in AttemptRecord
    BY DEF IInv, Shapes
  <2>2. CASE InFlight(c) /\ attempt[c].browser = b
    <3>1. attempt'[c] = [attempt[c] EXCEPT !.overtaken = TRUE]
      BY <1>1, <2>2
    <3> QED  BY <2>1, <2>2, <3>1 DEF AttemptRecord
  <2>3. CASE ~(InFlight(c) /\ attempt[c].browser = b)
    BY <1>1, <2>1, <2>3
  <2> QED  BY <2>2, <2>3
<1>5. Shapes'
  <2>1. attempt' \in [Attempt -> AttemptRecord]
    BY <1>1, <1>3, <1>4
  <2>2. parked' \in [Browser -> [attempt : Attempt \cup {0}, until : Nat]]
    BY <1>1, ConstantsFacts DEF IInv, Shapes, Park
  <2> QED  BY <2>1, <2>2, <1>2 DEF IInv, Shapes
<1>6. ParkedIsLast'
  <2> SUFFICES ASSUME NEW d \in Browser, parked'[d].attempt # 0
               PROVE  /\ attempt'[parked'[d].attempt].stage # "unused"
                      /\ attempt'[parked'[d].attempt].stage \in {"atIdP", "returned"} =>
                           /\ attempt'[parked'[d].attempt].browser = d
                           /\ ~attempt'[parked'[d].attempt].overtaken
    BY DEF ParkedIsLast, InFlight
  <2>1. CASE d = b
    BY <1>1, <1>3, <2>1 DEF IInv, Shapes, Park
  <2>2. CASE d # b
    <3>1. parked'[d] = parked[d] /\ parked[d].attempt \in Attempt
      BY <1>1, <2>2 DEF IInv, Shapes
    <3>2. parked[d].attempt # a
      BY <1>1, <3>1 DEF IInv, ParkedIsLast
    <3> QED  BY <1>4, <2>2, <3>1, <3>2 DEF IInv, ParkedIsLast, InFlight
  <2> QED  BY <2>1, <2>2
<1>7. PassedWasLast' /\ AttemptsInv'
  BY <1>2, <1>3, <1>4 DEF IInv, PassedWasLast, AttemptsInv, Passed, InFlight
<1>8. TokensInv'
  BY <1>2, <1>3, <1>4 DEF IInv, TokensInv
<1>9. SessionsInv'
  BY <1>1, <1>2, <1>4 DEF IInv, SessionsInv
<1> QED  BY <1>5, <1>6, <1>7, <1>8, <1>9 DEF IInv

(* The attempt moves on, nothing else changes. *)
LEMMA AttemptMoves ==
  ASSUME IInv, UNCHANGED <<clock, lost, parked, session>>,
         NEW a \in Attempt, NEW r \in AttemptRecord, attempt' = [attempt EXCEPT ![a] = r],
         attempt[a].stage \notin {"unused", "done"}, r.stage # "unused",
         \A b \in Browser : parked[b].attempt = a /\ r.stage \in {"atIdP", "returned"} =>
           r.browser = b /\ ~r.overtaken,
         r.stage \in {"exchanging", "verifying"} =>
           ~r.overtaken /\ r.person \in Person /\ r.browser \in Browser,
         r.stage \in {"atIdP", "returned"} => r.browser \in Browser,
         r.stage = "returned" => r.person \in Person,
         r.stage = "verifying" => /\ r.actor.subject = r.person
                                  /\ r.issued <= clock /\ Current(r.actor, r.person, lost),
         r.stage # "done"
  PROVE  IInv'
<1>1. attempt'[a] = r /\ \A c \in Attempt \ {a} : attempt'[c] = attempt[c]
  BY DEF IInv, Shapes
<1>2. Shapes'
  BY DEF IInv, Shapes
<1>3. ParkedIsLast'
  BY <1>1 DEF IInv, Shapes, ParkedIsLast, InFlight
<1>4. PassedWasLast' /\ AttemptsInv'
  BY <1>1 DEF IInv, PassedWasLast, AttemptsInv, Passed, InFlight
<1>5. TokensInv'
  BY <1>1 DEF IInv, TokensInv
<1>6. SessionsInv'
  BY <1>1 DEF IInv, SessionsInv
<1> QED  BY <1>2, <1>3, <1>4, <1>5, <1>6 DEF IInv

LEMMA FailsKeeps ==
  ASSUME IInv, UNCHANGED <<clock, lost, parked, session>>, NEW a \in Attempt, Fails(a),
         attempt[a].stage \notin {"unused", "done"}
  PROVE  IInv'
<1> DEFINE r == [NoAttempt EXCEPT !.stage = "failed"]
<1>1. r \in AttemptRecord /\ r.stage = "failed"
  BY NoAttemptType DEF NoAttempt, AttemptRecord, Stage
<1>2. attempt' = [attempt EXCEPT ![a] = r]
  BY DEF Fails
<1> HIDE DEF r
<1> QED  BY <1>1, <1>2, AttemptMoves

LEMMA AuthenticatesKeeps ==
  ASSUME IInv, NEW a \in Attempt, NEW p \in Person, Authenticates(a, p) PROVE IInv'
<1> DEFINE r == [attempt[a] EXCEPT !.stage = "returned", !.person = p]
<1>1. attempt[a] \in AttemptRecord /\ attempt[a].stage = "atIdP"
  BY DEF Authenticates, IInv, Shapes
<1>2. /\ r \in AttemptRecord /\ r.stage = "returned" /\ r.person = p
      /\ r.browser = attempt[a].browser /\ r.overtaken = attempt[a].overtaken
  BY <1>1 DEF AttemptRecord, Stage
<1>3. attempt' = [attempt EXCEPT ![a] = r] /\ UNCHANGED <<clock, lost, parked, session>>
  BY DEF Authenticates, IInv, Shapes
<1>4. a # 0
  BY ConstantsFacts
<1>5. \A b \in Browser : parked[b].attempt = a /\ r.stage \in {"atIdP", "returned"} =>
        r.browser = b /\ ~r.overtaken
  BY <1>1, <1>2, <1>4 DEF IInv, ParkedIsLast, InFlight
<1>6. r.browser \in Browser
  BY <1>1, <1>2 DEF IInv, AttemptsInv, InFlight
<1> HIDE DEF r
<1> QED  BY <1>1, <1>2, <1>3, <1>5, <1>6, AttemptMoves

LEMMA CallbackKeeps == ASSUME IInv, NEW a \in Attempt, Callback(a) PROVE IInv'
<1>1. attempt[a] \in AttemptRecord /\ attempt[a].stage = "returned"
  BY DEF Callback, IInv, Shapes
<1>2. UNCHANGED <<clock, lost, parked, session>>
  BY DEF Callback
<1>3. CASE Parked(attempt[a].browser) # a
  BY <1>1, <1>2, <1>3, FailsKeeps DEF Callback
<1>4. CASE Parked(attempt[a].browser) = a
  <2> DEFINE r == [attempt[a] EXCEPT !.stage = "exchanging"]
  <2>1. /\ r \in AttemptRecord /\ r.stage = "exchanging" /\ r.person = attempt[a].person
        /\ r.browser = attempt[a].browser /\ r.overtaken = attempt[a].overtaken
    BY <1>1 DEF AttemptRecord, Stage
  <2>2. attempt' = [attempt EXCEPT ![a] = r]
    BY <1>4 DEF Callback, Moves, IInv, Shapes
  <2>3. attempt[a].browser \in Browser /\ attempt[a].person \in Person
    BY <1>1 DEF IInv, AttemptsInv, InFlight
  <2>4. parked[attempt[a].browser].attempt = a /\ a # 0
    BY <1>4, ConstantsFacts DEF Parked
  <2>5. ~attempt[a].overtaken
    BY <1>1, <2>3, <2>4 DEF IInv, ParkedIsLast, InFlight
  <2> HIDE DEF r
  <2> QED  BY <1>1, <1>2, <2>1, <2>2, <2>3, <2>5, AttemptMoves
<1> QED  BY <1>3, <1>4

LEMMA ExchangeKeeps == ASSUME IInv, NEW a \in Attempt, Exchange(a) PROVE IInv'
<1>1. attempt[a] \in AttemptRecord /\ attempt[a].stage = "exchanging" /\ clock \in Int
  BY DEF Exchange, IInv, Shapes
<1>2. attempt[a].person \in Person /\ attempt[a].browser \in Browser /\ ~attempt[a].overtaken
  BY <1>1 DEF IInv, PassedWasLast, Passed
<1> DEFINE p == attempt[a].person
           actor == ActorFromClaims([Directory(p) EXCEPT !.subject = p])
           r == [attempt[a] EXCEPT !.stage = "verifying", !.actor = actor, !.issued = clock]
<1>3. actor \in Actors /\ actor.subject = p /\ Current(actor, p, lost)
  BY <1>2, DirectoryType, ActorOfToken DEF Current, Directory
<1>4. attempt' = [attempt EXCEPT ![a] = r] /\ UNCHANGED <<clock, lost, parked, session>>
  BY DEF Exchange, IInv, Shapes
<1> HIDE DEF actor
<1>5. /\ r \in AttemptRecord /\ r.stage = "verifying" /\ r.person = p /\ r.actor = actor
      /\ r.browser = attempt[a].browser /\ r.overtaken = attempt[a].overtaken /\ r.issued = clock
  BY <1>1, <1>3 DEF AttemptRecord, Stage
<1>6. r.issued <= clock /\ Current(r.actor, r.person, lost) /\ r.actor.subject = r.person
  BY <1>1, <1>3, <1>5
<1> HIDE DEF r
<1>7. ~r.overtaken /\ r.person \in Person /\ r.browser \in Browser
  BY <1>2, <1>5
<1> HIDE DEF p
<1> QED  BY <1>1, <1>4, <1>5, <1>6, <1>7, AttemptMoves

LEMMA SignedInKeeps == ASSUME IInv, NEW a \in Attempt, SignedIn(a) PROVE IInv'
<1> DEFINE b == attempt[a].browser
           s == [attempt |-> a, actor |-> attempt[a].actor, until |-> clock + SessionTtl]
<1>1. /\ attempt[a] \in AttemptRecord /\ attempt[a].stage = "verifying" /\ clock \in Nat
      /\ clock < attempt[a].issued + TokenLife
  BY DEF SignedIn, IInv, Shapes
<1>2. /\ attempt[a].person \in Person /\ b \in Browser /\ ~attempt[a].overtaken
      /\ attempt[a].actor.subject = attempt[a].person
  BY <1>1 DEF IInv, PassedWasLast, AttemptsInv, Passed
<1>3. /\ session' = [session EXCEPT ![b] = s] /\ parked' = [parked EXCEPT ![b] = NotParked]
      /\ UNCHANGED <<clock, lost>>
  BY DEF SignedIn
<1>4. /\ attempt' = [attempt EXCEPT ![a] = [attempt[a] EXCEPT !.stage = "done"]]
  BY DEF SignedIn, Moves, IInv, Shapes
<1>5. /\ attempt'[a] \in AttemptRecord /\ attempt'[a].stage = "done"
      /\ attempt'[a].person = attempt[a].person /\ attempt'[a].browser = b
      /\ attempt'[a].actor = attempt[a].actor /\ ~attempt'[a].overtaken
  BY <1>1, <1>2, <1>4 DEF IInv, Shapes, AttemptRecord, Stage
<1>6. \A c \in Attempt \ {a} : attempt'[c] = attempt[c]
  BY <1>4 DEF IInv, Shapes
<1>7. Shapes'
  <2>1. s \in [attempt : Attempt \cup {0}, actor : Actors, until : Nat]
    BY <1>1, ConstantsFacts DEF AttemptRecord
  <2>2. NotParked \in [attempt : Attempt \cup {0}, until : Nat]
    BY DEF NotParked
  <2> QED  BY <1>3, <1>4, <1>5, <2>1, <2>2 DEF IInv, Shapes
<1>8. ParkedIsLast'
  <2> SUFFICES ASSUME NEW d \in Browser, parked'[d].attempt # 0
               PROVE  /\ attempt'[parked'[d].attempt].stage # "unused"
                      /\ attempt'[parked'[d].attempt].stage \in {"atIdP", "returned"} =>
                           /\ attempt'[parked'[d].attempt].browser = d
                           /\ ~attempt'[parked'[d].attempt].overtaken
    BY DEF ParkedIsLast, InFlight
  <2>1. parked'[d] = parked[d] /\ parked[d].attempt \in Attempt
    BY <1>3 DEF IInv, Shapes, NotParked
  <2> QED  BY <1>5, <1>6, <2>1 DEF IInv, ParkedIsLast, InFlight
<1>9. PassedWasLast' /\ AttemptsInv'
  BY <1>2, <1>5, <1>6 DEF IInv, PassedWasLast, AttemptsInv, Passed, InFlight
<1>10. TokensInv'
  BY <1>3, <1>5, <1>6 DEF IInv, TokensInv
<1>11. SessionsInv'
  <2> SUFFICES ASSUME NEW d \in Browser, session'[d] # NoSession
               PROVE  LET p == session'[d].actor.subject IN
                      /\ session'[d].attempt \in Attempt
                      /\ attempt'[session'[d].attempt].stage = "done"
                      /\ attempt'[session'[d].attempt].browser = d
                      /\ attempt'[session'[d].attempt].person = p
                      /\ p \in Person
                      /\ session'[d].until <= clock + SessionTtl
                      /\ \/ Current(session'[d].actor, p, lost)
                         \/ lost[p] # -1 /\ session'[d].until < lost[p] + TokenLife + SessionTtl
    BY <1>3 DEF SessionsInv
  <2>1. CASE d = b
    <3>1. session'[d] = s
      BY <1>3, <2>1 DEF IInv, Shapes
    <3>2. \/ Current(attempt[a].actor, attempt[a].person, lost)
          \/ lost[attempt[a].person] # -1 /\ attempt[a].issued <= lost[attempt[a].person]
      BY <1>1 DEF IInv, TokensInv
    <3>3. lost[attempt[a].person] \in Int /\ attempt[a].issued \in Int
      BY <1>1, <1>2 DEF IInv, Shapes, AttemptRecord
    <3> QED  BY <1>1, <1>2, <1>5, <2>1, <3>1, <3>2, <3>3, ConstantsFacts
  <2>2. CASE d # b
    <3>1. session'[d] = session[d]
      BY <1>3, <2>2 DEF IInv, Shapes
    <3> QED  BY <1>1, <1>6, <3>1 DEF IInv, SessionsInv
  <2> QED  BY <2>1, <2>2
<1> QED  BY <1>7, <1>8, <1>9, <1>10, <1>11 DEF IInv

LEMMA LogoutKeeps == ASSUME IInv, NEW b \in Browser, Logout(b) PROVE IInv'
<1>1. NoSession \in [attempt : Attempt \cup {0}, actor : Actors, until : Nat]
  BY NoActorType DEF NoSession
<1>2. /\ session' = [session EXCEPT ![b] = NoSession] /\ UNCHANGED <<clock, lost, parked, attempt>>
  BY DEF Logout
<1>3. Shapes'
  BY <1>1, <1>2 DEF IInv, Shapes
<1>4. ParkedIsLast' /\ PassedWasLast' /\ AttemptsInv' /\ TokensInv'
  BY <1>2 DEF IInv, ParkedIsLast, PassedWasLast, AttemptsInv, TokensInv, InFlight, Passed
<1>5. SessionsInv'
  BY <1>2 DEF IInv, Shapes, SessionsInv
<1> QED  BY <1>3, <1>4, <1>5 DEF IInv

LEMMA TickKeeps == ASSUME IInv, Tick PROVE IInv'
<1>1. /\ clock \in Nat /\ clock < MaxClock /\ clock' = clock + 1
      /\ UNCHANGED <<lost, parked, attempt, session>>
  BY DEF Tick, IInv, Shapes
<1>2. Shapes'
  BY <1>1, ConstantsFacts DEF IInv, Shapes
<1>3. ParkedIsLast' /\ PassedWasLast' /\ AttemptsInv'
  BY <1>1 DEF IInv, ParkedIsLast, PassedWasLast, AttemptsInv, InFlight, Passed
<1>4. \A a \in Attempt : attempt[a].issued \in Int
  BY DEF IInv, Shapes, AttemptRecord
<1>5. TokensInv'
  BY <1>1, <1>4 DEF IInv, TokensInv
<1>6. \A b \in Browser : session[b].until \in Int
  BY DEF IInv, Shapes
<1>7. SessionsInv'
  BY <1>1, <1>6, ConstantsFacts DEF IInv, SessionsInv
<1> QED  BY <1>2, <1>3, <1>5, <1>7 DEF IInv

LEMMA DemotedKeeps == ASSUME IInv, NEW p \in Person, Demoted(p) PROVE IInv'
<1>1. /\ clock \in Nat /\ lost[p] = -1 /\ lost' = [lost EXCEPT ![p] = clock]
      /\ UNCHANGED <<clock, parked, attempt, session>>
  BY DEF Demoted, IInv, Shapes
<1>2. Shapes'
  BY <1>1 DEF IInv, Shapes
<1>3. ParkedIsLast' /\ PassedWasLast' /\ AttemptsInv'
  BY <1>1 DEF IInv, ParkedIsLast, PassedWasLast, AttemptsInv, InFlight, Passed
<1>4. lost'[p] = clock /\ lost'[p] # -1
  BY <1>1 DEF IInv, Shapes
<1>5. \A q \in Person \ {p} : lost'[q] = lost[q] /\ (Directory(q))' = Directory(q)
  BY <1>1 DEF IInv, Shapes, Directory
<1>6. TokensInv'
  <2> SUFFICES ASSUME NEW a \in Attempt, attempt[a].stage = "verifying"
               PROVE  LET q == attempt[a].person IN
                      /\ attempt[a].issued <= clock
                      /\ \/ Current(attempt[a].actor, q, lost)'
                         \/ lost'[q] # -1 /\ attempt[a].issued <= lost'[q]
    BY <1>1 DEF TokensInv
  <2>1. attempt[a].person \in Person
    BY DEF IInv, PassedWasLast, Passed
  <2> QED  BY <1>1, <1>4, <1>5, <2>1 DEF IInv, TokensInv, Current
<1>7. SessionsInv'
  <2> SUFFICES ASSUME NEW b \in Browser, session[b] # NoSession
               PROVE  LET q == session[b].actor.subject IN
                      \/ Current(session[b].actor, q, lost)'
                      \/ lost'[q] # -1 /\ session[b].until < lost'[q] + TokenLife + SessionTtl
    BY <1>1 DEF IInv, SessionsInv
  <2>1. /\ session[b].actor.subject \in Person /\ session[b].until <= clock + SessionTtl
        /\ session[b].until \in Int
    BY DEF IInv, SessionsInv, Shapes
  <2> QED  BY <1>1, <1>4, <1>5, <2>1, ConstantsFacts DEF IInv, SessionsInv, Current
<1> QED  BY <1>2, <1>3, <1>6, <1>7 DEF IInv

-----------------------------------------------------------------------------
(* What requests do under a session changes no sign-in. *)
LEMMA AcceptSignsNobodyIn == \A q, r : Accept(q, r) => UNCHANGED signin
BY DEF Accept

LEMMA RequestsSignNobodyIn == (Serve \/ Restart) => UNCHANGED signin
<1>1. ASSUME NEW q \in Request, NEW b \in Browser, NEW c \in Conversation, NEW o \in Outcome,
             StartTask(q, b, c, o)
      PROVE  UNCHANGED signin
  BY <1>1, AcceptSignsNobodyIn, Zenon DEF StartTask
<1>2. ASSUME NEW q \in Request, NEW d \in BOOLEAN, Remember(q, d) \/ Record(q, d) \/ ReadTrail(q, d)
      PROVE  UNCHANGED signin
  BY <1>2, Zenon DEF Remember, Record, ReadTrail
<1>3. ASSUME NEW q \in Request,
             ForgetAtOnce(q) \/ Recall(q) \/ Forget(q) \/ Forgotten(q) \/ Unreachable(q)
      PROVE  UNCHANGED signin
  BY <1>3, Zenon DEF ForgetAtOnce, Recall, Forget, Forgotten, Unreachable
<1>6. ASSUME NEW q \in Request, NEW b \in Browser,
             StartRead(q, b) \/ \E c \in Conversation : StartForget(q, b, c)
      PROVE  UNCHANGED signin
  BY <1>6, AcceptSignsNobodyIn, Zenon DEF StartForget, StartRead
<1>4. Restart => UNCHANGED signin
  BY DEF Restart
<1>5. ASSUME Serve PROVE UNCHANGED signin
  <2>1. PICK q \in Request :
          \/ \E b \in Browser, c \in Conversation :
               \/ \E o \in Outcome : StartTask(q, b, c, o)
               \/ StartForget(q, b, c)
          \/ \E b \in Browser : StartRead(q, b)
          \/ \E d \in BOOLEAN : Remember(q, d) \/ Record(q, d) \/ ReadTrail(q, d)
          \/ ForgetAtOnce(q) \/ Recall(q) \/ Forget(q) \/ Forgotten(q) \/ Unreachable(q)
    BY <1>5, Zenon DEF Serve
  <2> QED  BY <2>1, <1>1, <1>2, <1>3, <1>6, Zenon
<1> QED  BY <1>4, <1>5

LEMMA StutterKeeps == IInv /\ UNCHANGED signin => IInv'
BY DEF signin, IInv, Shapes, ParkedIsLast, PassedWasLast, AttemptsInv, TokensInv, SessionsInv,
       InFlight, Passed

THEOREM Invariance == Spec => []IInv
<1>1. ASSUME IInv, SignInNext PROVE IInv'
  <2>1. ASSUME NEW b \in Browser, Login(b) \/ Logout(b) PROVE IInv'
    BY <1>1, <2>1, LoginKeeps, LogoutKeeps
  <2>2. ASSUME NEW a \in Attempt, NEW p \in Person, Authenticates(a, p) PROVE IInv'
    BY <1>1, <2>2, AuthenticatesKeeps
  <2>3. ASSUME NEW a \in Attempt, Refuses(a) \/ ExchangeFails(a) \/ TokenExpired(a) PROVE IInv'
    BY <1>1, <2>3, FailsKeeps DEF Refuses, ExchangeFails, TokenExpired
  <2>4. ASSUME NEW a \in Attempt, Callback(a) \/ Exchange(a) \/ SignedIn(a) PROVE IInv'
    BY <1>1, <2>4, CallbackKeeps, ExchangeKeeps, SignedInKeeps
  <2>5. ASSUME NEW p \in Person, Demoted(p) PROVE IInv'
    BY <1>1, <2>5, DemotedKeeps
  <2> QED  BY <1>1, <2>1, <2>2, <2>3, <2>4, <2>5, TickKeeps DEF SignInNext
<1>2. IInv /\ [Next]_vars => IInv'
  BY <1>1, RequestsSignNobodyIn, StutterKeeps DEF Next, vars
<1> QED  BY <1>2, InitIInv, PTL DEF Spec

(* A session is always of a sign-in its own browser went through for the   *)
(* person it names, and which was the browser's last when its answer came  *)
(* (callback/route.ts:57).                                                 *)
THEOREM SignInIsTheLastOne == Spec => []OnlyTheLastAttemptSignsIn
<1>1. IInv => OnlyTheLastAttemptSignsIn
  BY DEF IInv, SessionsInv, PassedWasLast, Passed, OnlyTheLastAttemptSignsIn
<1> QED  BY <1>1, Invariance, PTL

(* Whatever the lifetimes, an open session has the rights the directory    *)
(* gives now, or the change is younger than both together (session.ts:12). *)
THEOREM RightsAreRevokedInTime == Spec => []RevocationIsBounded
<1>1. IInv => RevocationIsBounded
  <2> SUFFICES ASSUME IInv, NEW b \in Browser, SignedInAs(b)
               PROVE  LET actor == session[b].actor
                          p == actor.subject
                      IN  \/ Current(actor, p, lost)
                          \/ lost[p] # -1 /\ clock - lost[p] < SessionTtl + TokenLife
    BY DEF RevocationIsBounded, Current, Directory, SignedInAs, OpenSession
  <2>1. session[b] # NoSession /\ clock < session[b].until
    BY DEF SignedInAs, OpenSession, NoSession
  <2>2. /\ session[b].actor.subject \in Person /\ session[b].until \in Int /\ clock \in Nat
        /\ lost[session[b].actor.subject] \in Int
    BY <2>1 DEF IInv, SessionsInv, Shapes
  <2> QED  BY <2>1, <2>2, ConstantsFacts DEF IInv, SessionsInv
<1> QED  BY <1>1, Invariance, PTL

-----------------------------------------------------------------------------
(* The records requests make, on top of sign-in. *)

Step == {"unused", "settle", "record", "list", "recall", "forget", "done"}

Told == {"nothing", "ok", "failed", "refused", "forbidden"}

(* A list: finitely many requests, each with its place. *)
Listing == UNION {[S -> Nat] : S \in {T \in SUBSET Request : IsFiniteSet(T)}}

RequestRecord ==
  [kind : Kind, step : Step, actor : Actors, conversation : Conversation \cup {"none"},
   outcome : Outcome, todo : Listing, before : SUBSET Request, removed : SUBSET Request,
   count : Nat, shown : SUBSET Request, told : Told]

RecordShapes ==
  /\ durable \in BOOLEAN
  /\ memory \in Listing /\ IsInjective(memory)
  /\ trail \in Listing /\ IsInjective(trail)
  /\ recorded \in SUBSET Request /\ erased \in SUBSET Request
  /\ request \in [Request -> RequestRecord]

(* What a request at a step is about. *)
StepFits(q) ==
  /\ At(q, "unused") => request[q] = Unused
  /\ request[q].step \in {"settle", "record"} => request[q].kind = "task"
  /\ request[q].step \in {"recall", "forget"} => request[q].kind = "forget"
  /\ At(q, "list") => request[q].kind = "read" /\ "audit:read" \in request[q].actor.scopes
  /\ request[q].told = "ok" => At(q, "done")
  /\ request[q].shown # {} => "audit:read" \in request[q].actor.scopes

(* A task past the step that may keep its note. *)
PastNote(p) == request[p].kind = "task" /\ request[p].step \in {"record", "done"}

NotesInv == \A p \in Held : PastNote(p)

(* The backend keeps every record, the process those it has room for.      *)
TrailInv ==
  /\ IsFiniteSet(recorded) /\ \A q \in recorded : PastNote(q)
  /\ DOMAIN trail \subseteq recorded
  /\ durable \/ Cardinality(recorded) <= RingLimit => recorded \subseteq DOMAIN trail
  /\ durable => erased = {}
  /\ \A q \in Request : request[q].kind = "task" /\ request[q].told = "ok" => q \in recorded \cup erased

(* What is still due, together with what is removed, is all of the notes   *)
(* there were or a whole page of them.                                     *)
WholePage(q) ==
  LET r == request[q] IN
  CanAccess(r.actor.clearance, "INTERNAL") =>
    \/ \A p \in r.before : Matches(q, p) => p \in r.removed \cup DOMAIN r.todo
    \/ Cardinality(r.removed) + Cardinality(DOMAIN r.todo) >= RecallLimit

(* A note that was removed was there before, was the asker's own and never *)
(* comes back.                                                             *)
Forgets(q) ==
  LET r == request[q] IN
  /\ IsFiniteSet(r.removed) /\ r.count = Cardinality(r.removed)
  /\ \A p \in r.before : PastNote(p)
  /\ \A p \in r.removed : p \in r.before /\ Matches(q, p) /\ p \notin Held
  /\ r.step = "recall" => r.removed = {}
  /\ r.step = "forget" =>
       /\ \A p \in DOMAIN r.todo : p \in r.before /\ Matches(q, p) /\ p \notin r.removed
       /\ WholePage(q)
  /\ r.kind = "forget" /\ r.told = "ok" =>
       (r.count < RecallLimit /\ CanAccess(r.actor.clearance, "INTERNAL") =>
          \A p \in r.before : Matches(q, p) => p \in r.removed)

RecordsInv ==
  RecordShapes /\ NotesInv /\ TrailInv /\ \A q \in Request : StepFits(q) /\ Forgets(q)

-----------------------------------------------------------------------------
(* What is cut from a list. *)

(* The elements with fewer than limit others above them are all of them or *)
(* at least limit.                                                         *)
LEMMA CutFacts ==
  ASSUME NEW S, IsFiniteSet(S), NEW above \in [S -> SUBSET S], NEW limit \in Nat,
         \A p \in S : p \notin above[p],
         \A p \in S : \A o \in above[p] : above[o] \subseteq above[p],
         NEW top \in SUBSET S, \A p \in S : p \in top <=> Cardinality(above[p]) < limit
  PROVE  top = S \/ Cardinality(top) >= limit
<1> DEFINE T == {Cardinality(above[p]) : p \in S \ top}
<1>1. \A p \in S : IsFiniteSet(above[p]) /\ Cardinality(above[p]) \in Nat
  BY FS_Subset, FS_CardinalityType
<1>2. IsFiniteSet(top)
  BY FS_Subset
<1> SUFFICES ASSUME top # S PROVE Cardinality(top) >= limit
  OBVIOUS
<1>3. T \subseteq Nat /\ T # {}
  BY <1>1
<1>4. \E x \in T : \A y \in T : ~(<<y, x>> \in OpToRel(<, Nat))
  BY <1>3, NatLessThanWellFounded, WFMin
<1>5. PICK x \in T : \A y \in T : ~(y < x)
  BY <1>3, <1>4 DEF OpToRel
<1>6. PICK p \in S \ top : x = Cardinality(above[p])
  BY <1>5
<1>7. above[p] \subseteq top
  <2> SUFFICES ASSUME NEW o \in above[p], o \notin top PROVE FALSE
    OBVIOUS
  <2>1. o \in S /\ above[o] \subseteq above[p] /\ above[o] # above[p]
    OBVIOUS
  <2>2. Cardinality(above[o]) <= Cardinality(above[p]) /\ Cardinality(above[o]) # Cardinality(above[p])
    BY <1>1, <2>1, FS_Subset
  <2>3. Cardinality(above[o]) < Cardinality(above[p]) /\ Cardinality(above[o]) \in T
    BY <1>1, <2>1, <2>2
  <2> QED  BY <1>5, <1>6, <2>3
<1>8. Cardinality(above[p]) <= Cardinality(top)
  BY <1>2, <1>7, FS_Subset
<1>9. ~(Cardinality(above[p]) < limit)
  OBVIOUS
<1> QED  BY <1>1, <1>2, <1>8, <1>9, FS_CardinalityType

LEMMA MaxFacts ==
  ASSUME NEW S \in SUBSET Nat, IsFiniteSet(S), S # {}
  PROVE  Max(S) \in S /\ \A y \in S : y <= Max(S)
<1> DEFINE Above(x) == {y \in S : y > x}
           T == {Cardinality(Above(x)) : x \in S}
<1>1. \A x \in S : IsFiniteSet(Above(x)) /\ Cardinality(Above(x)) \in Nat
  BY FS_Subset, FS_CardinalityType
<1>2. T \subseteq Nat /\ T # {}
  BY <1>1
<1>3. \E x \in T : \A y \in T : ~(<<y, x>> \in OpToRel(<, Nat))
  BY <1>2, NatLessThanWellFounded, WFMin
<1>4. PICK n \in T : \A y \in T : ~(y < n)
  BY <1>2, <1>3 DEF OpToRel
<1>5. PICK m \in S : n = Cardinality(Above(m))
  BY <1>4
<1>6. ASSUME NEW o \in S, o > m PROVE FALSE
  <2>0. o \in Nat /\ m \in Nat /\ \A y \in S : y \in Nat
    OBVIOUS
  <2>4. \A y \in S : y > o => y > m
    BY <1>6, <2>0
  <2>5. ~(o > o)
    BY <2>0
  <2>1. Above(o) \in SUBSET Above(m) /\ o \in Above(m) /\ o \notin Above(o)
    BY <1>6, <2>4, <2>5, Zenon
  <2>2. Cardinality(Above(o)) \in T
    OBVIOUS
  <2> HIDE DEF Above, T
  <2>3. Cardinality(Above(o)) <= Cardinality(Above(m)) /\ Cardinality(Above(o)) # Cardinality(Above(m))
    BY <1>1, <2>1, FS_Subset
  <2> QED  BY <1>1, <1>4, <1>5, <2>2, <2>3
<1>7. \A y \in S : m >= y
  BY <1>6
<1> QED  BY <1>7 DEF Max

LEMMA ListingFacts ==
  ASSUME NEW list
  PROVE  list \in Listing <=>
           /\ DOMAIN list \in SUBSET Request /\ IsFiniteSet(DOMAIN list)
           /\ list \in [DOMAIN list -> Nat]
BY DEF Listing

LEMMA EmptyFacts == Empty \in Listing /\ IsInjective(Empty) /\ DOMAIN Empty = {}
BY ListingFacts, FS_EmptySet DEF Empty, IsInjective

LEMMA RestrictFacts ==
  ASSUME NEW list \in Listing, NEW S \in SUBSET DOMAIN list
  PROVE  /\ Restrict(list, S) \in Listing /\ DOMAIN Restrict(list, S) = S
         /\ \A p \in S : Restrict(list, S)[p] = list[p]
         /\ IsInjective(list) => IsInjective(Restrict(list, S))
<1>1. IsFiniteSet(S) /\ S \subseteq Request
  BY ListingFacts, FS_Subset
<1>2. DOMAIN Restrict(list, S) = S /\ \A p \in S : Restrict(list, S)[p] = list[p]
  BY DEF Restrict
<1>3. Restrict(list, S) \in [S -> Nat]
  BY ListingFacts DEF Restrict
<1> QED  BY <1>1, <1>2, <1>3, ListingFacts DEF IsInjective

LEMMA AddedFacts ==
  ASSUME NEW list \in Listing, IsInjective(list), NEW q \in Request
  PROVE  /\ Added(list, q) \in Listing /\ IsInjective(Added(list, q))
         /\ DOMAIN Added(list, q) = DOMAIN list \cup {q}
<1> DEFINE P == {0} \cup Range(list)
<1>1. DOMAIN list \in SUBSET Request /\ IsFiniteSet(DOMAIN list) /\ \A p \in DOMAIN list : list[p] \in Nat
  BY ListingFacts
<1>2. list \in Surjection(DOMAIN list, Range(list))
  BY <1>1, ListingFacts DEF Surjection, Range
<1>3. IsFiniteSet(P) /\ P \in SUBSET Nat /\ P # {}
  <2>1. IsFiniteSet(Range(list)) /\ Range(list) \subseteq Nat
    BY <1>1, <1>2, FS_Surjection DEF Range
  <2>2. IsFiniteSet({0})
    BY FS_Singleton
  <2>3. IsFiniteSet({0} \cup Range(list))
    BY <2>1, <2>2, FS_Union
  <2> QED  BY <2>1, <2>3
<1>4. Max(P) \in Nat /\ \A p \in DOMAIN list : list[p] \in P
  BY <1>3, MaxFacts DEF Range
<1>10. \A p \in DOMAIN list : list[p] <= Max(P)
  BY <1>3, <1>4, MaxFacts
<1>11. Max(P) \in Nat /\ \A p \in DOMAIN list : list[p] <= Max(P)
  BY <1>4, <1>10
<1> HIDE DEF P
<1> DEFINE place == 1 + Max(P)
<1>5. place \in Nat /\ \A p \in DOMAIN list : list[p] # place
  BY <1>1, <1>11
<1>6. Added(list, q) = [p \in DOMAIN list \cup {q} |-> IF p = q THEN place ELSE list[p]]
  BY DEF Added, P
<1> HIDE DEF place
<1>7. IsFiniteSet(DOMAIN list \cup {q})
  BY <1>1, FS_AddElement
<1>8. Added(list, q) \in [DOMAIN list \cup {q} -> Nat]
  BY <1>1, <1>5, <1>6
<1>9. IsInjective(Added(list, q))
  BY <1>5, <1>6 DEF IsInjective
<1> QED  BY <1>1, <1>6, <1>7, <1>8, <1>9, ListingFacts

LEMMA NewestFacts ==
  ASSUME NEW list \in Listing, NEW limit \in Nat
  PROVE  LET newest == Newest(list, limit) IN
         /\ newest \in Listing /\ DOMAIN newest \subseteq DOMAIN list
         /\ IsInjective(list) => IsInjective(newest)
         /\ DOMAIN newest = DOMAIN list \/ Cardinality(DOMAIN newest) >= limit
         /\ Cardinality(DOMAIN list) <= limit => DOMAIN newest = DOMAIN list
<1> DEFINE S == DOMAIN list
           above == [p \in S |-> {o \in S : list[o] > list[p]}]
           top == {p \in S : Cardinality(above[p]) < limit}
<1>1. IsFiniteSet(S) /\ \A p \in S : list[p] \in Nat
  BY ListingFacts
<1>2. above \in [S -> SUBSET S]
  OBVIOUS
<1>3. \A p, o \in S : o \in above[p] <=> list[o] > list[p]
  OBVIOUS
<1>4. Newest(list, limit) = Restrict(list, top)
  BY DEF Newest
<1>5. top \in SUBSET S /\ \A p \in S : p \in top <=> Cardinality(above[p]) < limit
  OBVIOUS
<1> HIDE DEF above, S, top
<1>6. \A p \in S : p \notin above[p]
  BY <1>1, <1>3
<1>7. \A p \in S : \A o \in above[p] : above[o] \subseteq above[p]
  BY <1>1, <1>2, <1>3
<1>8. top = S \/ Cardinality(top) >= limit
  BY <1>1, <1>2, <1>5, <1>6, <1>7, CutFacts
<1>9. ASSUME Cardinality(S) <= limit PROVE top = S
  <2> SUFFICES ASSUME NEW p \in S PROVE Cardinality(above[p]) < limit
    BY <1>5
  <2>1. above[p] \in SUBSET S /\ above[p] # S
    BY <1>2, <1>6
  <2>2. /\ Cardinality(above[p]) <= Cardinality(S) /\ Cardinality(above[p]) # Cardinality(S)
        /\ Cardinality(S) \in Nat /\ Cardinality(above[p]) \in Nat
    BY <1>1, <2>1, FS_Subset, FS_CardinalityType
  <2> QED  BY <1>9, <2>2
<1> QED  BY <1>4, <1>5, <1>8, <1>9, RestrictFacts DEF S

-----------------------------------------------------------------------------
(* One request goes on. *)

LEMMA LimitsFacts == RecallLimit \in Nat \ {0} /\ RingLimit \in Nat \ {0}
BY RecordsAssumption

LEMMA UnusedType == Unused \in RequestRecord
BY NoActorType, EmptyFacts DEF Unused, RequestRecord, Kind, Step, Outcome, Told

(* A request keeps its kind, its actor and its conversation once it has    *)
(* any, and a task past its note does not go back before it.               *)
GoesOn(q, r) ==
  /\ request' = [request EXCEPT ![q] = r]
  /\ \/ At(q, "unused")
     \/ /\ r.kind = request[q].kind /\ r.actor = request[q].actor
        /\ r.conversation = request[q].conversation
  /\ PastNote(q) => r.kind = "task" /\ r.step \in {"record", "done"}

(* The only note that may come is its own, when it passes that step.       *)
NotesGoOn(q) ==
  /\ memory' \in Listing /\ IsInjective(memory')
  /\ DOMAIN memory' \subseteq Held \cup {q}
  /\ q \in DOMAIN memory' => q \in Held \/ (~PastNote(q) /\ PastNote(q)')

LEMMA GoesOnFacts ==
  ASSUME RecordsInv, NEW q \in Request, NEW r \in RequestRecord, GoesOn(q, r)
  PROVE  /\ request'[q] = r /\ \A p \in Request \ {q} : request'[p] = request[p]
         /\ request' \in [Request -> RequestRecord]
         /\ \A p \in Request : PastNote(p) => PastNote(p)'
         /\ \A p \in Request : PastNote(p) =>
              /\ request'[p].actor = request[p].actor
              /\ request'[p].conversation = request[p].conversation
<1>1. /\ request'[q] = r /\ \A p \in Request \ {q} : request'[p] = request[p]
      /\ request' \in [Request -> RequestRecord]
  BY DEF GoesOn, RecordsInv, RecordShapes
<1>2. ASSUME NEW p \in Request, PastNote(p)
      PROVE  /\ PastNote(p)' /\ request'[p].actor = request[p].actor
             /\ request'[p].conversation = request[p].conversation
  <2>1. CASE p = q
    BY <1>1, <1>2, <2>1 DEF GoesOn, PastNote, At
  <2>2. CASE p # q
    BY <1>1, <1>2, <2>2 DEF PastNote
  <2> QED  BY <2>1, <2>2
<1> QED  BY <1>1, <1>2

(* Every other request still forgets what it did.                          *)
LEMMA OthersForget ==
  ASSUME RecordsInv, NEW q \in Request, NEW r \in RequestRecord, GoesOn(q, r), NotesGoOn(q),
         NEW o \in Request \ {q}
  PROVE  StepFits(o)' /\ Forgets(o)'
<1>1. request'[o] = request[o]
  BY GoesOnFacts
<1>2. StepFits(o) /\ Forgets(o)
  BY DEF RecordsInv
<1>3. request[o] \in RequestRecord
  BY DEF RecordsInv, RecordShapes
<1>4. ASSUME NEW p \in request[o].before
      PROVE  /\ p \in Request /\ PastNote(p) /\ PastNote(p)' /\ Matches(o, p)' = Matches(o, p)
             /\ p \notin Held => p \notin Held'
  <2>1. p \in Request /\ PastNote(p)
    BY <1>2, <1>3 DEF Forgets, RequestRecord
  <2>2. /\ PastNote(p)' /\ request'[p].actor = request[p].actor
        /\ request'[p].conversation = request[p].conversation
    BY <2>1, GoesOnFacts
  <2>3. Matches(o, p)' = Matches(o, p)
    BY <1>1, <2>2 DEF Matches, Mine
  <2>4. p \notin Held => p \notin Held'
    BY <2>1 DEF NotesGoOn, Held
  <2> QED  BY <2>1, <2>2, <2>3, <2>4
<1>5. StepFits(o)'
  BY <1>1, <1>2 DEF StepFits, At
<1>6. WholePage(o) => WholePage(o)'
  BY <1>1, <1>4 DEF WholePage
<1>7. Forgets(o)'
  BY <1>1, <1>2, <1>4, <1>6 DEF Forgets
<1> QED  BY <1>5, <1>7

LEMMA GoesOnKeeps ==
  ASSUME RecordsInv, NEW q \in Request, NEW r \in RequestRecord, GoesOn(q, r), NotesGoOn(q),
         UNCHANGED durable, trail' \in Listing, IsInjective(trail'),
         recorded' \in SUBSET Request, erased' \in SUBSET Request,
         TrailInv', StepFits(q)', Forgets(q)'
  PROVE  RecordsInv'
<1>1. RecordShapes'
  BY GoesOnFacts DEF RecordsInv, RecordShapes, NotesGoOn
<1>2. NotesInv'
  <2> SUFFICES ASSUME NEW p \in DOMAIN memory' PROVE PastNote(p)'
    BY DEF NotesInv, Held
  <2>1. p \in Request /\ (p \in Held \/ PastNote(p)')
    BY ListingFacts DEF NotesGoOn
  <2>2. p \in Held => PastNote(p)
    BY DEF RecordsInv, NotesInv
  <2> QED  BY <2>1, <2>2, GoesOnFacts
<1>3. \A o \in Request : StepFits(o)' /\ Forgets(o)'
  BY OthersForget
<1> QED  BY <1>1, <1>2, <1>3 DEF RecordsInv

(* The trail stays as it is, and no task is answered.                      *)
LEMMA TrailStays ==
  ASSUME RecordsInv, NEW q \in Request, NEW r \in RequestRecord, GoesOn(q, r),
         UNCHANGED <<durable, trail, recorded, erased>>,
         r.kind = "task" => r.told # "ok"
  PROVE  TrailInv'
<1>1. /\ recorded \in SUBSET Request
      /\ \A p \in recorded : PastNote(p)
  BY DEF RecordsInv, RecordShapes, TrailInv
<1>2. \A p \in recorded : PastNote(p)'
  BY <1>1, GoesOnFacts
<1>3. \A p \in Request : request'[p].kind = "task" /\ request'[p].told = "ok" => p \in recorded \cup erased
  BY GoesOnFacts DEF RecordsInv, TrailInv
<1> QED  BY <1>2, <1>3 DEF RecordsInv, TrailInv

(* The same notes are before, removed and counted; none is due any more.   *)
LEMMA OwnStays ==
  ASSUME RecordsInv, NEW q \in Request, NEW r \in RequestRecord, GoesOn(q, r), NotesGoOn(q),
         r.removed = request[q].removed, r.before = request[q].before, r.count = request[q].count,
         r.step \notin {"recall", "forget"}, r.kind = "forget" => r.told # "ok",
         At(q, "unused") => r.removed = {} /\ r.before = {}
  PROVE  Forgets(q)'
<1>1. request'[q] = r /\ Forgets(q) /\ request[q] \in RequestRecord
  BY GoesOnFacts DEF RecordsInv, RecordShapes
<1>2. ASSUME NEW p \in r.before
      PROVE  PastNote(p)' /\ Matches(q, p)' = Matches(q, p) /\ (p \notin Held => p \notin Held')
  <2>1. p \in Request /\ PastNote(p) /\ ~At(q, "unused")
    BY <1>1 DEF Forgets, RequestRecord
  <2>2. /\ PastNote(p)' /\ request'[p].actor = request[p].actor
        /\ request'[p].conversation = request[p].conversation
    BY <2>1, GoesOnFacts
  <2>3. Matches(q, p)' = Matches(q, p)
    BY <1>1, <2>1, <2>2 DEF Matches, Mine, GoesOn
  <2>4. p \notin Held => p \notin Held'
    BY <2>1 DEF NotesGoOn, Held
  <2> QED  BY <2>2, <2>3, <2>4
<1> QED  BY <1>1, <1>2 DEF Forgets

-----------------------------------------------------------------------------
(* One lemma per action of a request. *)

LEMMA NotesStay == RecordsInv /\ UNCHANGED memory => \A q \in Request : NotesGoOn(q)
BY DEF RecordsInv, RecordShapes, NotesGoOn, Held

(* The actor of an open session.                                           *)
LEMMA OpenActor == ASSUME IInv, NEW b \in Browser PROVE OpenSession(b) \in Actors
<1>1. session[b].actor \in Actors
  BY DEF IInv, Shapes
<1> QED  BY <1>1, NoActorType DEF OpenSession

LEMMA AcceptKeeps ==
  ASSUME RecordsInv, NEW q \in Request, NEW r \in RequestRecord, Accept(q, r),
         r.removed = {}, r.before = {}, r.count = 0, r.shown = {}, r.told # "ok",
         r.step \in {"settle", "record"} => r.kind = "task",
         r.step = "recall" => r.kind = "forget",
         r.step = "list" => r.kind = "read" /\ "audit:read" \in r.actor.scopes,
         r.step \notin {"unused", "forget"}
  PROVE  RecordsInv'
<1>1. /\ At(q, "unused") /\ request' = [request EXCEPT ![q] = r]
      /\ UNCHANGED <<durable, memory, trail, recorded, erased>>
  BY DEF Accept, Change
<1>2. request[q] = Unused
  BY <1>1 DEF RecordsInv, StepFits
<1>3. GoesOn(q, r) /\ NotesGoOn(q)
  BY <1>1, NotesStay DEF GoesOn, PastNote, At
<1>4. request'[q] = r
  BY <1>3, GoesOnFacts
<1>5. StepFits(q)'
  BY <1>4 DEF StepFits, At
<1>6. Forgets(q)'
  BY <1>4, FS_EmptySet DEF Forgets
<1>7. TrailInv'
  BY <1>1, <1>3, TrailStays
<1> QED  BY <1>1, <1>3, <1>5, <1>6, <1>7, GoesOnKeeps DEF RecordsInv, RecordShapes

LEMMA StartTaskKeeps ==
  ASSUME IInv, RecordsInv, NEW q \in Request, NEW b \in Browser, NEW c \in Conversation,
         NEW outcome \in Outcome, StartTask(q, b, c, outcome)
  PROVE  RecordsInv'
<1> DEFINE r == [Unused EXCEPT !.actor = OpenSession(b), !.conversation = c, !.outcome = outcome]
           s == IF durable /\ ~Trusts(r.actor) THEN [r EXCEPT !.step = "done", !.told = "failed"]
                ELSE IF outcome \in {"parked", "parkedMidRun"} THEN [r EXCEPT !.step = "record"]
                ELSE [r EXCEPT !.step = "settle"]
<1>1. Accept(q, s)
  BY DEF StartTask
<1>2. r \in RequestRecord /\ r.kind = "task" /\ r.removed = {} /\ r.before = {} /\ r.count = 0
      /\ r.shown = {} /\ r.told = "nothing"
  BY OpenActor, UnusedType DEF RequestRecord, Unused
<1> HIDE DEF r
<1>3. s \in RequestRecord /\ s.kind = "task" /\ s.removed = {} /\ s.before = {} /\ s.count = 0
      /\ s.shown = {} /\ s.told # "ok" /\ s.step \in {"done", "record", "settle"}
  BY <1>2 DEF RequestRecord, Step, Told
<1> HIDE DEF s
<1> QED  BY <1>1, <1>3, AcceptKeeps

LEMMA StartReadKeeps ==
  ASSUME IInv, RecordsInv, NEW q \in Request, NEW b \in Browser, StartRead(q, b)
  PROVE  RecordsInv'
<1> DEFINE r == [Unused EXCEPT !.kind = "read", !.actor = OpenSession(b)]
           s == IF "audit:read" \in OpenSession(b).scopes THEN [r EXCEPT !.step = "list"]
                ELSE [r EXCEPT !.step = "done", !.told = "forbidden"]
<1>1. Accept(q, s)
  BY DEF StartRead
<1>2. r \in RequestRecord /\ r.kind = "read" /\ r.removed = {} /\ r.before = {} /\ r.count = 0
      /\ r.shown = {} /\ r.told = "nothing" /\ r.actor = OpenSession(b)
  BY OpenActor, UnusedType DEF RequestRecord, Unused, Kind
<1> HIDE DEF r
<1>3. s \in RequestRecord /\ s.kind = "read" /\ s.removed = {} /\ s.before = {} /\ s.count = 0
      /\ s.shown = {} /\ s.told # "ok" /\ s.step \in {"done", "list"}
      /\ (s.step = "list" => "audit:read" \in s.actor.scopes)
  BY <1>2 DEF RequestRecord, Step, Told
<1> HIDE DEF s
<1> QED  BY <1>1, <1>3, AcceptKeeps

LEMMA StartForgetKeeps ==
  ASSUME IInv, RecordsInv, NEW q \in Request, NEW b \in Browser, NEW c \in Conversation,
         StartForget(q, b, c)
  PROVE  RecordsInv'
<1> DEFINE r == [Unused EXCEPT !.kind = "forget", !.actor = OpenSession(b), !.conversation = c,
                               !.step = "recall"]
<1>1. Accept(q, r)
  BY DEF StartForget
<1>2. r \in RequestRecord /\ r.kind = "forget" /\ r.removed = {} /\ r.before = {} /\ r.count = 0
      /\ r.shown = {} /\ r.told = "nothing" /\ r.step = "recall"
  BY OpenActor, UnusedType DEF RequestRecord, Unused, Kind, Step
<1> HIDE DEF r
<1> QED  BY <1>1, <1>2, AcceptKeeps

LEMMA RememberKeeps ==
  ASSUME RecordsInv, NEW q \in Request, NEW kept \in BOOLEAN, Remember(q, kept)
  PROVE  RecordsInv'
<1> DEFINE r == [request[q] EXCEPT !.step = "record"]
<1>1. /\ At(q, "settle") /\ request' = [request EXCEPT ![q] = r]
      /\ memory' = IF kept THEN Added(memory, q) ELSE memory
      /\ UNCHANGED <<durable, trail, recorded, erased>>
  BY DEF Remember, Change
<1>2. request[q] \in RequestRecord /\ StepFits(q) /\ request[q].kind = "task" /\ request[q].told # "ok"
  BY <1>1 DEF RecordsInv, RecordShapes, StepFits, At
<1>3. /\ r \in RequestRecord /\ r.step = "record" /\ r.kind = "task" /\ r.told # "ok"
      /\ r.actor = request[q].actor /\ r.conversation = request[q].conversation
      /\ r.removed = request[q].removed /\ r.before = request[q].before
      /\ r.count = request[q].count /\ r.shown = request[q].shown
  BY <1>2 DEF RequestRecord, Step
<1> HIDE DEF r
<1>4. GoesOn(q, r) /\ request'[q] = r
  BY <1>1, <1>2, <1>3, GoesOnFacts DEF GoesOn
<1>5. ~PastNote(q) /\ PastNote(q)'
  BY <1>1, <1>3, <1>4 DEF PastNote, At
<1>6. NotesGoOn(q)
  BY <1>1, <1>5, AddedFacts DEF NotesGoOn, Held, RecordsInv, RecordShapes
<1>7. StepFits(q)'
  BY <1>2, <1>3, <1>4 DEF StepFits, At
<1>8. Forgets(q)'
  BY <1>1, <1>3, <1>4, <1>6, OwnStays DEF At
<1>9. TrailInv'
  BY <1>1, <1>3, <1>4, TrailStays
<1> QED  BY <1>1, <1>3, <1>4, <1>6, <1>7, <1>8, <1>9, GoesOnKeeps DEF RecordsInv, RecordShapes

(* The request is answered as anything but a success.                      *)
LEMMA FailedKeeps ==
  ASSUME RecordsInv, NEW q \in Request, NEW told \in Told \ {"ok"}, Answer(q, request[q], told),
         ~At(q, "unused"), NotesGoOn(q), UNCHANGED <<durable, trail, recorded, erased>>
  PROVE  RecordsInv'
<1> DEFINE r == [request[q] EXCEPT !.step = "done", !.told = told]
<1>1. request' = [request EXCEPT ![q] = r]
  BY DEF Answer, Change
<1>2. request[q] \in RequestRecord /\ StepFits(q)
  BY DEF RecordsInv, RecordShapes
<1>3. /\ r \in RequestRecord /\ r.step = "done" /\ r.told = told /\ r.kind = request[q].kind
      /\ r.actor = request[q].actor /\ r.conversation = request[q].conversation
      /\ r.removed = request[q].removed /\ r.before = request[q].before
      /\ r.count = request[q].count /\ r.shown = request[q].shown
  BY <1>2 DEF RequestRecord, Step
<1> HIDE DEF r
<1>4. GoesOn(q, r) /\ request'[q] = r
  BY <1>1, <1>2, <1>3, GoesOnFacts DEF GoesOn, PastNote
<1>5. StepFits(q)'
  BY <1>2, <1>3, <1>4 DEF StepFits, At
<1>6. Forgets(q)'
  BY <1>3, <1>4, OwnStays
<1>7. TrailInv'
  BY <1>3, <1>4, TrailStays
<1> QED  BY <1>3, <1>4, <1>5, <1>6, <1>7, GoesOnKeeps DEF RecordsInv, RecordShapes

LEMMA KeptFacts ==
  ASSUME RecordsInv, NEW q \in Request
  PROVE  /\ Kept(q) \in Listing /\ IsInjective(Kept(q))
         /\ DOMAIN Kept(q) \subseteq DOMAIN trail \cup {q}
         /\ durable \/ Cardinality(DOMAIN trail \cup {q}) <= RingLimit =>
              DOMAIN Kept(q) = DOMAIN trail \cup {q}
<1> DEFINE added == Added(trail, q)
<1>1. added \in Listing /\ IsInjective(added) /\ DOMAIN added = DOMAIN trail \cup {q}
  BY AddedFacts DEF RecordsInv, RecordShapes
<1> HIDE DEF added
<1> DEFINE newest == Newest(added, RingLimit)
<1>2. /\ newest \in Listing /\ DOMAIN newest \subseteq DOMAIN added /\ IsInjective(newest)
      /\ Cardinality(DOMAIN added) <= RingLimit => DOMAIN newest = DOMAIN added
  BY <1>1, NewestFacts, LimitsFacts
<1>3. Kept(q) = IF durable THEN added ELSE newest
  BY DEF Kept, added
<1> HIDE DEF newest
<1> QED  BY <1>1, <1>2, <1>3

LEMMA RecordKeeps ==
  ASSUME RecordsInv, NEW q \in Request, NEW stored \in BOOLEAN, Record(q, stored)
  PROVE  RecordsInv'
<1>1. /\ At(q, "record") /\ UNCHANGED <<durable, memory, erased>>
      /\ trail' = IF stored THEN Kept(q) ELSE trail
      /\ recorded' = IF stored THEN recorded \cup {q} ELSE recorded
  BY DEF Record
<1>2. PICK told \in {"ok", "refused", "failed"} : /\ Answer(q, request[q], told)
                                                  /\ told = "ok" => stored
  BY DEF Record
<1> DEFINE r == [request[q] EXCEPT !.step = "done", !.told = told]
<1>3. request' = [request EXCEPT ![q] = r]
  BY <1>2 DEF Answer, Change
<1>4. request[q] \in RequestRecord /\ StepFits(q) /\ request[q].kind = "task"
  BY <1>1 DEF RecordsInv, RecordShapes, StepFits, At
<1>5. /\ r \in RequestRecord /\ r.step = "done" /\ r.told = told /\ r.kind = "task"
      /\ r.actor = request[q].actor /\ r.conversation = request[q].conversation
      /\ r.removed = request[q].removed /\ r.before = request[q].before
      /\ r.count = request[q].count /\ r.shown = request[q].shown
  BY <1>4 DEF RequestRecord, Step, Told
<1> HIDE DEF r
<1>6. GoesOn(q, r) /\ NotesGoOn(q) /\ request'[q] = r
  BY <1>1, <1>3, <1>4, <1>5, NotesStay, GoesOnFacts DEF GoesOn
<1>7. StepFits(q)'
  BY <1>4, <1>5, <1>6 DEF StepFits, At
<1>8. Forgets(q)'
  BY <1>1, <1>5, <1>6, OwnStays DEF At
<1>9. recorded \in SUBSET Request /\ \A p \in recorded' : p \in Request /\ PastNote(p)'
  <2>1. recorded \in SUBSET Request /\ \A p \in recorded : PastNote(p)
    BY DEF RecordsInv, RecordShapes, TrailInv
  <2> QED  BY <1>1, <1>5, <1>6, <2>1, GoesOnFacts DEF PastNote
<1>10. TrailInv'
  <2>1. \A p \in Request : request'[p].kind = "task" /\ request'[p].told = "ok" =>
          p \in recorded' \cup erased'
    <3> SUFFICES ASSUME NEW p \in Request, request'[p].kind = "task", request'[p].told = "ok"
                 PROVE  p \in recorded' \cup erased'
      OBVIOUS
    <3>1. CASE p = q
      BY <1>1, <1>2, <1>5, <1>6, <3>1
    <3>2. CASE p # q
      <4>1. request'[p] = request[p]
        BY <1>5, <1>6, <3>2, GoesOnFacts
      <4>2. p \in recorded \cup erased
        BY <4>1 DEF RecordsInv, TrailInv
      <4> QED  BY <1>1, <4>2
    <3> QED  BY <3>1, <3>2
  <2>2. CASE ~stored
    BY <1>1, <1>9, <2>1, <2>2 DEF RecordsInv, TrailInv
  <2>3. CASE stored
    <3>1. /\ IsFiniteSet(recorded \cup {q}) /\ Cardinality(recorded) <= Cardinality(recorded \cup {q})
          /\ Cardinality(recorded) \in Nat /\ Cardinality(recorded \cup {q}) \in Nat
      <4>1. IsFiniteSet(recorded)
        BY DEF RecordsInv, TrailInv
      <4>2. /\ IsFiniteSet(recorded \cup {q}) /\ Cardinality(recorded) \in Nat
            /\ Cardinality(recorded \cup {q}) \in Nat
        BY <4>1, FS_AddElement, FS_CardinalityType
      <4> QED  BY <4>2, FS_Subset
    <3>2. DOMAIN trail \subseteq recorded
          /\ (durable \/ Cardinality(recorded) <= RingLimit => recorded = DOMAIN trail)
      BY DEF RecordsInv, TrailInv
    <3>3. DOMAIN Kept(q) \subseteq recorded \cup {q}
      BY <3>2, KeptFacts
    <3>4. durable \/ Cardinality(recorded \cup {q}) <= RingLimit => DOMAIN Kept(q) = recorded \cup {q}
      <4>1. ASSUME durable \/ Cardinality(recorded \cup {q}) <= RingLimit
            PROVE  recorded = DOMAIN trail
        BY <3>1, <3>2, <4>1, LimitsFacts
      <4> QED  BY <4>1, KeptFacts
    <3> QED  BY <1>1, <1>9, <2>1, <2>3, <3>1, <3>3, <3>4 DEF RecordsInv, TrailInv
  <2> QED  BY <2>2, <2>3
<1>11. /\ trail' \in Listing /\ IsInjective(trail')
       /\ recorded' \in SUBSET Request /\ erased' \in SUBSET Request
  BY <1>1, <1>9, KeptFacts DEF RecordsInv, RecordShapes
<1> QED  BY <1>1, <1>5, <1>6, <1>7, <1>8, <1>10, <1>11, GoesOnKeeps

LEMMA ReadTrailKeeps ==
  ASSUME RecordsInv, NEW q \in Request, NEW answered \in BOOLEAN, ReadTrail(q, answered)
  PROVE  RecordsInv'
<1>1. At(q, "list") /\ UNCHANGED <<durable, memory, trail, recorded, erased>>
  BY DEF ReadTrail
<1>2. request[q] \in RequestRecord /\ StepFits(q) /\ NotesGoOn(q) /\ ~At(q, "unused")
  BY <1>1, NotesStay DEF RecordsInv, RecordShapes, At
<1>3. CASE ~answered
  <2>1. Answer(q, request[q], "failed")
    BY <1>3 DEF ReadTrail
  <2> QED  BY <1>1, <1>2, <2>1, FailedKeeps DEF Told
<1>4. CASE answered
  <2> DEFINE shown == Listed(q)
             r == [request[q] EXCEPT !.shown = shown, !.step = "done", !.told = "ok"]
  <2>1. request' = [request EXCEPT ![q] = r]
    BY <1>4 DEF ReadTrail, Answer, Change
  <2>2. shown \in SUBSET Request
    <3> DEFINE S == {p \in DOMAIN trail : Mine(q, p) \/ (durable /\ Holds(request[q].actor, "audit:read"))}
    <3>1. Restrict(trail, S) \in Listing
      BY RestrictFacts DEF RecordsInv, RecordShapes
    <3>2. Newest(Restrict(trail, S), RecallLimit) \in Listing
      BY <3>1, NewestFacts, LimitsFacts
    <3> QED  BY <3>2, ListingFacts DEF Listed
  <2> HIDE DEF shown
  <2>3. /\ r \in RequestRecord /\ r.step = "done" /\ r.kind = "read"
        /\ r.actor = request[q].actor /\ r.conversation = request[q].conversation
        /\ r.removed = request[q].removed /\ r.before = request[q].before
        /\ r.count = request[q].count /\ "audit:read" \in r.actor.scopes
    BY <1>1, <1>2, <2>2 DEF RequestRecord, Step, Told, StepFits
  <2> HIDE DEF r
  <2>4. GoesOn(q, r) /\ request'[q] = r
    <3>1. ~PastNote(q) /\ request[q].kind = "read"
      BY <1>1, <1>2 DEF PastNote, StepFits, At
    <3>2. GoesOn(q, r)
      BY <2>1, <2>3, <3>1 DEF GoesOn
    <3> QED  BY <2>3, <3>2, GoesOnFacts
  <2>5. StepFits(q)'
    BY <2>3, <2>4 DEF StepFits, At
  <2>6. Forgets(q)'
    BY <1>2, <2>3, <2>4, OwnStays
  <2>7. TrailInv'
    BY <1>1, <2>3, <2>4, TrailStays
  <2> QED  BY <1>1, <1>2, <2>3, <2>4, <2>5, <2>6, <2>7, GoesOnKeeps DEF RecordsInv, RecordShapes
<1> QED  BY <1>3, <1>4

(* The process removes what matches at once.                               *)
LEMMA ForgetAtOnceKeeps ==
  ASSUME RecordsInv, NEW q \in Request, ForgetAtOnce(q)
  PROVE  RecordsInv'
<1> DEFINE gone == {p \in Held : Matches(q, p)}
           r == [request[q] EXCEPT !.before = Held, !.removed = gone, !.count = Cardinality(gone),
                                   !.step = "done", !.told = "ok"]
<1>1. /\ At(q, "recall") /\ memory' = Without(memory, gone) /\ request' = [request EXCEPT ![q] = r]
      /\ UNCHANGED <<durable, trail, recorded, erased>>
  BY DEF ForgetAtOnce, Answer, Change
<1>2. request[q] \in RequestRecord /\ StepFits(q) /\ request[q].kind = "forget"
  BY <1>1 DEF RecordsInv, RecordShapes, StepFits, At
<1>3. memory \in Listing /\ IsInjective(memory) /\ Held \in SUBSET Request /\ IsFiniteSet(Held)
      /\ \A p \in Held : PastNote(p)
  BY ListingFacts DEF RecordsInv, RecordShapes, NotesInv, Held
<1>4. IsFiniteSet(gone) /\ Cardinality(gone) \in Nat /\ gone \in SUBSET Held
  BY <1>3, FS_Subset, FS_CardinalityType
<1>5. /\ memory' \in Listing /\ IsInjective(memory') /\ Held' = Held \ gone
  BY <1>1, <1>3, RestrictFacts DEF Without, Held
<1>6. \A p \in gone : Matches(q, p)
  OBVIOUS
<1>7. \A p \in Held : Matches(q, p) => p \in gone
  OBVIOUS
<1> HIDE DEF gone
<1>8. /\ r \in RequestRecord /\ r.step = "done" /\ r.told = "ok" /\ r.kind = "forget"
      /\ r.actor = request[q].actor /\ r.conversation = request[q].conversation
      /\ r.removed = gone /\ r.before = Held /\ r.count = Cardinality(gone)
      /\ r.shown = request[q].shown
  BY <1>2, <1>3, <1>4 DEF RequestRecord, Step, Told
<1> HIDE DEF r
<1>9. ~PastNote(q)
  BY <1>2 DEF PastNote
<1>10. GoesOn(q, r) /\ NotesGoOn(q)
  BY <1>1, <1>2, <1>5, <1>8, <1>9 DEF GoesOn, NotesGoOn, Held
<1>11. request'[q] = r
  BY <1>8, <1>10, GoesOnFacts
<1>12. StepFits(q)'
  BY <1>2, <1>8, <1>11 DEF StepFits, At
<1>13. \A p \in Held : PastNote(p)' /\ Matches(q, p)' = Matches(q, p)
  BY <1>3, <1>8, <1>10, <1>11, GoesOnFacts DEF Matches, Mine
<1>14. Forgets(q)'
  BY <1>4, <1>5, <1>6, <1>7, <1>8, <1>11, <1>13 DEF Forgets
<1>15. TrailInv'
  BY <1>1, <1>8, <1>10, TrailStays
<1> QED  BY <1>1, <1>8, <1>10, <1>12, <1>14, <1>15, GoesOnKeeps DEF RecordsInv, RecordShapes

(* What is recalled are notes of the asker, all there are or a page.       *)
LEMMA RecalledFacts ==
  ASSUME RecordsInv, NEW q \in Request
  PROVE  /\ Recalled(q) \in Listing
         /\ \A p \in DOMAIN Recalled(q) : p \in Held /\ Matches(q, p)
         /\ CanAccess(request[q].actor.clearance, "INTERNAL") =>
              \/ \A p \in Held : Matches(q, p) => p \in DOMAIN Recalled(q)
              \/ Cardinality(DOMAIN Recalled(q)) >= RecallLimit
<1> DEFINE may == CanAccess(request[q].actor.clearance, "INTERNAL")
           S == {p \in Held : may /\ Matches(q, p)}
           list == Restrict(memory, S)
<1>1. S \in SUBSET Held /\ (may => \A p \in Held : Matches(q, p) => p \in S)
      /\ \A p \in S : Matches(q, p)
  OBVIOUS
<1> HIDE DEF S
<1>2. list \in Listing /\ DOMAIN list = S
  BY <1>1, RestrictFacts DEF RecordsInv, RecordShapes, Held
<1>3. Recalled(q) = Newest(list, RecallLimit)
  BY DEF Recalled, S
<1> HIDE DEF list, may
<1>4. /\ Recalled(q) \in Listing /\ DOMAIN Recalled(q) \subseteq S
      /\ DOMAIN Recalled(q) = S \/ Cardinality(DOMAIN Recalled(q)) >= RecallLimit
  BY <1>2, <1>3, NewestFacts, LimitsFacts
<1> QED  BY <1>1, <1>4 DEF may

LEMMA RecallKeeps ==
  ASSUME RecordsInv, NEW q \in Request, Recall(q)
  PROVE  RecordsInv'
<1> DEFINE todo == Recalled(q)
           r == [request[q] EXCEPT !.step = "forget", !.before = Held, !.todo = todo]
<1>1. /\ At(q, "recall") /\ request' = [request EXCEPT ![q] = r]
      /\ UNCHANGED <<durable, memory, trail, recorded, erased>>
  BY DEF Recall, Change
<1>2. /\ request[q] \in RequestRecord /\ StepFits(q) /\ request[q].kind = "forget"
      /\ request[q].removed = {} /\ request[q].count = 0 /\ request[q].told # "ok"
  BY <1>1, FS_EmptySet DEF RecordsInv, RecordShapes, StepFits, Forgets, At
<1>3. Held \in SUBSET Request /\ \A p \in Held : PastNote(p)
  BY ListingFacts DEF RecordsInv, RecordShapes, NotesInv, Held
<1>4. /\ todo \in Listing /\ \A p \in DOMAIN todo : p \in Held /\ Matches(q, p)
      /\ CanAccess(request[q].actor.clearance, "INTERNAL") =>
           \/ \A p \in Held : Matches(q, p) => p \in DOMAIN todo
           \/ Cardinality(DOMAIN todo) >= RecallLimit
  BY RecalledFacts
<1> HIDE DEF todo
<1>5. /\ r \in RequestRecord /\ r.step = "forget" /\ r.kind = "forget" /\ r.told # "ok"
      /\ r.actor = request[q].actor /\ r.conversation = request[q].conversation
      /\ r.removed = {} /\ r.before = Held /\ r.count = 0 /\ r.todo = todo
      /\ r.shown = request[q].shown
  BY <1>2, <1>3, <1>4 DEF RequestRecord, Step
<1> HIDE DEF r
<1>6. ~PastNote(q)
  BY <1>2 DEF PastNote
<1>7. GoesOn(q, r) /\ NotesGoOn(q)
  BY <1>1, <1>2, <1>5, <1>6, NotesStay DEF GoesOn
<1>8. request'[q] = r
  BY <1>5, <1>7, GoesOnFacts
<1>9. StepFits(q)'
  BY <1>2, <1>5, <1>8 DEF StepFits, At
<1>10. \A p \in Held : PastNote(p)' /\ Matches(q, p)' = Matches(q, p)
  BY <1>3, <1>5, <1>7, <1>8, GoesOnFacts DEF Matches, Mine
<1>11. Cardinality(DOMAIN todo) \in Nat
  BY <1>4, ListingFacts, FS_CardinalityType
<1>12. WholePage(q)'
  BY <1>4, <1>5, <1>8, <1>10, <1>11, FS_EmptySet DEF WholePage
<1>13. Forgets(q)'
  BY <1>4, <1>5, <1>8, <1>10, <1>12, FS_EmptySet DEF Forgets
<1>14. TrailInv'
  BY <1>1, <1>5, <1>7, TrailStays
<1> QED  BY <1>1, <1>5, <1>7, <1>9, <1>13, <1>14, GoesOnKeeps DEF RecordsInv, RecordShapes

LEMMA DueFacts ==
  ASSUME RecordsInv, NEW q \in Request, NEW p \in Due(q)
  PROVE  /\ p \in DOMAIN request[q].todo /\ p \in Request
         /\ Without(memory, {p}) \in Listing /\ IsInjective(Without(memory, {p}))
         /\ DOMAIN Without(memory, {p}) = Held \ {p}
<1>1. p \in DOMAIN request[q].todo /\ request[q].todo \in Listing
  BY DEF Due, RecordsInv, RecordShapes, RequestRecord
<1>2. p \in Request
  BY <1>1, ListingFacts
<1> QED  BY <1>1, <1>2, RestrictFacts DEF Without, RecordsInv, RecordShapes, Held

(* A note that is still kept leaves the list and what is due, and counts.  *)
LEMMA ForgetKeeps ==
  ASSUME RecordsInv, NEW q \in Request, Forget(q)
  PROVE  RecordsInv'
<1>1. PICK p \in Due(q) :
        /\ memory' = Without(memory, {p})
        /\ IF p \in Held
           THEN Change(q, [request[q] EXCEPT !.todo = Without(@, {p}), !.count = @ + 1,
                                             !.removed = @ \cup {p}])
           ELSE Answer(q, request[q], "failed")
  BY DEF Forget
<1>2. At(q, "forget") /\ UNCHANGED <<durable, trail, recorded, erased>>
  BY DEF Forget
<1>3. /\ request[q] \in RequestRecord /\ StepFits(q) /\ request[q].kind = "forget" /\ ~At(q, "unused")
      /\ request[q].told # "ok" /\ Forgets(q) /\ ~PastNote(q)
  BY <1>2 DEF RecordsInv, RecordShapes, StepFits, PastNote, At
<1>4. /\ p \in DOMAIN request[q].todo /\ memory' \in Listing /\ IsInjective(memory')
      /\ Held' = Held \ {p}
  BY <1>1, DueFacts DEF Held
<1>5. NotesGoOn(q)
  BY <1>4 DEF NotesGoOn, Held
<1>6. CASE p \notin Held
  <2>1. Answer(q, request[q], "failed")
    BY <1>1, <1>6
  <2> QED  BY <1>2, <1>3, <1>5, <2>1, FailedKeeps DEF Told
<1>7. CASE p \in Held
  <2> DEFINE left == Without(request[q].todo, {p})
             gone == request[q].removed \cup {p}
             r == [request[q] EXCEPT !.todo = left, !.count = @ + 1, !.removed = gone]
  <2>1. request' = [request EXCEPT ![q] = r]
    BY <1>1, <1>7 DEF Change
  <2>2. left \in Listing /\ DOMAIN left = DOMAIN request[q].todo \ {p}
    BY <1>3, RestrictFacts DEF Without, RequestRecord
  <2>3. /\ p \in request[q].before /\ Matches(q, p) /\ p \notin request[q].removed
        /\ IsFiniteSet(request[q].removed) /\ request[q].count = Cardinality(request[q].removed)
    BY <1>2, <1>3, <1>4 DEF Forgets, At
  <2>4. /\ IsFiniteSet(gone) /\ Cardinality(gone) = request[q].count + 1
        /\ gone \subseteq request[q].before /\ \A o \in gone : Matches(q, o) /\ o \notin Held'
    <3>1. \A o \in request[q].removed : o \in request[q].before /\ Matches(q, o) /\ o \notin Held
      BY <1>3 DEF Forgets
    <3>2. IsFiniteSet(gone) /\ Cardinality(gone) = request[q].count + 1
      BY <2>3, FS_AddElement
    <3> QED  BY <1>4, <2>3, <3>1, <3>2
  <2>5. /\ IsFiniteSet(DOMAIN request[q].todo) /\ Cardinality(DOMAIN request[q].todo) \in Nat
        /\ Cardinality(DOMAIN left) = Cardinality(DOMAIN request[q].todo) - 1
    <3>1. IsFiniteSet(DOMAIN request[q].todo)
      BY <1>3, ListingFacts DEF RequestRecord
    <3> QED  BY <1>4, <2>2, <3>1, FS_RemoveElement, FS_CardinalityType
  <2> HIDE DEF left, gone
  <2>6. /\ r \in RequestRecord /\ r.step = "forget" /\ r.kind = "forget" /\ r.told # "ok"
        /\ r.actor = request[q].actor /\ r.conversation = request[q].conversation
        /\ r.removed = gone /\ r.before = request[q].before /\ r.count = Cardinality(gone)
        /\ r.todo = left /\ r.shown = request[q].shown
    <3>1. gone \in SUBSET Request /\ request[q].count \in Nat
      <4>1. request[q].before \in SUBSET Request /\ request[q].removed \in SUBSET Request /\ request[q].count \in Nat
        BY <1>3 DEF RequestRecord
      <4> QED  BY <2>3, <4>1 DEF gone
    <3>2. /\ gone \in SUBSET Request /\ left \in Listing /\ request[q] \in RequestRecord
          /\ request[q].count + 1 = Cardinality(gone) /\ request[q].count + 1 \in Nat
          /\ request[q].step = "forget" /\ request[q].kind = "forget" /\ request[q].told # "ok"
      BY <1>2, <1>3, <2>2, <2>4, <3>1 DEF At
    <3> QED  BY ONLY <3>2 DEF RequestRecord, r
  <2> HIDE DEF r
  <2>7. GoesOn(q, r)
    BY <1>3, <2>1, <2>6 DEF GoesOn
  <2>8. request'[q] = r
    BY <2>6, <2>7, GoesOnFacts
  <2>9. StepFits(q)'
    BY <1>3, <2>6, <2>8 DEF StepFits, At
  <2>10. \A o \in r.before : PastNote(o)' /\ Matches(q, o)' = Matches(q, o)
    <3>1. \A o \in r.before : o \in Request /\ PastNote(o)
      BY <1>3, <2>6 DEF Forgets, RequestRecord
    <3> QED  BY <2>6, <2>7, <2>8, <3>1, GoesOnFacts DEF Matches, Mine
  <2>11. \A o \in DOMAIN left : o \in r.before /\ Matches(q, o) /\ o \notin gone
    BY <1>2, <1>3, <2>2, <2>6 DEF Forgets, At, gone
  <2>12. WholePage(q)'
    <3>1. WholePage(q)
      BY <1>2, <1>3 DEF Forgets, At
    <3>2. gone \cup DOMAIN left = request[q].removed \cup DOMAIN request[q].todo
      BY <1>4, <2>2 DEF gone
    <3>3. /\ request[q].count \in Nat /\ Cardinality(gone) + Cardinality(DOMAIN left)
            = Cardinality(request[q].removed) + Cardinality(DOMAIN request[q].todo)
      BY <1>3, <2>3, <2>4, <2>5 DEF RequestRecord
    <3> QED  BY <2>6, <2>8, <2>10, <3>1, <3>2, <3>3 DEF WholePage
  <2>13. Forgets(q)'
    BY <2>4, <2>6, <2>8, <2>10, <2>11, <2>12 DEF Forgets
  <2>14. TrailInv'
    BY <1>2, <2>6, <2>7, TrailStays
  <2> QED  BY <1>2, <1>5, <2>6, <2>7, <2>9, <2>13, <2>14, GoesOnKeeps DEF RecordsInv, RecordShapes
<1> QED  BY <1>6, <1>7

(* Nothing is due any more, so what was removed is all, or a whole page.   *)
LEMMA ForgottenKeeps ==
  ASSUME RecordsInv, NEW q \in Request, Forgotten(q)
  PROVE  RecordsInv'
<1> DEFINE r == [request[q] EXCEPT !.step = "done", !.told = "ok"]
<1>1. /\ At(q, "forget") /\ DOMAIN request[q].todo = {} /\ request' = [request EXCEPT ![q] = r]
      /\ UNCHANGED <<durable, memory, trail, recorded, erased>>
  BY DEF Forgotten, Answer, Change
<1>2. /\ request[q] \in RequestRecord /\ StepFits(q) /\ request[q].kind = "forget" /\ ~At(q, "unused")
      /\ Forgets(q) /\ ~PastNote(q) /\ WholePage(q)
  BY <1>1 DEF RecordsInv, RecordShapes, StepFits, PastNote, Forgets, At
<1>3. /\ r \in RequestRecord /\ r.step = "done" /\ r.kind = "forget"
      /\ r.actor = request[q].actor /\ r.conversation = request[q].conversation
      /\ r.removed = request[q].removed /\ r.before = request[q].before
      /\ r.count = request[q].count /\ r.shown = request[q].shown
  BY <1>2 DEF RequestRecord, Step, Told
<1> HIDE DEF r
<1>4. GoesOn(q, r) /\ NotesGoOn(q)
  BY <1>1, <1>2, <1>3, NotesStay DEF GoesOn
<1>5. request'[q] = r
  BY <1>3, <1>4, GoesOnFacts
<1>6. StepFits(q)'
  BY <1>2, <1>3, <1>5 DEF StepFits, At
<1>7. \A p \in r.before : PastNote(p)' /\ Matches(q, p)' = Matches(q, p)
  <2>1. \A p \in r.before : p \in Request /\ PastNote(p)
    BY <1>2, <1>3 DEF Forgets, RequestRecord
  <2> QED  BY <1>3, <1>4, <1>5, <2>1, GoesOnFacts DEF Matches, Mine
<1>8. r.count < RecallLimit /\ CanAccess(r.actor.clearance, "INTERNAL") =>
        \A p \in r.before : Matches(q, p) => p \in r.removed
  <2>1. Cardinality(request[q].removed) = r.count /\ r.count \in Nat
    BY <1>2, <1>3 DEF Forgets, RequestRecord
  <2> QED  BY <1>1, <1>2, <1>3, <2>1, FS_EmptySet, LimitsFacts DEF WholePage
<1>9. Forgets(q)'
  BY <1>1, <1>2, <1>3, <1>5, <1>7, <1>8 DEF Forgets, Held
<1>10. TrailInv'
  BY <1>1, <1>3, <1>4, TrailStays
<1> QED  BY <1>1, <1>3, <1>4, <1>6, <1>9, <1>10, GoesOnKeeps DEF RecordsInv, RecordShapes

LEMMA UnreachableKeeps ==
  ASSUME RecordsInv, NEW q \in Request, Unreachable(q)
  PROVE  RecordsInv'
<1>1. Answer(q, request[q], "failed") /\ ~At(q, "unused") /\ UNCHANGED <<durable, trail, recorded, erased>>
  BY DEF Unreachable, At
<1>2. NotesGoOn(q)
  <2>1. CASE UNCHANGED memory
    BY <2>1, NotesStay
  <2>2. ASSUME NEW p \in Due(q), memory' = Without(memory, {p}) PROVE NotesGoOn(q)
    BY <2>2, DueFacts DEF NotesGoOn, Held
  <2> QED  BY <2>1, <2>2 DEF Unreachable
<1> QED  BY <1>1, <1>2, FailedKeeps DEF Told

-----------------------------------------------------------------------------
(* A restart, the start, and everything together. *)

LEMMA RestartKeeps == ASSUME RecordsInv, Restart PROVE RecordsInv'
<1>1. /\ durable' = durable
      /\ memory' = IF durable THEN memory ELSE Empty
      /\ trail' = IF durable THEN trail ELSE Empty
      /\ recorded' = IF durable THEN recorded ELSE {}
      /\ erased' = IF durable THEN erased ELSE erased \cup recorded
  BY DEF Restart
<1>2. \A q \in Request : request[q] \in RequestRecord /\ StepFits(q) /\ Forgets(q)
  BY DEF RecordsInv, RecordShapes
<1>3. ASSUME NEW q \in Request
      PROVE  /\ request'[q] \in RequestRecord
             /\ request'[q].step = IF At(q, "unused") THEN "unused" ELSE "done"
             /\ At(q, "unused") => request'[q] = Unused
             /\ request'[q].told = "ok" => request[q].told = "ok"
             /\ request'[q].kind = request[q].kind /\ request'[q].actor = request[q].actor
             /\ request'[q].conversation = request[q].conversation
             /\ request'[q].removed = request[q].removed /\ request'[q].before = request[q].before
             /\ request'[q].count = request[q].count /\ request'[q].shown = request[q].shown
  <2>1. CASE request[q].step \in {"unused", "done"}
    <3>1. request'[q] = request[q]
      BY <2>1 DEF Restart
    <3> QED  BY <1>2, <2>1, <3>1 DEF At, StepFits
  <2>2. CASE request[q].step \notin {"unused", "done"}
    <3>1. request'[q] = [request[q] EXCEPT !.step = "done", !.told = "failed"]
      BY <2>2 DEF Restart
    <3> QED  BY <1>2, <2>2, <3>1 DEF At, RequestRecord, Step, Told
  <2> QED  BY <2>1, <2>2
<1>4. request' \in [Request -> RequestRecord]
  <2>1. DOMAIN request' = Request /\ request' = [q \in Request |-> request'[q]]
    BY DEF Restart
  <2> QED  BY <1>3, <2>1
<1>5. \A p \in Request : PastNote(p) => PastNote(p)'
  BY <1>3 DEF PastNote, At
<1>6. RecordShapes'
  BY <1>1, <1>4, EmptyFacts DEF RecordsInv, RecordShapes
<1>7. Held' \subseteq Held
  BY <1>1, EmptyFacts DEF Held
<1>8. NotesInv'
  <2>1. Held \subseteq Request
    BY ListingFacts DEF RecordsInv, RecordShapes, Held
  <2> QED  BY <1>5, <1>7, <2>1 DEF RecordsInv, NotesInv
<1>9. TrailInv'
  <2>1. recorded \subseteq Request /\ \A p \in recorded : PastNote(p)
    BY DEF RecordsInv, RecordShapes, TrailInv
  <2>2. \A p \in Request : request'[p].kind = "task" /\ request'[p].told = "ok" =>
          p \in recorded' \cup erased'
    BY <1>1, <1>3 DEF RecordsInv, TrailInv
  <2>3. CASE durable
    BY <1>1, <1>5, <2>1, <2>2, <2>3 DEF RecordsInv, TrailInv
  <2>4. CASE ~durable
    BY <1>1, <2>2, <2>4, EmptyFacts, FS_EmptySet DEF TrailInv
  <2> QED  BY <2>3, <2>4
<1>10. ASSUME NEW q \in Request PROVE StepFits(q)' /\ Forgets(q)'
  <2>1. StepFits(q)'
    BY <1>2, <1>3 DEF StepFits, At
  <2>2. \A p \in request[q].before : PastNote(p)' /\ Matches(q, p)' = Matches(q, p)
    <3>1. \A p \in request[q].before : p \in Request /\ PastNote(p)
      BY <1>2 DEF Forgets, RequestRecord
    <3> QED  BY <1>3, <1>5, <3>1 DEF Matches, Mine
  <2>3. Forgets(q)'
    BY <1>2, <1>3, <1>7, <2>2 DEF Forgets
  <2> QED  BY <2>1, <2>3
<1> QED  BY <1>6, <1>8, <1>9, <1>10 DEF RecordsInv

LEMMA RecordsAtStart == Init => RecordsInv
<1> SUFFICES ASSUME RecordsInit PROVE RecordsInv
  BY DEF Init
<1>1. request = [q \in Request |-> Unused] /\ memory = Empty /\ trail = Empty
      /\ recorded = {} /\ erased = {} /\ durable \in BOOLEAN
  BY DEF RecordsInit
<1>2. \A q \in Request : /\ request[q] = Unused /\ Unused.step = "unused" /\ Unused.kind = "task"
                         /\ Unused.told = "nothing" /\ Unused.removed = {} /\ Unused.before = {}
                         /\ Unused.count = 0 /\ Unused.shown = {}
  BY <1>1 DEF Unused
<1>3. RecordShapes
  BY <1>1, UnusedType, EmptyFacts DEF RecordShapes
<1>4. NotesInv /\ TrailInv
  BY <1>1, <1>2, EmptyFacts, FS_EmptySet DEF NotesInv, TrailInv, Held
<1>5. \A q \in Request : StepFits(q) /\ Forgets(q)
  BY <1>2, FS_EmptySet DEF StepFits, Forgets, At
<1> QED  BY <1>3, <1>4, <1>5 DEF RecordsInv

LEMMA RecordsStutter == ASSUME RecordsInv, UNCHANGED records PROVE RecordsInv'
<1>1. UNCHANGED <<durable, memory, trail, recorded, erased, request>>
  BY DEF records
<1>2. RecordShapes' /\ NotesInv' /\ TrailInv'
  BY <1>1 DEF RecordsInv, RecordShapes, NotesInv, TrailInv, PastNote, Held
<1>3. \A q \in Request : StepFits(q)' /\ Forgets(q)'
  BY <1>1 DEF RecordsInv, StepFits, At, Forgets, WholePage, PastNote, Held, Matches, Mine
<1> QED  BY <1>2, <1>3 DEF RecordsInv

(* Notes and trail are lists of past tasks, whatever is answered as done   *)
(* is on record as long as the list it is kept in, and a request that      *)
(* forgets has removed, together with what is still due, all there was.    *)
THEOREM RecordsInvariance == Spec => []RecordsInv
<1>1. ASSUME IInv, RecordsInv, Serve PROVE RecordsInv'
  <2>1. PICK q \in Request :
          \/ \E b \in Browser, c \in Conversation :
               \/ \E o \in Outcome : StartTask(q, b, c, o)
               \/ StartForget(q, b, c)
          \/ \E b \in Browser : StartRead(q, b)
          \/ \E d \in BOOLEAN : Remember(q, d) \/ Record(q, d) \/ ReadTrail(q, d)
          \/ ForgetAtOnce(q) \/ Recall(q) \/ Forget(q) \/ Forgotten(q) \/ Unreachable(q)
    BY <1>1, Zenon DEF Serve
  <2>2. ASSUME NEW b \in Browser, NEW c \in Conversation,
               (\E o \in Outcome : StartTask(q, b, c, o)) \/ StartForget(q, b, c)
        PROVE  RecordsInv'
    BY <1>1, <2>2, StartTaskKeeps, StartForgetKeeps
  <2>3. ASSUME NEW b \in Browser, StartRead(q, b) PROVE RecordsInv'
    BY <1>1, <2>3, StartReadKeeps
  <2>4. ASSUME NEW d \in BOOLEAN, Remember(q, d) \/ Record(q, d) \/ ReadTrail(q, d) PROVE RecordsInv'
    BY <1>1, <2>4, RememberKeeps, RecordKeeps, ReadTrailKeeps
  <2>5. CASE ForgetAtOnce(q) \/ Recall(q) \/ Forget(q) \/ Forgotten(q) \/ Unreachable(q)
    BY <1>1, <2>5, ForgetAtOnceKeeps, RecallKeeps, ForgetKeeps, ForgottenKeeps, UnreachableKeeps
  <2> QED  BY <2>1, <2>2, <2>3, <2>4, <2>5
<1>2. IInv /\ RecordsInv /\ [Next]_vars => RecordsInv'
  BY <1>1, RestartKeeps, RecordsStutter DEF Next, vars
<1> QED  BY <1>2, RecordsAtStart, Invariance, PTL DEF Spec

(* What a request is told is true of the records: an answered task is on   *)
(* record, or was until the process restarted or ran out of room; a count  *)
(* of what was forgotten is right, and below a page nothing is left        *)
(* (recorder.ts:60, stores.ts:144).                                        *)
THEOREM AnswersAreTrue == Spec => []ToldIsTrue
<1>1. ASSUME RecordsInv PROVE AnsweredMeansRecorded
  <2> SUFFICES ASSUME NEW q \in Request, request[q].told = "ok"
               PROVE  /\ request[q].kind = "task" =>
                           \/ q \in DOMAIN trail
                           \/ ~durable /\ (q \in erased \/ Cardinality(recorded) > RingLimit)
                      /\ \A p \in request[q].shown :
                           "audit:read" \in request[q].actor.scopes
    BY Zenon DEF AnsweredMeansRecorded
  <2>1. StepFits(q) /\ TrailInv
    BY <1>1 DEF RecordsInv
  <2>2. request[q].kind = "task" => q \in recorded \cup erased
    BY <2>1 DEF TrailInv
  <2>3. Cardinality(recorded) \in Nat
    BY <2>1, FS_CardinalityType DEF TrailInv
  <2> QED  BY <2>1, <2>2, <2>3, LimitsFacts DEF TrailInv, StepFits
<1>2. ASSUME RecordsInv PROVE ForgettingIsHonest
  <2> SUFFICES ASSUME NEW q \in Request, request[q].kind = "forget", request[q].told = "ok"
               PROVE  LET r == request[q] IN
                      /\ r.count = Cardinality(r.removed)
                      /\ \A p \in r.removed : p \in r.before /\ Matches(q, p)
                      /\ r.count < RecallLimit /\ CanAccess(r.actor.clearance, "INTERNAL") =>
                           \A p \in r.before : Matches(q, p) => p \notin Held
    BY DEF ForgettingIsHonest
  <2> QED  BY <1>2 DEF RecordsInv, Forgets
<1>3. RecordsInv => ToldIsTrue
  BY <1>1, <1>2 DEF ToldIsTrue
<1> QED  BY <1>3, RecordsInvariance, PTL

(* Types of sign-in and of the records; no two notes and no two records    *)
(* share a place.                                                          *)
THEOREM TypeCorrect == Spec => []TypeOK
<1>1. ASSUME IInv, RecordsInv PROVE TypeOK
  <2>1. /\ clock \in 0..MaxClock /\ lost \in [Person -> -1..MaxClock]
        /\ parked \in [Browser -> [attempt : 0..MaxAttempts, until : Nat]]
    <3>1. Attempt \cup {0} = 0..MaxAttempts
      BY ConstantsFacts DEF Attempt
    <3> QED  BY <1>1, <3>1 DEF IInv, Shapes
  <2>2. /\ \A a \in Attempt : attempt[a].actor \in Actors
        /\ \A b \in Browser : session[b].actor \in Actors /\ session[b].until \in Nat
    BY <1>1 DEF IInv, Shapes, AttemptRecord
  <2>3. durable \in BOOLEAN /\ IsInjective(memory) /\ IsInjective(trail)
        /\ \A q \in Request : request[q].kind \in Kind /\ request[q].actor \in Actors
    BY <1>1 DEF RecordsInv, RecordShapes, RequestRecord
  <2>4. Held \cup recorded \subseteq {q \in Request : request[q].kind = "task"}
    <3>1. Held \subseteq Request /\ recorded \subseteq Request
      BY <1>1, ListingFacts DEF RecordsInv, RecordShapes, Held
    <3> QED  BY <1>1, <3>1 DEF RecordsInv, NotesInv, TrailInv, PastNote
  <2> QED  BY <2>1, <2>2, <2>3, <2>4 DEF TypeOK
<1> QED  BY <1>1, Invariance, RecordsInvariance, PTL

=============================================================================
