------------------------------- MODULE SignIn --------------------------------
(***************************************************************************)
(* Sign-in of the portal: an authorization code flow whose state a browser *)
(* parks in a short-lived cookie, an identity provider that is external,   *)
(* and a signed session cookie that is the whole of the authorisation      *)
(* until it expires. The directory may change a person's groups meanwhile. *)
(***************************************************************************)
EXTENDS Permissions, Integers

CONSTANTS
  Browser, Person,
  Groups,        \* [person -> [before, after]]: groups, clearance and e-mail in the directory
  MaxAttempts,   \* bound: sign-ins begun
  MaxClock,      \* bound: ticks
  SessionTtl,    \* ticks a session lives, TANIA_SESSION_TTL_SECONDS
  ParkedTtl,     \* ticks the parked state lives, ten minutes
  TokenLife      \* ticks an identity token is good for

(* What the directory tells of a person; its groups and its clearance are  *)
(* whatever an administrator wrote there.                                  *)
Claims == [subject : {"nobody"}, groups : SUBSET STRING, clearance : STRING, email : BOOLEAN]

ASSUME SignInAssumption ==
  /\ {MaxAttempts, MaxClock, SessionTtl, ParkedTtl, TokenLife} \subseteq Nat \ {0}
  /\ Groups \in [Person -> [before : Claims, after : Claims]]

VARIABLES
  clock,
  lost,      \* when the directory changed a person's groups, -1 while it has not
  parked,    \* browser -> the attempt parked in its cookie and when that ends
  attempt,   \* the sign-ins begun
  session    \* browser -> the session cookie

signin == <<clock, lost, parked, attempt, session>>

Attempt == 1..MaxAttempts

-----------------------------------------------------------------------------
(* What a role grants.                                                     *)
RoleScopes ==
  LET read == {"knowledge:read"}
      analyse == read \cup {"analytics:read"}
      create == analyse \cup {"document:create"}
  IN  [viewer |-> read, analyst |-> analyse, creator |-> create,
       operator |-> create \cup {"workflow:run"},
       approver |-> analyse \cup {"workflow:approve"},
       auditor |-> read \cup {"audit:read"},
       admin |-> create \cup {"knowledge:write", "workflow:run", "workflow:approve", "audit:read",
                              "system:admin"}]

TaniaRole == DOMAIN RoleScopes

(* A group that maps to no role grants nothing.                            *)
ResolveRoles(groups) == groups \cap TaniaRole

ScopesForRoles(roles) == UNION {RoleScopes[r] : r \in roles}

(* Mutant of ClearanceOf: the claim is taken as it comes.                  *)
ClearanceClaimed(claim) == claim

(* A directory that says nothing of clearance grants the lowest useful.    *)
ClearanceOf(claim) == IF claim \in Classification THEN claim ELSE "INTERNAL"

ActorFromClaims(token) ==
  [subject |-> token.subject, scopes |-> ScopesForRoles(ResolveRoles(token.groups)),
   clearance |-> ClearanceOf(token.clearance), email |-> token.email]

Directory(p) == IF lost[p] = -1 THEN Groups[p].before ELSE Groups[p].after

-----------------------------------------------------------------------------
NoActor == [subject |-> "nobody", scopes |-> {}, clearance |-> "PUBLIC", email |-> FALSE]
NoAttempt == [stage |-> "unused", browser |-> 0, person |-> "nobody",
              actor |-> NoActor, issued |-> 0, overtaken |-> FALSE]
NotParked == [attempt |-> 0, until |-> 0]
NoSession == [attempt |-> 0, actor |-> NoActor, until |-> 0]

SignInInit ==
  /\ clock = 0
  /\ lost = [p \in Person |-> -1]
  /\ parked = [b \in Browser |-> NotParked]
  /\ attempt = [a \in Attempt |-> NoAttempt]
  /\ session = [b \in Browser |-> NoSession]

(* Mutant of Park: a state parked already is used again.                   *)
ParkOnce(b, a) == IF parked[b].attempt # 0 THEN parked[b] ELSE [attempt |-> a, until |-> clock + ParkedTtl]

(* The cookie takes the state, nonce and verifier of the newest attempt.   *)
Park(b, a) == [attempt |-> a, until |-> clock + ParkedTtl]

Parked(b) == IF clock < parked[b].until THEN parked[b].attempt ELSE 0

InFlight(a) == attempt[a].stage \in {"atIdP", "returned"}

(* Sign-in begins in a tab of the browser. Attempts of its other tabs are  *)
(* marked as overtaken, for the properties.                                *)
Login(b) ==
  /\ \E a \in Attempt :
       /\ attempt[a].stage = "unused" /\ \A c \in 1..(a - 1) : attempt[c].stage # "unused"
       /\ attempt' = [c \in Attempt |->
                        IF c = a THEN [NoAttempt EXCEPT !.stage = "atIdP", !.browser = b]
                        ELSE IF InFlight(c) /\ attempt[c].browser = b
                             THEN [attempt[c] EXCEPT !.overtaken = TRUE] ELSE attempt[c]]
       /\ parked' = [parked EXCEPT ![b] = Park(b, a)]
  /\ UNCHANGED <<clock, lost, session>>

Moves(a, stage) == attempt' = [attempt EXCEPT ![a].stage = stage]

Fails(a) == attempt' = [attempt EXCEPT ![a] = [NoAttempt EXCEPT !.stage = "failed"]]

(* The identity provider signs somebody in, or refuses.                    *)
Authenticates(a, p) ==
  /\ attempt[a].stage = "atIdP"
  /\ attempt' = [attempt EXCEPT ![a].stage = "returned", ![a].person = p]
  /\ UNCHANGED <<clock, lost, parked, session>>

Refuses(a) ==
  /\ attempt[a].stage = "atIdP"
  /\ Fails(a)
  /\ UNCHANGED <<clock, lost, parked, session>>

(* The callback: what came back must be of the attempt this browser has    *)
(* parked. A failure leaves the parked state.                              *)
Callback(a) ==
  /\ attempt[a].stage = "returned"
  /\ IF Parked(attempt[a].browser) = a THEN Moves(a, "exchanging") ELSE Fails(a)
  /\ UNCHANGED <<clock, lost, parked, session>>

(* The code is exchanged for a token with the claims of now, or refused.   *)
Exchange(a) ==
  /\ attempt[a].stage = "exchanging"
  /\ LET p == attempt[a].person
         token == [Directory(p) EXCEPT !.subject = p]
     IN  attempt' = [attempt EXCEPT ![a].stage = "verifying", ![a].actor = ActorFromClaims(token),
                                    ![a].issued = clock]
  /\ UNCHANGED <<clock, lost, parked, session>>

ExchangeFails(a) ==
  /\ attempt[a].stage = "exchanging"
  /\ Fails(a)
  /\ UNCHANGED <<clock, lost, parked, session>>

(* The token is verified, sealed into the session cookie, and the parked   *)
(* state cleared, whichever attempt it holds by now.                       *)
SignedIn(a) ==
  /\ attempt[a].stage = "verifying" /\ clock < attempt[a].issued + TokenLife
  /\ LET b == attempt[a].browser
     IN  /\ session' = [session EXCEPT ![b] = [attempt |-> a, actor |-> attempt[a].actor,
                                               until |-> clock + SessionTtl]]
         /\ parked' = [parked EXCEPT ![b] = NotParked]
  /\ Moves(a, "done")
  /\ UNCHANGED <<clock, lost>>

TokenExpired(a) ==
  /\ attempt[a].stage = "verifying" /\ clock >= attempt[a].issued + TokenLife
  /\ Fails(a)
  /\ UNCHANGED <<clock, lost, parked, session>>

(* Sign-out clears the cookie and nothing else.                            *)
Logout(b) ==
  /\ session' = [session EXCEPT ![b] = NoSession]
  /\ UNCHANGED <<clock, lost, parked, attempt>>

(* Mutant of OpenSession: the expiry of the cookie is not looked at.       *)
OpenSessionForever(b) == session[b].actor

(* Who is asking: the actor of a session that has not expired.             *)
OpenSession(b) == IF clock < session[b].until THEN session[b].actor ELSE NoActor

SignedInAs(b) == OpenSession(b) # NoActor

Tick ==
  /\ clock < MaxClock /\ clock' = clock + 1
  /\ UNCHANGED <<lost, parked, attempt, session>>

(* The directory takes a person's old groups away.                         *)
Demoted(p) ==
  /\ lost[p] = -1 /\ Groups[p].after # Groups[p].before
  /\ lost' = [lost EXCEPT ![p] = clock]
  /\ UNCHANGED <<clock, parked, attempt, session>>

SignInNext ==
  \/ \E b \in Browser : Login(b) \/ Logout(b)
  \/ \E a \in Attempt, p \in Person : Authenticates(a, p)
  \/ \E a \in Attempt : \/ Refuses(a) \/ Callback(a) \/ Exchange(a) \/ ExchangeFails(a)
                        \/ SignedIn(a) \/ TokenExpired(a)
  \/ Tick
  \/ \E p \in Person : Demoted(p)
=============================================================================
