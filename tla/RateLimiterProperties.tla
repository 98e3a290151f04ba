------------------------ MODULE RateLimiterProperties ------------------------
(* What a deployment may expect of its rate limit, and a caller of a 429. *)
EXTENDS RateLimiter

Ends == Window .. MaxTime + Window

(* Every part of the state has its type; no counter expires more than one *)
(* window from now and no cooldown lasts longer than it should.            *)
TypeOK ==
  /\ now \in Time /\ distributed \in BOOLEAN
  /\ redis \in [Key -> [count : Nat, until : Ends \cup {None}]]
  /\ \A k \in Key : /\ redis[k].count <= Limit[k] + MaxRequests
                   /\ redis[k].until # None => redis[k].until <= now + Window
  /\ \A r \in Replica :
       /\ limiter[r].degraded \in BOOLEAN
       /\ limiter[r].retryAt <= now + Cooldown /\ limiter[r].sweptAt \in {0} \cup Time
       /\ DOMAIN limiter[r].buckets \subseteq Key
       /\ \A k \in DOMAIN limiter[r].buckets :
            /\ limiter[r].buckets[k].count \in Request
            /\ limiter[r].buckets[k].resetAt <= now + Window
  /\ \A q \in Request :
       /\ call[q].stage \in {"none", "foreign", "asked", "decided"}
       /\ call[q].replica \in Replica \cup {None} /\ call[q].key \in Key \cup {None}
       /\ call[q].at \in {0} \cup Time /\ {call[q].running, call[q].allowed} \subseteq BOOLEAN
       /\ call[q].by \in Replica \cup {"redis", None}

DecidedAs(allowed) == {q \in Request : call[q].stage = "decided" /\ call[q].allowed = allowed}

(* Requests counted for key k by counter c in the window that ends at e: *)
(* by Redis whenever the script ran, by a replica when it decided.       *)
CountedIn(k, c, e) ==
  {q \in Request : call[q].key = k /\ IF c = "redis" THEN call[q].ends = e
                                      ELSE call[q].by = c /\ call[q].window = e}

WindowsHold ==
  \A q \in DecidedAs(TRUE) :
    LET peers == {p \in DecidedAs(TRUE) : call[p].by = call[q].by /\ call[p].key = call[q].key}
    IN  /\ Cardinality({p \in peers : call[p].window = call[q].window}) <= Limit[call[q].key]
        /\ \A p \in peers :
             call[p].window < call[q].window => call[p].window + Window <= call[q].window

RefusalsAreEarned ==
  \A q \in DecidedAs(FALSE) :
    LET c == call[q] IN
    c.key \notin Unexpiring =>
      Cardinality(CountedIn(c.key, c.by, c.window) \ {q}) >= Limit[c.key]

(* The end of the window in which counter c would count the next request *)
(* for key k, None when that starts a new one or when it has no end.      *)
Current(c, k) ==
  IF c = "redis" THEN redis[k].until
  ELSE IF k \in DOMAIN limiter[c].buckets THEN limiter[c].buckets[k].resetAt ELSE None

Over(c, k) ==
  IF c = "redis" THEN Lapsed(redis[k])
  ELSE k \notin DOMAIN limiter[c].buckets \/ limiter[c].buckets[k].resetAt <= now

RetryAfterIsHonest ==
  \A q \in DecidedAs(FALSE) :
    LET c == call[q] IN
    now >= c.retry =>
      Over(c.by, c.key) \/ Current(c.by, c.key) # c.window

(* When a replica counts a request, no bucket it keeps expired a window ago *)
(* or more: the map stays proportional to the active subjects.              *)
MapIsBounded ==
  [][\A r \in Replica : limiter'[r].buckets # limiter[r].buckets =>
       \A k \in DOMAIN limiter'[r].buckets :
         now < limiter'[r].buckets[k].resetAt + Window]_vars

(* Limits are kept, whatever Redis does. Each counter admits Limit         *)
(* requests at most within a window, and its windows for a key do not      *)
(* overlap, so that a deployment admits (replicas + 1) times the limit at  *)
(* worst. A request is refused only after Limit others of its key were     *)
(* counted: no other subject and no request another site forged uses the   *)
(* budget up. Who waits as long as Retry-After said meets a new window: a  *)
(* counter that never expired would lock its subject out. And all this in  *)
(* a map that stays proportional to the active subjects.                   *)
LimitsAreKept ==
  [](WindowsHold /\ RefusalsAreEarned /\ RetryAfterIsHonest) /\ MapIsBounded
=============================================================================
