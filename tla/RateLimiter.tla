----------------------------- MODULE RateLimiter -----------------------------
(***************************************************************************)
(* The request guard and the limiter behind it: the origin check, the      *)
(* counter in Redis every replica shares, and the counter in its own       *)
(* memory a replica falls back to while Redis does not answer.             *)
(*                                                                         *)
(* Time is a clock the replicas and Redis share, in ticks; Retry-After is  *)
(* in whole seconds.  A call to Redis may be answered, may fail before or  *)
(* after the script ran, and the script may still run once the caller has  *)
(* given up.                                                               *)
(***************************************************************************)
EXTENDS Integers, FiniteSets, Functions

CONSTANTS
  Replica,
  Key,          \* bucket and subject, "tania.chat:user"
  Unexpiring,   \* keys an older deployment left in Redis without an expiry
  Limit,        \* requests a window allows, for each key
  Window,       \* windowMs, in ticks
  Cooldown,     \* cooldownMs, in ticks
  Timeout,      \* commandTimeout of the Redis client, in ticks
  Second,       \* ticks in a second
  None,
  MaxRequests,  \* requests that arrive
  MaxFaults,    \* calls to Redis that fail
  MaxTime       \* the last tick

ASSUME LimiterAssumption ==
  /\ Unexpiring \subseteq Key
  /\ Limit \in [Key -> Nat \ {0}]
  /\ {Window, Cooldown, Timeout, Second} \subseteq Nat \ {0}
  /\ {MaxRequests, MaxFaults, MaxTime} \subseteq Nat /\ Window <= MaxTime
  /\ None \notin Replica \cup Nat \cup {"redis"} /\ "redis" \notin Replica

VARIABLES
  now,
  distributed,  \* REDIS_URL is set
  redis,        \* for each key the counter and the tick it expires at
  limiter,      \* for each replica the state of its limiter
  call,         \* for each request what became of it
  faults        \* calls to Redis that failed so far

vars == <<now, distributed, redis, limiter, call, faults>>

Request == 1 .. MaxRequests
Time    == Window .. MaxTime  \* Date.now() is far beyond the first window

NoCall ==
  [stage   |-> "none",
   replica |-> None,   \* the one that asks Redis
   key     |-> None,
   at      |-> 0,      \* when its check began
   running |-> FALSE,  \* the script is yet to run, though perhaps nobody waits for it
   counted |-> 0,      \* the reply of the script: the counter,
   ttl     |-> 0,      \*   and the ticks its expiry is away
   by      |-> None,   \* the counter that decided: Redis, or a replica's own
   allowed |-> FALSE,
   retry   |-> 0,      \* when Retry-After invites a refused caller again
   ends    |-> None,   \* the end of the window the script counted it in (history)
   window  |-> None]   \* the end of the window that decided (history)

Init ==
  /\ now = Window
  /\ distributed \in BOOLEAN
  /\ redis = [k \in Key |-> [count |-> IF k \in Unexpiring THEN Limit[k] ELSE 0,
                             until |-> None]]
  /\ limiter = [r \in Replica |->
       [degraded |-> FALSE, retryAt |-> 0, sweptAt |-> 0, buckets |-> [k \in {} |-> None]]]
  /\ call = [q \in Request |-> NoCall]
  /\ faults = 0

-----------------------------------------------------------------------------
(* The script: INCR, PTTL, and PEXPIRE when there is no expiry, atomically. *)
(* A key is gone in the tick of its expiry.                                 *)

Lapsed(entry) == entry.until # None /\ entry.until <= now

Incremented(entry) ==
  IF Lapsed(entry) THEN [count |-> 1, until |-> None]
  ELSE [entry EXCEPT !.count = @ + 1]

(* Mutant of Armed: only the first request of a window sets its expiry. *)
ArmedOnce(entry) ==
  IF entry.count = 1 THEN [entry EXCEPT !.until = now + Window] ELSE entry

(* Mutant of Armed: every request pushes the end of the window back. *)
ArmedAgain(entry) ==
  [entry EXCEPT !.until = (IF @ = None THEN now ELSE @) + Window]

Armed(entry) ==
  IF entry.until = None THEN [entry EXCEPT !.until = now + Window] ELSE entry

Script(k) == Armed(Incremented(redis[k]))

Seconds(ticks) == (ticks + Second - 1) \div Second

-----------------------------------------------------------------------------
(* InProcessRateLimiter.checkSync: expired buckets are dropped once a window *)
(* passed since they last were; then the request is counted.                 *)

(* Mutant of Swept: expired buckets are kept. *)
NeverSwept(l) == l

Swept(l) ==
  IF now - l.sweptAt < Window THEN l
  ELSE [l EXCEPT !.sweptAt = now,
                 !.buckets = Restrict(@, {k \in DOMAIN @ : @[k].resetAt > now})]

Bucket(l, k) ==
  IF k \notin DOMAIN l.buckets \/ l.buckets[k].resetAt <= now
  THEN [count |-> 1, resetAt |-> now + Window]
  ELSE [l.buckets[k] EXCEPT !.count = @ + 1]

Charged(l, k) ==
  LET s == Swept(l)
  IN  [s EXCEPT !.buckets = [j \in DOMAIN @ \cup {k} |-> IF j = k THEN Bucket(s, k) ELSE @[j]]]

(* What is left of request c once counter by has decided it. *)
Decided(c, by, window, allowed, retryAfter) ==
  [c EXCEPT !.stage = "decided", !.replica = None, !.at = 0, !.counted = 0, !.ttl = 0,
            !.by = by, !.window = window, !.allowed = allowed,
            !.retry = IF allowed THEN 0 ELSE now + Second * retryAfter]

(* The decision of replica r's own counter, with its limiter as it stands *)
(* once the request is counted.                                           *)
DecidedLocally(c, r, l) ==
  LET bucket == l.buckets[c.key]
  IN  Decided(c, r, bucket.resetAt, bucket.count <= Limit[c.key], Seconds(bucket.resetAt - now))

-----------------------------------------------------------------------------
(* The client settles every command before its timeout is over. *)
Tick ==
  /\ now < MaxTime
  /\ \A q \in Request : call[q].stage = "asked" => now < call[q].at + Timeout
  /\ now' = now + 1
  /\ UNCHANGED <<distributed, redis, limiter, call, faults>>

Arriving ==
  {q \in Request : call[q].stage = "none" /\ \A p \in 1 .. q - 1 : call[p].stage # "none"}

(* assertSameOrigin: a request another site made is refused before it is *)
(* counted.                                                              *)
RefuseForeign(q) ==
  /\ call' = [call EXCEPT ![q].stage = "foreign"]
  /\ UNCHANGED <<now, distributed, redis, limiter, faults>>

CoolingDown(l) == l.degraded /\ now < l.retryAt

(* A request Redis is not asked about: there is none, or it failed lately. *)
CheckLocally(q, r, k) ==
  /\ ~distributed \/ CoolingDown(limiter[r])
  /\ limiter' = [limiter EXCEPT ![r] = Charged(@, k)]
  /\ call' = [call EXCEPT ![q] =
       DecidedLocally([@ EXCEPT !.key = k], r, limiter'[r])]
  /\ UNCHANGED <<now, distributed, redis, faults>>

AskRedis(q, r, k) ==
  /\ distributed /\ ~CoolingDown(limiter[r])
  /\ call' = [call EXCEPT ![q] =
       [@ EXCEPT !.stage = "asked", !.replica = r, !.key = k, !.at = now, !.running = TRUE]]
  /\ UNCHANGED <<now, distributed, redis, limiter, faults>>

(* The script runs; whoever asked may have given up. *)
Execute(q) ==
  /\ call[q].running
  /\ LET entry == Script(call[q].key) IN
       /\ redis' = [redis EXCEPT ![call[q].key] = entry]
       /\ call' = [call EXCEPT ![q] =
            [@ EXCEPT !.running = FALSE, !.ends = entry.until, !.counted = entry.count,
                      !.ttl = IF entry.until = None THEN -1 ELSE entry.until - now]]
  /\ UNCHANGED <<now, distributed, limiter, faults>>

MaxOf(x, y) == IF x > y THEN x ELSE y

DecidedByRedis(c) ==
  Decided(c, "redis", c.ends, c.counted <= Limit[c.key], MaxOf(1, Seconds(c.ttl)))

(* The reply arrives: it decides, and the limiter has recovered. *)
Answer(q) ==
  /\ call[q].stage = "asked" /\ ~call[q].running
  /\ call' = [call EXCEPT ![q] = DecidedByRedis(@)]
  /\ limiter' = [limiter EXCEPT ![call[q].replica].degraded = FALSE]
  /\ UNCHANGED <<now, distributed, redis, faults>>

(* The connection fails, the command times out or the reply makes no sense, *)
(* whether or not the script ran: the limiter degrades, its cooldown counted *)
(* from the start of this check, and its own counter decides.               *)
Degraded(l, c) == [l EXCEPT !.degraded = TRUE, !.retryAt = c.at + Cooldown]

Fail(q) ==
  LET c == call[q]
      r == c.replica
  IN  /\ c.stage = "asked" /\ faults < MaxFaults
      /\ faults' = faults + 1
      /\ limiter' = [limiter EXCEPT ![r] = Charged(Degraded(@, c), c.key)]
      /\ call' = [call EXCEPT ![q] = DecidedLocally(@, r, limiter'[r])]
      /\ UNCHANGED <<now, distributed, redis>>

Next ==
  \/ Tick
  \/ \E q \in Arriving :
       \/ RefuseForeign(q)
       \/ \E r \in Replica, k \in Key : CheckLocally(q, r, k) \/ AskRedis(q, r, k)
  \/ \E q \in Request : Execute(q) \/ Answer(q) \/ Fail(q)

Spec == Init /\ [][Next]_vars
=============================================================================
