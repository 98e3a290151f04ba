-------------------------- MODULE RateLimiter_proof --------------------------
(***************************************************************************)
(* Theorems about the rate limit for any replicas, keys, limits, windows,  *)
(* cooldowns and failures of Redis.                                        *)
(***************************************************************************)
EXTENDS RateLimiterProperties, TLAPS, FiniteSetTheorems

Counter == Replica \cup {"redis"}

Stage == {"none", "foreign", "asked", "decided"}

Entry == [count : Nat, until : Ends \cup {None}]

Buckets == UNION {[K -> [count : Nat \ {0}, resetAt : Ends]] : K \in SUBSET Key}

LimiterRecord ==
  [degraded : BOOLEAN, retryAt : Int, sweptAt : {0} \cup Time, buckets : Buckets]

CallRecord ==
  [stage : Stage, replica : Replica \cup {None}, key : Key \cup {None}, at : {0} \cup Time,
   running : BOOLEAN, counted : Nat, ttl : Int, by : Counter \cup {None}, allowed : BOOLEAN,
   retry : Int, ends : Ends \cup {None}, window : Ends \cup {None}]

(* A counter has a window for key k, with this end and this count; Left is *)
(* what an older deployment left in it.                                    *)
Open(c, k) == IF c = "redis" THEN redis[k].until # None ELSE k \in DOMAIN limiter[c].buckets

EndOf(c, k) == IF c = "redis" THEN redis[k].until ELSE limiter[c].buckets[k].resetAt

CountOf(c, k) == IF c = "redis" THEN redis[k].count ELSE limiter[c].buckets[k].count

Left(c, k) == IF c = "redis" /\ k \in Unexpiring THEN Limit[k] ELSE 0

(* Request q was counted for key k by counter c, in the window that ends at WindowOf. *)
Counts(q, k, c) == call[q].key = k /\ IF c = "redis" THEN call[q].ends # None ELSE call[q].by = c

WindowOf(q, c) == IF c = "redis" THEN call[q].ends ELSE call[q].window

(* Requests the counter admitted, or will if its answer arrives. *)
AdmittedIn(k, c, e) ==
  {q \in CountedIn(k, c, e) :
     \/ call[q].stage = "decided" /\ call[q].by = c /\ call[q].allowed
     \/ c = "redis" /\ call[q].stage = "asked" /\ ~call[q].running /\ call[q].counted <= Limit[k]}

Shapes ==
  /\ now \in Time /\ distributed \in BOOLEAN
  /\ redis \in [Key -> Entry]
  /\ limiter \in [Replica -> LimiterRecord] /\ call \in [Request -> CallRecord]

LimitersInv ==
  \A r \in Replica :
    /\ limiter[r].retryAt <= now + Cooldown /\ limiter[r].sweptAt <= now
    /\ \A k \in DOMAIN limiter[r].buckets : limiter[r].sweptAt < limiter[r].buckets[k].resetAt

(* What a call may look like in each of its stages. *)
CallOk(q, c) ==
  /\ c.stage \in {"none", "foreign"} => c.by = None /\ c.ends = None /\ ~c.running
  /\ c.stage \in {"asked", "decided"} => c.key \in Key
  /\ c.stage = "asked" =>
       /\ c.replica \in Replica /\ c.by = None /\ c.at <= now
       /\ ~c.running => c.ends # None /\ c.counted \in Nat /\ c.ttl \in Nat \ {0} /\ c.ends <= now + c.ttl
  /\ c.running => c.ends = None
  /\ c.stage = "decided" =>
       /\ c.by \in Counter /\ c.window \in Ends
       /\ c.by = "redis" => c.window = c.ends
       /\ ~c.allowed => c.retry \in Int /\ c.window <= c.retry

CallsInv == \A q \in Request : CallOk(q, call[q])

CounterOk(c, k) ==
  /\ \A e \in Ends : Open(c, k) /\ EndOf(c, k) = e =>
       /\ e <= now + Window
       /\ Cardinality(CountedIn(k, c, e)) <= CountOf(c, k)
       /\ CountOf(c, k) <= Cardinality(CountedIn(k, c, e)) + Left(c, k)
  /\ ~Open(c, k) /\ c = "redis" => CountOf(c, k) = Left(c, k)
  /\ \A q \in Request : Counts(q, k, c) =>
       IF Open(c, k)
       THEN WindowOf(q, c) = EndOf(c, k) \/ WindowOf(q, c) + Window <= EndOf(c, k)
       ELSE c # "redis" /\ WindowOf(q, c) <= now

CountersInv == \A c \in Counter, k \in Key : CounterOk(c, k)

WindowsApart ==
  \A c \in Counter, k \in Key, p, q \in Request :
    Counts(p, k, c) /\ Counts(q, k, c) /\ WindowOf(p, c) < WindowOf(q, c) =>
      WindowOf(p, c) + Window <= WindowOf(q, c)

AdmittedInv ==
  \A c \in Counter, k \in Key, e \in Ends : Cardinality(AdmittedIn(k, c, e)) <= Limit[k]

(* Those counted before a request that was refused, or that will be.       *)
RefusedOk(q) ==
  \A c \in Counter, k \in Key \ Unexpiring, e \in Ends : call[q].key = k =>
    /\ call[q].stage = "asked" /\ ~call[q].running /\ c = "redis" /\ call[q].ends = e =>
         Cardinality(CountedIn(k, c, e) \ {q}) >= call[q].counted - 1
    /\ call[q].stage = "decided" /\ ~call[q].allowed /\ call[q].by = c /\ call[q].window = e =>
         Cardinality(CountedIn(k, c, e) \ {q}) >= Limit[k]

RefusedInv == \A q \in Request : RefusedOk(q)

IInv ==
  /\ Shapes /\ LimitersInv /\ CallsInv /\ CountersInv /\ WindowsApart /\ AdmittedInv /\ RefusedInv

-----------------------------------------------------------------------------
(* Arithmetic and the records a check writes.                              *)

LEMMA ConstantsFacts ==
  /\ Limit \in [Key -> Nat \ {0}] /\ Window \in Nat \ {0} /\ Cooldown \in Nat \ {0}
  /\ Timeout \in Nat \ {0} /\ Second \in Nat \ {0}
  /\ MaxRequests \in Nat /\ MaxFaults \in Nat /\ MaxTime \in Nat /\ Window <= MaxTime
  /\ None \notin Replica /\ None \notin Nat /\ None # "redis" /\ "redis" \notin Replica
BY LimiterAssumption DEF LimiterAssumption

LEMMA TimeFacts ==
  /\ Time \subseteq Nat \ {0} /\ Ends \subseteq Nat \ {0} /\ None \notin Ends
  /\ \A t \in Time : t + Window \in Ends /\ t + Window > t
  /\ \A t \in {0} \cup Time : t \in Nat
  /\ \A e \in Ends : e \in Nat
BY ConstantsFacts DEF Time, Ends

(* Retry-After is rounded up: it never invites a caller too early.         *)
LEMMA RoundedUp ==
  ASSUME NEW ticks \in Nat
  PROVE  Seconds(ticks) \in Int /\ ticks <= Second * Seconds(ticks)
<1> DEFINE x == ticks + Second - 1
<1>1. Second \in Nat /\ Second > 0 /\ x \in Int
  BY ConstantsFacts
<1>2. x = Second * (x \div Second) + (x % Second) /\ x % Second \in 0 .. Second - 1
      /\ x \div Second \in Int
  BY <1>1
<1> QED  BY <1>1, <1>2 DEF Seconds

LEMMA DecidedCall ==
  ASSUME NEW c \in CallRecord, NEW by \in Counter, NEW window \in Ends, NEW allowed \in BOOLEAN,
         NEW retryAfter \in Int, now \in Nat
  PROVE  LET d == Decided(c, by, window, allowed, retryAfter) IN
         /\ d \in CallRecord /\ d.stage = "decided" /\ d.by = by /\ d.window = window
         /\ d.allowed = allowed /\ d.key = c.key /\ d.running = c.running /\ d.ends = c.ends
         /\ ~allowed => d.retry = now + Second * retryAfter
<1> DEFINE retry == IF allowed THEN 0 ELSE now + Second * retryAfter
<1>1. retry \in Int
  BY ConstantsFacts
<1>2. "decided" \in Stage /\ 0 \in Nat /\ 0 \in {0} \cup Time /\ None \in Replica \cup {None}
      /\ 0 \in Int /\ by \in Counter \cup {None} /\ window \in Ends \cup {None}
  BY DEF Stage
<1> HIDE DEF retry
<1> USE DEF CallRecord
<1>3. LET d == [c EXCEPT !.stage = "decided", !.replica = None, !.at = 0, !.counted = 0, !.ttl = 0,
            !.by = by, !.window = window, !.allowed = allowed, !.retry = retry] IN
         /\ d \in CallRecord /\ d.stage = "decided" /\ d.by = by /\ d.window = window
         /\ d.allowed = allowed /\ d.key = c.key /\ d.running = c.running /\ d.ends = c.ends
         /\ d.retry = retry
  BY <1>1, <1>2
<1> QED  BY <1>3 DEF Decided, retry

LEMMA BucketsType ==
  ASSUME NEW b
  PROVE  b \in Buckets <=> /\ b = [k \in DOMAIN b |-> b[k]] /\ DOMAIN b \subseteq Key
                          /\ \A k \in DOMAIN b : b[k] \in [count : Nat \ {0}, resetAt : Ends]
<1>1. ASSUME b \in Buckets
      PROVE  /\ b = [k \in DOMAIN b |-> b[k]] /\ DOMAIN b \subseteq Key
             /\ \A k \in DOMAIN b : b[k] \in [count : Nat \ {0}, resetAt : Ends]
  <2>1. PICK K \in SUBSET Key : b \in [K -> [count : Nat \ {0}, resetAt : Ends]]
    BY <1>1 DEF Buckets
  <2> QED  BY <2>1
<1>2. ASSUME b = [k \in DOMAIN b |-> b[k]], DOMAIN b \subseteq Key,
             \A k \in DOMAIN b : b[k] \in [count : Nat \ {0}, resetAt : Ends]
      PROVE  b \in Buckets
  <2>1. b \in [DOMAIN b -> [count : Nat \ {0}, resetAt : Ends]]
    BY <1>2
  <2> QED  BY <1>2, <2>1 DEF Buckets
<1> QED  BY <1>1, <1>2

LEMMA BucketFields ==
  ASSUME NEW b \in Buckets, NEW k \in DOMAIN b
  PROVE  /\ k \in Key /\ b[k].count \in Nat \ {0} /\ b[k].resetAt \in Ends /\ b[k].resetAt \in Nat
         /\ b[k] \in [count : Nat \ {0}, resetAt : Ends]
<1>1. k \in Key /\ b[k] \in [count : Nat \ {0}, resetAt : Ends]
  BY BucketsType
<1> QED  BY <1>1, TimeFacts

(* A sweep drops nothing but expired buckets.                              *)
LEMMA SweptLimiter ==
  ASSUME NEW l \in LimiterRecord, now \in Time, l.sweptAt <= now,
         \A k \in DOMAIN l.buckets : l.sweptAt < l.buckets[k].resetAt
  PROVE  LET s == Swept(l) IN
         /\ s \in LimiterRecord /\ s.degraded = l.degraded /\ s.retryAt = l.retryAt
         /\ s.sweptAt <= now
         /\ DOMAIN s.buckets \subseteq DOMAIN l.buckets
         /\ \A k \in DOMAIN s.buckets :
              /\ s.buckets[k] = l.buckets[k] /\ s.sweptAt < s.buckets[k].resetAt
              /\ now < s.buckets[k].resetAt + Window
         /\ \A k \in DOMAIN l.buckets \ DOMAIN s.buckets : l.buckets[k].resetAt <= now
<1>1. /\ l.buckets \in Buckets /\ l.sweptAt \in {0} \cup Time /\ l.sweptAt \in Nat /\ now \in Nat
      /\ Window \in Nat \ {0}
  <2>1. l.buckets \in Buckets
    BY DEF LimiterRecord
  <2>2. l.sweptAt \in {0} \cup Time
    BY Zenon DEF LimiterRecord
  <2>3. Time \subseteq Nat
    BY TimeFacts
  <2>4. now \in Nat /\ l.sweptAt \in Nat
    <3>1. 0 \in Nat
      OBVIOUS
    <3> QED  BY <2>2, <2>3, <3>1, Zenon
  <2> QED  BY <2>1, <2>2, <2>4, ConstantsFacts
<1>2. \A k \in DOMAIN l.buckets : l.buckets[k].resetAt \in Nat
  BY <1>1, BucketFields
<1>3. CASE now - l.sweptAt < Window
  <2>1. Swept(l) = l
    BY <1>3 DEF Swept
  <2>2. \A k \in DOMAIN l.buckets : now < l.buckets[k].resetAt + Window
    BY <1>1, <1>2, <1>3
  <2> QED  BY <2>1, <2>2
<1>4. CASE ~(now - l.sweptAt < Window)
  <2> DEFINE live == {k \in DOMAIN l.buckets : l.buckets[k].resetAt > now}
             b == [k \in live |-> l.buckets[k]]
  <2>1. Swept(l) = [l EXCEPT !.sweptAt = now, !.buckets = b]
    BY <1>4 DEF Swept, Restrict
  <2>2. b \in Buckets
    <3>1. DOMAIN b = live /\ live \subseteq Key
      BY <1>1, BucketsType
    <3>2. \A k \in DOMAIN b : b[k] \in [count : Nat \ {0}, resetAt : Ends]
      BY <1>1, BucketFields
    <3> QED  BY <3>1, <3>2, BucketsType
  <2>3. now \in {0} \cup Time
    OBVIOUS
  <2>4. DOMAIN b = live /\ \A k \in live : b[k] = l.buckets[k]
    OBVIOUS
  <2> HIDE DEF b
  <2>5. LET s == [l EXCEPT !.sweptAt = now, !.buckets = b] IN
        /\ s \in LimiterRecord /\ s.degraded = l.degraded /\ s.retryAt = l.retryAt
        /\ s.sweptAt = now /\ s.buckets = b
    BY <2>2, <2>3 DEF LimiterRecord
  <2>6. \A k \in live : now < l.buckets[k].resetAt + Window
    BY <1>1, <1>2
  <2>7. \A k \in DOMAIN l.buckets \ live : l.buckets[k].resetAt <= now
    BY <1>1, <1>2
  <2> QED  BY <1>1, <2>1, <2>4, <2>5, <2>6, <2>7
<1> QED  BY <1>3, <1>4

(* One request more in the bucket of its key, which is a new one when the  *)
(* old has expired; the other live buckets stay.                           *)
LEMMA ChargedLimiter ==
  ASSUME NEW l \in LimiterRecord, NEW k \in Key, now \in Time, l.sweptAt <= now,
         \A j \in DOMAIN l.buckets : l.sweptAt < l.buckets[j].resetAt
  PROVE  LET t == Charged(l, k) IN
         /\ t \in LimiterRecord /\ t.degraded = l.degraded /\ t.retryAt = l.retryAt
         /\ t.sweptAt <= now
         /\ \A j \in DOMAIN t.buckets :
              /\ t.sweptAt < t.buckets[j].resetAt
              /\ now < t.buckets[j].resetAt + Window
         /\ \A j \in DOMAIN t.buckets \ {k} : j \in DOMAIN l.buckets /\ t.buckets[j] = l.buckets[j]
         /\ \A j \in DOMAIN l.buckets \ DOMAIN t.buckets : l.buckets[j].resetAt <= now
         /\ k \in DOMAIN t.buckets /\ now < t.buckets[k].resetAt
         /\ IF k \in DOMAIN l.buckets /\ l.buckets[k].resetAt > now
            THEN /\ t.buckets[k].resetAt = l.buckets[k].resetAt
                 /\ t.buckets[k].count = l.buckets[k].count + 1
            ELSE t.buckets[k].resetAt = now + Window /\ t.buckets[k].count = 1
<1> DEFINE s == Swept(l)
           b == [j \in DOMAIN s.buckets \cup {k} |-> IF j = k THEN Bucket(s, k) ELSE s.buckets[j]]
           t == [s EXCEPT !.buckets = b]
<1>1. Charged(l, k) = t
  BY DEF Charged
<1>2. /\ s \in LimiterRecord /\ s.degraded = l.degraded /\ s.retryAt = l.retryAt
      /\ s.sweptAt <= now
      /\ DOMAIN s.buckets \subseteq DOMAIN l.buckets
      /\ \A j \in DOMAIN s.buckets :
           /\ s.buckets[j] = l.buckets[j] /\ s.sweptAt < s.buckets[j].resetAt
           /\ now < s.buckets[j].resetAt + Window
      /\ \A j \in DOMAIN l.buckets \ DOMAIN s.buckets : l.buckets[j].resetAt <= now
  BY SweptLimiter, Zenon
<1> HIDE DEF s
<1>3. /\ s.buckets \in Buckets /\ l.buckets \in Buckets /\ s.sweptAt \in Nat /\ now \in Nat
      /\ Window \in Nat \ {0}
  BY <1>2, ConstantsFacts, TimeFacts DEF LimiterRecord
<1>4. \A j \in DOMAIN s.buckets : s.buckets[j] \in [count : Nat \ {0}, resetAt : Ends]
        /\ j \in Key /\ s.buckets[j].resetAt \in Nat
  BY <1>3, BucketFields
<1>5. \A j \in DOMAIN l.buckets : l.buckets[j].resetAt \in Nat
  BY <1>3, BucketFields
<1>6. /\ Bucket(s, k) \in [count : Nat \ {0}, resetAt : Ends] /\ now < Bucket(s, k).resetAt
      /\ IF k \in DOMAIN l.buckets /\ l.buckets[k].resetAt > now
         THEN /\ Bucket(s, k).resetAt = l.buckets[k].resetAt
              /\ Bucket(s, k).count = l.buckets[k].count + 1
         ELSE Bucket(s, k).resetAt = now + Window /\ Bucket(s, k).count = 1
  <2>1. CASE k \notin DOMAIN s.buckets \/ s.buckets[k].resetAt <= now
    <3>1. Bucket(s, k) = [count |-> 1, resetAt |-> now + Window]
      BY <2>1 DEF Bucket
    <3>2. ~(k \in DOMAIN l.buckets /\ l.buckets[k].resetAt > now)
      BY <1>2, <1>3, <1>5, <2>1
    <3>3. now + Window \in Ends /\ now + Window > now
      BY TimeFacts
    <3> QED  BY <3>1, <3>2, <3>3
  <2>2. CASE k \in DOMAIN s.buckets /\ ~(s.buckets[k].resetAt <= now)
    <3>1. Bucket(s, k) = [s.buckets[k] EXCEPT !.count = @ + 1]
      BY <2>2 DEF Bucket
    <3>2. s.buckets[k] = l.buckets[k] /\ k \in DOMAIN l.buckets /\ l.buckets[k].resetAt > now
      BY <1>2, <1>3, <1>5, <2>2
    <3>3. s.buckets[k] \in [count : Nat \ {0}, resetAt : Ends]
      BY <1>4, <2>2
    <3> QED  BY <3>1, <3>2, <3>3
  <2> QED  BY <2>1, <2>2
<1>7. /\ DOMAIN b = DOMAIN s.buckets \cup {k} /\ b[k] = Bucket(s, k)
      /\ \A j \in DOMAIN b \ {k} : j \in DOMAIN s.buckets /\ b[j] = s.buckets[j]
  OBVIOUS
<1>8. b \in Buckets
  <2>1. DOMAIN b \subseteq Key /\ b = [j \in DOMAIN b |-> b[j]]
    BY <1>4
  <2>2. \A j \in DOMAIN b : b[j] \in [count : Nat \ {0}, resetAt : Ends]
    BY <1>4, <1>6, <1>7
  <2> QED  BY <2>1, <2>2, BucketsType
<1> HIDE DEF b
<1>9. t \in LimiterRecord /\ t.buckets = b /\ t.degraded = s.degraded /\ t.retryAt = s.retryAt
      /\ t.sweptAt = s.sweptAt
  BY <1>2, <1>8 DEF LimiterRecord
<1> HIDE DEF t
<1>10. \A j \in DOMAIN b : s.sweptAt < b[j].resetAt /\ now < b[j].resetAt + Window
  <2>1. Bucket(s, k).resetAt \in Nat
    BY <1>6, TimeFacts
  <2> QED  BY <1>2, <1>3, <1>6, <1>7, <2>1
<1>11. \A j \in DOMAIN l.buckets \ DOMAIN b : l.buckets[j].resetAt <= now
  BY <1>2, <1>7
<1>12. \A j \in DOMAIN b \ {k} : j \in DOMAIN l.buckets /\ b[j] = l.buckets[j]
  BY <1>2, <1>7
<1> QED  BY <1>1, <1>2, <1>6, <1>7, <1>9, <1>10, <1>11, <1>12

-----------------------------------------------------------------------------
(* Counting.                                                               *)

LEMMA Requests ==
  ASSUME NEW S \in SUBSET Request
  PROVE  /\ IsFiniteSet(S) /\ Cardinality(S) \in Nat /\ Cardinality(S) <= MaxRequests
         /\ \A T \in SUBSET S : Cardinality(T) <= Cardinality(S) /\ Cardinality(T) \in Nat
         /\ \A q \in Request \ S : Cardinality(S \cup {q}) = Cardinality(S) + 1
         /\ \A q \in S : Cardinality(S \ {q}) = Cardinality(S) - 1
<1>1. IsFiniteSet(Request) /\ Cardinality(Request) = MaxRequests
  BY ConstantsFacts, FS_Interval DEF Request
<1>2. IsFiniteSet(S) /\ Cardinality(S) <= MaxRequests
  BY <1>1, FS_Subset
<1>3. Cardinality(S) \in Nat
  BY <1>2, FS_CardinalityType
<1>4. \A T \in SUBSET S : Cardinality(T) <= Cardinality(S) /\ Cardinality(T) \in Nat
  BY <1>2, FS_Subset, FS_CardinalityType
<1>5. \A q \in Request \ S : Cardinality(S \cup {q}) = Cardinality(S) + 1
  BY <1>2, FS_AddElement
<1>6. \A q \in S : Cardinality(S \ {q}) = Cardinality(S) - 1
  BY <1>2, FS_RemoveElement
<1> QED  BY <1>2, <1>3, <1>4, <1>5, <1>6

LEMMA CountedMeans ==
  ASSUME NEW k \in Key, NEW c \in Counter, NEW e \in Ends
  PROVE  /\ CountedIn(k, c, e) = {q \in Request : Counts(q, k, c) /\ WindowOf(q, c) = e}
         /\ CountedIn(k, c, e)' = {q \in Request : Counts(q, k, c)' /\ WindowOf(q, c)' = e}
         /\ CountedIn(k, c, e) \in SUBSET Request /\ CountedIn(k, c, e)' \in SUBSET Request
         /\ AdmittedIn(k, c, e) \subseteq CountedIn(k, c, e)
         /\ AdmittedIn(k, c, e)' \subseteq CountedIn(k, c, e)'
<1>1. e # None
  BY TimeFacts
<1> QED  BY <1>1 DEF CountedIn, Counts, WindowOf, AdmittedIn

LEMMA CountedWindow ==
  ASSUME IInv, NEW k \in Key, NEW c \in Counter, NEW q \in Request, Counts(q, k, c)
  PROVE  WindowOf(q, c) \in Ends /\ WindowOf(q, c) \in Nat
<1>1. call[q] \in CallRecord /\ CallOk(q, call[q])
  BY DEF IInv, Shapes, CallsInv
<1>2. CASE c = "redis"
  <2>1. call[q].ends # None /\ call[q].ends \in Ends \cup {None}
    BY <1>1, <1>2 DEF Counts, CallRecord
  <2> QED  BY <1>2, <2>1, TimeFacts DEF WindowOf
<1>3. CASE c # "redis"
  <2>1. call[q].by = c /\ c # None
    BY <1>3, ConstantsFacts DEF Counts, Counter
  <2>2. call[q].stage = "decided"
    BY <1>1, <2>1 DEF CallOk, CallRecord, Stage
  <2> QED  BY <1>1, <1>3, <2>2, TimeFacts DEF CallOk, WindowOf
<1> QED  BY <1>2, <1>3

(* The state of counter c for key k is as it was.                          *)
Kept(c, k) ==
  /\ Open(c, k)' <=> Open(c, k)
  /\ Open(c, k) \/ c = "redis" => EndOf(c, k)' = EndOf(c, k) /\ CountOf(c, k)' = CountOf(c, k)

(* What was counted, in which window, and who was admitted stays.          *)
LEMMA NothingCounted ==
  ASSUME IInv, now' \in Time, now <= now',
         \A c \in Counter, k \in Key :
           /\ Kept(c, k)
           /\ \A q \in Request :
                /\ Counts(q, k, c)' <=> Counts(q, k, c)
                /\ Counts(q, k, c) => WindowOf(q, c)' = WindowOf(q, c)
           /\ \A e \in Ends : AdmittedIn(k, c, e)' \subseteq AdmittedIn(k, c, e)
  PROVE  /\ CountersInv' /\ WindowsApart' /\ AdmittedInv'
         /\ \A c \in Counter, k \in Key, e \in Ends : CountedIn(k, c, e)' = CountedIn(k, c, e)
<1>1. \A c \in Counter, k \in Key, e \in Ends : CountedIn(k, c, e)' = CountedIn(k, c, e)
  <2> SUFFICES ASSUME NEW c \in Counter, NEW k \in Key, NEW e \in Ends
               PROVE  CountedIn(k, c, e)' = CountedIn(k, c, e)
    OBVIOUS
  <2>1. /\ CountedIn(k, c, e) = {q \in Request : Counts(q, k, c) /\ WindowOf(q, c) = e}
        /\ CountedIn(k, c, e)' = {q \in Request : Counts(q, k, c)' /\ WindowOf(q, c)' = e}
    BY CountedMeans
  <2>2. \A q \in Request : Counts(q, k, c)' /\ WindowOf(q, c)' = e
                          <=> Counts(q, k, c) /\ WindowOf(q, c) = e
    OBVIOUS
  <2> QED  BY <2>1, <2>2
<1>2. AdmittedInv'
  <2> SUFFICES ASSUME NEW c \in Counter, NEW k \in Key, NEW e \in Ends
               PROVE  Cardinality(AdmittedIn(k, c, e)') <= Limit[k]
    BY DEF AdmittedInv
  <2>1. AdmittedIn(k, c, e) \in SUBSET Request /\ Cardinality(AdmittedIn(k, c, e)) <= Limit[k]
        /\ Limit[k] \in Nat
    BY CountedMeans, ConstantsFacts DEF IInv, AdmittedInv
  <2>2. /\ Cardinality(AdmittedIn(k, c, e)') <= Cardinality(AdmittedIn(k, c, e))
        /\ Cardinality(AdmittedIn(k, c, e)') \in Nat /\ Cardinality(AdmittedIn(k, c, e)) \in Nat
    BY <2>1, Requests
  <2> QED  BY <2>1, <2>2
<1>3. WindowsApart'
  <2> SUFFICES ASSUME NEW c \in Counter, NEW k \in Key, NEW p \in Request, NEW q \in Request,
                      Counts(p, k, c)', Counts(q, k, c)', WindowOf(p, c)' < WindowOf(q, c)'
               PROVE  WindowOf(p, c)' + Window <= WindowOf(q, c)'
    BY DEF WindowsApart
  <2>1. Counts(p, k, c) /\ Counts(q, k, c)
        /\ WindowOf(p, c)' = WindowOf(p, c) /\ WindowOf(q, c)' = WindowOf(q, c)
    OBVIOUS
  <2> QED  BY <2>1 DEF IInv, WindowsApart
<1>4. CountersInv'
  <2> SUFFICES ASSUME NEW c \in Counter, NEW k \in Key PROVE CounterOk(c, k)'
    BY DEF CountersInv
  <2>1. Kept(c, k) /\ CounterOk(c, k) /\ Left(c, k)' = Left(c, k)
    BY DEF IInv, CountersInv, Left
  <2>2. ASSUME NEW e \in Ends, Open(c, k)', EndOf(c, k)' = e
        PROVE  /\ e <= now' + Window
               /\ Cardinality(CountedIn(k, c, e)') <= CountOf(c, k)'
               /\ CountOf(c, k)' <= Cardinality(CountedIn(k, c, e)') + Left(c, k)
    <3>1. /\ e <= now + Window /\ Cardinality(CountedIn(k, c, e)) <= CountOf(c, k)
          /\ CountOf(c, k) <= Cardinality(CountedIn(k, c, e)) + Left(c, k)
      BY <2>1, <2>2 DEF CounterOk, Kept
    <3>2. now \in Nat /\ now' \in Nat /\ e \in Nat
      BY TimeFacts DEF IInv, Shapes
    <3>3. e <= now' + Window
      BY <3>1, <3>2, ConstantsFacts
    <3>4. CountedIn(k, c, e)' = CountedIn(k, c, e) /\ CountOf(c, k)' = CountOf(c, k)
      BY <1>1, <2>1, <2>2 DEF Kept
    <3> QED  BY <3>1, <3>3, <3>4
  <2>3. ASSUME ~Open(c, k)', c = "redis" PROVE CountOf(c, k)' = Left(c, k)
    BY <2>1, <2>3 DEF CounterOk, Kept
  <2>4. ASSUME NEW q \in Request, Counts(q, k, c)'
        PROVE  IF Open(c, k)'
               THEN WindowOf(q, c)' = EndOf(c, k)' \/ WindowOf(q, c)' + Window <= EndOf(c, k)'
               ELSE c # "redis" /\ WindowOf(q, c)' <= now'
    <3>1. Counts(q, k, c) /\ WindowOf(q, c)' = WindowOf(q, c)
      BY <2>4
    <3>2. CASE Open(c, k)
      BY <2>1, <3>1, <3>2 DEF CounterOk, Kept
    <3>3. CASE ~Open(c, k)
      <4>1. c # "redis" /\ WindowOf(q, c) <= now /\ ~Open(c, k)'
        BY <2>1, <3>1, <3>3 DEF CounterOk, Kept
      <4>2. WindowOf(q, c) \in Nat
        BY <3>1, <4>1, CountedWindow
      <4>3. now \in Nat /\ now' \in Nat
        BY TimeFacts DEF IInv, Shapes
      <4> QED  BY <3>1, <4>1, <4>2, <4>3
    <3> QED  BY <3>2, <3>3
  <2> QED  BY <2>1, <2>2, <2>3, <2>4 DEF CounterOk
<1> QED  BY <1>1, <1>2, <1>3, <1>4

(* The windows of a counter for a key, old and new.                        *)
LEMMA CounterType ==
  ASSUME IInv, NEW c \in Counter, NEW k \in Key, Open(c, k)
  PROVE  EndOf(c, k) \in Ends /\ EndOf(c, k) \in Nat /\ CountOf(c, k) \in Nat
<1>1. CASE c = "redis"
  BY <1>1, TimeFacts DEF IInv, Shapes, Entry, Open, EndOf, CountOf
<1>2. CASE c # "redis"
  <2>1. c \in Replica /\ k \in DOMAIN limiter[c].buckets
    BY <1>2 DEF Counter, Open
  <2>2. limiter[c].buckets \in Buckets
    BY <2>1 DEF IInv, Shapes, LimiterRecord
  <2> QED  BY <1>2, <2>1, <2>2, BucketFields DEF EndOf, CountOf
<1> QED  BY <1>1, <1>2

(* Counter c goes on with its window for key k, or starts a new one.       *)
CountedHere(c, k, e) ==
  IF Open(c, k) /\ EndOf(c, k) = e THEN CountOf(c, k)' = CountOf(c, k) + 1
  ELSE /\ Open(c, k) => EndOf(c, k) <= now
       /\ e = now + Window
       /\ CountOf(c, k)' = 1 + (IF Open(c, k) THEN 0 ELSE Left(c, k))

NoneElseCounted(c, k, q) ==
  \A d \in Counter, j \in Key, p \in Request : ~(d = c /\ j = k /\ p = q) =>
    /\ Counts(p, j, d)' <=> Counts(p, j, d)
    /\ Counts(p, j, d) => WindowOf(p, d)' = WindowOf(p, d)

(* Other counters lose expired windows at most.                            *)
OthersKept(c, k) ==
  \A d \in Counter, j \in Key : ~(d = c /\ j = k) =>
    Kept(d, j) \/ (d # "redis" /\ Open(d, j) /\ ~Open(d, j)' /\ EndOf(d, j) <= now)

(* Nobody is admitted but by counter c, and there while the count allows.  *)
AdmittedHere(c, k, e) ==
  \A d \in Counter, j \in Key, f \in Ends :
    \/ AdmittedIn(j, d, f)' \subseteq AdmittedIn(j, d, f)
    \/ d = c /\ j = k /\ f = e /\ CountOf(c, k)' <= Limit[k]

(* Counter c counts request q for key k in the window that ends at e, its  *)
(* current one or a new one; other counters lose expired windows at most.  *)
LEMMA OneCounted ==
  ASSUME IInv, now' = now,
         NEW c \in Counter, NEW k \in Key, NEW q \in Request, NEW e \in Ends,
         now < e, e <= now + Window,
         ~Counts(q, k, c), Counts(q, k, c)', WindowOf(q, c)' = e,
         Open(c, k)', EndOf(c, k)' = e, CountedHere(c, k, e),
         NoneElseCounted(c, k, q), OthersKept(c, k), AdmittedHere(c, k, e)
  PROVE  /\ CountersInv' /\ WindowsApart' /\ AdmittedInv'
         /\ \A d \in Counter, j \in Key, f \in Ends :
              CountedIn(j, d, f) \subseteq CountedIn(j, d, f)'
         /\ Cardinality(CountedIn(k, c, e)' \ {q}) >= CountOf(c, k)' - 1 - Left(c, k)
<1> USE DEF CountedHere, NoneElseCounted, OthersKept, AdmittedHere
<1>1. now \in Nat /\ Window \in Nat \ {0} /\ e \in Nat /\ Left(c, k) \in Nat /\ Left(c, k)' = Left(c, k)
  BY ConstantsFacts, TimeFacts DEF IInv, Shapes, Left
<1>2. CounterOk(c, k)
  BY DEF IInv, CountersInv
<1>3. \A d \in Counter, j \in Key, f \in Ends : ~(d = c /\ j = k /\ f = e) =>
        CountedIn(j, d, f)' = CountedIn(j, d, f)
  <2> SUFFICES ASSUME NEW d \in Counter, NEW j \in Key, NEW f \in Ends, ~(d = c /\ j = k /\ f = e)
               PROVE  CountedIn(j, d, f)' = CountedIn(j, d, f)
    OBVIOUS
  <2>1. /\ CountedIn(j, d, f) = {p \in Request : Counts(p, j, d) /\ WindowOf(p, d) = f}
        /\ CountedIn(j, d, f)' = {p \in Request : Counts(p, j, d)' /\ WindowOf(p, d)' = f}
    BY CountedMeans
  <2>2. \A p \in Request : Counts(p, j, d)' /\ WindowOf(p, d)' = f
                          <=> Counts(p, j, d) /\ WindowOf(p, d) = f
    <3> SUFFICES ASSUME NEW p \in Request
                 PROVE  Counts(p, j, d)' /\ WindowOf(p, d)' = f
                          <=> Counts(p, j, d) /\ WindowOf(p, d) = f
      OBVIOUS
    <3>1. CASE d = c /\ j = k /\ p = q
      BY <3>1
    <3>2. CASE ~(d = c /\ j = k /\ p = q)
      BY <3>2
    <3> QED  BY <3>1, <3>2
  <2> QED  BY <2>1, <2>2
<1>4. /\ CountedIn(k, c, e)' = CountedIn(k, c, e) \cup {q} /\ q \notin CountedIn(k, c, e)
      /\ CountedIn(k, c, e) \in SUBSET Request
  <2>1. /\ CountedIn(k, c, e) = {p \in Request : Counts(p, k, c) /\ WindowOf(p, c) = e}
        /\ CountedIn(k, c, e)' = {p \in Request : Counts(p, k, c)' /\ WindowOf(p, c)' = e}
    BY CountedMeans
  <2>2. \A p \in Request : p # q => (Counts(p, k, c)' /\ WindowOf(p, c)' = e
                                    <=> Counts(p, k, c) /\ WindowOf(p, c) = e)
    OBVIOUS
  <2> QED  BY <2>1, <2>2
<1> DEFINE n == Cardinality(CountedIn(k, c, e))
<1>5. n \in Nat /\ Cardinality(CountedIn(k, c, e)') = n + 1
      /\ CountedIn(k, c, e)' \ {q} = CountedIn(k, c, e)
  BY <1>4, Requests
<1>6. n + 1 <= CountOf(c, k)' /\ CountOf(c, k)' <= n + 1 + Left(c, k)
  <2>1. CASE Open(c, k) /\ EndOf(c, k) = e
    <3>1. CountOf(c, k)' = CountOf(c, k) + 1 /\ CountOf(c, k) \in Nat
      BY <2>1, CounterType
    <3>2. n <= CountOf(c, k) /\ CountOf(c, k) <= n + Left(c, k)
      BY <1>2, <2>1 DEF CounterOk
    <3> QED  BY <1>1, <1>5, <3>1, <3>2
  <2>2. CASE ~(Open(c, k) /\ EndOf(c, k) = e)
    <3>1. /\ Open(c, k) => EndOf(c, k) <= now
          /\ e = now + Window /\ CountOf(c, k)' = 1 + (IF Open(c, k) THEN 0 ELSE Left(c, k))
      BY <2>2
    <3>2. \A p \in Request : ~(Counts(p, k, c) /\ WindowOf(p, c) = e)
      <4> SUFFICES ASSUME NEW p \in Request, Counts(p, k, c), WindowOf(p, c) = e PROVE FALSE
        OBVIOUS
      <4>1. CASE Open(c, k)
        <5>1. e = EndOf(c, k) \/ e + Window <= EndOf(c, k)
          BY <1>2, <4>1 DEF CounterOk
        <5>2. EndOf(c, k) <= now /\ EndOf(c, k) \in Nat
          BY <3>1, <4>1, CounterType
        <5> QED  BY <1>1, <5>1, <5>2
      <4>2. CASE ~Open(c, k)
        <5>1. e <= now
          BY <1>2, <4>2 DEF CounterOk
        <5> QED  BY <1>1, <5>1
      <4> QED  BY <4>1, <4>2
    <3>3. CountedIn(k, c, e) = {}
      BY <3>2, CountedMeans
    <3>4. n = 0
      BY <3>3, FS_EmptySet
    <3> QED  BY <1>1, <3>1, <3>4
  <2> QED  BY <2>1, <2>2
<1>7. CountOf(c, k)' \in Int
  <2>1. CASE Open(c, k) /\ EndOf(c, k) = e
    BY <2>1, CounterType
  <2>2. CASE ~(Open(c, k) /\ EndOf(c, k) = e)
    BY <2>2, <1>1
  <2> QED  BY <2>1, <2>2
<1> HIDE DEF n
<1>8. Cardinality(CountedIn(k, c, e)' \ {q}) >= CountOf(c, k)' - 1 - Left(c, k)
  <2>1. Cardinality(CountedIn(k, c, e)' \ {q}) = n
    BY <1>5 DEF n
  <2> QED  BY <1>1, <1>5, <1>6, <1>7, <2>1
<1>9. \A d \in Counter, j \in Key, f \in Ends : CountedIn(j, d, f) \subseteq CountedIn(j, d, f)'
  BY <1>3, <1>4
<1>10. AdmittedInv'
  <2> SUFFICES ASSUME NEW d \in Counter, NEW j \in Key, NEW f \in Ends
               PROVE  Cardinality(AdmittedIn(j, d, f)') <= Limit[j]
    BY DEF AdmittedInv
  <2>0. Limit[j] \in Nat
    BY ConstantsFacts
  <2>1. CASE AdmittedIn(j, d, f)' \subseteq AdmittedIn(j, d, f)
    <3>1. AdmittedIn(j, d, f) \in SUBSET Request /\ Cardinality(AdmittedIn(j, d, f)) <= Limit[j]
      BY CountedMeans DEF IInv, AdmittedInv
    <3>2. /\ Cardinality(AdmittedIn(j, d, f)') <= Cardinality(AdmittedIn(j, d, f))
          /\ Cardinality(AdmittedIn(j, d, f)') \in Nat /\ Cardinality(AdmittedIn(j, d, f)) \in Nat
      BY <2>1, <3>1, Requests
    <3> QED  BY <2>0, <3>1, <3>2
  <2>2. CASE d = c /\ j = k /\ f = e /\ CountOf(c, k)' <= Limit[k]
    <3>1. AdmittedIn(k, c, e)' \subseteq CountedIn(k, c, e)' /\ CountedIn(k, c, e)' \in SUBSET Request
      BY CountedMeans
    <3>2. /\ Cardinality(AdmittedIn(k, c, e)') <= Cardinality(CountedIn(k, c, e)')
          /\ Cardinality(AdmittedIn(k, c, e)') \in Nat
      BY <3>1, Requests
    <3> QED  BY <1>5, <1>6, <1>7, <2>0, <2>2, <3>2
  <2> QED  BY <2>1, <2>2
<1>11. \A p \in Request : Counts(p, k, c) =>
         WindowOf(p, c) \in Nat /\ (WindowOf(p, c) = e \/ WindowOf(p, c) + Window <= e)
  <2> SUFFICES ASSUME NEW p \in Request, Counts(p, k, c)
               PROVE  WindowOf(p, c) \in Nat /\ (WindowOf(p, c) = e \/ WindowOf(p, c) + Window <= e)
    OBVIOUS
  <2>1. WindowOf(p, c) \in Nat
    BY CountedWindow
  <2>2. CASE Open(c, k)
    <3>1. EndOf(c, k) \in Nat /\ (WindowOf(p, c) = EndOf(c, k) \/ WindowOf(p, c) + Window <= EndOf(c, k))
      BY <1>2, <2>2, CounterType DEF CounterOk
    <3>2. EndOf(c, k) = e \/ (EndOf(c, k) <= now /\ e = now + Window)
      BY <2>2
    <3> QED  BY <1>1, <2>1, <3>1, <3>2
  <2>3. CASE ~Open(c, k)
    BY <1>1, <1>2, <2>1, <2>3 DEF CounterOk
  <2> QED  BY <2>2, <2>3
<1>12. WindowsApart'
  <2> SUFFICES ASSUME NEW d \in Counter, NEW j \in Key, NEW p \in Request, NEW r \in Request,
                      Counts(p, j, d)', Counts(r, j, d)', WindowOf(p, d)' < WindowOf(r, d)'
               PROVE  WindowOf(p, d)' + Window <= WindowOf(r, d)'
    BY DEF WindowsApart
  <2>1. CASE ~(d = c /\ j = k /\ (p = q \/ r = q))
    <3>1. Counts(p, j, d) /\ Counts(r, j, d)
          /\ WindowOf(p, d)' = WindowOf(p, d) /\ WindowOf(r, d)' = WindowOf(r, d)
      BY <2>1
    <3> QED  BY <3>1 DEF IInv, WindowsApart
  <2>2. CASE d = c /\ j = k /\ r = q /\ p # q
    <3>1. Counts(p, k, c) /\ WindowOf(p, c)' = WindowOf(p, c)
      BY <2>2
    <3> QED  BY <1>1, <1>11, <2>2, <3>1
  <2>3. CASE d = c /\ j = k /\ p = q /\ r # q
    <3>1. Counts(r, k, c) /\ WindowOf(r, c)' = WindowOf(r, c)
      BY <2>3
    <3> QED  BY <1>1, <1>11, <2>3, <3>1
  <2>4. CASE p = q /\ r = q
    <3>1. WindowOf(q, d)' \in Int
      BY <1>1, <2>4, CountedWindow
    <3> QED  BY <2>4, <3>1
  <2> QED  BY <2>1, <2>2, <2>3, <2>4
<1>13. CountersInv'
  <2> SUFFICES ASSUME NEW d \in Counter, NEW j \in Key PROVE CounterOk(d, j)'
    BY DEF CountersInv
  <2>1. CASE d = c /\ j = k
    <3>1. \A f \in Ends : Open(c, k)' /\ EndOf(c, k)' = f =>
            /\ f <= now' + Window
            /\ Cardinality(CountedIn(k, c, f)') <= CountOf(c, k)'
            /\ CountOf(c, k)' <= Cardinality(CountedIn(k, c, f)') + Left(c, k)
      BY <1>5, <1>6
    <3>2. \A p \in Request : Counts(p, k, c)' =>
            IF Open(c, k)' THEN WindowOf(p, c)' = EndOf(c, k)' \/ WindowOf(p, c)' + Window <= EndOf(c, k)'
            ELSE c # "redis" /\ WindowOf(p, c)' <= now'
      <4> SUFFICES ASSUME NEW p \in Request, Counts(p, k, c)'
                   PROVE  WindowOf(p, c)' = e \/ WindowOf(p, c)' + Window <= e
        OBVIOUS
      <4> QED  BY <1>11
    <3> QED  BY <1>1, <2>1, <3>1, <3>2 DEF CounterOk
  <2>2. CASE ~(d = c /\ j = k)
    <3>1. /\ \A p \in Request : /\ Counts(p, j, d)' <=> Counts(p, j, d)
                               /\ Counts(p, j, d) => WindowOf(p, d)' = WindowOf(p, d)
          /\ \A f \in Ends : CountedIn(j, d, f)' = CountedIn(j, d, f)
      BY <1>3, <2>2
    <3>2. CounterOk(d, j) /\ Left(d, j)' = Left(d, j)
      BY DEF IInv, CountersInv, Left
    <3>3. CASE Kept(d, j)
      BY <3>1, <3>2, <3>3 DEF CounterOk, Kept
    <3>4. CASE d # "redis" /\ Open(d, j) /\ ~Open(d, j)' /\ EndOf(d, j) <= now
      <4>1. \A p \in Request : Counts(p, j, d) => WindowOf(p, d) <= now
        <5> SUFFICES ASSUME NEW p \in Request, Counts(p, j, d) PROVE WindowOf(p, d) <= now
          OBVIOUS
        <5>1. WindowOf(p, d) \in Nat /\ EndOf(d, j) \in Nat
          BY <3>4, CountedWindow, CounterType
        <5>2. WindowOf(p, d) = EndOf(d, j) \/ WindowOf(p, d) + Window <= EndOf(d, j)
          BY <3>2, <3>4 DEF CounterOk
        <5> QED  BY <1>1, <3>4, <5>1, <5>2
      <4> QED  BY <3>1, <3>4, <4>1 DEF CounterOk
    <3> QED  BY <2>2, <3>3, <3>4
  <2> QED  BY <2>1, <2>2
<1> QED  BY <1>8, <1>9, <1>10, <1>12, <1>13

-----------------------------------------------------------------------------
(* The steps.                                                              *)

(* A refusal stays earned: nobody who was counted is forgotten.            *)
LEMMA RefusedKept ==
  ASSUME IInv, NEW q \in Request, call'[q] = call[q],
         \A c \in Counter, k \in Key, e \in Ends : CountedIn(k, c, e) \subseteq CountedIn(k, c, e)'
  PROVE  RefusedOk(q)'
<1>1. RefusedOk(q) /\ CallOk(q, call[q]) /\ call[q] \in CallRecord
  BY DEF IInv, RefusedInv, CallsInv, Shapes
<1>2. \A c \in Counter, k \in Key, e \in Ends :
        /\ Cardinality(CountedIn(k, c, e) \ {q}) \in Nat
        /\ Cardinality(CountedIn(k, c, e)' \ {q}) \in Nat
        /\ Cardinality(CountedIn(k, c, e) \ {q}) <= Cardinality(CountedIn(k, c, e)' \ {q})
  <2> SUFFICES ASSUME NEW c \in Counter, NEW k \in Key, NEW e \in Ends
               PROVE  /\ Cardinality(CountedIn(k, c, e) \ {q}) \in Nat
                      /\ Cardinality(CountedIn(k, c, e)' \ {q}) \in Nat
                      /\ Cardinality(CountedIn(k, c, e) \ {q}) <= Cardinality(CountedIn(k, c, e)' \ {q})
    OBVIOUS
  <2>1. CountedIn(k, c, e)' \ {q} \in SUBSET Request
        /\ CountedIn(k, c, e) \ {q} \in SUBSET (CountedIn(k, c, e)' \ {q})
    BY CountedMeans
  <2> QED  BY <2>1, Requests
<1> SUFFICES ASSUME NEW c \in Counter, NEW k \in Key \ Unexpiring, NEW e \in Ends, call[q].key = k
             PROVE  /\ call[q].stage = "asked" /\ ~call[q].running /\ c = "redis" /\ call[q].ends = e =>
                         Cardinality(CountedIn(k, c, e)' \ {q}) >= call[q].counted - 1
                    /\ /\ call[q].stage = "decided" /\ ~call[q].allowed
                       /\ call[q].by = c /\ call[q].window = e
                       => Cardinality(CountedIn(k, c, e)' \ {q}) >= Limit[k]
  BY DEF RefusedOk
<1>3. /\ call[q].stage = "asked" /\ ~call[q].running /\ c = "redis" /\ call[q].ends = e =>
           Cardinality(CountedIn(k, c, e) \ {q}) >= call[q].counted - 1
      /\ /\ call[q].stage = "decided" /\ ~call[q].allowed
         /\ call[q].by = c /\ call[q].window = e
         => Cardinality(CountedIn(k, c, e) \ {q}) >= Limit[k]
  BY <1>1 DEF RefusedOk
<1>4. Limit[k] \in Nat /\ call[q].counted \in Nat
  <2>1. call[q].counted \in Nat
    BY <1>1 DEF CallRecord
  <2>2. Limit[k] \in Nat
    BY ConstantsFacts
  <2> QED  BY <2>1, <2>2
<1>5. /\ Cardinality(CountedIn(k, c, e) \ {q}) \in Nat
      /\ Cardinality(CountedIn(k, c, e)' \ {q}) \in Nat
      /\ Cardinality(CountedIn(k, c, e) \ {q}) <= Cardinality(CountedIn(k, c, e)' \ {q})
  BY <1>2
<1> QED  BY <1>3, <1>4, <1>5

(* A call moves on without being counted: it is asked, or what Redis       *)
(* counted decides it.                                                     *)
LEMMA CallMoves ==
  ASSUME IInv, now' = now, NEW q \in Request, NEW d \in CallRecord, call' = [call EXCEPT ![q] = d],
         \A c \in Counter, k \in Key : Kept(c, k),
         call[q].by = None, d.by \in {None, "redis"}, d.ends = call[q].ends,
         d.key = call[q].key \/ d.ends = None,
         CallOk(q, d), d.stage = "asked" => d.running,
         d.by = "redis" /\ d.allowed =>
           /\ call[q].stage = "asked" /\ ~call[q].running
           /\ call[q].counted <= Limit[call[q].key],
         d.stage = "decided" /\ ~d.allowed => \A k \in Key \ Unexpiring, e \in Ends :
           d.key = k /\ d.window = e => Cardinality(CountedIn(k, "redis", e) \ {q}) >= Limit[k]
  PROVE  CallsInv' /\ CountersInv' /\ WindowsApart' /\ AdmittedInv' /\ RefusedInv'
<1>1. \A p \in Request : call'[p] = IF p = q THEN d ELSE call[p]
  BY DEF IInv, Shapes
<1>2. None \notin Counter /\ now' \in Time /\ now <= now' /\ None \notin Ends
  BY ConstantsFacts, TimeFacts DEF Counter, IInv, Shapes
<1>3. \A c \in Counter, k \in Key, p \in Request :
        /\ Counts(p, k, c)' <=> Counts(p, k, c)
        /\ Counts(p, k, c) => WindowOf(p, c)' = WindowOf(p, c)
  <2> SUFFICES ASSUME NEW c \in Counter, NEW k \in Key, NEW p \in Request
               PROVE  /\ Counts(p, k, c)' <=> Counts(p, k, c)
                      /\ Counts(p, k, c) => WindowOf(p, c)' = WindowOf(p, c)
    OBVIOUS
  <2>1. CASE p # q
    BY <1>1, <2>1 DEF Counts, WindowOf
  <2>2. CASE p = q
    BY <1>1, <1>2, <2>2 DEF Counts, WindowOf
  <2> QED  BY <2>1, <2>2
<1>4. \A c \in Counter, k \in Key, e \in Ends : AdmittedIn(k, c, e)' \subseteq AdmittedIn(k, c, e)
  <2> SUFFICES ASSUME NEW c \in Counter, NEW k \in Key, NEW e \in Ends,
                      NEW p \in AdmittedIn(k, c, e)'
               PROVE  p \in AdmittedIn(k, c, e)
    OBVIOUS
  <2>1. p \in Request /\ Counts(p, k, c)' /\ WindowOf(p, c)' = e
    BY CountedMeans
  <2>2. p \in CountedIn(k, c, e)
    BY <1>3, <2>1, CountedMeans
  <2>3. CASE p # q
    BY <1>1, <2>1, <2>2, <2>3 DEF AdmittedIn
  <2>4. CASE p = q
    <3>1. d.by = c /\ d.allowed
      BY <1>1, <2>1, <2>4 DEF AdmittedIn
    <3>2. c = "redis" /\ call[q].key = k
      BY <1>2, <2>2, <2>4, <3>1 DEF CountedIn
    <3> QED  BY <2>2, <2>4, <3>1, <3>2 DEF AdmittedIn
  <2> QED  BY <2>3, <2>4
<1>5. /\ CountersInv' /\ WindowsApart' /\ AdmittedInv'
      /\ \A c \in Counter, k \in Key, e \in Ends : CountedIn(k, c, e)' = CountedIn(k, c, e)
  BY <1>2, <1>3, <1>4, NothingCounted
<1>6. CallsInv'
  <2> SUFFICES ASSUME NEW p \in Request PROVE CallOk(p, call[p])'
    BY DEF CallsInv
  <2>1. CallOk(p, call[p])
    BY DEF IInv, CallsInv
  <2>2. CASE p = q
    BY <1>1, <2>2 DEF CallOk
  <2>3. CASE p # q
    BY <1>1, <2>1, <2>3 DEF CallOk
  <2> QED  BY <2>2, <2>3
<1>7. RefusedInv'
  <2> SUFFICES ASSUME NEW p \in Request PROVE RefusedOk(p)'
    BY DEF RefusedInv
  <2>1. CASE p # q
    <3>1. call'[p] = call[p]
      BY <1>1, <2>1
    <3> QED  BY <1>5, <3>1, RefusedKept
  <2>2. CASE p = q
    <3> SUFFICES ASSUME NEW c \in Counter, NEW k \in Key \ Unexpiring, NEW e \in Ends,
                        call'[p].key = k, call'[p].stage = "decided", ~call'[p].allowed,
                        call'[p].by = c, call'[p].window = e
                 PROVE  Cardinality(CountedIn(k, c, e)' \ {p}) >= Limit[k]
      BY <1>1, <2>2 DEF RefusedOk
    <3>1. c = "redis" /\ d.key = k /\ d.window = e /\ d.stage = "decided" /\ ~d.allowed
      BY <1>1, <1>2, <2>2
    <3>2. Cardinality(CountedIn(k, c, e) \ {q}) >= Limit[k]
      BY <3>1
    <3> QED  BY <1>5, <2>2, <3>2
  <2> QED  BY <2>1, <2>2
<1> QED  BY <1>5, <1>6, <1>7

LEMMA TickStep ==
  ASSUME IInv, Tick
  PROVE  IInv'
<1>1. /\ now' = now + 1 /\ now < MaxTime /\ UNCHANGED <<distributed, redis, limiter, call>>
      /\ now \in Time
  BY DEF Tick, IInv, Shapes
<1>2. now' \in Time /\ now <= now' /\ now \in Nat /\ now' \in Nat
  BY <1>1, ConstantsFacts DEF Time
<1>3. Shapes'
  BY <1>1, <1>2 DEF IInv, Shapes
<1>4. LimitersInv'
  <2> SUFFICES ASSUME NEW r \in Replica
               PROVE  /\ limiter[r].retryAt <= now' + Cooldown /\ limiter[r].sweptAt <= now'
                      /\ \A k \in DOMAIN limiter[r].buckets :
                           limiter[r].sweptAt < limiter[r].buckets[k].resetAt
    BY <1>1 DEF LimitersInv
  <2>1. limiter[r].retryAt \in Int /\ limiter[r].sweptAt \in {0} \cup Time
    BY DEF IInv, Shapes, LimiterRecord
  <2>2. limiter[r].sweptAt \in Nat
    BY <2>1, TimeFacts, Zenon
  <2>3. /\ limiter[r].retryAt <= now + Cooldown /\ limiter[r].sweptAt <= now
        /\ \A k \in DOMAIN limiter[r].buckets :
             limiter[r].sweptAt < limiter[r].buckets[k].resetAt
    BY DEF IInv, LimitersInv
  <2> QED  BY <1>1, <1>2, <2>1, <2>2, <2>3, ConstantsFacts
<1>5. CallsInv'
  <2> SUFFICES ASSUME NEW q \in Request PROVE CallOk(q, call[q])'
    BY DEF CallsInv
  <2>1. CallOk(q, call[q]) /\ call[q] \in CallRecord
    BY DEF IInv, CallsInv, Shapes
  <2>2. call[q].at \in Nat /\ call[q].ends \in Nat \cup {None}
    <3>1. call[q].at \in {0} \cup Time
      BY <2>1 DEF CallRecord
    <3>2. call[q].ends \in Ends \cup {None}
      BY <2>1 DEF CallRecord
    <3> QED  BY <3>1, <3>2, TimeFacts, Zenon
  <2> QED  BY <1>1, <1>2, <2>1, <2>2 DEF CallOk
<1>6. /\ CountersInv' /\ WindowsApart' /\ AdmittedInv'
      /\ \A c \in Counter, k \in Key, e \in Ends : CountedIn(k, c, e)' = CountedIn(k, c, e)
  <2>1. \A c \in Counter, k \in Key :
          /\ Kept(c, k)
          /\ \A q \in Request :
               /\ Counts(q, k, c)' <=> Counts(q, k, c)
               /\ Counts(q, k, c) => WindowOf(q, c)' = WindowOf(q, c)
          /\ \A e \in Ends : AdmittedIn(k, c, e)' \subseteq AdmittedIn(k, c, e)
    BY <1>1 DEF Kept, Open, EndOf, CountOf, Counts, WindowOf, AdmittedIn, CountedIn
  <2> QED  BY <1>2, <2>1, NothingCounted
<1>7. RefusedInv'
  <2> SUFFICES ASSUME NEW q \in Request PROVE RefusedOk(q)'
    BY DEF RefusedInv
  <2> QED  BY <1>1, <1>6, RefusedKept
<1> QED  BY <1>3, <1>4, <1>5, <1>6, <1>7 DEF IInv

LEMMA ForeignStep ==
  ASSUME IInv, NEW q \in Arriving, RefuseForeign(q)
  PROVE  IInv'
<1> DEFINE d == [call[q] EXCEPT !.stage = "foreign"]
<1>1. /\ q \in Request /\ call[q].stage = "none" /\ call[q] \in CallRecord /\ CallOk(q, call[q])
      /\ call' = [call EXCEPT ![q] = d] /\ now' = now
      /\ distributed' = distributed /\ redis' = redis /\ limiter' = limiter
  BY DEF Arriving, RefuseForeign, IInv, Shapes, CallsInv
<1>2. /\ d \in CallRecord /\ d.stage = "foreign" /\ d.by = call[q].by /\ d.ends = call[q].ends
      /\ d.key = call[q].key /\ d.running = call[q].running
  BY <1>1 DEF CallRecord, Stage
<1> HIDE DEF d
<1>3. d.by = None /\ d.ends = None /\ ~d.running /\ call[q].by = None
  BY <1>1, <1>2 DEF CallOk
<1>4. \A c \in Counter, k \in Key : Kept(c, k)
  BY <1>1 DEF Kept, Open, EndOf, CountOf
<1>5. CallOk(q, d)
  BY <1>2, <1>3 DEF CallOk
<1>6. None # "redis"
  BY ConstantsFacts
<1>7. CallsInv' /\ CountersInv' /\ WindowsApart' /\ AdmittedInv' /\ RefusedInv'
  BY <1>1, <1>2, <1>3, <1>4, <1>5, <1>6, CallMoves
<1>8. Shapes' /\ LimitersInv'
  BY <1>1, <1>2 DEF IInv, Shapes, LimitersInv
<1> QED  BY <1>7, <1>8 DEF IInv

LEMMA AskStep ==
  ASSUME IInv, NEW q \in Arriving, NEW r \in Replica, NEW k \in Key, AskRedis(q, r, k)
  PROVE  IInv'
<1> DEFINE d == [call[q] EXCEPT !.stage = "asked", !.replica = r, !.key = k, !.at = now,
                                !.running = TRUE]
<1>1. /\ q \in Request /\ call[q].stage = "none" /\ call[q] \in CallRecord /\ CallOk(q, call[q])
      /\ call' = [call EXCEPT ![q] = d] /\ now' = now /\ now \in Time
      /\ distributed' = distributed /\ redis' = redis /\ limiter' = limiter
  BY DEF Arriving, AskRedis, IInv, Shapes, CallsInv
<1>2. /\ d \in CallRecord /\ d.stage = "asked" /\ d.by = call[q].by /\ d.ends = call[q].ends
      /\ d.key = k /\ d.running /\ d.replica = r /\ d.at = now
  BY <1>1 DEF CallRecord, Stage
<1> HIDE DEF d
<1>3. d.by = None /\ d.ends = None /\ call[q].by = None /\ None # "redis" /\ now <= now
  BY <1>1, <1>2, ConstantsFacts, TimeFacts DEF CallOk
<1>4. \A c \in Counter, j \in Key : Kept(c, j)
  BY <1>1 DEF Kept, Open, EndOf, CountOf
<1>5. CallOk(q, d)
  BY <1>2, <1>3 DEF CallOk
<1>7. CallsInv' /\ CountersInv' /\ WindowsApart' /\ AdmittedInv' /\ RefusedInv'
  BY <1>1, <1>2, <1>3, <1>4, <1>5, CallMoves
<1>8. Shapes' /\ LimitersInv'
  BY <1>1, <1>2 DEF IInv, Shapes, LimitersInv
<1> QED  BY <1>7, <1>8 DEF IInv

(* Redis decides: a refusal invites the caller when its window is over.    *)
LEMMA AnswerStep ==
  ASSUME IInv, NEW q \in Request, Answer(q)
  PROVE  IInv'
<1> DEFINE c == call[q]
           r == c.replica
           d == DecidedByRedis(c)
           allowed == c.counted <= Limit[c.key]
           retryAfter == MaxOf(1, Seconds(c.ttl))
           l == [limiter[r] EXCEPT !.degraded = FALSE]
<1>1. /\ c.stage = "asked" /\ ~c.running /\ c \in CallRecord /\ CallOk(q, c)
      /\ call' = [call EXCEPT ![q] = d] /\ now' = now /\ now \in Time
      /\ distributed' = distributed /\ redis' = redis /\ limiter' = [limiter EXCEPT ![r] = l]
  BY DEF Answer, IInv, Shapes, CallsInv
<1>2. /\ c.key \in Key /\ r \in Replica /\ c.by = None /\ c.ends \in Ends
      /\ c.ttl \in Nat \ {0} /\ c.ends <= now + c.ttl /\ c.counted \in Nat
  <2>1. c.ends \in Ends \cup {None}
    BY <1>1 DEF CallRecord
  <2> QED  BY <1>1, <2>1 DEF CallOk
<1>3. retryAfter \in Int /\ c.ttl <= Second * retryAfter
  <2>1. Seconds(c.ttl) \in Int /\ c.ttl <= Second * Seconds(c.ttl)
    BY <1>2, RoundedUp
  <2>2. Second * 1 = Second /\ Second \in Nat
    BY ConstantsFacts
  <2>3. CASE 1 > Seconds(c.ttl)
    <3>1. Second * Seconds(c.ttl) <= 0
      BY <2>1, <2>2, <2>3
    <3> QED  BY <1>2, <2>1, <2>2, <3>1
  <2>4. CASE ~(1 > Seconds(c.ttl))
    BY <2>1, <2>4 DEF MaxOf
  <2> QED  BY <2>3, <2>4
<1>4. "redis" \in Counter /\ allowed \in BOOLEAN /\ now \in Nat
  BY <1>1, TimeFacts DEF Counter
<1> HIDE DEF c, allowed, retryAfter
<1>5. /\ d \in CallRecord /\ d.stage = "decided" /\ d.by = "redis" /\ d.window = c.ends
      /\ d.allowed = allowed /\ d.key = c.key /\ d.running = c.running /\ d.ends = c.ends
      /\ ~allowed => d.retry = now + Second * retryAfter
  <2>1. d = Decided(c, "redis", c.ends, allowed, retryAfter)
    BY DEF DecidedByRedis, allowed, retryAfter
  <2> QED  BY <1>1, <1>2, <1>3, <1>4, <2>1, DecidedCall
<1> HIDE DEF d
<1>6. CallOk(q, d)
  <2>1. ~d.allowed => d.retry \in Int /\ c.ends <= d.retry
    <3>1. c.ends \in Nat /\ Second * retryAfter \in Int
      <4>1. c.ends \in Nat
        BY <1>2, TimeFacts, Zenon
      <4>2. Second \in Int
        BY ConstantsFacts
      <4> QED  BY <1>3, <4>1, <4>2
    <3> QED  BY <1>2, <1>3, <1>4, <1>5, <3>1
  <2> QED  BY <1>1, <1>2, <1>4, <1>5, <2>1 DEF CallOk
<1>7. /\ l \in LimiterRecord /\ l.buckets = limiter[r].buckets /\ l.retryAt = limiter[r].retryAt
      /\ l.sweptAt = limiter[r].sweptAt
  <2>1. limiter[r] \in LimiterRecord
    BY <1>2 DEF IInv, Shapes
  <2> QED  BY <2>1 DEF LimiterRecord
<1> HIDE DEF l
<1>8. \A s \in Replica : /\ limiter'[s].buckets = limiter[s].buckets
                         /\ limiter'[s].retryAt = limiter[s].retryAt
                         /\ limiter'[s].sweptAt = limiter[s].sweptAt
  BY <1>1, <1>2, <1>7 DEF IInv, Shapes
<1>9. \A e \in Counter, k \in Key : Kept(e, k)
  BY <1>1, <1>8 DEF Kept, Open, EndOf, CountOf, Counter
<1>10. d.stage = "decided" /\ ~d.allowed => \A k \in Key \ Unexpiring, e \in Ends :
         d.key = k /\ d.window = e => Cardinality(CountedIn(k, "redis", e) \ {q}) >= Limit[k]
  <2> SUFFICES ASSUME ~d.allowed, NEW k \in Key \ Unexpiring, NEW e \in Ends,
                      d.key = k, d.window = e
               PROVE  Cardinality(CountedIn(k, "redis", e) \ {q}) >= Limit[k]
    OBVIOUS
  <2>1. RefusedOk(q)
    BY DEF IInv, RefusedInv
  <2>2. Cardinality(CountedIn(k, "redis", e) \ {q}) >= c.counted - 1
    BY <1>1, <1>4, <1>5, <2>1 DEF RefusedOk, c
  <2>3. ~(c.counted <= Limit[k]) /\ Limit[k] \in Nat
    BY <1>5, ConstantsFacts DEF allowed
  <2>4. CountedIn(k, "redis", e) \ {q} \in SUBSET Request
    BY <1>4, CountedMeans
  <2>5. Cardinality(CountedIn(k, "redis", e) \ {q}) \in Nat
    BY <2>4, Requests
  <2> QED  BY <1>2, <2>2, <2>3, <2>5
<1>11. CallsInv' /\ CountersInv' /\ WindowsApart' /\ AdmittedInv' /\ RefusedInv'
  <2>1. d.allowed => c.counted <= Limit[c.key]
    BY <1>5 DEF allowed
  <2>2. d.by \in {None, "redis"} /\ d.ends = call[q].ends /\ d.key = call[q].key /\ d.stage # "asked"
        /\ call[q].by = None /\ call[q].stage = "asked" /\ ~call[q].running
        /\ (d.allowed => call[q].counted <= Limit[call[q].key])
    BY <1>1, <1>2, <1>5, <2>1 DEF c
  <2> QED  BY <1>1, <1>5, <1>6, <1>9, <1>10, <2>2, CallMoves
<1>12. Shapes'
  BY <1>1, <1>2, <1>5, <1>7 DEF IInv, Shapes
<1>13. LimitersInv'
  BY <1>1, <1>8 DEF IInv, LimitersInv
<1> QED  BY <1>11, <1>12, <1>13 DEF IInv

(* The script counts a request, in the current window or a new one.        *)
LEMMA ScriptEntry ==
  ASSUME NEW entry \in Entry, now \in Time
  PROVE  LET after == Armed(Incremented(entry)) IN
         /\ after \in Entry /\ after.until \in Ends
         /\ IF entry.until # None /\ entry.until > now
            THEN after.until = entry.until /\ after.count = entry.count + 1
            ELSE after.until = now + Window
                 /\ after.count = 1 + (IF entry.until = None THEN entry.count ELSE 0)
<1> DEFINE one == Incremented(entry)
           after == Armed(one)
<1>1. entry.count \in Nat /\ entry.until \in Ends \cup {None} /\ now \in Nat /\ None \notin Ends
      /\ now + Window \in Ends
  BY TimeFacts DEF Entry
<1>2. CASE entry.until # None /\ entry.until > now
  <2>1. entry.until \in Nat
    BY <1>1, <1>2, TimeFacts
  <2>2. ~Lapsed(entry)
    BY <1>1, <1>2, <2>1 DEF Lapsed
  <2>3. one = [entry EXCEPT !.count = @ + 1]
    BY <2>2 DEF Incremented
  <2>4. one.count = entry.count + 1 /\ one.until = entry.until /\ one \in Entry
    BY <1>1, <2>3 DEF Entry
  <2> HIDE DEF one
  <2>5. after = one
    BY <1>2, <2>4 DEF Armed
  <2> QED  BY <1>1, <1>2, <2>4, <2>5 DEF one
<1>3. CASE ~(entry.until # None /\ entry.until > now)
  <2>1. /\ one \in Entry /\ one.until = None
        /\ one.count = 1 + (IF entry.until = None THEN entry.count ELSE 0)
    <3>1. CASE entry.until = None
      <4>1. one = [entry EXCEPT !.count = @ + 1]
        BY <3>1 DEF Incremented, Lapsed
      <4> QED  BY <1>1, <3>1, <4>1 DEF Entry
    <3>2. CASE entry.until # None
      <4>1. entry.until \in Nat
        BY <1>1, <3>2, TimeFacts
      <4>2. Lapsed(entry)
        BY <1>1, <1>3, <3>2, <4>1 DEF Lapsed
      <4>3. one = [count |-> 1, until |-> None]
        BY <4>2 DEF Incremented
      <4> QED  BY <3>2, <4>3 DEF Entry
    <3> QED  BY <3>1, <3>2
  <2> HIDE DEF one
  <2>2. after = [one EXCEPT !.until = now + Window]
    BY <2>1 DEF Armed
  <2>3. after \in Entry /\ after.until = now + Window /\ after.count = one.count
    BY <1>1, <2>1, <2>2 DEF Entry
  <2> QED  BY <1>1, <1>3, <2>1, <2>3 DEF one
<1> QED  BY <1>2, <1>3

LEMMA ExecuteStep ==
  ASSUME IInv, NEW q \in Request, Execute(q)
  PROVE  IInv'
<1>1. /\ call[q].running /\ call[q] \in CallRecord /\ CallOk(q, call[q])
      /\ now \in Time /\ now \in Nat
      /\ now' = now /\ distributed' = distributed /\ limiter' = limiter
  BY TimeFacts DEF Execute, IInv, Shapes, CallsInv
<1>2. /\ call[q].ends = None /\ call[q].stage \in {"asked", "decided"} /\ call[q].key \in Key
  BY <1>1 DEF CallOk, CallRecord, Stage
<1>key. PICK k \in Key : k = call[q].key
  BY <1>2
<1>before. PICK c \in CallRecord : c = call[q]
  BY <1>1
<1>3. redis[k] \in Entry /\ redis \in [Key -> Entry]
  BY <1>2 DEF IInv, Shapes
<1>entry. PICK entry \in Entry : entry = Script(k)
  <2>1. Script(k) \in Entry
    BY <1>1, <1>3, ScriptEntry DEF Script
  <2> QED  BY <2>1
<1>4. /\ entry.until \in Ends /\ entry.until \in Nat /\ entry.count \in Nat
      /\ IF redis[k].until # None /\ redis[k].until > now
         THEN entry.until = redis[k].until /\ entry.count = redis[k].count + 1
         ELSE entry.until = now + Window
              /\ entry.count = 1 + (IF redis[k].until = None THEN redis[k].count ELSE 0)
  <2>1. /\ entry.until \in Ends
        /\ IF redis[k].until # None /\ redis[k].until > now
           THEN entry.until = redis[k].until /\ entry.count = redis[k].count + 1
           ELSE entry.until = now + Window
                /\ entry.count = 1 + (IF redis[k].until = None THEN redis[k].count ELSE 0)
    BY <1>1, <1>3, <1>entry, ScriptEntry DEF Script
  <2>2. entry.until \in Nat /\ entry.count \in Nat
    BY <2>1, TimeFacts DEF Entry
  <2> QED  BY <2>1, <2>2
<1>5. PICK e \in Ends : e = entry.until
  BY <1>4
<1>6. e \in Nat /\ now < e /\ e <= now + Window /\ Window \in Nat
  <2>1. CounterOk("redis", k) /\ "redis" \in Counter
    BY <1>2 DEF IInv, CountersInv, Counter
  <2>2. CASE redis[k].until # None /\ redis[k].until > now
    BY <1>4, <1>5, <2>1, <2>2, ConstantsFacts DEF CounterOk, Open, EndOf
  <2>3. CASE ~(redis[k].until # None /\ redis[k].until > now)
    BY <1>1, <1>4, <1>5, <2>3, ConstantsFacts
  <2> QED  BY <2>2, <2>3
<1>7. PICK ttl \in Nat \ {0} : ttl = e - now
  BY <1>1, <1>6
<1>after. PICK d : d = [c EXCEPT !.running = FALSE, !.ends = e, !.counted = entry.count, !.ttl = ttl]
  OBVIOUS
<1>update. redis' = [redis EXCEPT ![k] = entry] /\ call' = [call EXCEPT ![q] = d]
  <2>1. entry.until # None
    BY <1>4, TimeFacts
  <2>2. ttl = IF entry.until = None THEN -1 ELSE entry.until - now
    BY <1>5, <1>7, <2>1
  <2> QED  BY <1>key, <1>before, <1>entry, <1>5, <1>after, <2>2 DEF Execute
<1>8. /\ d \in CallRecord /\ ~d.running /\ d.ends = e /\ d.counted = entry.count /\ d.ttl = ttl
      /\ d.stage = c.stage /\ d.key = k /\ d.by = c.by /\ d.window = c.window
      /\ d.allowed = c.allowed /\ d.retry = c.retry /\ d.replica = c.replica /\ d.at = c.at
  <2>1. PICK n \in Nat, t \in Int : n = entry.count /\ t = ttl
    BY <1>4
  <2>2. d = [c EXCEPT !.running = FALSE, !.ends = e, !.counted = n, !.ttl = t]
    BY <1>after, <2>1
  <2>3. /\ d \in CallRecord /\ ~d.running /\ d.ends = e /\ d.counted = n /\ d.ttl = t
        /\ d.stage = c.stage /\ d.key = c.key /\ d.by = c.by /\ d.window = c.window
        /\ d.allowed = c.allowed /\ d.retry = c.retry /\ d.replica = c.replica /\ d.at = c.at
    BY <2>2 DEF CallRecord
  <2>4. c.key = k
    BY <1>key, <1>before
  <2> QED  BY <2>1, <2>3, <2>4
<1>9. \A p \in Request : call'[p] = IF p = q THEN d ELSE call[p]
  BY <1>update DEF IInv, Shapes
<1>10. \A j \in Key : redis'[j] = IF j = k THEN entry ELSE redis[j]
  BY <1>update, <1>3
<1>11. "redis" \in Counter /\ None \notin Ends /\ None \notin Counter /\ c.by # "redis" /\ c = call[q]
  <2>1. c.by # "redis"
    <3>1. c.stage = "decided" /\ c.by = "redis" => c.window = c.ends /\ c.window \in Ends
      BY <1>1, <1>before DEF CallOk
    <3>2. c.stage = "asked" => c.by = None
      BY <1>1, <1>before DEF CallOk
    <3> QED  BY <1>2, <1>before, <3>1, <3>2, TimeFacts, ConstantsFacts
  <2> QED  BY <2>1, <1>before, TimeFacts, ConstantsFacts DEF Counter
<1>12. ~Counts(q, k, "redis") /\ Counts(q, k, "redis")' /\ WindowOf(q, "redis")' = e
  BY <1>2, <1>key, <1>8, <1>9, <1>11 DEF Counts, WindowOf
<1>13. NoneElseCounted("redis", k, q)
  <2> SUFFICES ASSUME NEW o \in Counter, NEW j \in Key, NEW p \in Request,
                      ~(o = "redis" /\ j = k /\ p = q)
               PROVE  /\ Counts(p, j, o)' <=> Counts(p, j, o)
                      /\ Counts(p, j, o) => WindowOf(p, o)' = WindowOf(p, o)
    BY DEF NoneElseCounted
  <2>1. CASE p # q
    BY <1>9, <2>1 DEF Counts, WindowOf
  <2>2. CASE p = q /\ o = "redis"
    BY <1>2, <1>key, <1>8, <1>9, <1>11, <2>2 DEF Counts, WindowOf
  <2>3. CASE p = q /\ o # "redis"
    BY <1>2, <1>key, <1>8, <1>9, <1>11, <2>3 DEF Counts, WindowOf
  <2> QED  BY <2>1, <2>2, <2>3
<1>14. Open("redis", k)' /\ EndOf("redis", k)' = e /\ CountOf("redis", k)' = entry.count
  BY <1>2, <1>5, <1>10, <1>11 DEF Open, EndOf, CountOf
<1>15. CountedHere("redis", k, e)
  <2>1. CounterOk("redis", k)
    BY <1>2, <1>11 DEF IInv, CountersInv
  <2>2. CASE redis[k].until = None
    <3>1. redis[k].count = Left("redis", k) /\ ~Open("redis", k)
      BY <2>1, <2>2 DEF CounterOk, Open, CountOf
    <3> QED  BY <1>4, <1>5, <1>14, <2>2, <3>1 DEF CountedHere
  <2>3. CASE redis[k].until # None
    <3>1. redis[k].until \in Nat /\ Open("redis", k) /\ EndOf("redis", k) = redis[k].until
          /\ CountOf("redis", k) = redis[k].count
      BY <1>3, <2>3, TimeFacts DEF Entry, Open, EndOf, CountOf
    <3>2. CASE redis[k].until > now
      BY <1>4, <1>5, <1>14, <2>3, <3>1, <3>2 DEF CountedHere
    <3>3. CASE ~(redis[k].until > now)
      BY <1>1, <1>4, <1>5, <1>6, <1>14, <2>3, <3>1, <3>3 DEF CountedHere
    <3> QED  BY <3>2, <3>3
  <2> QED  BY <2>2, <2>3
<1>16. OthersKept("redis", k)
  BY <1>1, <1>10 DEF OthersKept, Kept, Open, EndOf, CountOf
<1>17. AdmittedHere("redis", k, e)
  <2> SUFFICES ASSUME NEW o \in Counter, NEW j \in Key, NEW f \in Ends,
                      NEW p \in AdmittedIn(j, o, f)', p \notin AdmittedIn(j, o, f)
               PROVE  o = "redis" /\ j = k /\ f = e /\ CountOf("redis", k)' <= Limit[k]
    BY DEF AdmittedHere
  <2>1. p \in Request /\ Counts(p, j, o)' /\ WindowOf(p, o)' = f
    BY CountedMeans
  <2>2. CASE o = "redis" /\ j = k /\ p = q
    <3>1. d.counted <= Limit[k]
      BY <1>8, <1>9, <1>11, <2>2 DEF AdmittedIn
    <3> QED  BY <1>8, <1>12, <1>14, <2>1, <2>2, <3>1
  <2>3. CASE ~(o = "redis" /\ j = k /\ p = q)
    <3>1. p \in CountedIn(j, o, f)
      BY <1>13, <2>1, <2>3, CountedMeans DEF NoneElseCounted
    <3>2. CASE p # q
      BY <1>9, <2>1, <3>1, <3>2 DEF AdmittedIn
    <3>3. CASE p = q
      <4>1. o # "redis"
        BY <1>2, <1>11, <3>1, <3>3 DEF CountedIn
      <4> QED  BY <1>8, <1>9, <1>11, <3>1, <3>3, <4>1 DEF AdmittedIn
    <3> QED  BY <3>2, <3>3
  <2> QED  BY <2>2, <2>3
<1>18. /\ CountersInv' /\ WindowsApart' /\ AdmittedInv'
       /\ \A o \in Counter, j \in Key, f \in Ends : CountedIn(j, o, f) \subseteq CountedIn(j, o, f)'
       /\ Cardinality(CountedIn(k, "redis", e)' \ {q}) >= CountOf("redis", k)' - 1 - Left("redis", k)
  BY <1>1, <1>2, <1>6, <1>11, <1>12, <1>13, <1>14, <1>15, <1>16, <1>17, OneCounted
<1>19. CallsInv'
  <2> SUFFICES ASSUME NEW p \in Request PROVE CallOk(p, call[p])'
    BY DEF CallsInv
  <2>1. CallOk(p, call[p])
    BY DEF IInv, CallsInv
  <2>2. CASE p # q
    BY <1>1, <1>9, <2>1, <2>2 DEF CallOk
  <2>3. CASE p = q
    <3>1. e <= now + ttl /\ d.counted \in Nat /\ k \in Key
      BY <1>1, <1>2, <1>4, <1>6, <1>7, <1>8
    <3>2. CallOk(q, d)
      BY <1>1, <1>2, <1>before, <1>7, <1>8, <1>11, <3>1 DEF CallOk
    <3> QED  BY <1>1, <1>9, <2>3, <3>2 DEF CallOk
  <2> QED  BY <2>2, <2>3
<1>20. RefusedInv'
  <2> SUFFICES ASSUME NEW p \in Request PROVE RefusedOk(p)'
    BY DEF RefusedInv
  <2>1. CASE p # q
    <3>1. call'[p] = call[p]
      BY <1>9, <2>1
    <3> QED  BY <1>18, <3>1, RefusedKept
  <2>2. CASE p = q
    <3> SUFFICES ASSUME NEW o \in Counter, NEW j \in Key \ Unexpiring, NEW f \in Ends, d.key = j
                 PROVE  /\ d.stage = "asked" /\ ~d.running /\ o = "redis" /\ d.ends = f =>
                             Cardinality(CountedIn(j, o, f)' \ {q}) >= d.counted - 1
                        /\ d.stage = "decided" /\ ~d.allowed /\ d.by = o /\ d.window = f =>
                             Cardinality(CountedIn(j, o, f)' \ {q}) >= Limit[j]
      BY <1>9, <2>2 DEF RefusedOk
    <3>1. ASSUME o = "redis", d.ends = f
          PROVE  Cardinality(CountedIn(j, o, f)' \ {q}) >= d.counted - 1
      <4>1. Left("redis", j) = 0 /\ j = k /\ f = e
        BY <1>8, <3>1 DEF Left
      <4>2. Cardinality(CountedIn(k, "redis", e)' \ {q}) >= entry.count - 1 - Left("redis", k)
        BY <1>14, <1>18
      <4>3. entry.count - 1 - 0 = entry.count - 1
        BY <1>4
      <4> QED  BY <1>8, <3>1, <4>1, <4>2, <4>3
    <3>2. ASSUME d.stage = "decided", ~d.allowed, d.by = o, d.window = f
          PROVE  Cardinality(CountedIn(j, o, f)' \ {q}) >= Limit[j]
      <4>1. RefusedOk(q)
        BY DEF IInv, RefusedInv
      <4>2. Cardinality(CountedIn(j, o, f) \ {q}) >= Limit[j]
        BY <1>key, <1>8, <1>11, <3>2, <4>1 DEF RefusedOk
      <4>3. CountedIn(j, o, f)' \ {q} \in SUBSET Request
            /\ CountedIn(j, o, f) \ {q} \in SUBSET (CountedIn(j, o, f)' \ {q})
        BY <1>18, CountedMeans
      <4>4. /\ Cardinality(CountedIn(j, o, f) \ {q}) <= Cardinality(CountedIn(j, o, f)' \ {q})
            /\ Cardinality(CountedIn(j, o, f)' \ {q}) \in Nat
            /\ Cardinality(CountedIn(j, o, f) \ {q}) \in Nat
        BY <4>3, Requests
      <4>5. Limit[j] \in Nat
        BY ConstantsFacts
      <4> QED  BY <4>2, <4>4, <4>5
    <3> QED  BY <3>1, <3>2
  <2> QED  BY <2>1, <2>2
<1>21. Shapes' /\ LimitersInv'
  BY <1>1, <1>update, <1>3, <1>8 DEF IInv, Shapes, LimitersInv
<1> QED  BY <1>18, <1>19, <1>20, <1>21 DEF IInv

(* A replica's own counter counts the request and decides it, whether Redis *)
(* was asked before or not.                                                *)
LEMMA LocalStep ==
  ASSUME IInv, NEW q \in Request, NEW r \in Replica, NEW k \in Key, NEW l \in LimiterRecord,
         NEW c \in CallRecord, NEW t, NEW d, t = Charged(l, k), d = DecidedLocally(c, r, t),
         l.buckets = limiter[r].buckets, l.sweptAt = limiter[r].sweptAt,
         l.retryAt <= now + Cooldown,
         call[q].stage \in {"none", "asked"}, c.key = k, call[q].stage = "asked" => call[q].key = k,
         c.ends = call[q].ends, c.running = call[q].running,
         limiter' = [limiter EXCEPT ![r] = t], call' = [call EXCEPT ![q] = d],
         now' = now, distributed' = distributed, redis' = redis
  PROVE  IInv'
<1>1. /\ now \in Time /\ now \in Nat /\ Window \in Nat \ {0} /\ limiter \in [Replica -> LimiterRecord]
      /\ call \in [Request -> CallRecord] /\ CallOk(q, call[q])
      /\ r \in Counter /\ r # "redis" /\ None \notin Counter /\ None \notin Ends
  BY ConstantsFacts, TimeFacts DEF IInv, Shapes, CallsInv, Counter
<1>2. call[q].by = None /\ (call[q].stage = "none" => call[q].ends = None /\ ~call[q].running)
      /\ (call[q].running => call[q].ends = None)
  BY <1>1 DEF CallOk
<1>3. /\ l.sweptAt <= now /\ \A j \in DOMAIN l.buckets : l.sweptAt < l.buckets[j].resetAt
      /\ l.buckets \in Buckets
  <2>1. limiter[r].sweptAt <= now
        /\ \A j \in DOMAIN limiter[r].buckets : limiter[r].sweptAt < limiter[r].buckets[j].resetAt
    BY DEF IInv, LimitersInv
  <2>2. l.buckets \in Buckets
    BY DEF LimiterRecord
  <2> QED  BY <2>1, <2>2
<1>4. /\ t \in LimiterRecord /\ t.retryAt = l.retryAt /\ t.sweptAt <= now
      /\ \A j \in DOMAIN t.buckets : t.sweptAt < t.buckets[j].resetAt
      /\ \A j \in DOMAIN t.buckets \ {k} : j \in DOMAIN l.buckets /\ t.buckets[j] = l.buckets[j]
      /\ \A j \in DOMAIN l.buckets \ DOMAIN t.buckets : l.buckets[j].resetAt <= now
      /\ k \in DOMAIN t.buckets /\ now < t.buckets[k].resetAt
      /\ IF k \in DOMAIN l.buckets /\ l.buckets[k].resetAt > now
         THEN /\ t.buckets[k].resetAt = l.buckets[k].resetAt
              /\ t.buckets[k].count = l.buckets[k].count + 1
         ELSE t.buckets[k].resetAt = now + Window /\ t.buckets[k].count = 1
  BY <1>1, <1>3, ChargedLimiter
<1>5. t.buckets \in Buckets
  BY <1>4 DEF LimiterRecord
<1>6. PICK e \in Ends, n \in Nat : e = t.buckets[k].resetAt /\ n = t.buckets[k].count
  BY <1>4, <1>5, BucketFields
<1>7. /\ e \in Nat /\ now < e /\ e <= now + Window
      /\ IF k \in DOMAIN limiter[r].buckets /\ limiter[r].buckets[k].resetAt = e
         THEN n = limiter[r].buckets[k].count + 1
         ELSE /\ k \in DOMAIN limiter[r].buckets => limiter[r].buckets[k].resetAt <= now
              /\ e = now + Window /\ n = 1
  <2>1. e \in Nat
    BY TimeFacts
  <2>2. CASE k \in DOMAIN l.buckets /\ l.buckets[k].resetAt > now
    <3>1. CounterOk(r, k)
      BY <1>1 DEF IInv, CountersInv
    <3>2. Open(r, k) /\ EndOf(r, k) = e
      BY <1>1, <1>4, <1>6, <2>2 DEF Open, EndOf
    <3>3. e <= now + Window
      BY <3>1, <3>2 DEF CounterOk
    <3> QED  BY <1>4, <1>6, <2>1, <2>2, <3>3
  <2>3. CASE ~(k \in DOMAIN l.buckets /\ l.buckets[k].resetAt > now)
    <3>1. k \in DOMAIN l.buckets => l.buckets[k].resetAt \in Nat
      BY <1>3, BucketFields
    <3>2. e = now + Window /\ n = 1
      BY <1>4, <1>6, <2>3
    <3>3. k \in DOMAIN l.buckets => l.buckets[k].resetAt <= now
      BY <1>1, <2>3, <3>1
    <3>4. now < e /\ ~(k \in DOMAIN l.buckets /\ l.buckets[k].resetAt = e)
      BY <1>1, <2>3, <3>2
    <3> QED  BY <1>1, <2>1, <3>2, <3>3, <3>4
  <2> QED  BY <2>2, <2>3
<1>8. PICK allowed \in BOOLEAN : allowed <=> n <= Limit[k]
  OBVIOUS
<1>9. PICK retryAfter \in Int : retryAfter = Seconds(e - now) /\ e - now <= Second * retryAfter
  <2>1. PICK ticks \in Nat : ticks = e - now
    BY <1>1, <1>7
  <2>2. Seconds(ticks) \in Int /\ ticks <= Second * Seconds(ticks)
    BY RoundedUp
  <2> QED  BY <2>1, <2>2
<1>10. /\ d \in CallRecord /\ d.stage = "decided" /\ d.by = r /\ d.window = e
       /\ d.allowed = allowed /\ d.key = k /\ d.running = call[q].running /\ d.ends = call[q].ends
       /\ ~allowed => d.retry = now + Second * retryAfter
  <2>1. d = Decided(c, r, e, allowed, retryAfter)
    <3>1. d = Decided(c, r, t.buckets[k].resetAt, t.buckets[k].count <= Limit[k],
                      Seconds(t.buckets[k].resetAt - now))
      BY DEF DecidedLocally
    <3>2. (n <= Limit[k]) = allowed
      BY <1>8
    <3> QED  BY <1>6, <1>9, <3>1, <3>2
  <2>2. /\ d \in CallRecord /\ d.stage = "decided" /\ d.by = r /\ d.window = e
        /\ d.allowed = allowed /\ d.key = c.key /\ d.running = c.running /\ d.ends = c.ends
        /\ ~allowed => d.retry = now + Second * retryAfter
    BY <1>1, <2>1, DecidedCall
  <2> QED  BY <2>2
<1>11. CallOk(q, d)
  <2>1. ~allowed => d.retry \in Int /\ e <= d.retry
    <3>1. Second * retryAfter \in Int
      BY ConstantsFacts
    <3> QED  BY <1>1, <1>7, <1>9, <1>10, <3>1
  <2> QED  BY <1>1, <1>2, <1>10, <2>1 DEF CallOk
<1>12. \A p \in Request : call'[p] = IF p = q THEN d ELSE call[p]
  BY <1>1
<1>13. \A s \in Replica : limiter'[s] = IF s = r THEN t ELSE limiter[s]
  BY <1>1
<1>14. Open(r, k)' /\ EndOf(r, k)' = e /\ CountOf(r, k)' = n
  BY <1>1, <1>4, <1>6, <1>13 DEF Open, EndOf, CountOf
<1>15. CountedHere(r, k, e)
  BY <1>1, <1>7, <1>14 DEF CountedHere, Open, EndOf, CountOf, Left
<1>16. ~Counts(q, k, r) /\ Counts(q, k, r)' /\ WindowOf(q, r)' = e
  BY <1>1, <1>2, <1>10, <1>12 DEF Counts, WindowOf
<1>17. NoneElseCounted(r, k, q)
  <2> SUFFICES ASSUME NEW o \in Counter, NEW j \in Key, NEW p \in Request,
                      ~(o = r /\ j = k /\ p = q)
               PROVE  /\ Counts(p, j, o)' <=> Counts(p, j, o)
                      /\ Counts(p, j, o) => WindowOf(p, o)' = WindowOf(p, o)
    BY DEF NoneElseCounted
  <2>1. CASE p # q
    BY <1>12, <2>1 DEF Counts, WindowOf
  <2>2. CASE p = q /\ o = "redis"
    BY <1>2, <1>10, <1>12, <2>2 DEF Counts, WindowOf
  <2>3. CASE p = q /\ o # "redis"
    <3>1. ~Counts(p, j, o)
      BY <1>1, <1>2, <2>3 DEF Counts
    <3>2. ~Counts(p, j, o)'
      BY <1>10, <1>12, <2>3 DEF Counts
    <3> QED  BY <3>1, <3>2
  <2> QED  BY <2>1, <2>2, <2>3
<1>18. OthersKept(r, k)
  <2> SUFFICES ASSUME NEW o \in Counter, NEW j \in Key, ~(o = r /\ j = k)
               PROVE  Kept(o, j) \/ (o # "redis" /\ Open(o, j) /\ ~Open(o, j)' /\ EndOf(o, j) <= now)
    BY DEF OthersKept
  <2>1. CASE o = "redis"
    BY <2>1 DEF Kept, Open, EndOf, CountOf
  <2>2. CASE o # "redis" /\ o # r
    <3>1. limiter'[o] = limiter[o]
      BY <1>13, <2>2 DEF Counter
    <3> QED  BY <2>2, <3>1 DEF Kept, Open, EndOf, CountOf
  <2>3. CASE o = r /\ j # k
    BY <1>1, <1>4, <1>13, <2>3 DEF Kept, Open, EndOf, CountOf
  <2> QED  BY <2>1, <2>2, <2>3
<1>19. AdmittedHere(r, k, e)
  <2> SUFFICES ASSUME NEW o \in Counter, NEW j \in Key, NEW f \in Ends,
                      NEW p \in AdmittedIn(j, o, f)', p \notin AdmittedIn(j, o, f)
               PROVE  o = r /\ j = k /\ f = e /\ CountOf(r, k)' <= Limit[k]
    BY DEF AdmittedHere
  <2>1. p \in Request /\ Counts(p, j, o)' /\ WindowOf(p, o)' = f
    BY CountedMeans
  <2>2. CASE o = r /\ j = k /\ p = q
    <3>1. d.allowed
      BY <1>1, <1>12, <2>2 DEF AdmittedIn
    <3> QED  BY <1>8, <1>10, <1>14, <1>16, <2>1, <2>2, <3>1
  <2>3. CASE ~(o = r /\ j = k /\ p = q)
    <3>1. p \in CountedIn(j, o, f)
      BY <1>17, <2>1, <2>3, CountedMeans DEF NoneElseCounted
    <3>2. CASE p # q
      BY <1>12, <2>1, <3>1, <3>2 DEF AdmittedIn
    <3>3. CASE p = q
      <4>1. d.by = o
        BY <1>10, <1>12, <3>3 DEF AdmittedIn
      <4>2. call[q].by = o
        BY <1>1, <1>10, <3>1, <3>3, <4>1 DEF CountedIn
      <4> QED  BY <1>1, <1>2, <4>2
    <3> QED  BY <3>2, <3>3
  <2> QED  BY <2>2, <2>3
<1>20. /\ CountersInv' /\ WindowsApart' /\ AdmittedInv'
       /\ \A o \in Counter, j \in Key, f \in Ends : CountedIn(j, o, f) \subseteq CountedIn(j, o, f)'
       /\ Cardinality(CountedIn(k, r, e)' \ {q}) >= CountOf(r, k)' - 1 - Left(r, k)
  <2>1. now' = now /\ now < e /\ e <= now + Window /\ r \in Counter
    BY <1>1, <1>7
  <2> QED  BY <2>1, <1>14, <1>15, <1>16, <1>17, <1>18, <1>19, OneCounted
<1>21. CallsInv'
  <2> SUFFICES ASSUME NEW p \in Request PROVE CallOk(p, call[p])'
    BY DEF CallsInv
  <2>1. CallOk(p, call[p])
    BY DEF IInv, CallsInv
  <2>2. CASE p # q
    BY <1>12, <2>1, <2>2 DEF CallOk
  <2>3. CASE p = q
    BY <1>11, <1>12, <2>3 DEF CallOk
  <2> QED  BY <2>2, <2>3
<1>22. RefusedInv'
  <2> SUFFICES ASSUME NEW p \in Request PROVE RefusedOk(p)'
    BY DEF RefusedInv
  <2>1. CASE p # q
    <3>1. call'[p] = call[p]
      BY <1>12, <2>1
    <3> QED  BY <1>20, <3>1, RefusedKept
  <2>2. CASE p = q
    <3> SUFFICES ASSUME NEW o \in Counter, NEW j \in Key \ Unexpiring, NEW f \in Ends, d.key = j,
                        ~d.allowed, d.by = o, d.window = f
                 PROVE  Cardinality(CountedIn(j, o, f)' \ {q}) >= Limit[j]
      BY <1>10, <1>12, <2>2 DEF RefusedOk
    <3>1. o = r /\ j = k /\ f = e /\ ~(n <= Limit[k]) /\ Limit[k] \in Nat
      BY <1>8, <1>10, ConstantsFacts
    <3>2. Cardinality(CountedIn(k, r, e)' \ {q}) >= n - 1 - 0
      BY <1>1, <1>14, <1>20 DEF Left
    <3>3. Cardinality(CountedIn(k, r, e)' \ {q}) \in Nat
      <4>1. CountedIn(k, r, e)' \ {q} \in SUBSET Request
        BY <1>1, CountedMeans
      <4> QED  BY <4>1, Requests
    <3> QED  BY <3>1, <3>2, <3>3
  <2> QED  BY <2>1, <2>2
<1>23. Shapes'
  BY <1>1, <1>4, <1>10 DEF IInv, Shapes
<1>24. LimitersInv'
  <2> SUFFICES ASSUME NEW s \in Replica
               PROVE  /\ limiter'[s].retryAt <= now + Cooldown /\ limiter'[s].sweptAt <= now
                      /\ \A j \in DOMAIN limiter'[s].buckets :
                           limiter'[s].sweptAt < limiter'[s].buckets[j].resetAt
    BY DEF LimitersInv
  <2>1. CASE s = r
    BY <1>4, <1>13, <2>1
  <2>2. CASE s # r
    BY <1>13, <2>2 DEF IInv, LimitersInv
  <2> QED  BY <2>1, <2>2
<1> QED  BY <1>20, <1>21, <1>22, <1>23, <1>24 DEF IInv

LEMMA CheckLocallyStep ==
  ASSUME IInv, NEW q \in Arriving, NEW r \in Replica, NEW k \in Key, CheckLocally(q, r, k)
  PROVE  IInv'
<1>1. /\ q \in Request /\ call[q].stage = "none" /\ call[q] \in CallRecord
      /\ limiter[r] \in LimiterRecord /\ limiter \in [Replica -> LimiterRecord]
      /\ now' = now /\ distributed' = distributed /\ redis' = redis
      /\ limiter[r].retryAt <= now + Cooldown
  BY DEF Arriving, CheckLocally, IInv, Shapes, LimitersInv
<1>2. PICK l \in LimiterRecord : l = limiter[r]
  BY <1>1
<1>3. PICK t : t = Charged(l, k)
  OBVIOUS
<1>4. PICK c \in CallRecord : c = [call[q] EXCEPT !.key = k]
  BY <1>1 DEF CallRecord
<1>5. PICK d : d = DecidedLocally(c, r, t)
  OBVIOUS
<1>6. limiter' = [limiter EXCEPT ![r] = t]
  BY <1>2, <1>3 DEF CheckLocally
<1>7. limiter'[r] = t
  BY <1>1, <1>6
<1>8. call' = [call EXCEPT ![q] = d]
  BY <1>4, <1>5, <1>7 DEF CheckLocally
<1>9. c.key = k /\ c.ends = call[q].ends /\ c.running = call[q].running
  BY <1>1, <1>4 DEF CallRecord
<1> QED  BY <1>1, <1>2, <1>3, <1>5, <1>6, <1>8, <1>9, LocalStep

(* Redis fails: its cooldown ends where the invariant allows, since the    *)
(* check began no later than now.                                          *)
LEMMA FailStep ==
  ASSUME IInv, NEW q \in Request, Fail(q)
  PROVE  IInv'
<1>1. /\ call[q].stage = "asked" /\ call[q] \in CallRecord /\ CallOk(q, call[q])
      /\ limiter \in [Replica -> LimiterRecord] /\ now \in Nat
      /\ now' = now /\ distributed' = distributed /\ redis' = redis
  BY TimeFacts DEF Fail, IInv, Shapes, CallsInv
<1>2. call[q].key \in Key /\ call[q].replica \in Replica /\ call[q].at <= now /\ call[q].at \in Nat
  <2>1. call[q].at \in {0} \cup Time
    BY <1>1 DEF CallRecord
  <2>2. call[q].at \in Nat
    BY <2>1, TimeFacts, Zenon
  <2> QED  BY <1>1, <2>2 DEF CallOk
<1>3. PICK r \in Replica, k \in Key, c \in CallRecord :
        r = call[q].replica /\ k = call[q].key /\ c = call[q]
  BY <1>1, <1>2
<1>4. PICK retryAt \in Int : retryAt = c.at + Cooldown
  BY <1>2, <1>3, ConstantsFacts
<1>5. limiter[r] \in LimiterRecord
  BY <1>1
<1>6. PICK l \in LimiterRecord : l = [limiter[r] EXCEPT !.degraded = TRUE, !.retryAt = retryAt]
  BY <1>5 DEF LimiterRecord
<1>7. /\ l.buckets = limiter[r].buckets /\ l.sweptAt = limiter[r].sweptAt /\ l.retryAt = retryAt
      /\ retryAt <= now + Cooldown
  <2>1. l.buckets = limiter[r].buckets /\ l.sweptAt = limiter[r].sweptAt /\ l.retryAt = retryAt
    BY <1>5, <1>6 DEF LimiterRecord
  <2> QED  BY <1>1, <1>2, <1>3, <1>4, <2>1, ConstantsFacts
<1>8. PICK t : t = Charged(l, k)
  OBVIOUS
<1>9. PICK d : d = DecidedLocally(c, r, t)
  OBVIOUS
<1>10. limiter' = [limiter EXCEPT ![r] = t]
  BY <1>3, <1>4, <1>6, <1>8 DEF Fail, Degraded
<1>11. limiter'[r] = t
  BY <1>1, <1>10
<1>12. call' = [call EXCEPT ![q] = d]
  BY <1>3, <1>9, <1>11 DEF Fail
<1> QED  BY <1>1, <1>3, <1>7, <1>8, <1>9, <1>10, <1>12, LocalStep

LEMMA InitIInv ==
  ASSUME Init
  PROVE  IInv
<1>1. /\ now = Window /\ now \in Nat /\ Window \in Nat \ {0} /\ Cooldown \in Nat
      /\ distributed \in BOOLEAN /\ \A q \in Request : call[q] = NoCall
  BY ConstantsFacts DEF Init
<1>2. NoCall \in CallRecord
  BY DEF NoCall, CallRecord, Stage
<1>3. \A k \in Key : redis[k] \in Entry /\ redis[k].until = None /\ redis[k].count = Left("redis", k)
  <2> SUFFICES ASSUME NEW k \in Key
               PROVE  redis[k] \in Entry /\ redis[k].until = None /\ redis[k].count = Left("redis", k)
    OBVIOUS
  <2>1. Left("redis", k) \in Nat
    BY ConstantsFacts DEF Left
  <2>2. redis[k] = [count |-> Left("redis", k), until |-> None]
    BY DEF Init, Left
  <2> QED  BY <2>1, <2>2 DEF Entry
<1>4. \A r \in Replica : limiter[r] \in LimiterRecord /\ limiter[r].retryAt = 0
                        /\ limiter[r].sweptAt = 0 /\ DOMAIN limiter[r].buckets = {}
  <2>1. [k \in {} |-> None] \in Buckets
    <3> DEFINE b == [k \in {} |-> None]
    <3>1. DOMAIN b = {} /\ b = [k \in DOMAIN b |-> b[k]]
      OBVIOUS
    <3> HIDE DEF b
    <3>2. b \in Buckets
      BY <3>1, BucketsType
    <3> QED  BY <3>2 DEF b
  <2> QED  BY <2>1 DEF Init, LimiterRecord
<1>5. \A c \in Counter, k \in Key, q \in Request : ~Counts(q, k, c)
  BY <1>1, ConstantsFacts DEF Counts, NoCall, Counter
<1>6. \A c \in Counter, k \in Key : ~Open(c, k) /\ (c = "redis" => CountOf(c, k) = Left(c, k))
  BY <1>3, <1>4 DEF Open, CountOf, Counter
<1>7. Shapes
  <2>1. now \in Time
    BY <1>1, ConstantsFacts DEF Init, Time
  <2>2. redis \in [Key -> Entry] /\ limiter \in [Replica -> LimiterRecord]
        /\ call \in [Request -> CallRecord]
    BY <1>2, <1>3, <1>4 DEF Init
  <2> QED  BY <1>1, <2>1, <2>2 DEF Shapes
<1>8. LimitersInv /\ CallsInv /\ RefusedInv
  BY <1>1, <1>4 DEF LimitersInv, CallsInv, CallOk, RefusedInv, RefusedOk, NoCall
<1>9. CountersInv /\ WindowsApart
  BY <1>5, <1>6 DEF CountersInv, CounterOk, WindowsApart
<1>10. AdmittedInv
  <2> SUFFICES ASSUME NEW c \in Counter, NEW k \in Key, NEW e \in Ends
               PROVE  Cardinality(AdmittedIn(k, c, e)) <= Limit[k]
    BY DEF AdmittedInv
  <2>1. AdmittedIn(k, c, e) = {}
    BY <1>5, CountedMeans
  <2> QED  BY <2>1, FS_EmptySet, ConstantsFacts
<1> QED  BY <1>7, <1>8, <1>9, <1>10 DEF IInv

LEMMA NextIInv ==
  ASSUME IInv, [Next]_vars
  PROVE  IInv'
<1>1. CASE UNCHANGED vars
  BY <1>1 DEF vars, IInv, Shapes, LimitersInv, CallsInv, CallOk, CountersInv, CounterOk, Open,
     EndOf, CountOf, Left, Counts, WindowOf, WindowsApart, AdmittedInv, AdmittedIn, CountedIn,
     RefusedInv, RefusedOk
<1>2. CASE Tick
  BY <1>2, TickStep
<1>3. ASSUME NEW q \in Arriving, RefuseForeign(q)
      PROVE  IInv'
  BY <1>3, ForeignStep
<1>4. ASSUME NEW q \in Arriving, NEW r \in Replica, NEW k \in Key, CheckLocally(q, r, k)
      PROVE  IInv'
  BY <1>4, CheckLocallyStep
<1>5. ASSUME NEW q \in Arriving, NEW r \in Replica, NEW k \in Key, AskRedis(q, r, k)
      PROVE  IInv'
  BY <1>5, AskStep
<1>6. ASSUME NEW q \in Request, Execute(q)
      PROVE  IInv'
  BY <1>6, ExecuteStep
<1>7. ASSUME NEW q \in Request, Answer(q)
      PROVE  IInv'
  BY <1>7, AnswerStep
<1>8. ASSUME NEW q \in Request, Fail(q)
      PROVE  IInv'
  BY <1>8, FailStep
<1> QED  BY <1>1, <1>2, <1>3, <1>4, <1>5, <1>6, <1>7, <1>8 DEF Next

-----------------------------------------------------------------------------
(* What follows from the invariant.                                        *)

LEMMA IInvTypeOK ==
  ASSUME IInv
  PROVE  TypeOK
<1>1. now \in Time /\ now \in Nat /\ distributed \in BOOLEAN /\ redis \in [Key -> Entry]
  BY TimeFacts DEF IInv, Shapes
<1>2. ASSUME NEW k \in Key
      PROVE  /\ redis[k].count <= Limit[k] + MaxRequests
             /\ redis[k].until # None => redis[k].until <= now + Window
  <2>1. CounterOk("redis", k) /\ "redis" \in Counter /\ Limit[k] \in Nat /\ Left("redis", k) \in Nat
        /\ Left("redis", k) <= Limit[k] /\ MaxRequests \in Nat /\ redis[k] \in Entry
    BY <1>1, ConstantsFacts DEF IInv, CountersInv, Counter, Left
  <2>2. CASE redis[k].until = None
    <3>1. redis[k].count = Left("redis", k)
      BY <2>1, <2>2 DEF CounterOk, Open, CountOf
    <3> QED  BY <2>1, <2>2, <3>1
  <2>3. CASE redis[k].until # None
    <3>1. PICK e \in Ends : e = redis[k].until
      BY <2>1, <2>3 DEF Entry
    <3>2. e <= now + Window /\ redis[k].count <= Cardinality(CountedIn(k, "redis", e)) + Left("redis", k)
      BY <2>1, <2>3, <3>1 DEF CounterOk, Open, EndOf, CountOf
    <3>3. CountedIn(k, "redis", e) \in SUBSET Request
      BY <2>1, CountedMeans
    <3>4. Cardinality(CountedIn(k, "redis", e)) \in Nat
          /\ Cardinality(CountedIn(k, "redis", e)) <= MaxRequests
      BY <3>3, Requests
    <3>5. redis[k].count \in Nat
      BY <2>1 DEF Entry
    <3> QED  BY <2>1, <3>1, <3>2, <3>4, <3>5
  <2> QED  BY <2>2, <2>3
<1>3. ASSUME NEW r \in Replica
      PROVE  /\ limiter[r].degraded \in BOOLEAN
             /\ limiter[r].retryAt <= now + Cooldown /\ limiter[r].sweptAt \in {0} \cup Time
             /\ DOMAIN limiter[r].buckets \subseteq Key
  <2>1. limiter[r] \in LimiterRecord /\ limiter[r].retryAt <= now + Cooldown
    BY DEF IInv, Shapes, LimitersInv
  <2>2. limiter[r].buckets \in Buckets /\ limiter[r].degraded \in BOOLEAN
        /\ limiter[r].sweptAt \in {0} \cup Time
    BY <2>1 DEF LimiterRecord
  <2> QED  BY <2>1, <2>2, BucketsType
<1>4. ASSUME NEW r \in Replica, NEW k \in DOMAIN limiter[r].buckets
      PROVE  limiter[r].buckets[k].count \in Request /\ limiter[r].buckets[k].resetAt <= now + Window
  <2>1. limiter[r].buckets \in Buckets
    BY DEF IInv, Shapes, LimiterRecord
  <2>2. k \in Key /\ limiter[r].buckets[k].count \in Nat \ {0} /\ limiter[r].buckets[k].resetAt \in Ends
    BY <2>1, BucketFields
  <2>3. r \in Counter /\ r # "redis" /\ CounterOk(r, k)
    BY <2>2, ConstantsFacts DEF IInv, CountersInv, Counter
  <2>4. PICK e \in Ends, n \in Nat : e = limiter[r].buckets[k].resetAt /\ n = limiter[r].buckets[k].count
    BY <2>2
  <2>5. e <= now + Window /\ n <= Cardinality(CountedIn(k, r, e)) /\ Cardinality(CountedIn(k, r, e)) <= n
    <3>1. Open(r, k) /\ EndOf(r, k) = e /\ CountOf(r, k) = n /\ Left(r, k) = 0
      BY <2>3, <2>4 DEF Open, EndOf, CountOf, Left
    <3>2. CountedIn(k, r, e) \in SUBSET Request
      BY <2>2, <2>3, CountedMeans
    <3>3. Cardinality(CountedIn(k, r, e)) \in Nat
      BY <3>2, Requests
    <3> QED  BY <2>3, <3>1, <3>3 DEF CounterOk
  <2>6. CountedIn(k, r, e) \in SUBSET Request
    BY <2>2, <2>3, CountedMeans
  <2>7. n # 0 /\ n <= MaxRequests
    BY <2>2, <2>4, <2>5, <2>6, Requests, ConstantsFacts
  <2>8. n \in Request
    BY <2>7, ConstantsFacts DEF Request
  <2> QED  BY <2>4, <2>5, <2>8
<1>5. ASSUME NEW q \in Request
      PROVE  /\ call[q].stage \in {"none", "foreign", "asked", "decided"}
             /\ call[q].replica \in Replica \cup {None} /\ call[q].key \in Key \cup {None}
             /\ call[q].at \in {0} \cup Time /\ {call[q].running, call[q].allowed} \subseteq BOOLEAN
             /\ call[q].by \in Replica \cup {"redis", None}
  <2>1. call[q] \in CallRecord
    BY DEF IInv, Shapes
  <2> QED  BY <2>1 DEF CallRecord, Stage, Counter
<1>6. redis \in [Key -> [count : Nat, until : Ends \cup {None}]]
  BY <1>1 DEF Entry
<1> QED  BY <1>1, <1>2, <1>3, <1>4, <1>5, <1>6 DEF TypeOK

LEMMA DecidedCalls ==
  ASSUME IInv, NEW allowed \in BOOLEAN, NEW q \in DecidedAs(allowed)
  PROVE  /\ q \in Request /\ call[q].stage = "decided" /\ call[q].allowed = allowed
         /\ call[q].key \in Key /\ call[q].by \in Counter /\ call[q].window \in Ends
         /\ Counts(q, call[q].key, call[q].by) /\ WindowOf(q, call[q].by) = call[q].window
         /\ ~allowed => call[q].retry \in Int /\ call[q].window <= call[q].retry
<1>1. /\ q \in Request /\ call[q].stage = "decided" /\ call[q].allowed = allowed
      /\ CallOk(q, call[q]) /\ None \notin Ends
  BY TimeFacts DEF DecidedAs, IInv, CallsInv
<1>2. /\ call[q].key \in Key /\ call[q].by \in Counter /\ call[q].window \in Ends
      /\ call[q].by = "redis" => call[q].window = call[q].ends
      /\ ~allowed => call[q].retry \in Int /\ call[q].window <= call[q].retry
  BY <1>1 DEF CallOk
<1> QED  BY <1>1, <1>2 DEF Counts, WindowOf

LEMMA IInvWindowsHold ==
  ASSUME IInv
  PROVE  WindowsHold
<1> SUFFICES ASSUME NEW q \in DecidedAs(TRUE)
             PROVE  LET peers == {p \in DecidedAs(TRUE) : call[p].by = call[q].by /\ call[p].key = call[q].key}
                    IN  /\ Cardinality({p \in peers : call[p].window = call[q].window}) <= Limit[call[q].key]
                        /\ \A p \in peers :
                             call[p].window < call[q].window => call[p].window + Window <= call[q].window
  BY DEF WindowsHold
<1> DEFINE peers == {p \in DecidedAs(TRUE) : call[p].by = call[q].by /\ call[p].key = call[q].key}
           same == {p \in peers : call[p].window = call[q].window}
<1>1. PICK k \in Key, c \in Counter, e \in Ends :
        /\ k = call[q].key /\ c = call[q].by /\ e = call[q].window /\ q \in Request
        /\ Counts(q, k, c) /\ WindowOf(q, c) = e
  BY DecidedCalls
<1>2. \A p \in peers :
        /\ p \in Request /\ Counts(p, k, c) /\ WindowOf(p, c) = call[p].window
        /\ call[p].stage = "decided" /\ call[p].allowed /\ call[p].by = c
  BY <1>1, DecidedCalls
<1>3. Cardinality(same) <= Limit[k]
  <2>1. same \subseteq AdmittedIn(k, c, e)
    <3> SUFFICES ASSUME NEW p \in same
                 PROVE  p \in AdmittedIn(k, c, e)
      OBVIOUS
    <3>1. p \in peers /\ call[p].window = e
      BY <1>1
    <3>2. p \in Request /\ Counts(p, k, c) /\ WindowOf(p, c) = e
      BY <1>2, <3>1
    <3>3. p \in CountedIn(k, c, e)
      BY <3>2, CountedMeans
    <3> QED  BY <1>2, <3>1, <3>3 DEF AdmittedIn
  <2>2. AdmittedIn(k, c, e) \in SUBSET Request
    BY CountedMeans
  <2>3. /\ Cardinality(same) <= Cardinality(AdmittedIn(k, c, e)) /\ Cardinality(same) \in Nat
        /\ Cardinality(AdmittedIn(k, c, e)) \in Nat
    BY <2>1, <2>2, Requests
  <2>4. Cardinality(AdmittedIn(k, c, e)) <= Limit[k] /\ Limit[k] \in Nat
    BY ConstantsFacts DEF IInv, AdmittedInv
  <2> QED  BY <2>3, <2>4
<1>4. \A p \in peers : call[p].window < call[q].window => call[p].window + Window <= call[q].window
  BY <1>1, <1>2, ZenonT(60) DEF IInv, WindowsApart
<1> QED  BY <1>1, <1>3, <1>4

LEMMA IInvRefusalsAreEarned ==
  ASSUME IInv
  PROVE  RefusalsAreEarned
<1> SUFFICES ASSUME NEW q \in DecidedAs(FALSE), call[q].key \notin Unexpiring
             PROVE  Cardinality(CountedIn(call[q].key, call[q].by, call[q].window) \ {q})
                      >= Limit[call[q].key]
  BY DEF RefusalsAreEarned
<1>1. /\ q \in Request /\ call[q].stage = "decided" /\ call[q].allowed = FALSE
      /\ call[q].key \in Key /\ call[q].by \in Counter /\ call[q].window \in Ends
  BY DecidedCalls
<1>2. RefusedOk(q)
  BY <1>1 DEF IInv, RefusedInv
<1> QED  BY <1>1, <1>2 DEF RefusedOk

LEMMA IInvRetryAfterIsHonest ==
  ASSUME IInv
  PROVE  RetryAfterIsHonest
<1> SUFFICES ASSUME NEW q \in DecidedAs(FALSE), now >= call[q].retry,
                    Current(call[q].by, call[q].key) = call[q].window
             PROVE  Over(call[q].by, call[q].key)
  BY DEF RetryAfterIsHonest
<1>1. /\ call[q].key \in Key /\ call[q].by \in Counter /\ call[q].window \in Ends
      /\ call[q].retry \in Int /\ call[q].window <= call[q].retry
  BY DecidedCalls
<1>2. now \in Nat /\ call[q].window \in Nat /\ call[q].window # None
  BY <1>1, TimeFacts DEF IInv, Shapes
<1>3. call[q].window <= now
  BY <1>1, <1>2
<1> QED  BY <1>2, <1>3 DEF Current, Over, Lapsed

(* The sweep comes before the request is counted.                          *)
LEMMA NextMapIsBounded ==
  ASSUME IInv, [Next]_vars, NEW r \in Replica, limiter'[r].buckets # limiter[r].buckets,
         NEW k \in DOMAIN limiter'[r].buckets
  PROVE  now < limiter'[r].buckets[k].resetAt + Window
<1>1. limiter \in [Replica -> LimiterRecord] /\ now \in Time
  BY DEF IInv, Shapes
<1>2. ASSUME NEW l \in LimiterRecord, NEW j \in Key, limiter'[r] = Charged(l, j),
             l.buckets = limiter[r].buckets, l.sweptAt = limiter[r].sweptAt
      PROVE  now < limiter'[r].buckets[k].resetAt + Window
  <2>1. l.sweptAt <= now /\ \A i \in DOMAIN l.buckets : l.sweptAt < l.buckets[i].resetAt
    BY <1>2 DEF IInv, LimitersInv
  <2> QED  BY <1>1, <1>2, <2>1, ChargedLimiter
<1>3. limiter' # limiter
  OBVIOUS
<1>4. ASSUME NEW q \in Arriving, NEW s \in Replica, NEW j \in Key, CheckLocally(q, s, j)
      PROVE  now < limiter'[r].buckets[k].resetAt + Window
  <2>1. s = r /\ limiter'[r] = Charged(limiter[r], j)
    BY <1>1, <1>4 DEF CheckLocally
  <2> QED  BY <1>1, <1>2, <2>1
<1>5. ASSUME NEW q \in Request, Answer(q)
      PROVE  FALSE
  <2>1. \A s \in Replica : limiter[s].buckets = [limiter[s] EXCEPT !.degraded = FALSE].buckets
    BY <1>1 DEF LimiterRecord
  <2>2. limiter'[r] = limiter[r] \/ limiter'[r] = [limiter[r] EXCEPT !.degraded = FALSE]
    BY <1>1, <1>5 DEF Answer
  <2> QED  BY <2>1, <2>2
<1>6. ASSUME NEW q \in Request, Fail(q)
      PROVE  now < limiter'[r].buckets[k].resetAt + Window
  <2>1. call[q] \in CallRecord /\ CallOk(q, call[q]) /\ call[q].stage = "asked"
    BY <1>6 DEF IInv, Shapes, CallsInv, Fail
  <2>2. call[q].replica = r /\ call[q].key \in Key
        /\ limiter'[r] = Charged(Degraded(limiter[r], call[q]), call[q].key)
    BY <1>1, <1>6, <2>1 DEF Fail, CallOk
  <2>3. call[q].at + Cooldown \in Int
    <3>1. call[q].at \in {0} \cup Time
      BY <2>1 DEF CallRecord
    <3>2. call[q].at \in Nat
      BY <3>1, TimeFacts, Zenon
    <3> QED  BY <3>2, ConstantsFacts
  <2>4. PICK retryAt \in Int : retryAt = call[q].at + Cooldown
    BY <2>3
  <2>5. PICK l \in LimiterRecord : l = [limiter[r] EXCEPT !.degraded = TRUE, !.retryAt = retryAt]
    BY <1>1 DEF LimiterRecord
  <2>6. l = Degraded(limiter[r], call[q])
    BY <2>4, <2>5 DEF Degraded
  <2>7. l.buckets = limiter[r].buckets /\ l.sweptAt = limiter[r].sweptAt
    BY <1>1, <2>5 DEF LimiterRecord
  <2> QED  BY <1>2, <2>2, <2>6, <2>7
<1>7. CASE UNCHANGED vars
  BY <1>3, <1>7 DEF vars
<1>8. ASSUME NEW q, Tick \/ RefuseForeign(q) \/ Execute(q) \/ (\E s \in Replica, j \in Key : AskRedis(q, s, j))
      PROVE  FALSE
  BY <1>3, <1>8 DEF Tick, RefuseForeign, Execute, AskRedis
<1> QED  BY <1>4, <1>5, <1>6, <1>7, <1>8 DEF Next

-----------------------------------------------------------------------------
(* What holds of the rate limit.                                           *)

(* Whatever Redis answers, forgets or answers too late: every counter has  *)
(* counted exactly the requests the history attributes to its window (and  *)
(* what an older deployment left), its windows do not overlap, and those   *)
(* it admitted are no more than the limit.                                 *)
THEOREM Invariance == Spec => []IInv
<1>1. Init => IInv
  BY InitIInv
<1>2. IInv /\ [Next]_vars => IInv'
  BY NextIInv
<1> QED  BY <1>1, <1>2, PTL DEF Spec

(* No counter expires more than a window from now, no cooldown lasts       *)
(* longer than it should, and no counter exceeds the requests there were.  *)
THEOREM TypeCorrect == Spec => []TypeOK
<1>1. IInv => TypeOK
  BY IInvTypeOK
<1> QED  BY <1>1, Invariance, PTL

(* InProcessRateLimiter and DistributedRateLimiter together: a counter     *)
(* admits Limit requests in a window at most, windows do not overlap, a    *)
(* refusal was earned by others of the same key, Retry-After points beyond *)
(* the window, and a replica's map holds no bucket that is long over.      *)
THEOREM LimitsHold == Spec => LimitsAreKept
<1>1. IInv => WindowsHold /\ RefusalsAreEarned /\ RetryAfterIsHonest
  BY IInvWindowsHold, IInvRefusalsAreEarned, IInvRetryAfterIsHonest
<1>2. IInv /\ [Next]_vars =>
        [\A r \in Replica : limiter'[r].buckets # limiter[r].buckets =>
           \A k \in DOMAIN limiter'[r].buckets :
             now < limiter'[r].buckets[k].resetAt + Window]_vars
  BY NextMapIsBounded
<1> QED  BY <1>1, <1>2, Invariance, PTL DEF Spec, LimitsAreKept, MapIsBounded

=============================================================================
