----------------------------- MODULE RateLimit ------------------------------
(***************************************************************************)
(* The token buckets of internal/ratelimit and the table of them in        *)
(* hooks.go.  A bucket outlives the connections that share its key, or a   *)
(* reconnect would come with a full one; the janitor forgets it when it is *)
(* full again.  Allow reads the clock before it takes the bucket's lock,   *)
(* so calls reach the bucket out of the order of their times.              *)
(*                                                                         *)
(* A token is Interval units, so that refilling is integer arithmetic.     *)
(***************************************************************************)
EXTENDS Integers, FiniteSets, Functions

CONSTANTS
  Clients,    \* each has one connection after another
  Keys,       \* what a Limiter hook may group connections by
  NoKey,      \* its answer for a connection that is on its own
  Bursts,     \* the bursts the hook may answer with
  Interval,   \* time to earn a token
  Buckets,    \* the buckets there can be at once
  NoBucket,
  MaxTime,    \* bound on the clock
  MaxOpens    \* bound on connections made

ASSUME RateLimitAssumption ==
  /\ IsFiniteSet(Clients) /\ NoKey \notin Keys
  /\ Bursts \subseteq Nat \ {0} /\ \E n \in Bursts : \A m \in Bursts : m <= n   \* an int
  /\ Interval \in Nat \ {0} /\ MaxTime \in Nat /\ MaxOpens \in Nat
  /\ NoBucket \notin Buckets

VARIABLES
  clock,     \* time.Now
  bucket,    \* per bucket: burst, tokens and last, which is Never before the first call
  limiters,  \* app.limiters: per key its bucket, or NoBucket
  refs,      \* per key: limiterEntry.refs
  key,       \* per open connection: the hook's key for it, or NoKey
  limit,     \* conn.limit of an open connection, NoBucket when it is closed
  now,       \* per connection: the time its Allow has read, or Idling
  tick,      \* what the janitor's ticker has for it, or Idling
  opens,     \* connections made so far
  spent      \* history: per key, how many calls that read the clock at f were
             \* allowed at t

limitVars == <<clock, bucket, limiters, refs, key, limit, now, tick, opens, spent>>

Never  == -1
Idling == -1
Times  == 0 .. MaxTime

Full(n) == [burst |-> n, tokens |-> n * Interval, last |-> Never]

\* What nobody has a pointer to is collected.
Collected == [burst |-> 0, tokens |-> 0, last |-> Never]

LimitInit ==
  /\ clock = 0
  /\ bucket = [b \in Buckets |-> Collected]
  /\ limiters = [k \in Keys |-> NoBucket]
  /\ refs = [k \in Keys |-> 0]
  /\ key = [c \in Clients |-> NoKey]
  /\ limit = [c \in Clients |-> NoBucket]
  /\ now = [c \in Clients |-> Idling]
  /\ tick = Idling
  /\ opens = 0
  /\ spent = [k \in Keys |-> [w \in Times \X Times |-> 0]]

Known(k) == k # NoKey /\ limiters[k] # NoBucket

Unused == Buckets \ (Range(limiters) \cup Range(limit))

-----------------------------------------------------------------------------
(* The bucket *)

\* The variants named ...Unsafe are not the code: each is a plausible mistake in
\* the definition after it, and a run shows which property it would break.
RefillUnsafe(b, t) ==
  LET last == IF b.last = Never THEN t ELSE b.last
      more == b.tokens + (t - last)
  IN IF t > last
       THEN [b EXCEPT !.tokens = IF more > b.burst * Interval THEN b.burst * Interval ELSE more,
                      !.last = t]
       ELSE [b EXCEPT !.last = t]

\* A time before the last refills nothing and does not move last back.
Refill(b, t) ==
  LET last == IF b.last = Never THEN t ELSE b.last
      more == b.tokens + (t - last)
  IN IF t > last
       THEN [b EXCEPT !.tokens = IF more > b.burst * Interval THEN b.burst * Interval ELSE more,
                      !.last = t]
       ELSE [b EXCEPT !.last = last]

IsFull(b) == b.tokens >= b.burst * Interval

-----------------------------------------------------------------------------
(* A connection *)

\* clientLimiter and acquireLimiter.  A key already known keeps its bucket and
\* that bucket's limits; without a key the bucket is the connection's alone.
Acquire(c, k) ==
  /\ limit[c] = NoBucket /\ opens < MaxOpens
  /\ opens' = opens + 1
  /\ key' = [key EXCEPT ![c] = k]
  /\ \/ /\ Known(k)
        /\ limit' = [limit EXCEPT ![c] = limiters[k]]
        /\ refs' = [refs EXCEPT ![k] = @ + 1]
        /\ UNCHANGED <<bucket, limiters>>
     \/ /\ ~Known(k)
        /\ \E n \in Bursts, b \in Unused :
             /\ bucket' = [bucket EXCEPT ![b] = Full(n)]
             /\ limit' = [limit EXCEPT ![c] = b]
             /\ IF k = NoKey
                  THEN UNCHANGED <<limiters, refs>>
                  ELSE /\ limiters' = [limiters EXCEPT ![k] = b]
                       /\ refs' = [refs EXCEPT ![k] = @ + 1]
  /\ UNCHANGED <<clock, now, tick, spent>>

\* Allow: the argument of AllowAt is evaluated outside the lock ...
ReadClock(c) ==
  /\ limit[c] # NoBucket
  /\ now[c] = Idling
  /\ now' = [now EXCEPT ![c] = clock]
  /\ UNCHANGED <<clock, bucket, limiters, refs, key, limit, tick, opens, spent>>

\* ... and the rest is under it: refill, then take a token if there is one.
AllowAt(c) ==
  /\ now[c] # Idling
  /\ LET b  == Refill(bucket[limit[c]], now[c])
         ok == b.tokens >= Interval
     IN /\ bucket' = [bucket EXCEPT ![limit[c]] =
                        IF ok THEN [b EXCEPT !.tokens = @ - Interval] ELSE b]
        /\ IF ok /\ key[c] # NoKey
             THEN spent' = [spent EXCEPT ![key[c]][<<now[c], clock>>] = @ + 1]
             ELSE UNCHANGED spent
  /\ now' = [now EXCEPT ![c] = Idling]
  /\ UNCHANGED <<clock, limiters, refs, key, limit, tick, opens>>

\* serve returns: the deferred releaseLimiter, which leaves the bucket behind.
Release(c) ==
  /\ limit[c] # NoBucket
  /\ now[c] = Idling
  /\ limit' = [limit EXCEPT ![c] = NoBucket]
  /\ key' = [key EXCEPT ![c] = NoKey]
  /\ bucket' = IF key[c] = NoKey THEN [bucket EXCEPT ![limit[c]] = Collected] ELSE bucket
  /\ IF Known(key[c]) /\ refs[key[c]] > 0
       THEN refs' = [refs EXCEPT ![key[c]] = @ - 1]
       ELSE UNCHANGED refs
  /\ UNCHANGED <<clock, limiters, now, tick, opens, spent>>

-----------------------------------------------------------------------------
(* The janitor *)

\* The ticker's channel holds one tick; the janitor may be late to take it.
Tick ==
  /\ tick = Idling
  /\ tick' = clock
  /\ UNCHANGED <<clock, bucket, limiters, refs, key, limit, now, opens, spent>>

CandidatesUnsafe == {k \in Keys : limiters[k] # NoBucket}

Candidates == {k \in Keys : limiters[k] # NoBucket /\ refs[k] = 0}

\* Idle refills what it looks at, then says whether it is full again.
SweepLimiters ==
  /\ tick # Idling
  /\ LET looked == [b \in Buckets |->
                      IF \E k \in Candidates : limiters[k] = b THEN Refill(bucket[b], tick)
                                                               ELSE bucket[b]]
         idle   == {k \in Candidates : IsFull(looked[limiters[k]])}
         freed  == {limiters[k] : k \in idle} \ Range(limit)
     IN /\ bucket' = [b \in Buckets |-> IF b \in freed THEN Collected ELSE looked[b]]
        /\ limiters' = [k \in Keys |-> IF k \in idle THEN NoBucket ELSE limiters[k]]
  /\ tick' = Idling
  /\ UNCHANGED <<clock, refs, key, limit, now, opens, spent>>

Pass ==
  /\ clock < MaxTime
  /\ clock' = clock + 1
  /\ UNCHANGED <<bucket, limiters, refs, key, limit, now, tick, opens, spent>>

-----------------------------------------------------------------------------
LimitNext ==
  \/ \E c \in Clients :
       \/ \E k \in Keys \cup {NoKey} : Acquire(c, k)
       \/ ReadClock(c) \/ AllowAt(c) \/ Release(c)
  \/ Tick
  \/ SweepLimiters
  \/ Pass

LimitSpec == LimitInit /\ [][LimitNext]_limitVars

-----------------------------------------------------------------------------
(* Properties *)

\* Every variable has its type; a bucket never holds less than nothing or more
\* than its burst, and has never been refilled to a time still to come.
LimitTypeOK ==
  /\ clock \in Times
  /\ \A b \in Buckets :
       /\ bucket[b].burst \in Bursts \cup {0}
       /\ bucket[b].tokens \in 0 .. bucket[b].burst * Interval
       /\ bucket[b].last \in Never .. clock
  /\ limiters \in [Keys -> Buckets \cup {NoBucket}]
  /\ refs \in [Keys -> Nat]
  /\ key \in [Clients -> Keys \cup {NoKey}]
  /\ limit \in [Clients -> Buckets \cup {NoBucket}]
  /\ now \in [Clients -> Idling .. clock] /\ tick \in Idling .. clock
  /\ opens \in 0 .. MaxOpens
  /\ spent \in [Keys -> [Times \X Times -> Nat]]

Holders(k) == {c \in Clients : limit[c] # NoBucket /\ key[c] = k}

\* An entry is counted once for each open connection of its key, and they all
\* hold the entry's own bucket: none is left throttled by one that was swept.
HoldersShareOneBucket ==
  \A k \in Keys :
    /\ refs[k] = Cardinality(Holders(k))
    /\ \A c \in Holders(k) : limit[c] = limiters[k]

Largest == CHOOSE n \in Bursts : \A m \in Bursts : m <= n

\* The calls of k allowed in a window, numbered.
Calls(k, from, to) ==
  UNION {{w} \X (1 .. spent[k][w]) : w \in {v \in Times \X Times : v[1] >= from /\ v[2] <= to}}

AllowedWithin(k, from, to) == Cardinality(Calls(k, from, to))

\* What a limit promises: of the calls of one key made and answered within any
\* window, at most the burst and what the window's length earns are allowed,
\* however often the person reconnects, whatever is swept in between, and
\* whatever order the calls reach the bucket in.
WindowBound ==
  \A k \in Keys, from, to \in Times :
    from <= to =>
      AllowedWithin(k, from, to) * Interval <= Largest * Interval + (to - from)
=============================================================================
