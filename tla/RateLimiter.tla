----------------------------- MODULE RateLimiter -----------------------------
(***************************************************************************)
(* The request limiter (src/utils/rate_limit.py) over the availability     *)
(* flag of the cache service (src/utils/cache.py).  A worker keeps one     *)
(* limiter in app.state.  A request that finds none, or one whose          *)
(* signature names another availability, builds one: in Redis if Redis     *)
(* loads the script, in memory otherwise.  The flag is set by pings (the   *)
(* lifespan's, the heartbeat's, those of /health and /ready) and cleared   *)
(* by every command that fails.                                            *)
(*                                                                         *)
(* A request counts in the limiter it holds, which after an await need not *)
(* be the installed one.  Redis commands take two steps, what Redis does   *)
(* and what the coroutine does with the answer; either is late at will.    *)
(***************************************************************************)
EXTENDS Integers, FiniteSets

CONSTANTS
    Workers,   \* processes, each with an app.state of its own
    Requests,  \* each is made once
    WorkerOf,  \* WorkerOf[r]: the worker that serves r
    Key,       \* Key[r]: the client and route of r, what a bucket is named for
    Max,       \* RATE_LIMIT_MAX_REQUESTS
    Pingers,   \* who pings: the heartbeat, and the health endpoints
    None

ASSUME RateLimiterAssumption ==
    /\ WorkerOf \in [Requests -> Workers]
    /\ IsFiniteSet(Requests)
    /\ Max \in Nat \ {0}
    /\ "heartbeat" \in Pingers
    /\ None \notin Requests

VARIABLES
    redisUp,     \* Redis answers
    redisBucket, \* the requests counted in Redis and still in the window
    flag,        \* flag[w]: cache_service._available
    serving,     \* serving[w]: the lifespan of w has reached its yield
    ping,        \* ping[w][s]: the ping of s in flight
    limiter,     \* limiter[w]: app.state's limiter
    bucket,      \* bucket[l]: the requests counted in memory by the limiter l built
    pc,
    using,       \* using[r]: the limiter r holds
    recent,      \* history: the requests let through and still in the window
    steady       \* history: steady[w], those that came since w was last disturbed

envVars == <<redisUp, serving, ping>>
vars == <<redisUp, redisBucket, flag, serving, ping, limiter, bucket, pc, using,
          recent, steady>>

(***************************************************************************)
(* A limiter is named by the request that built it.  Of its signature only *)
(* the availability ever changes while a worker runs.                      *)
(***************************************************************************)
Limiter == [id : Requests, redis : BOOLEAN, available : BOOLEAN]
NoLimiter == [id |-> None, redis |-> FALSE, available |-> FALSE]

Arrived == {"building", "loaded", "unloaded", "acquiring", "counted", "full", "broken"}
Done == {"admitted", "refused", "ended"}
PC == {"new"} \union Arrived \union Done
Holding == {"acquiring", "counted", "full", "broken", "admitted", "refused"}

InFlight(r) == pc[r] \in Arrived
Building(w) == {r \in Requests : /\ WorkerOf[r] = w
                                 /\ pc[r] \in {"building", "loaded", "unloaded"}}
SameKey(S, r) == {q \in S : Key[q] = Key[r]}

TypeOK ==
    /\ redisUp \in BOOLEAN
    /\ redisBucket \subseteq Requests
    /\ flag \in [Workers -> BOOLEAN]
    /\ serving \in [Workers -> BOOLEAN]
    /\ ping \in [Workers -> [Pingers -> {"none", "pong", "lost"}]]
    /\ limiter \in [Workers -> Limiter \union {NoLimiter}]
    /\ bucket \in [Requests -> SUBSET Requests]
    /\ pc \in [Requests -> PC]
    /\ using \in [Requests -> Limiter \union {NoLimiter}]
    /\ recent \subseteq Requests
    /\ steady \in [Workers -> SUBSET Requests]

\* Every worker starts with the ping of its lifespan, and serves after it.
Init ==
    /\ redisUp \in BOOLEAN
    /\ redisBucket = {}
    /\ flag = [w \in Workers |-> FALSE]
    /\ serving = [w \in Workers |-> FALSE]
    /\ ping = [w \in Workers |-> [s \in Pingers |-> "none"]]
    /\ limiter = [w \in Workers |-> NoLimiter]
    /\ bucket = [l \in Requests |-> {}]
    /\ pc = [r \in Requests |-> "new"]
    /\ using = [r \in Requests |-> NoLimiter]
    /\ recent = {}
    /\ steady = [w \in Workers |-> {}]

Goto(r, p) == pc' = [pc EXCEPT ![r] = p]

\* What disturbs a worker: its flag changes.
SetFlag(w, value) ==
    /\ flag' = [flag EXCEPT ![w] = value]
    /\ steady' = IF flag[w] = value THEN steady ELSE [steady EXCEPT ![w] = {}]
-----------------------------------------------------------------------------
(***************************************************************************)
(* A request: RequestRateLimiter.__call__.                                 *)
(***************************************************************************)
\* _runtime_signature, as far as it changes.
Signature(w) == flag[w]

Matches(w) == limiter[w] # NoLimiter /\ limiter[w].available = Signature(w)

\* The installed limiter serves.
UseLimiter(r) ==
    LET w == WorkerOf[r] IN
    /\ pc[r] = "new"
    /\ serving[w]
    /\ Matches(w)
    /\ Goto(r, "acquiring")
    /\ using' = [using EXCEPT ![r] = limiter[w]]
    /\ steady' = [steady EXCEPT ![w] = @ \union {r}]
    /\ UNCHANGED <<envVars, redisBucket, flag, limiter, bucket, recent>>

\* None is installed or its signature is old: the request builds one.  A
\* second builder disturbs the worker, since one of the two is overwritten.
StartBuild(r) ==
    LET w == WorkerOf[r] IN
    /\ pc[r] = "new"
    /\ serving[w]
    /\ ~Matches(w)
    /\ Goto(r, "building")
    /\ steady' = [steady EXCEPT ![w] =
                     IF Building(w) = {} THEN @ \union {r} ELSE {r}]
    /\ UNCHANGED <<envVars, redisBucket, flag, limiter, bucket, using, recent>>

\* RedisBucket.init loads its script, or fails.
LoadScript(r) ==
    /\ pc[r] = "building"
    /\ Goto(r, IF redisUp THEN "loaded" ELSE "unloaded")
    /\ UNCHANGED <<envVars, redisBucket, flag, limiter, bucket, using, recent, steady>>

\* A bug: the request uses the limiter it built and does not install it.
InstallForgotten(r, l) ==
    /\ using' = [using EXCEPT ![r] = l]
    /\ UNCHANGED limiter

\* The state that was built is put into app.state over any other, with the
\* signature of this moment.
Install(r, l) ==
    /\ using' = [using EXCEPT ![r] = l]
    /\ limiter' = [limiter EXCEPT ![WorkerOf[r]] = l]

\* An installed limiter whose builder came before the last disturbance is one.
SteadyAfterInstall(r) ==
    IF r \in steady[WorkerOf[r]] THEN steady
    ELSE [steady EXCEPT ![WorkerOf[r]] = {}]

InstallRedisLimiter(r) ==
    LET w == WorkerOf[r] IN
    /\ pc[r] = "loaded"
    /\ Install(r, [id |-> r, redis |-> TRUE, available |-> Signature(w)])
    /\ steady' = SteadyAfterInstall(r)
    /\ Goto(r, "acquiring")
    /\ UNCHANGED <<envVars, redisBucket, flag, bucket, recent>>

\* A bug: the signature is computed before the failure is marked.
MemorySignatureBefore(w) == flag[w]

MemorySignature(w) == FALSE

\* Redis did not load the script: the flag is cleared, then the signature of
\* the limiter in memory is computed, with no await between.
InstallMemoryLimiter(r) ==
    LET w == WorkerOf[r] IN
    /\ pc[r] = "unloaded"
    /\ Install(r, [id |-> r, redis |-> FALSE, available |-> MemorySignature(w)])
    /\ flag' = [flag EXCEPT ![w] = FALSE]
    /\ steady' = IF flag[w] THEN [steady EXCEPT ![w] = {}] ELSE SteadyAfterInstall(r)
    /\ Goto(r, "acquiring")
    /\ UNCHANGED <<envVars, redisBucket, bucket, recent>>

\* A bug: one more than the rate is let through.
HasRoomAndOne(S, r) == Cardinality(SameKey(S, r)) <= Max

HasRoom(S, r) == Cardinality(SameKey(S, r)) < Max

\* The answer is 429, or nobody waits for it, or it was long ago.
End(r) ==
    /\ Goto(r, "ended")
    /\ using' = [using EXCEPT ![r] = NoLimiter]

\* A limiter in memory decides at one stroke.
AcquireInMemory(r) ==
    LET l == using[r].id IN
    /\ pc[r] = "acquiring"
    /\ ~using[r].redis
    /\ IF HasRoom(bucket[l], r)
       THEN /\ bucket' = [bucket EXCEPT ![l] = @ \union {r}]
            /\ recent' = recent \union {r}
            /\ Goto(r, "admitted")
            /\ UNCHANGED using
       ELSE /\ End(r)
            /\ UNCHANGED <<bucket, recent>>
    /\ UNCHANGED <<envVars, redisBucket, flag, limiter, steady>>

\* Redis counts the request if there is room: the bucket of a key is one for
\* all workers and limiters.
RedisCounts(r) ==
    /\ pc[r] = "acquiring"
    /\ using[r].redis
    /\ redisUp
    /\ IF HasRoom(redisBucket, r)
       THEN /\ redisBucket' = redisBucket \union {r}
            /\ Goto(r, "counted")
       ELSE /\ Goto(r, "full")
            /\ UNCHANGED redisBucket
    /\ UNCHANGED <<envVars, flag, limiter, bucket, using, recent, steady>>

\* A bug: the socket has no timeout.
NeverTimesOut(r) == FALSE

\* Redis does not answer, or its answer is lost after it counted: the socket
\* times out.
TimesOut(r) ==
    /\ ~redisUp
    /\ pc[r] \in {"acquiring", "counted", "full"}
    /\ using[r].redis

LoseAnswer(r) ==
    /\ TimesOut(r)
    /\ Goto(r, "broken")
    /\ UNCHANGED <<envVars, redisBucket, flag, limiter, bucket, using, recent, steady>>

\* Counted by Redis: the request is let through.
Admit(r) ==
    /\ pc[r] = "counted"
    /\ Goto(r, "admitted")
    /\ recent' = recent \union ({r} \intersect redisBucket)
    /\ UNCHANGED <<envVars, redisBucket, flag, limiter, bucket, using, steady>>

Limit(r) ==
    /\ pc[r] = "full"
    /\ End(r)
    /\ UNCHANGED <<envVars, redisBucket, flag, limiter, bucket, recent, steady>>

\* A limiter in Redis that fails denies the request and clears the flag.
FailClosed(r) ==
    /\ pc[r] = "broken"
    /\ Goto(r, "refused")
    /\ SetFlag(WorkerOf[r], FALSE)
    /\ UNCHANGED <<envVars, redisBucket, limiter, bucket, using, recent>>

\* The window moves past a counted request.
WindowPasses(r) ==
    /\ r \in redisBucket \union recent \union UNION {bucket[l] : l \in Requests}
    /\ redisBucket' = redisBucket \ {r}
    /\ bucket' = [l \in Requests |-> bucket[l] \ {r}]
    /\ recent' = recent \ {r}
    /\ IF pc[r] = "admitted" THEN End(r) ELSE UNCHANGED <<pc, using>>
    /\ UNCHANGED <<envVars, flag, limiter, steady>>
-----------------------------------------------------------------------------
(***************************************************************************)
(* The availability flag.                                                  *)
(***************************************************************************)
SetPing(w, s, p) == ping' = [ping EXCEPT ![w][s] = p]

\* A bug: the heartbeat gives up when a ping fails.
BeatsWhileAvailable(w) == serving[w] /\ flag[w]

\* heartbeat_loop: after each delay a ping, whatever became of the last.
Beats(w) == serving[w]

\* Redis answers a ping or does not.
Ping(w, s) ==
    /\ ping[w][s] = "none"
    /\ SetPing(w, s, IF redisUp THEN "pong" ELSE "lost")
    /\ UNCHANGED <<redisUp, redisBucket, flag, serving, limiter, bucket, pc, using,
                   recent, steady>>

\* The first of a worker is the lifespan's, before the yield.
Heartbeat(w) == (serving[w] => Beats(w)) /\ Ping(w, "heartbeat")

\* GET /health and GET /ready.
HealthPing(w, s) == s # "heartbeat" /\ serving[w] /\ Ping(w, s)

\* The answer sets the flag, however old it is.  The lifespan goes on to its
\* yield either way, and starts the heartbeat.
PingReturns(w, s) ==
    /\ ping[w][s] \in {"pong", "lost"}
    /\ SetFlag(w, ping[w][s] = "pong")
    /\ SetPing(w, s, "none")
    /\ serving' = [serving EXCEPT ![w] = TRUE]
    /\ UNCHANGED <<redisUp, redisBucket, limiter, bucket, pc, using, recent>>

\* get_json, set_json, delete, delete_many: a failure is swallowed and marked.
CommandFails(w) ==
    /\ serving[w]
    /\ ~redisUp
    /\ SetFlag(w, FALSE)
    /\ UNCHANGED <<envVars, redisBucket, limiter, bucket, pc, using, recent>>
-----------------------------------------------------------------------------
\* Redis becomes reachable or ceases to be; it keeps its buckets.
RedisTurns ==
    /\ redisUp' = ~redisUp
    /\ UNCHANGED <<redisBucket, flag, serving, ping, limiter, bucket, pc,
                   using, recent, steady>>

\* A worker dies and is started again: its requests are gone and so is
\* everything in its memory.
Lost(r, w) == WorkerOf[r] = w /\ InFlight(r)

Restart(w) ==
    /\ serving[w]
    /\ serving' = [serving EXCEPT ![w] = FALSE]
    /\ flag' = [flag EXCEPT ![w] = FALSE]
    /\ ping' = [ping EXCEPT ![w] = [s \in Pingers |-> "none"]]
    /\ limiter' = [limiter EXCEPT ![w] = NoLimiter]
    /\ steady' = [steady EXCEPT ![w] = {}]
    /\ pc' = [r \in Requests |-> IF Lost(r, w) THEN "ended" ELSE pc[r]]
    /\ using' = [r \in Requests |-> IF Lost(r, w) THEN NoLimiter ELSE using[r]]
    /\ UNCHANGED <<redisUp, redisBucket, bucket, recent>>

Step(r) ==
    \/ LoadScript(r)
    \/ InstallRedisLimiter(r)
    \/ InstallMemoryLimiter(r)
    \/ AcquireInMemory(r)
    \/ RedisCounts(r)
    \/ LoseAnswer(r)
    \/ Admit(r)
    \/ Limit(r)
    \/ FailClosed(r)

Next ==
    \/ \E r \in Requests : UseLimiter(r) \/ StartBuild(r) \/ Step(r) \/ WindowPasses(r)
    \/ \E w \in Workers, s \in Pingers : HealthPing(w, s) \/ PingReturns(w, s)
    \/ \E w \in Workers : Heartbeat(w) \/ CommandFails(w) \/ Restart(w)
    \/ RedisTurns

(***************************************************************************)
(* Coroutines go on once Redis has answered or timed out, and the          *)
(* heartbeat sleeps for a finite time.  No client has to come, no health   *)
(* endpoint to be called, and Redis owes nothing but silence or an answer. *)
(***************************************************************************)
RequestGoesOn(r) == WF_vars(Step(r))
PingEnds(w, s) == WF_vars(PingReturns(w, s))
HeartGoesOn(w) == WF_vars(Heartbeat(w))

Fairness ==
    /\ \A r \in Requests : RequestGoesOn(r)
    /\ \A w \in Workers, s \in Pingers : PingEnds(w, s)
    /\ \A w \in Workers : HeartGoesOn(w)

Spec == Init /\ [][Next]_vars /\ Fairness
-----------------------------------------------------------------------------
(***************************************************************************)
(* Properties.                                                             *)
(***************************************************************************)
Bucket(l) == IF l.redis THEN {} ELSE {l.id}

CountedIn(q) == IF using[q].redis THEN redisBucket ELSE bucket[using[q].id]

\* A request holds a limiter from the end of its build on, one in Redis if
\* Redis counts it.
HoldingOK ==
    \A r \in Requests :
        /\ pc[r] \in {"new", "building", "loaded", "unloaded"} => using[r] = NoLimiter
        /\ pc[r] \in Holding => using[r] # NoLimiter
        /\ pc[r] \in {"counted", "full", "broken"} => using[r].redis

\* Who has just been let through is in the bucket of the limiter it holds.
AdmittedOK == \A q \in recent : pc[q] = "admitted" /\ q \in CountedIn(q)

\* No bucket holds more requests of a key than the rate.
BucketsHold ==
    \A r \in Requests :
        /\ Cardinality(SameKey(redisBucket, r)) <= Max
        /\ \A l \in Requests : Cardinality(SameKey(bucket[l], r)) <= Max

\* A limiter in memory is never signed as available: the next successful ping
\* makes its signature an old one.
MemoryIsMarked ==
    \A w \in Workers : limiter[w].available => limiter[w].redis

\* Of the requests that came since a worker was last disturbed, one may be
\* building, and then it is the only one; all others hold the installed
\* limiter's bucket.
SteadyOf(w) ==
    \A r \in steady[w] :
        /\ WorkerOf[r] = w
        /\ pc[r] # "new"
        /\ r \in Building(w) => steady[w] = {r} /\ ~Matches(w)
        /\ r \notin Building(w) => Matches(w)
        /\ using[r] # NoLimiter => Bucket(using[r]) = Bucket(limiter[w])

SteadyOK == \A w \in Workers : SteadyOf(w)

\* What holds in every state (inductive).
IInv == TypeOK /\ HoldingOK /\ AdmittedOK /\ BucketsHold /\ MemoryIsMarked /\ SteadyOK

\* rate_limit.py:231-238.  As long as no flag changes and no two requests
\* build at once, a worker lets no more requests of a key through than the
\* rate, whatever was built and thrown away before.
SteadyLimit ==
    \A w \in Workers : \A r \in steady[w] :
        Cardinality(SameKey(steady[w] \intersect recent, r)) <= Max

\* rate_limit.py:141-160, docs/release.md:24.  Of the requests that any worker
\* let through and Redis counted, whatever limiters they were counted by and
\* whatever was installed since, there are no more of a key than the rate.
SharedLimit ==
    \A r \in Requests :
        Cardinality(SameKey({q \in recent : using[q].redis}, r)) <= Max

\* rate_limit.py:195-217, cache.py:154-172.  Once Redis stays up and the
\* workers run, every worker comes to count in Redis again: the flag stays
\* set, and a limiter in memory is one the next request replaces.
CountsInRedis(w) == flag[w] /\ (limiter[w] # NoLimiter /\ Matches(w) => limiter[w].redis)

Healthy == redisUp /\ \A w \in Workers : serving[w]

SharedLimitReturns == <>[]Healthy => <>[](\A w \in Workers : CountsInRedis(w))

\* rate_limit.py:240-249.  A request the limiter holds is let through or
\* denied in the end, unless its worker dies: Redis may hang, not the limiter.
EveryRequestEnds == \A r \in Requests : InFlight(r) ~> ~InFlight(r)

\* rate_limit.py:195-249.  It never waits for another request or for Redis to
\* come back: whatever Redis does, some step of it can be taken.
RequestsCanGoOn == \A r \in Requests : InFlight(r) => ENABLED <<Step(r)>>_vars
=============================================================================
