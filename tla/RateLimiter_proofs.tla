------------------------- MODULE RateLimiter_proofs -------------------------
(***************************************************************************)
(* Proofs about RateLimiter, for every number of workers and requests,     *)
(* every rate and every assignment of requests to workers and keys.        *)
(***************************************************************************)
EXTENDS RateLimiter, FiniteSetTheorems, TLAPS

USE RateLimiterAssumption

-----------------------------------------------------------------------------
(***************************************************************************)
(* Buckets.                                                                *)
(***************************************************************************)

\* A part of a bucket holds no more of a key than the bucket.
LEMMA PartHoldsNoMore ==
    ASSUME NEW S \in SUBSET Requests, NEW T \in SUBSET S, NEW r \in Requests,
           Cardinality(SameKey(S, r)) <= Max
    PROVE  Cardinality(SameKey(T, r)) <= Max
<1>1. IsFiniteSet(SameKey(S, r)) /\ SameKey(T, r) \subseteq SameKey(S, r)
    BY FS_Subset DEF SameKey
<1>2. /\ IsFiniteSet(SameKey(T, r))
      /\ Cardinality(SameKey(T, r)) <= Cardinality(SameKey(S, r))
    BY <1>1, FS_Subset
<1>3. Cardinality(SameKey(T, r)) \in Nat /\ Cardinality(SameKey(S, r)) \in Nat
    BY <1>1, <1>2, FS_CardinalityType
<1>4. QED
    BY <1>2, <1>3

\* A request that is counted only where there is room leaves no more of any
\* key in the bucket than the rate.
LEMMA RoomForOne ==
    ASSUME NEW S \in SUBSET Requests, NEW r \in Requests, HasRoom(S, r),
           \A q \in Requests : Cardinality(SameKey(S, q)) <= Max
    PROVE  \A q \in Requests : Cardinality(SameKey(S \union {r}, q)) <= Max
<1> TAKE q \in Requests
<1>1. IsFiniteSet(SameKey(S, q))
    BY FS_Subset DEF SameKey
<1>2. CASE Key[r] = Key[q]
    <2>1. SameKey(S \union {r}, q) = SameKey(S, q) \union {r} /\ SameKey(S, q) = SameKey(S, r)
        BY <1>2 DEF SameKey
    <2>2. \/ Cardinality(SameKey(S, q) \union {r}) = Cardinality(SameKey(S, q))
          \/ Cardinality(SameKey(S, q) \union {r}) = Cardinality(SameKey(S, q)) + 1
        BY <1>1, FS_AddElement
    <2>3. Cardinality(SameKey(S, q)) \in Nat
        BY <1>1, FS_CardinalityType
    <2>4. QED
        BY <2>1, <2>2, <2>3 DEF HasRoom
<1>3. CASE Key[r] # Key[q]
    BY <1>3 DEF SameKey
<1>4. QED
    BY <1>2, <1>3

-----------------------------------------------------------------------------
(***************************************************************************)
(* Type correctness.                                                       *)
(***************************************************************************)
LEMMA CountingTyped ==
    ASSUME NEW B \in [Requests -> SUBSET Requests], NEW k, NEW r \in Requests
    PROVE  [B EXCEPT ![k] = @ \union {r}] \in [Requests -> SUBSET Requests]
    OBVIOUS

LEMMA RequestStepTyped ==
    ASSUME TypeOK, NEW r \in Requests,
           UseLimiter(r) \/ StartBuild(r) \/ Step(r) \/ WindowPasses(r)
    PROVE  TypeOK'
<1> USE DEF TypeOK, envVars, Goto
<1>1. WorkerOf[r] \in Workers /\ limiter[WorkerOf[r]] \in Limiter \union {NoLimiter}
    OBVIOUS
<1>2. PC = {"new", "building", "loaded", "unloaded", "acquiring", "counted", "full",
            "broken", "admitted", "refused", "ended"}
    BY DEF PC, Arrived, Done
<1>3. CASE UseLimiter(r)
    BY <1>1, <1>2, <1>3 DEF UseLimiter
<1>4. CASE StartBuild(r)
    BY <1>1, <1>2, <1>4 DEF StartBuild
<1>5. CASE LoadScript(r)
    BY <1>2, <1>5 DEF LoadScript
<1>6. CASE InstallRedisLimiter(r)
    <2>1. [id |-> r, redis |-> TRUE, available |-> Signature(WorkerOf[r])] \in Limiter
        BY <1>1 DEF Signature, Limiter
    <2>2. QED
        BY <1>1, <1>2, <1>6, <2>1 DEF InstallRedisLimiter, Install, SteadyAfterInstall
<1>7. CASE InstallMemoryLimiter(r)
    <2>1. [id |-> r, redis |-> FALSE, available |-> MemorySignature(WorkerOf[r])] \in Limiter
        BY DEF MemorySignature, Limiter
    <2>2. QED
        BY <1>1, <1>2, <1>7, <2>1 DEF InstallMemoryLimiter, Install, SteadyAfterInstall
<1>8. CASE AcquireInMemory(r)
    <2>1. CASE HasRoom(bucket[using[r].id], r)
        <3>1. bucket' = [bucket EXCEPT ![using[r].id] = @ \union {r}]
            BY <1>8, <2>1 DEF AcquireInMemory
        <3>2. bucket' \in [Requests -> SUBSET Requests]
            BY <3>1, CountingTyped
        <3>3. QED
            BY ZenonT(40), <1>2, <1>8, <2>1, <3>2 DEF AcquireInMemory
    <2>2. CASE ~HasRoom(bucket[using[r].id], r)
        BY <1>2, <1>8, <2>2 DEF AcquireInMemory, End
    <2>3. QED
        BY <2>1, <2>2
<1>9. CASE RedisCounts(r)
    BY SMTT(30), <1>2, <1>9 DEF RedisCounts
<1>10. CASE LoseAnswer(r)
    BY <1>2, <1>10 DEF LoseAnswer
<1>11. CASE Admit(r)
    BY <1>2, <1>11 DEF Admit
<1>12. CASE Limit(r)
    BY <1>2, <1>12 DEF Limit, End
<1>13. CASE FailClosed(r)
    BY <1>1, <1>2, <1>13 DEF FailClosed, SetFlag
<1>14. CASE WindowPasses(r)
    BY <1>2, <1>14 DEF WindowPasses, End
<1>15. QED
    BY <1>3, <1>4, <1>5, <1>6, <1>7, <1>8, <1>9, <1>10, <1>11, <1>12, <1>13, <1>14
       DEF Step

LEMMA WorkerStepTyped ==
    ASSUME TypeOK, NEW w \in Workers,
           \/ Heartbeat(w) \/ CommandFails(w) \/ Restart(w)
           \/ \E s \in Pingers : HealthPing(w, s) \/ PingReturns(w, s)
    PROVE  TypeOK'
<1> USE DEF TypeOK, envVars
<1>1. ASSUME NEW s \in Pingers, Ping(w, s)
      PROVE  TypeOK'
    BY <1>1 DEF Ping, SetPing
<1>2. ASSUME NEW s \in Pingers, PingReturns(w, s)
      PROVE  TypeOK'
    BY <1>2 DEF PingReturns, SetPing, SetFlag
<1>3. CASE CommandFails(w)
    BY <1>3 DEF CommandFails, SetFlag
<1>4. CASE Restart(w)
    BY <1>4 DEF Restart, PC, Done
<1>5. QED
    BY <1>1, <1>2, <1>3, <1>4 DEF Heartbeat, HealthPing

LEMMA NextTyped == TypeOK /\ [Next]_vars => TypeOK'
<1> SUFFICES ASSUME TypeOK, [Next]_vars
             PROVE  TypeOK'
    OBVIOUS
<1>1. CASE RedisTurns
    BY <1>1 DEF RedisTurns, TypeOK
<1>2. CASE UNCHANGED vars
    BY <1>2 DEF vars, TypeOK
<1>3. QED
    BY <1>1, <1>2, RequestStepTyped, WorkerStepTyped DEF Next

-----------------------------------------------------------------------------
(***************************************************************************)
(* What a request holds and what it is counted in.                         *)
(***************************************************************************)
LEMMA LimiterIsSomething ==
    ASSUME NEW l \in Limiter
    PROVE  l # NoLimiter /\ l.id \in Requests /\ l.redis \in BOOLEAN
    BY DEF Limiter, NoLimiter

LEMMA HoldingStep == TypeOK /\ HoldingOK /\ [Next]_vars => HoldingOK'
<1> SUFFICES ASSUME TypeOK, HoldingOK, [Next]_vars
             PROVE  HoldingOK'
    OBVIOUS
<1> USE DEF HoldingOK, Holding, Goto
<1>1. /\ pc \in [Requests -> PC] /\ using \in [Requests -> Limiter \union {NoLimiter}]
      /\ limiter \in [Workers -> Limiter \union {NoLimiter}]
    BY DEF TypeOK
<1>2. ASSUME NEW r \in Requests, UseLimiter(r)
      PROVE  HoldingOK'
    BY <1>1, <1>2 DEF UseLimiter, Matches
<1>3. ASSUME NEW r \in Requests, StartBuild(r) \/ LoadScript(r) \/ Admit(r) \/ FailClosed(r)
      PROVE  HoldingOK'
    <2>1. UNCHANGED using
        BY <1>3 DEF StartBuild, LoadScript, Admit, FailClosed
    <2>2. \/ pc[r] \in {"new", "building"} /\ \E p \in {"building", "loaded", "unloaded"} :
                                                pc' = [pc EXCEPT ![r] = p]
          \/ pc[r] \in {"counted", "broken"} /\ \E p \in {"admitted", "refused"} :
                                                pc' = [pc EXCEPT ![r] = p]
        BY <1>3 DEF StartBuild, LoadScript, Admit, FailClosed
    <2>3. QED
        BY <1>1, <2>1, <2>2
<1>4. ASSUME NEW r \in Requests, InstallRedisLimiter(r) \/ InstallMemoryLimiter(r)
      PROVE  HoldingOK'
    <2>1. /\ pc' = [pc EXCEPT ![r] = "acquiring"]
          /\ \E l : l # NoLimiter /\ using' = [using EXCEPT ![r] = l]
        BY <1>4 DEF InstallRedisLimiter, InstallMemoryLimiter, Install, NoLimiter
    <2>2. QED
        BY <1>1, <2>1
<1>5. ASSUME NEW r \in Requests, AcquireInMemory(r)
      PROVE  HoldingOK'
    BY <1>1, <1>5 DEF AcquireInMemory, End
<1>6. ASSUME NEW r \in Requests, RedisCounts(r)
      PROVE  HoldingOK'
    <2>1. /\ using[r] # NoLimiter /\ using[r].redis
          /\ UNCHANGED using
          /\ pc' = [pc EXCEPT ![r] = "counted"] \/ pc' = [pc EXCEPT ![r] = "full"]
        BY <1>6 DEF RedisCounts
    <2>2. QED
        BY <1>1, <2>1
<1>7. ASSUME NEW r \in Requests, LoseAnswer(r)
      PROVE  HoldingOK'
    BY <1>1, <1>7 DEF LoseAnswer, TimesOut
<1>8. ASSUME NEW r \in Requests, Limit(r) \/ WindowPasses(r)
       PROVE  HoldingOK'
    <2>1. \/ UNCHANGED <<pc, using>>
          \/ /\ pc' = [pc EXCEPT ![r] = "ended"]
             /\ using' = [using EXCEPT ![r] = NoLimiter]
        BY <1>8 DEF Limit, WindowPasses, End
    <2>2. QED
        BY <1>1, <2>1
<1>9. ASSUME NEW w \in Workers, NEW s \in Pingers,
             \/ Heartbeat(w) \/ HealthPing(w, s) \/ PingReturns(w, s) \/ CommandFails(w)
      PROVE  HoldingOK'
    <2>1. UNCHANGED <<pc, using>>
        BY <1>9 DEF Heartbeat, HealthPing, Ping, PingReturns, CommandFails
    <2>2. QED
        BY <2>1
<1>10. ASSUME NEW w \in Workers, Restart(w)
       PROVE  HoldingOK'
    BY <1>1, <1>10 DEF Restart
<1>11. CASE RedisTurns \/ UNCHANGED vars
    BY <1>11 DEF RedisTurns, vars
<1>12. QED
    BY <1>2, <1>3, <1>4, <1>5, <1>6, <1>7, <1>8, <1>9, <1>10, <1>11 DEF Next, Step

\* A step changes what is recent only when it lets a request through or go,
\* and the bucket and limiter of a recent request only then.
LEMMA AdmittedStep == TypeOK /\ HoldingOK /\ AdmittedOK /\ [Next]_vars => AdmittedOK'
<1> SUFFICES ASSUME TypeOK, HoldingOK, AdmittedOK, [Next]_vars
             PROVE  AdmittedOK'
    OBVIOUS
<1> USE DEF AdmittedOK, CountedIn, Goto
<1>1. /\ pc \in [Requests -> PC] /\ using \in [Requests -> Limiter \union {NoLimiter}]
      /\ bucket \in [Requests -> SUBSET Requests]
      /\ recent \subseteq Requests
    BY DEF TypeOK
<1>2. \A q \in recent : using[q] \in Limiter
    BY <1>1 DEF HoldingOK, Holding
<1>3. ASSUME NEW r \in Requests, pc[r] # "admitted", UNCHANGED <<redisBucket, bucket, recent>>,
             \A q \in Requests : q = r \/ (pc'[q] = pc[q] /\ using'[q] = using[q])
      PROVE  AdmittedOK'
    BY <1>1, <1>3
<1>4. ASSUME NEW r \in Requests,
             \/ UseLimiter(r) \/ StartBuild(r) \/ LoadScript(r) \/ InstallRedisLimiter(r)
             \/ InstallMemoryLimiter(r) \/ LoseAnswer(r) \/ Limit(r) \/ FailClosed(r)
      PROVE  AdmittedOK'
    <2>1. /\ pc[r] # "admitted"
          /\ UNCHANGED <<redisBucket, bucket, recent>>
          /\ \A q \in Requests : q = r \/ (pc'[q] = pc[q] /\ using'[q] = using[q])
        BY ZenonT(40), <1>1, <1>4 DEF UseLimiter, StartBuild, LoadScript, InstallRedisLimiter,
              InstallMemoryLimiter, Install, LoseAnswer, TimesOut, Limit, End, FailClosed
    <2>2. QED
        BY <1>3, <2>1
<1>5. ASSUME NEW r \in Requests, AcquireInMemory(r)
      PROVE  AdmittedOK'
    <2>1. using[r] \in Limiter /\ ~using[r].redis /\ pc[r] = "acquiring"
        BY <1>1, <1>5 DEF AcquireInMemory, HoldingOK, Holding
    <2>2. CASE HasRoom(bucket[using[r].id], r)
        <3>1. \A l \in Requests : bucket[l] \subseteq bucket'[l]
            BY <1>1, <1>5, <2>2 DEF AcquireInMemory
        <3>2. r \in bucket'[using[r].id]
            BY <1>1, <1>5, <2>1, <2>2, LimiterIsSomething DEF AcquireInMemory
        <3>3. /\ UNCHANGED <<using, redisBucket>> /\ recent' = recent \union {r}
              /\ pc' = [pc EXCEPT ![r] = "admitted"]
            BY <1>5, <2>2 DEF AcquireInMemory
        <3>4. ASSUME NEW q \in recent
              PROVE  pc'[q] = "admitted" /\ q \in CountedIn(q)'
            BY <1>1, <1>2, <3>1, <3>3, <3>4, LimiterIsSomething
        <3>5. QED
            BY <1>1, <2>1, <3>2, <3>3, <3>4
    <2>3. CASE ~HasRoom(bucket[using[r].id], r)
        <3>1. /\ UNCHANGED <<redisBucket, bucket, recent>>
              /\ \A q \in Requests : q = r \/ (pc'[q] = pc[q] /\ using'[q] = using[q])
            BY <1>1, <1>5, <2>3 DEF AcquireInMemory, End
        <3>2. QED
            BY <1>3, <2>1, <3>1
    <2>4. QED
        BY <2>2, <2>3
<1>6. ASSUME NEW r \in Requests, RedisCounts(r)
      PROVE  AdmittedOK'
    <2>1. redisBucket \subseteq redisBucket' /\ UNCHANGED <<bucket, using, recent>>
        BY <1>6 DEF RedisCounts
    <2>2. pc[r] # "admitted" /\ \A q \in Requests : q = r \/ pc'[q] = pc[q]
        BY <1>1, <1>6 DEF RedisCounts
    <2>3. QED
        BY <1>1, <2>1, <2>2
<1>7. ASSUME NEW r \in Requests, Admit(r)
      PROVE  AdmittedOK'
    <2>1. using[r].redis
        BY <1>7 DEF Admit, HoldingOK
    <2>2. QED
        BY <1>1, <1>7, <2>1 DEF Admit
<1>8. ASSUME NEW r \in Requests, WindowPasses(r)
       PROVE  AdmittedOK'
    <2>1. \A q \in recent' : q \in recent /\ q # r /\ using'[q] = using[q] /\ pc'[q] = pc[q]
        BY <1>1, <1>8 DEF WindowPasses, End
    <2>2. ASSUME NEW q \in recent'
          PROVE  q \in CountedIn(q)'
        <3>1. using[q].id \in Requests
            BY <1>2, <2>1, LimiterIsSomething
        <3>2. QED
            BY <1>8, <2>1, <2>2, <3>1 DEF WindowPasses
    <2>3. QED
        BY <2>1, <2>2
<1>9. ASSUME NEW w \in Workers, NEW s \in Pingers,
             \/ Heartbeat(w) \/ HealthPing(w, s) \/ PingReturns(w, s) \/ CommandFails(w)
      PROVE  AdmittedOK'
    BY <1>9 DEF Heartbeat, HealthPing, Ping, PingReturns, CommandFails
<1>10. ASSUME NEW w \in Workers, Restart(w)
       PROVE  AdmittedOK'
    <2>1. \A r \in Requests : pc[r] = "admitted" => ~Lost(r, w)
        BY DEF Lost, InFlight, Arrived
    <2>2. QED
        BY <1>1, <1>10, <2>1 DEF Restart
<1>11. CASE RedisTurns \/ UNCHANGED vars
    BY <1>11 DEF RedisTurns, vars
<1>12. QED
    BY <1>4, <1>5, <1>6, <1>7, <1>8, <1>9, <1>10, <1>11 DEF Next, Step

-----------------------------------------------------------------------------
(***************************************************************************)
(* The rate of every bucket.                                               *)
(***************************************************************************)
LEMMA BucketsHoldStep == TypeOK /\ BucketsHold /\ [Next]_vars => BucketsHold'
<1> SUFFICES ASSUME TypeOK, BucketsHold, [Next]_vars
             PROVE  BucketsHold'
    OBVIOUS
<1> USE DEF envVars, vars
<1>1. redisBucket \in SUBSET Requests /\ bucket \in [Requests -> SUBSET Requests]
    BY DEF TypeOK
<1>2. ASSUME NEW r \in Requests, AcquireInMemory(r)
      PROVE  BucketsHold'
    <2>1. CASE HasRoom(bucket[using[r].id], r)
        <3>1. ASSUME NEW l \in Requests, NEW q \in Requests
              PROVE  Cardinality(SameKey(bucket'[l], q)) <= Max
            <4>1. CASE l = using[r].id
                <5>1. bucket'[l] = bucket[l] \union {r} /\ HasRoom(bucket[l], r)
                    BY <1>1, <1>2, <2>1, <4>1 DEF AcquireInMemory
                <5>2. QED
                    BY <1>1, <5>1, RoomForOne DEF BucketsHold
            <4>2. CASE l # using[r].id
                <5>1. bucket'[l] = bucket[l]
                    BY <1>1, <1>2, <2>1, <4>2 DEF AcquireInMemory
                <5>2. QED
                    BY <5>1 DEF BucketsHold
            <4>3. QED
                BY <4>1, <4>2
        <3>2. redisBucket' = redisBucket
            BY <1>2 DEF AcquireInMemory
        <3>3. QED
            BY <3>1, <3>2 DEF BucketsHold, SameKey
    <2>2. CASE ~HasRoom(bucket[using[r].id], r)
        BY <1>2, <2>2 DEF AcquireInMemory, BucketsHold, SameKey
    <2>3. QED
        BY <2>1, <2>2
<1>3. ASSUME NEW r \in Requests, RedisCounts(r)
      PROVE  BucketsHold'
    <2>1. \A q \in Requests : Cardinality(SameKey(redisBucket', q)) <= Max
        <3>1. CASE HasRoom(redisBucket, r)
            <4>1. redisBucket' = redisBucket \union {r}
                BY <1>3, <3>1 DEF RedisCounts
            <4>2. QED
                BY <1>1, <3>1, <4>1, RoomForOne DEF BucketsHold
        <3>2. CASE ~HasRoom(redisBucket, r)
            BY <1>3, <3>2 DEF RedisCounts, BucketsHold
        <3>3. QED
            BY <3>1, <3>2
    <2>2. bucket' = bucket
        BY <1>3 DEF RedisCounts
    <2>3. QED
        BY <2>1, <2>2 DEF BucketsHold, SameKey
<1>4. ASSUME NEW r \in Requests, WindowPasses(r)
      PROVE  BucketsHold'
    <2>1. ASSUME NEW q \in Requests, NEW l \in Requests
          PROVE  /\ Cardinality(SameKey(redisBucket', q)) <= Max
                 /\ Cardinality(SameKey(bucket'[l], q)) <= Max
        <3>1. redisBucket' \in SUBSET redisBucket /\ bucket'[l] \in SUBSET bucket[l]
            BY <1>4 DEF WindowPasses
        <3>2. QED
            BY <1>1, <3>1, PartHoldsNoMore DEF BucketsHold
    <2>2. QED
        BY <2>1 DEF BucketsHold, SameKey
<1>5. CASE UNCHANGED <<redisBucket, bucket>>
    BY <1>5 DEF BucketsHold, SameKey
<1>6. ASSUME NEW r \in Requests,
             \/ UseLimiter(r) \/ StartBuild(r) \/ LoadScript(r) \/ InstallRedisLimiter(r)
             \/ InstallMemoryLimiter(r) \/ LoseAnswer(r) \/ Admit(r) \/ Limit(r) \/ FailClosed(r)
      PROVE  UNCHANGED <<redisBucket, bucket>>
    BY <1>6 DEF UseLimiter, StartBuild, LoadScript, InstallRedisLimiter,
                InstallMemoryLimiter, LoseAnswer, Admit, Limit, FailClosed
<1>7. ASSUME NEW w \in Workers, NEW s \in Pingers,
             \/ Heartbeat(w) \/ HealthPing(w, s) \/ PingReturns(w, s)
             \/ CommandFails(w) \/ Restart(w)
      PROVE  UNCHANGED <<redisBucket, bucket>>
    BY <1>7 DEF Heartbeat, HealthPing, Ping, PingReturns, CommandFails, Restart
<1>8. CASE RedisTurns
    BY <1>5, <1>8 DEF RedisTurns
<1>9. QED
    BY <1>2, <1>3, <1>4, <1>5, <1>6, <1>7, <1>8 DEF Next, Step

-----------------------------------------------------------------------------
(***************************************************************************)
(* Signatures, and the requests of an undisturbed worker.                  *)
(***************************************************************************)

\* rate_limit.py:206-217.  The signature of a limiter in memory is computed
\* after the failure is marked.
LEMMA MarkedStep == TypeOK /\ MemoryIsMarked /\ [Next]_vars => MemoryIsMarked'
<1> SUFFICES ASSUME TypeOK, MemoryIsMarked, [Next]_vars
             PROVE  MemoryIsMarked'
    OBVIOUS
<1> USE DEF MemoryIsMarked
<1>1. limiter \in [Workers -> Limiter \union {NoLimiter}]
    BY DEF TypeOK
<1>2. ASSUME NEW r \in Requests, InstallRedisLimiter(r) \/ InstallMemoryLimiter(r)
      PROVE  MemoryIsMarked'
    BY <1>1, <1>2 DEF InstallRedisLimiter, InstallMemoryLimiter, Install, MemorySignature
<1>3. ASSUME NEW w \in Workers, Restart(w)
      PROVE  MemoryIsMarked'
    BY <1>1, <1>3 DEF Restart, NoLimiter
<1>4. CASE UNCHANGED limiter
    BY <1>4
<1>5. ASSUME NEW r \in Requests,
             \/ UseLimiter(r) \/ StartBuild(r) \/ LoadScript(r) \/ AcquireInMemory(r)
             \/ RedisCounts(r) \/ LoseAnswer(r) \/ Admit(r) \/ Limit(r) \/ FailClosed(r)
             \/ WindowPasses(r)
      PROVE  UNCHANGED limiter
    BY <1>5 DEF UseLimiter, StartBuild, LoadScript, AcquireInMemory, RedisCounts,
                LoseAnswer, Admit, Limit, FailClosed, WindowPasses
<1>6. ASSUME NEW w \in Workers, NEW s \in Pingers,
             \/ Heartbeat(w) \/ HealthPing(w, s) \/ PingReturns(w, s) \/ CommandFails(w)
      PROVE  UNCHANGED limiter
    BY <1>6 DEF Heartbeat, HealthPing, Ping, PingReturns, CommandFails
<1>7. CASE RedisTurns \/ UNCHANGED vars
    BY <1>4, <1>7 DEF RedisTurns, vars
<1>8. QED
    BY <1>2, <1>3, <1>4, <1>5, <1>6, <1>7 DEF Next, Step

\* A step that keeps the worker's flag and limiter, and at most ends requests.
LEMMA SteadyUntouched ==
    ASSUME TypeOK, NEW w \in Workers, SteadyOf(w),
           steady'[w] = steady[w] \/ steady'[w] = {},
           flag'[w] = flag[w] \/ steady'[w] = {},
           limiter'[w] = limiter[w],
           \A r \in steady[w] :
                /\ pc'[r] # "new" /\ (using'[r] = using[r] \/ using'[r] = NoLimiter)
                /\ r \in Building(w)' <=> r \in Building(w)
    PROVE  SteadyOf(w)'
    BY DEF SteadyOf, Matches, Signature

LEMMA SteadyStep ==
    TypeOK /\ HoldingOK /\ SteadyOK /\ [Next]_vars => SteadyOK'
<1> SUFFICES ASSUME TypeOK, HoldingOK, SteadyOK, [Next]_vars, NEW w \in Workers
             PROVE  SteadyOf(w)'
    BY DEF SteadyOK
<1> USE DEF Goto
<1>1. /\ pc \in [Requests -> PC] /\ using \in [Requests -> Limiter \union {NoLimiter}]
      /\ limiter \in [Workers -> Limiter \union {NoLimiter}]
      /\ flag \in [Workers -> BOOLEAN]
      /\ steady \in [Workers -> SUBSET Requests]
    BY DEF TypeOK
<1>2. SteadyOf(w)
    BY DEF SteadyOK
<1>3. ASSUME flag'[w] = flag[w], limiter'[w] = limiter[w], steady'[w] = steady[w],
             \A q \in Requests : WorkerOf[q] = w => pc'[q] = pc[q] /\ using'[q] = using[q]
      PROVE  SteadyOf(w)'
    BY <1>1, <1>2, <1>3, SteadyUntouched DEF SteadyOf, Building
<1>4. ASSUME NEW r \in Requests, WorkerOf[r] # w,
             UseLimiter(r) \/ StartBuild(r) \/ Step(r) \/ WindowPasses(r)
      PROVE  SteadyOf(w)'
    <2>1. ASSUME NEW q \in Requests, WorkerOf[q] = w
          PROVE  pc'[q] = pc[q] /\ using'[q] = using[q]
        BY <1>1, <1>4, <2>1 DEF UseLimiter, StartBuild, Step, LoadScript,
            InstallRedisLimiter, InstallMemoryLimiter, Install, AcquireInMemory, RedisCounts,
            LoseAnswer, Admit, Limit, FailClosed, WindowPasses, End
    <2>2. flag'[w] = flag[w] /\ limiter'[w] = limiter[w] /\ steady'[w] = steady[w]
        BY <1>1, <1>4 DEF UseLimiter, StartBuild, Step, LoadScript,
            InstallRedisLimiter, InstallMemoryLimiter, Install, SteadyAfterInstall,
            AcquireInMemory, RedisCounts, LoseAnswer, Admit, Limit, FailClosed, SetFlag,
            WindowPasses
    <2>3. QED
        BY <1>3, <2>1, <2>2
<1>5. ASSUME NEW r \in Requests, WorkerOf[r] = w, UseLimiter(r)
      PROVE  SteadyOf(w)'
    <2>1. /\ Matches(w) /\ UNCHANGED <<flag, limiter>>
          /\ pc' = [pc EXCEPT ![r] = "acquiring"] /\ using' = [using EXCEPT ![r] = limiter[w]]
          /\ steady' = [steady EXCEPT ![w] = @ \union {r}]
        BY <1>5 DEF UseLimiter
    <2>2. \A q \in steady[w] : q \notin Building(w)
        BY <1>2, <2>1 DEF SteadyOf
    <2>3. QED
        BY <1>1, <1>2, <1>5, <2>1, <2>2 DEF SteadyOf, Matches, Signature, Building
<1>6. ASSUME NEW r \in Requests, WorkerOf[r] = w, StartBuild(r)
      PROVE  SteadyOf(w)'
    <2>1. /\ pc[r] = "new" /\ ~Matches(w) /\ UNCHANGED <<flag, limiter, using>>
          /\ pc' = [pc EXCEPT ![r] = "building"]
          /\ steady' = [steady EXCEPT ![w] = IF Building(w) = {} THEN @ \union {r} ELSE {r}]
        BY <1>6 DEF StartBuild
    <2>2. Building(w) = {} => steady[w] = {}
        BY <1>2, <2>1 DEF SteadyOf
    <2>3. steady'[w] = {r}
        BY <1>1, <2>1, <2>2
    <2>4. using[r] = NoLimiter
        BY <2>1 DEF HoldingOK
    <2>5. QED
        BY <1>1, <1>6, <2>1, <2>3, <2>4 DEF SteadyOf, Matches, Signature, Building
<1>7. ASSUME NEW r \in Requests, WorkerOf[r] = w, LoadScript(r)
      PROVE  SteadyOf(w)'
    BY <1>1, <1>2, <1>7, SteadyUntouched DEF LoadScript, SteadyOf, Building
<1>8. ASSUME NEW r \in Requests, WorkerOf[r] = w, NEW l \in Limiter,
             Install(r, l), pc' = [pc EXCEPT ![r] = "acquiring"], flag'[w] = l.available,
             steady'[w] = {} \/ (r \in Building(w) /\ steady'[w] = {r})
      PROVE  SteadyOf(w)'
    <2>1. /\ limiter'[w] = l /\ using'[r] = l /\ l # NoLimiter
          /\ WorkerOf[r] = w /\ pc'[r] = "acquiring"
        BY <1>1, <1>8, LimiterIsSomething DEF Install
    <2>2. Matches(w)' /\ r \notin Building(w)'
        BY <1>8, <2>1 DEF Matches, Signature, Building
    <2>3. QED
        BY <1>8, <2>1, <2>2 DEF SteadyOf
<1>9. ASSUME NEW r \in Requests, WorkerOf[r] = w, pc[r] \in {"loaded", "unloaded"}
      PROVE  r \in Building(w) /\ (r \in steady[w] => steady[w] = {r})
    BY <1>2, <1>9 DEF SteadyOf, Building
<1>10. ASSUME NEW r \in Requests, WorkerOf[r] = w, InstallRedisLimiter(r)
       PROVE  SteadyOf(w)'
    <2> DEFINE l == [id |-> r, redis |-> TRUE, available |-> flag[w]]
    <2>1. l \in Limiter /\ l.available = flag[w]
        BY <1>1 DEF Limiter
    <2>2. /\ pc[r] = "loaded" /\ Install(r, l) /\ pc' = [pc EXCEPT ![r] = "acquiring"]
          /\ UNCHANGED flag /\ steady' = SteadyAfterInstall(r)
        BY <1>10 DEF InstallRedisLimiter, Signature
    <2>3. steady'[w] = {} \/ (r \in Building(w) /\ steady'[w] = {r})
        BY <1>1, <1>9, <1>10, <2>2 DEF SteadyAfterInstall
    <2> HIDE DEF l
    <2>4. QED
        BY <1>8, <1>10, <2>1, <2>2, <2>3
<1>11. ASSUME NEW r \in Requests, WorkerOf[r] = w, InstallMemoryLimiter(r)
       PROVE  SteadyOf(w)'
    <2> DEFINE l == [id |-> r, redis |-> FALSE, available |-> FALSE]
    <2>1. l \in Limiter /\ l.available = FALSE
        BY DEF Limiter
    <2>2. /\ pc[r] = "unloaded" /\ Install(r, l) /\ pc' = [pc EXCEPT ![r] = "acquiring"]
          /\ flag' = [flag EXCEPT ![w] = FALSE]
          /\ steady' = IF flag[w] THEN [steady EXCEPT ![w] = {}] ELSE SteadyAfterInstall(r)
        BY <1>11 DEF InstallMemoryLimiter, MemorySignature
    <2>3. steady'[w] = {} \/ (r \in Building(w) /\ steady'[w] = {r})
        BY <1>1, <1>9, <1>11, <2>2 DEF SteadyAfterInstall
    <2>4. flag'[w] = FALSE
        BY <1>1, <2>2
    <2> HIDE DEF l
    <2>5. QED
        BY <1>8, <1>11, <2>1, <2>2, <2>3, <2>4
<1>12. ASSUME NEW r \in Requests, pc[r] \notin {"new", "building", "loaded", "unloaded"},
              limiter'[w] = limiter[w],
              flag'[w] = flag[w] \/ steady'[w] = {}, steady'[w] = steady[w] \/ steady'[w] = {},
              using'[r] = using[r] \/ using'[r] = NoLimiter,
              pc'[r] \notin {"new", "building", "loaded", "unloaded"},
              \A q \in Requests : q = r \/ (pc'[q] = pc[q] /\ using'[q] = using[q])
       PROVE  SteadyOf(w)'
    BY <1>1, <1>2, <1>12, SteadyUntouched DEF SteadyOf, Building
<1>13. ASSUME NEW r \in Requests, WorkerOf[r] = w,
              \/ AcquireInMemory(r) \/ RedisCounts(r) \/ LoseAnswer(r) \/ Admit(r)
              \/ Limit(r) \/ FailClosed(r)
       PROVE  SteadyOf(w)'
    <2>1. /\ pc[r] \in {"acquiring", "counted", "full", "broken"}
          /\ \A q \in Requests : q = r \/ (pc'[q] = pc[q] /\ using'[q] = using[q])
          /\ using'[r] = using[r] \/ using'[r] = NoLimiter
          /\ pc'[r] \notin {"new", "building", "loaded", "unloaded"}
        BY <1>1, <1>13 DEF AcquireInMemory, RedisCounts, LoseAnswer, TimesOut, Admit, Limit,
                           FailClosed, End
    <2>2. /\ limiter'[w] = limiter[w]
          /\ flag'[w] = flag[w] \/ steady'[w] = {}
          /\ steady'[w] = steady[w] \/ steady'[w] = {}
        BY <1>1, <1>13 DEF AcquireInMemory, RedisCounts, LoseAnswer, Admit, Limit,
                           FailClosed, SetFlag
    <2>3. QED
        BY <1>12, <2>1, <2>2
<1>14. ASSUME NEW r \in Requests, WorkerOf[r] = w, WindowPasses(r)
       PROVE  SteadyOf(w)'
    <2>1. UNCHANGED <<flag, limiter, steady>>
        BY <1>14 DEF WindowPasses
    <2>2. CASE pc[r] = "admitted"
        BY <1>1, <1>12, <1>14, <2>1, <2>2 DEF WindowPasses, End
    <2>3. CASE pc[r] # "admitted"
        BY <1>3, <1>14, <2>1, <2>3 DEF WindowPasses
    <2>4. QED
        BY <2>2, <2>3
<1>15. ASSUME NEW v \in Workers, NEW s \in Pingers,
              Heartbeat(v) \/ HealthPing(v, s) \/ PingReturns(v, s) \/ CommandFails(v)
       PROVE  SteadyOf(w)'
    <2>1. UNCHANGED <<limiter, pc, using>>
        BY <1>15 DEF Heartbeat, HealthPing, Ping, PingReturns, CommandFails
    <2>2. /\ flag'[w] = flag[w] \/ steady'[w] = {}
          /\ steady'[w] = steady[w] \/ steady'[w] = {}
        BY <1>1, <1>15 DEF Heartbeat, HealthPing, Ping, PingReturns, CommandFails, SetFlag
    <2>3. QED
        BY <1>1, <1>2, <2>1, <2>2, SteadyUntouched DEF SteadyOf, Building
<1>16. ASSUME NEW v \in Workers, Restart(v)
       PROVE  SteadyOf(w)'
    <2>1. CASE v = w
        BY <1>1, <1>16, <2>1 DEF Restart, SteadyOf
    <2>2. CASE v # w
        BY <1>1, <1>3, <1>16, <2>2 DEF Restart, Lost
    <2>3. QED
        BY <2>1, <2>2
<1>17. CASE RedisTurns \/ UNCHANGED vars
    BY <1>3, <1>17 DEF RedisTurns, vars
<1>18. QED
    BY <1>4, <1>5, <1>6, <1>7, <1>10, <1>11, <1>13, <1>14, <1>15, <1>16, <1>17
       DEF Next, Step

-----------------------------------------------------------------------------
(***************************************************************************)
(* The theorems.                                                           *)
(***************************************************************************)

\* What holds in every state of the limiter: buckets keep their rate, a
\* limiter in memory is never signed as available, and the requests that came
\* since a worker was disturbed share one bucket.
THEOREM LimiterInvariant == Spec => []IInv
<1>1. Init => IInv
    <2> SUFFICES ASSUME Init
                 PROVE  IInv
        OBVIOUS
    <2>1. TypeOK
        BY DEF Init, TypeOK, PC
    <2>2. HoldingOK /\ AdmittedOK
        BY DEF Init, HoldingOK, Holding, AdmittedOK
    <2>3. BucketsHold
        <3>1. ASSUME NEW r \in Requests
              PROVE  Cardinality(SameKey({}, r)) <= Max
            <4>1. SameKey({}, r) = {}
                BY DEF SameKey
            <4>2. QED
                BY <4>1, FS_EmptySet
        <3>2. QED
            BY <3>1 DEF Init, BucketsHold
    <2>4. MemoryIsMarked /\ SteadyOK
        BY DEF Init, MemoryIsMarked, NoLimiter, SteadyOK, SteadyOf
    <2>5. QED
        BY <2>1, <2>2, <2>3, <2>4 DEF IInv
<1>2. IInv /\ [Next]_vars => IInv'
    BY NextTyped, HoldingStep, AdmittedStep, BucketsHoldStep, MarkedStep, SteadyStep DEF IInv
<1>3. QED
    BY <1>1, <1>2, PTL DEF Spec

\* rate_limit.py:231-238.  As long as no flag changes and no two requests
\* build at once, a worker lets no more requests of a key through than the rate.
THEOREM RateIsKept == Spec => []SteadyLimit
<1>1. IInv => SteadyLimit
    <2> SUFFICES ASSUME IInv, NEW w \in Workers, NEW r \in steady[w]
                 PROVE  Cardinality(SameKey(steady[w] \intersect recent, r)) <= Max
        BY DEF SteadyLimit
    <2> DEFINE S == steady[w] \intersect recent
    <2>1. r \in Requests /\ S \subseteq Requests
        BY DEF IInv, TypeOK
    <2>2. \A q \in S : /\ using[q] \in Limiter
                       /\ q \in CountedIn(q)
                       /\ Bucket(using[q]) = Bucket(limiter[w])
        BY <2>1 DEF IInv, TypeOK, AdmittedOK, HoldingOK, Holding, SteadyOK, SteadyOf
    <2>3. CASE S = {}
        <3>1. S \in SUBSET redisBucket
            BY <2>3
        <3>2. QED
            BY <2>1, <3>1, PartHoldsNoMore DEF IInv, TypeOK, BucketsHold
    <2>4. CASE limiter[w].redis
        <3>1. \A q \in S : using[q].redis
            BY <2>2, <2>4 DEF Bucket
        <3>2. S \in SUBSET redisBucket
            BY <2>2, <3>1 DEF CountedIn
        <3>3. QED
            BY <2>1, <3>2, PartHoldsNoMore DEF IInv, TypeOK, BucketsHold
    <2>5. CASE S # {} /\ ~limiter[w].redis
        <3>1. \A q \in S : ~using[q].redis /\ using[q].id = limiter[w].id
            BY <2>2, <2>5 DEF Bucket
        <3>2. limiter[w].id \in Requests
            BY <2>2, <2>5, <3>1, LimiterIsSomething
        <3>3. S \in SUBSET bucket[limiter[w].id]
            BY <2>2, <3>1 DEF CountedIn
        <3>4. /\ bucket[limiter[w].id] \in SUBSET Requests
              /\ Cardinality(SameKey(bucket[limiter[w].id], r)) <= Max
            BY <2>1, <3>2 DEF IInv, TypeOK, BucketsHold
        <3>5. QED
            BY <2>1, <3>3, <3>4, PartHoldsNoMore
    <2>6. QED
        BY <2>3, <2>4, <2>5
<1>2. QED
    BY <1>1, LimiterInvariant, PTL

\* rate_limit.py:141-160.  Of the requests that any worker let through and Redis
\* counted there are no more of a key than the rate.
THEOREM RateIsShared == Spec => []SharedLimit
<1>1. IInv => SharedLimit
    <2> SUFFICES ASSUME IInv, NEW r \in Requests
                 PROVE  Cardinality(SameKey({q \in recent : using[q].redis}, r)) <= Max
        BY DEF SharedLimit
    <2>1. redisBucket \in SUBSET Requests /\ Cardinality(SameKey(redisBucket, r)) <= Max
        BY DEF IInv, TypeOK, BucketsHold
    <2>2. {q \in recent : using[q].redis} \in SUBSET redisBucket
        BY DEF IInv, AdmittedOK, CountedIn
    <2>3. QED
        BY <2>1, <2>2, PartHoldsNoMore
<1>2. QED
    BY <1>1, LimiterInvariant, PTL

-----------------------------------------------------------------------------
(***************************************************************************)
(* Requests get through.  Each step brings a request further, and nothing  *)
(* else takes it back.  That a step can be taken at all is a hypothesis,   *)
(* since the prover knows nothing of ENABLED.                              *)
(***************************************************************************)

\* How far a request is from its end.
Ahead(p) ==
    IF p = "building" THEN 5
    ELSE IF p \in {"loaded", "unloaded"} THEN 4
    ELSE IF p = "acquiring" THEN 3
    ELSE IF p \in {"counted", "full"} THEN 2
    ELSE IF p = "broken" THEN 1
    ELSE 0

LEMMA StepBringsFurther ==
    ASSUME TypeOK, NEW r \in Requests, Step(r)
    PROVE  Ahead(pc'[r]) < Ahead(pc[r])
<1> USE DEF TypeOK, Goto, End, Ahead
<1>1. CASE LoadScript(r)
    BY <1>1 DEF LoadScript
<1>2. CASE InstallRedisLimiter(r)
    BY <1>2 DEF InstallRedisLimiter
<1>3. CASE InstallMemoryLimiter(r)
    BY <1>3 DEF InstallMemoryLimiter
<1>4. CASE AcquireInMemory(r)
    BY <1>4 DEF AcquireInMemory
<1>5. CASE RedisCounts(r)
    BY <1>5 DEF RedisCounts
<1>6. CASE LoseAnswer(r)
    BY <1>6 DEF LoseAnswer, TimesOut
<1>7. CASE Admit(r)
    BY <1>7 DEF Admit
<1>8. CASE Limit(r)
    BY <1>8 DEF Limit
<1>9. CASE FailClosed(r)
    BY <1>9 DEF FailClosed
<1>10. QED
    BY <1>1, <1>2, <1>3, <1>4, <1>5, <1>6, <1>7, <1>8, <1>9 DEF Step

\* What the others do leaves a request where it is, or ends it.
LEMMA NothingTakesBack ==
    ASSUME TypeOK, NEW r \in Requests, InFlight(r), [Next]_vars
    PROVE  Step(r) \/ pc'[r] = pc[r] \/ ~InFlight(r)'
<1> USE DEF TypeOK, Goto, End
<1>1. pc[r] \notin {"new", "admitted", "ended"}
    BY DEF InFlight, Arrived
<1>2. ASSUME NEW q \in Requests,
             UseLimiter(q) \/ StartBuild(q) \/ Step(q) \/ WindowPasses(q)
      PROVE  Step(r) \/ pc'[r] = pc[r]
    <2>1. CASE UseLimiter(q) \/ StartBuild(q)
        BY <1>1, <2>1 DEF UseLimiter, StartBuild
    <2>2. CASE WindowPasses(q)
        BY <1>1, <2>2 DEF WindowPasses
    <2>3. CASE Step(q) /\ q # r
        BY <2>3 DEF Step, LoadScript, InstallRedisLimiter, InstallMemoryLimiter,
                    AcquireInMemory, RedisCounts, LoseAnswer, Admit, Limit, FailClosed
    <2>4. QED
        BY <1>2, <2>1, <2>2, <2>3
<1>3. ASSUME NEW w \in Workers, Restart(w)
      PROVE  pc'[r] = pc[r] \/ ~InFlight(r)'
    BY <1>3 DEF Restart, InFlight, Arrived
<1>4. ASSUME NEW w \in Workers, Heartbeat(w) \/ CommandFails(w)
      PROVE  pc'[r] = pc[r]
    BY <1>4 DEF Heartbeat, Ping, CommandFails
<1>5. ASSUME NEW w \in Workers, NEW s \in Pingers, HealthPing(w, s) \/ PingReturns(w, s)
      PROVE  pc'[r] = pc[r]
    BY <1>5 DEF HealthPing, Ping, PingReturns
<1>6. CASE RedisTurns \/ UNCHANGED vars
    BY <1>6 DEF RedisTurns, vars
<1>7. QED
    BY <1>2, <1>3, <1>4, <1>5, <1>6 DEF Next

\* A request that is so far stays so or comes further, and comes further by a
\* step of its own.
LEMMA FromStageToStage ==
    ASSUME NEW r \in Requests, NEW n \in 1 .. 5
    PROVE  /\ TypeOK /\ Ahead(pc[r]) = n /\ [Next]_vars =>
                  (Ahead(pc[r]) = n)' \/ (Ahead(pc[r]) < n)'
           /\ TypeOK /\ Ahead(pc[r]) = n /\ <<Step(r)>>_vars => (Ahead(pc[r]) < n)'
<1>1. TypeOK /\ Ahead(pc[r]) = n => InFlight(r)
    BY DEF TypeOK, PC, Arrived, Done, InFlight, Ahead
<1>2. TypeOK' /\ ~InFlight(r)' => Ahead(pc'[r]) = 0
    BY DEF TypeOK, PC, Arrived, Done, InFlight, Ahead
<1>3. QED
    BY <1>1, <1>2, StepBringsFurther, NothingTakesBack, NextTyped

\* rate_limit.py:240-249.  A request the limiter holds is let through or denied
\* in the end, unless its worker dies.
THEOREM RequestsEnd == Spec /\ []RequestsCanGoOn => EveryRequestEnds
<1> SUFFICES ASSUME NEW r \in Requests
             PROVE  Spec /\ []RequestsCanGoOn => (InFlight(r) ~> ~InFlight(r))
    BY DEF EveryRequestEnds
<1> DEFINE A(n) == Ahead(pc[r]) = n
<1>1. Spec => RequestGoesOn(r)
    BY DEF Spec, Fairness
<1>2. RequestsCanGoOn => (InFlight(r) => ENABLED <<Step(r)>>_vars)
    BY DEF RequestsCanGoOn
<1>3. TypeOK => (InFlight(r) <=> A(1) \/ A(2) \/ A(3) \/ A(4) \/ A(5))
    BY DEF TypeOK, PC, Arrived, Done, InFlight, Ahead
<1>4. TypeOK => (~InFlight(r) <=> A(0))
    BY DEF TypeOK, PC, Arrived, Done, InFlight, Ahead
<1>5. TypeOK /\ A(1) /\ [Next]_vars => A(1)' \/ A(0)'
    BY FromStageToStage, NextTyped DEF Ahead
<1>6. TypeOK /\ A(2) /\ [Next]_vars => A(2)' \/ A(1)' \/ A(0)'
    BY FromStageToStage DEF Ahead
<1>7. TypeOK /\ A(3) /\ [Next]_vars => A(3)' \/ A(2)' \/ A(1)' \/ A(0)'
    BY FromStageToStage DEF Ahead
<1>8. TypeOK /\ A(4) /\ [Next]_vars => A(4)' \/ A(3)' \/ A(2)' \/ A(1)' \/ A(0)'
    BY FromStageToStage DEF Ahead
<1>9. TypeOK /\ A(5) /\ [Next]_vars => A(5)' \/ A(4)' \/ A(3)' \/ A(2)' \/ A(1)' \/ A(0)'
    BY FromStageToStage DEF Ahead
<1>10. TypeOK /\ A(1) /\ <<Step(r)>>_vars => A(0)'
    BY FromStageToStage DEF Ahead
<1>11. TypeOK /\ A(2) /\ <<Step(r)>>_vars => A(1)' \/ A(0)'
    BY FromStageToStage DEF Ahead
<1>12. TypeOK /\ A(3) /\ <<Step(r)>>_vars => A(2)' \/ A(1)' \/ A(0)'
    BY FromStageToStage DEF Ahead
<1>13. TypeOK /\ A(4) /\ <<Step(r)>>_vars => A(3)' \/ A(2)' \/ A(1)' \/ A(0)'
    BY FromStageToStage DEF Ahead
<1>14. TypeOK /\ A(5) /\ <<Step(r)>>_vars => A(4)' \/ A(3)' \/ A(2)' \/ A(1)' \/ A(0)'
    BY FromStageToStage DEF Ahead
<1>15. IInv => TypeOK
    BY DEF IInv
<1> HIDE DEF A
<1>16. QED
    BY <1>1, <1>2, <1>3, <1>4, <1>5, <1>6, <1>7, <1>8, <1>9, <1>10, <1>11, <1>12,
       <1>13, <1>14, <1>15, LimiterInvariant, PTL DEF Spec, RequestGoesOn

-----------------------------------------------------------------------------
(***************************************************************************)
(* The workers come back to Redis.  While Redis is up, what can still      *)
(* clear a flag is a ping that was lost before, or a request that was.     *)
(***************************************************************************)
LostPing(w, s) == ping[w][s] = "lost"
Wounded(r) == pc[r] \in {"unloaded", "broken"}

Safe(w) ==
    /\ Healthy
    /\ \A s \in Pingers : ~LostPing(w, s)
    /\ \A r \in Requests : ~Wounded(r)

\* While Redis is up no ping is lost and no request.
LEMMA NoneIsWounded ==
    ASSUME NEW r \in Requests, TypeOK, redisUp, ~Wounded(r), [Next]_vars
    PROVE  ~Wounded(r)'
<1> USE DEF TypeOK, Goto, End, Wounded
<1>1. ASSUME NEW q \in Requests,
             UseLimiter(q) \/ StartBuild(q) \/ Step(q) \/ WindowPasses(q)
      PROVE  ~Wounded(r)'
    <2>1. CASE UseLimiter(q) \/ StartBuild(q)
        BY <2>1 DEF UseLimiter, StartBuild
    <2>2. CASE WindowPasses(q)
        BY <2>2 DEF WindowPasses
    <2>3. CASE Step(q)
        BY ZenonT(40), <2>3 DEF Step, LoadScript, InstallRedisLimiter, InstallMemoryLimiter,
                    AcquireInMemory, RedisCounts, LoseAnswer, TimesOut, Admit, Limit, FailClosed
    <2>4. QED
        BY <1>1, <2>1, <2>2, <2>3
<1>2. ASSUME NEW w \in Workers, Restart(w)
      PROVE  ~Wounded(r)'
    BY <1>2 DEF Restart
<1>3. ASSUME NEW w \in Workers, Heartbeat(w) \/ CommandFails(w)
      PROVE  ~Wounded(r)'
    BY <1>3 DEF Heartbeat, Ping, CommandFails
<1>4. ASSUME NEW w \in Workers, NEW s \in Pingers, HealthPing(w, s) \/ PingReturns(w, s)
      PROVE  ~Wounded(r)'
    BY <1>4 DEF HealthPing, Ping, PingReturns
<1>5. CASE RedisTurns \/ UNCHANGED vars
    BY <1>5 DEF RedisTurns, vars
<1>6. QED
    BY <1>1, <1>2, <1>3, <1>4, <1>5 DEF Next

\* What becomes of a ping is its own affair, but for a restart.
LEMMA PingStep ==
    ASSUME NEW w \in Workers, NEW s \in Pingers, TypeOK, [Next]_vars
    PROVE  \/ ping'[w][s] = ping[w][s]
           \/ ping[w][s] = "none" /\ ping'[w][s] = IF redisUp THEN "pong" ELSE "lost"
           \/ ping'[w][s] = "none" /\ PingReturns(w, s)
           \/ ping'[w][s] = "none" /\ Restart(w)
<1> USE DEF TypeOK
<1>1. ASSUME NEW v \in Workers, NEW t \in Pingers, HealthPing(v, t) \/ Heartbeat(v)
      PROVE  \/ ping'[w][s] = ping[w][s]
             \/ ping[w][s] = "none" /\ ping'[w][s] = IF redisUp THEN "pong" ELSE "lost"
    BY SMTT(30), <1>1 DEF HealthPing, Heartbeat, Ping, SetPing
<1>2. ASSUME NEW v \in Workers, NEW t \in Pingers, PingReturns(v, t)
      PROVE  \/ ping'[w][s] = ping[w][s]
             \/ ping'[w][s] = "none" /\ PingReturns(w, s)
    BY <1>2 DEF PingReturns, SetPing
<1>3. ASSUME NEW v \in Workers, Restart(v)
      PROVE  \/ ping'[w][s] = ping[w][s]
             \/ ping'[w][s] = "none" /\ Restart(w)
    <2>1. ping' = [ping EXCEPT ![v] = [t \in Pingers |-> "none"]]
        BY <1>3 DEF Restart
    <2>2. CASE v = w
        BY <1>3, <2>1, <2>2
    <2>3. CASE v # w
        BY <2>1, <2>3
    <2>4. QED
        BY <2>2, <2>3
<1>4. ASSUME NEW v \in Workers, CommandFails(v)
      PROVE  ping'[w][s] = ping[w][s]
    BY <1>4 DEF CommandFails, envVars
<1>5. ASSUME NEW r \in Requests, UseLimiter(r) \/ StartBuild(r) \/ Step(r) \/ WindowPasses(r)
      PROVE  ping'[w][s] = ping[w][s]
    BY <1>5 DEF UseLimiter, StartBuild, WindowPasses, Step, LoadScript, InstallRedisLimiter,
                InstallMemoryLimiter, AcquireInMemory, RedisCounts, LoseAnswer, Admit, Limit,
                FailClosed, envVars
<1>6. CASE RedisTurns \/ UNCHANGED vars
    BY <1>6 DEF RedisTurns, vars
<1>7. QED
    BY <1>1, <1>2, <1>3, <1>4, <1>5, <1>6 DEF Next

\* A flag that is set stays so while nothing is left that could clear it.
LEMMA SafeFlagStays ==
    ASSUME NEW w \in Workers, TypeOK, Safe(w), Safe(w)', flag[w], [Next]_vars
    PROVE  flag'[w]
<1> USE DEF TypeOK
<1>1. ASSUME NEW r \in Requests, UseLimiter(r) \/ StartBuild(r) \/ Step(r) \/ WindowPasses(r)
      PROVE  flag'[w]
    <2>1. pc[r] \notin {"unloaded", "broken"}
        BY DEF Safe, Wounded
    <2>2. UNCHANGED flag
        BY <1>1, <2>1 DEF UseLimiter, StartBuild, WindowPasses, Step, LoadScript, InstallRedisLimiter,
                InstallMemoryLimiter, AcquireInMemory, RedisCounts, LoseAnswer, Admit, Limit,
                FailClosed
    <2>3. QED
        BY <2>2
<1>2. ASSUME NEW v \in Workers, NEW s \in Pingers, PingReturns(v, s)
      PROVE  flag'[w]
    BY <1>2 DEF PingReturns, SetFlag, Safe, LostPing
<1>3. ASSUME NEW v \in Workers, NEW s \in Pingers, HealthPing(v, s) \/ Heartbeat(v)
      PROVE  flag'[w]
    BY <1>3 DEF HealthPing, Heartbeat, Ping
<1>4. ASSUME NEW v \in Workers, CommandFails(v) \/ Restart(v)
      PROVE  flag'[w]
    <2>1. redisUp /\ serving'[v]
        BY DEF Safe, Healthy
    <2>2. ~CommandFails(v)
        BY <2>1 DEF CommandFails
    <2>3. ~Restart(v)
        BY <2>1 DEF Restart
    <2>4. QED
        BY <1>4, <2>2, <2>3
<1>5. CASE RedisTurns \/ UNCHANGED vars
    BY <1>5 DEF RedisTurns, vars
<1>6. QED
    BY <1>1, <1>2, <1>3, <1>4, <1>5 DEF Next

\* A hypothesis of what follows, since the prover knows nothing of ENABLED.  It says
\* no more than the guards of the two actions: a worker can ping when no ping of
\* its heart is out, and every ping can return, with an answer or without.
HeartsCanGoOn ==
    \A w \in Workers :
        /\ ping[w]["heartbeat"] = "none" => ENABLED <<Heartbeat(w)>>_vars
        /\ \A s \in Pingers : ping[w][s] # "none" => ENABLED <<PingReturns(w, s)>>_vars

\* What can still clear a flag passes: a lost ping returns, a lost request is
\* denied, and while Redis is up no other is lost.
THEOREM LostPingsReturn ==
    ASSUME NEW w \in Workers, NEW s \in Pingers
    PROVE  Spec /\ []HeartsCanGoOn => (<>[]Healthy => <>[]~LostPing(w, s))
<1>1. Spec => PingEnds(w, s)
    BY DEF Spec, Fairness
<1>2. HeartsCanGoOn => (LostPing(w, s) => ENABLED <<PingReturns(w, s)>>_vars)
    BY DEF HeartsCanGoOn, LostPing
<1>3. IInv /\ Healthy /\ ~LostPing(w, s) /\ [Next]_vars => ~LostPing(w, s)'
    BY PingStep DEF IInv, Healthy, LostPing
<1>4. IInv /\ <<PingReturns(w, s)>>_vars => ~LostPing(w, s)'
    BY DEF IInv, TypeOK, PingReturns, SetPing, LostPing
<1>5. QED
    BY <1>1, <1>2, <1>3, <1>4, LimiterInvariant, PTL DEF Spec, PingEnds

\* Whoever counts in Redis while Redis is away is through with it one day: let in,
\* turned away or, if its answer was lost, denied.
THEOREM WoundedRequestsEnd ==
    ASSUME NEW r \in Requests
    PROVE  Spec /\ []RequestsCanGoOn => (<>[]Healthy => <>[]~Wounded(r))
<1>1. Spec => RequestGoesOn(r)
    BY DEF Spec, Fairness
<1>2. RequestsCanGoOn => (Wounded(r) => ENABLED <<Step(r)>>_vars)
    BY DEF RequestsCanGoOn, Wounded, InFlight, Arrived
<1>3. IInv /\ Healthy /\ ~Wounded(r) /\ [Next]_vars => ~Wounded(r)'
    BY NoneIsWounded DEF IInv, Healthy
<1>4. IInv /\ Wounded(r) /\ <<Step(r)>>_vars => ~Wounded(r)'
    <2> SUFFICES ASSUME TypeOK, Wounded(r), Step(r)
                 PROVE  ~Wounded(r)'
        BY DEF IInv
    <2>1. Ahead(pc'[r]) < Ahead(pc[r])
        BY StepBringsFurther
    <2>2. InstallMemoryLimiter(r) \/ FailClosed(r)
        BY DEF Wounded, Step, LoadScript, InstallRedisLimiter, AcquireInMemory, RedisCounts,
               LoseAnswer, TimesOut, Admit, Limit
    <2>3. QED
        BY <2>2 DEF TypeOK, Wounded, InstallMemoryLimiter, FailClosed, Goto
<1>5. QED
    BY <1>1, <1>2, <1>3, <1>4, LimiterInvariant, PTL DEF Spec, RequestGoesOn

\* cache.py:154-172, rate_limit.py:195-217.  A worker that nothing lost can
\* disturb any more comes to count in Redis by its own heartbeat, whatever
\* limiter it has, and goes on to.
THEOREM SafeWorkersCount ==
    ASSUME NEW w \in Workers
    PROVE  Spec /\ []HeartsCanGoOn => (<>[]Safe(w) => <>[]CountsInRedis(w))
<1>0. PICK s \in Pingers : s = "heartbeat"
    OBVIOUS
<1> DEFINE Beat(p) == ping[w][s] = p
           Set == flag[w]
<1>1. Spec => PingEnds(w, s) /\ HeartGoesOn(w)
    BY DEF Spec, Fairness
<1>2. HeartsCanGoOn => /\ Beat("none") => ENABLED <<Heartbeat(w)>>_vars
                       /\ Beat("pong") => ENABLED <<PingReturns(w, s)>>_vars
    BY <1>0 DEF HeartsCanGoOn
<1>3. IInv /\ Safe(w) => Beat("none") \/ Beat("pong")
    BY DEF IInv, TypeOK, Safe, LostPing
<1>4. IInv /\ Safe(w) /\ Beat("none") /\ <<Heartbeat(w)>>_vars => Beat("pong")'
    BY <1>0 DEF IInv, TypeOK, Safe, Healthy, Heartbeat, Ping, SetPing
<1>5. IInv /\ Safe(w) /\ Beat("pong") /\ <<PingReturns(w, s)>>_vars => Set'
    BY DEF IInv, TypeOK, PingReturns, SetFlag
<1>6. IInv /\ Safe(w) /\ Safe(w)' /\ Beat("pong") /\ [Next]_vars => Beat("pong")' \/ Set'
    <2> SUFFICES ASSUME IInv, Safe(w), Safe(w)', Beat("pong"), [Next]_vars, ~Beat("pong")'
                 PROVE  Set'
        OBVIOUS
    <2>1. serving'[w]
        BY DEF Safe, Healthy
    <2>2. ~Restart(w)
        BY <2>1 DEF IInv, TypeOK, Restart
    <2>3. PingReturns(w, s)
        BY <2>2, PingStep DEF IInv
    <2>4. QED
        BY <2>3 DEF IInv, TypeOK, PingReturns, SetFlag
<1>7. IInv /\ Safe(w) /\ Safe(w)' /\ Set /\ [Next]_vars => Set'
    BY SafeFlagStays DEF IInv
<1>8. IInv /\ Set => CountsInRedis(w)
    BY DEF IInv, MemoryIsMarked, CountsInRedis, Matches, Signature
<1> HIDE DEF Beat, Set
<1>9. QED
    BY <1>1, <1>2, <1>3, <1>4, <1>5, <1>6, <1>7, <1>8, LimiterInvariant, PTL
       DEF Spec, PingEnds, HeartGoesOn

\* Of finitely many things each of which is so for good in the end, there is a
\* moment from which they all are: a law of temporal logic for each of the finite
\* sets of the model.  Its proof is an induction the prover has no rule for.
PingsTogether(w) ==
    (\A s \in Pingers : <>[]~LostPing(w, s)) => <>[](\A s \in Pingers : ~LostPing(w, s))

Together ==
    /\ (\A r \in Requests : <>[]~Wounded(r)) => <>[](\A r \in Requests : ~Wounded(r))
    /\ \A w \in Workers : PingsTogether(w)
    /\ (\A w \in Workers : <>[]CountsInRedis(w)) => <>[](\A w \in Workers : CountsInRedis(w))

\* cache.py:154-172, rate_limit.py:195-217.  Once Redis stays up and the workers
\* run, all of them come to count in Redis again and go on to.
THEOREM TheSharedLimitReturns ==
    Spec /\ []RequestsCanGoOn /\ []HeartsCanGoOn /\ Together => SharedLimitReturns
<1>1. Spec /\ []RequestsCanGoOn => (<>[]Healthy => \A r \in Requests : <>[]~Wounded(r))
    BY WoundedRequestsEnd
<1>2. ASSUME NEW w \in Workers
      PROVE  Spec /\ []RequestsCanGoOn /\ []HeartsCanGoOn /\ Together =>
                 (<>[]Healthy => <>[]CountsInRedis(w))
    <2>1. Spec /\ []HeartsCanGoOn => (<>[]Healthy => \A s \in Pingers : <>[]~LostPing(w, s))
        BY LostPingsReturn
    <2>2. Together => PingsTogether(w)
        BY DEF Together
    <2>3. PingsTogether(w) /\ (\A s \in Pingers : <>[]~LostPing(w, s)) =>
                 <>[](\A s \in Pingers : ~LostPing(w, s))
        BY DEF PingsTogether
    <2>4. Together /\ (\A r \in Requests : <>[]~Wounded(r)) =>
                 <>[](\A r \in Requests : ~Wounded(r))
        BY DEF Together
    <2>5. /\ Healthy
          /\ \A r \in Requests : ~Wounded(r)
          /\ \A s \in Pingers : ~LostPing(w, s)
          => Safe(w)
        BY DEF Safe
    <2>6. QED
        BY <1>1, <2>1, <2>2, <2>3, <2>4, <2>5, SafeWorkersCount, PTL
<1>3. Spec /\ []RequestsCanGoOn /\ []HeartsCanGoOn /\ Together =>
          (<>[]Healthy => \A w \in Workers : <>[]CountsInRedis(w))
    BY <1>2
<1>4. QED
    BY <1>3 DEF Together, SharedLimitReturns
=============================================================================
