----------------------- MODULE TokenRevocation_proofs -----------------------
(***************************************************************************)
(* Proofs about TokenRevocation, for every number of workers, tokens and   *)
(* requests, and every expiry, time to live and lag.                       *)
(***************************************************************************)
EXTENDS TokenRevocation, TLAPS

USE RevocationAssumption

-----------------------------------------------------------------------------
(***************************************************************************)
(* The caches.                                                             *)
(***************************************************************************)

\* An entry is dated by a natural number; Redis keeps at least a second, and
\* a "clear" verdict at most Linger + 1 seconds.
LEMMA Dates ==
    ASSUME NEW t \in Tokens, NEW status \in Status, NEW now \in Nat
    PROVE  /\ CacheUntil(t, status, now) \in Nat
           /\ RedisSeconds(t, status, now) \in Nat
           /\ RedisSeconds(t, status, now) >= 1
           /\ status = "clear" =>
                /\ CacheUntil(t, status, now) <= now + LocalTTL
                /\ RedisSeconds(t, status, now) <= Linger + 1
<1>1. Exp[t] \in Nat /\ LocalTTL \in Nat
    OBVIOUS
<1>2. CacheUntil(t, status, now) \in Nat
    BY <1>1 DEF CacheUntil, Earlier
<1>3. status = "clear" => CacheUntil(t, status, now) <= now + LocalTTL
    BY <1>1 DEF CacheUntil, Earlier
<1>4. QED
    BY <1>1, <1>2, <1>3 DEF RedisSeconds, Linger

\* _cache_revocation_status writes one entry and may drop others: it never
\* changes the verdict or the date of an entry it keeps.
LEMMA InsertionsKeepOrDrop ==
    ASSUME NEW cache \in [Tokens -> Entry], NEW t \in Tokens,
           NEW status \in Status, NEW now \in Nat,
           NEW result \in Insertions(cache, t, status, now)
    PROVE  /\ result \in [Tokens -> Entry]
           /\ \A u \in Tokens :
                \/ result[u] = NoEntry
                \/ result[u] = cache[u]
                \/ /\ u = t
                   /\ result[u] = [status |-> status,
                                   until |-> CacheUntil(t, status, now)]
<1> DEFINE new == [status |-> status, until |-> CacheUntil(t, status, now)]
           put == [cache EXCEPT ![t] = new]
           kept == Without(put, {u \in Keys(put) : put[u].until <= now})
<1>1. new \in Entry
    BY Dates DEF Entry
<1>2. NoEntry \in Entry
    BY DEF NoEntry, Entry, Status
<1>3. put \in [Tokens -> Entry] /\ \A u \in Tokens : put[u] = IF u = t THEN new ELSE cache[u]
    BY <1>1
<1> HIDE DEF new, put
<1>4. ASSUME NEW c \in [Tokens -> Entry], NEW S
      PROVE  /\ Without(c, S) \in [Tokens -> Entry]
             /\ \A u \in Tokens : Without(c, S)[u] = NoEntry \/ Without(c, S)[u] = c[u]
    BY <1>2 DEF Without
<1>5. kept \in [Tokens -> Entry] /\ \A u \in Tokens : kept[u] = NoEntry \/ kept[u] = put[u]
    BY <1>3, <1>4
<1>6. \/ result = put
      \/ result = kept
      \/ \E u \in Keys(kept) \ {t} : result = Without(kept, {u})
    BY DEF Insertions, put, new
<1> HIDE DEF kept
<1>7. result \in [Tokens -> Entry] /\ \A u \in Tokens : result[u] = NoEntry \/ result[u] = put[u]
    <2>1. CASE result = put
        BY <2>1, <1>3
    <2>2. CASE result = kept
        BY <2>2, <1>5
    <2>3. CASE \E u \in Keys(kept) \ {t} : result = Without(kept, {u})
        <3>1. PICK v \in Keys(kept) \ {t} : result = Without(kept, {v})
            BY <2>3
        <3>2. QED
            BY <3>1, <1>4, <1>5
    <2>4. QED
        BY <1>6, <2>1, <2>2, <2>3
<1>8. QED
    BY <1>3, <1>7 DEF new

-----------------------------------------------------------------------------
(***************************************************************************)
(* Type correctness.                                                       *)
(***************************************************************************)
LEMMA InFlightRequest ==
    ASSUME TypeOK, NEW r \in Requests, req[r].pc # "idle"
    PROVE  /\ req[r] \in [pc : PC \ {"idle"}, w : Workers, t : Tokens,
                          start : Nat, seen : Status]
           /\ req[r].w \in Workers
           /\ req[r].t \in Tokens
           /\ req[r].start \in Nat
           /\ req[r].seen \in Status
    BY DEF TypeOK, Request, IdleRequest

LEMMA GoTyped ==
    ASSUME TypeOK, NEW r \in Requests, req[r].pc # "idle",
           NEW pc \in PC \ {"idle"}, NEW seen \in Status, Go(r, pc, seen)
    PROVE  req' \in [Requests -> Request]
    BY ZenonT(40), InFlightRequest DEF TypeOK, Request, Go

LEMMA FinishTyped ==
    ASSUME TypeOK, NEW r \in Requests, Finish(r)
    PROVE  req' \in [Requests -> Request]
    BY DEF TypeOK, Request, Finish

LEMMA ArriveTyped ==
    ASSUME TypeOK, NEW r \in Requests, NEW w \in Workers, NEW t \in Tokens,
           NEW pc \in PC \ {"idle"}, NEW seen \in Status, Arrive(r, w, t, pc, seen)
    PROVE  req' \in [Requests -> Request]
    BY DEF TypeOK, Request, Arrive

LEMMA CacheLocallyTyped ==
    ASSUME TypeOK, NEW r \in Requests, req[r].pc # "idle",
           NEW status \in Status, NEW now \in Nat, CacheLocally(r, status, now)
    PROVE  local' \in [Workers -> [Tokens -> Entry]]
<1>1. PICK cache \in Insertions(local[req[r].w], req[r].t, status, now) :
            local' = [local EXCEPT ![req[r].w] = cache]
    BY DEF CacheLocally
<1>2. req[r].w \in Workers /\ req[r].t \in Tokens
    BY InFlightRequest
<1>3. local[req[r].w] \in [Tokens -> Entry]
    BY <1>2 DEF TypeOK
<1>4. cache \in [Tokens -> Entry]
    BY ONLY <1>1, <1>2, <1>3, InsertionsKeepOrDrop
<1>5. QED
    BY <1>1, <1>2, <1>4 DEF TypeOK

LEMMA RedisSetTyped ==
    ASSUME TypeOK, NEW t \in Tokens, NEW status \in Status, NEW now \in Nat,
           RedisSet(t, status, now)
    PROVE  redis' \in [Tokens -> Entry]
<1>1. RedisSeconds(t, status, now) \in Nat
    BY Dates
<1>2. [status |-> status, until |-> clock + RedisSeconds(t, status, now)] \in Entry
    BY <1>1 DEF TypeOK, Entry
<1>3. QED
    BY <1>2 DEF RedisSet, TypeOK

LEMMA NoEntryTyped == NoEntry \in Entry
    BY DEF NoEntry, Entry, Status

LEMMA InitTyped == Init => TypeOK
    BY NoEntryTyped DEF Init, TypeOK, Request, IdleRequest

LEMMA NextTyped == TypeOK /\ [Next]_vars => TypeOK'
<1> SUFFICES ASSUME TypeOK, [Next]_vars PROVE TypeOK'
    OBVIOUS
<1> USE DEF At
<1>1. ASSUME NEW r \in Requests, Check(r) PROVE TypeOK'
    <2>1. ASSUME NEW w \in Workers, NEW t \in Tokens, LocalHit(r, w, t) PROVE TypeOK'
        <3>1. local[w][t].status \in Status
            BY DEF TypeOK, Entry
        <3>2. req' \in [Requests -> Request]
            BY <2>1, <3>1, ArriveTyped DEF LocalHit, PC
        <3>3. QED
            BY <2>1, <3>2 DEF LocalHit, TypeOK
    <2>2. ASSUME NEW w \in Workers, NEW t \in Tokens, LocalMiss(r, w, t) PROVE TypeOK'
        <3>1. req' \in [Requests -> Request]
            BY <2>2, ArriveTyped DEF LocalMiss, PC, Status
        <3>2. local' \in [Workers -> [Tokens -> Entry]]
            BY <2>2, NoEntryTyped DEF LocalMiss, TypeOK
        <3>3. QED
            BY <2>2, <3>1, <3>2 DEF LocalMiss, TypeOK
    <2>3. CASE RedisGet(r)
        <3>1. redis[req[r].t].status \in Status
            BY <2>3, InFlightRequest DEF RedisGet, TypeOK, Entry
        <3>2. req' \in [Requests -> Request]
            BY <2>3, <3>1, GoTyped DEF RedisGet, PC
        <3>3. QED
            BY <2>3, <3>2 DEF RedisGet, TypeOK
    <2>4. CASE RedisMiss(r)
        <3>1. req' \in [Requests -> Request]
            BY <2>4, GoTyped DEF RedisMiss, PC, Status
        <3>2. QED
            BY <2>4, <3>1 DEF RedisMiss, TypeOK
    <2>5. CASE RedisExpired(r)
        <3>1. req' \in [Requests -> Request]
            BY <2>5, GoTyped DEF RedisExpired, PC, Status
        <3>2. redis' \in [Tokens -> Entry]
            BY <2>5, NoEntryTyped DEF RedisExpired, TypeOK
        <3>3. QED
            BY <2>5, <3>1, <3>2 DEF RedisExpired, TypeOK
    <2>6. CASE RedisAnswered(r)
        <3>1. req' \in [Requests -> Request]
            BY <2>6, GoTyped, InFlightRequest DEF RedisAnswered, PC
        <3>2. local' \in [Workers -> [Tokens -> Entry]]
            BY <2>6, CacheLocallyTyped, InFlightRequest DEF RedisAnswered
        <3>3. QED
            BY <2>6, <3>1, <3>2 DEF RedisAnswered, TypeOK
    <2>7. CASE DbSelect(r)
        <3>1. req' \in [Requests -> Request]
            BY <2>7, GoTyped DEF DbSelect, PC, Status
        <3>2. QED
            BY <2>7, <3>1 DEF DbSelect, TypeOK
    <2>8. CASE CacheVerdict(r)
        <3>1. req' \in [Requests -> Request]
            BY <2>8, GoTyped, InFlightRequest DEF CacheVerdict, PC
        <3>2. local' \in [Workers -> [Tokens -> Entry]]
            BY <2>8, CacheLocallyTyped, InFlightRequest DEF CacheVerdict
        <3>3. QED
            BY <2>8, <3>1, <3>2 DEF CacheVerdict, TypeOK
    <2>9. CASE FindExpiredRow(r)
        <3>1. req' \in [Requests -> Request]
            BY <2>9, GoTyped DEF FindExpiredRow, PC, Status
        <3>2. QED
            BY <2>9, <3>1 DEF FindExpiredRow, TypeOK
    <2>10. CASE DeleteExpiredRow(r)
        <3>1. req' \in [Requests -> Request]
            BY <2>10, GoTyped DEF DeleteExpiredRow, PC, Status
        <3>2. QED
            BY <2>10, <3>1 DEF DeleteExpiredRow, TypeOK
    <2>11. CASE PublishVerdict(r)
        <3>1. req' \in [Requests -> Request]
            BY <2>11, GoTyped, InFlightRequest DEF PublishVerdict, PC
        <3>2. redis' \in [Tokens -> Entry]
            BY <2>11, RedisSetTyped, InFlightRequest DEF PublishVerdict
        <3>3. QED
            BY <2>11, <3>1, <3>2 DEF PublishVerdict, TypeOK
    <2>12. CASE CheckFails(r)
        BY <2>12, FinishTyped DEF CheckFails, TypeOK
    <2>13. QED
        BY <1>1, <2>1, <2>2, <2>3, <2>4, <2>5, <2>6, <2>7, <2>8, <2>9, <2>10, <2>11,
           <2>12 DEF Check
<1>2. ASSUME NEW r \in Requests, Serve(r) PROVE TypeOK'
    BY <1>2, FinishTyped DEF Serve, TypeOK
<1>3. ASSUME NEW r \in Requests, Revoke(r) PROVE TypeOK'
    <2>1. CASE Reset(r)
        <3>1. req' \in [Requests -> Request]
            BY <2>1, GoTyped DEF Reset, Accepted, PC, Status
        <3>2. QED
            BY <2>1, <3>1 DEF Reset, TypeOK
    <2>2. ASSUME NEW w \in Workers, TakeCleanupTurn(w)
          PROVE  cleanupIn' \in [Workers -> Nat]
        BY <2>2 DEF TakeCleanupTurn, TypeOK
    <2>3. CASE StoreRevokedJti(r)
        <3>1. req[r].t \in Tokens
            BY <2>3, InFlightRequest DEF StoreRevokedJti
        <3>2. req' \in [Requests -> Request]
            BY <2>3, GoTyped, FinishTyped DEF StoreRevokedJti, PC, Status
        <3>3. db' \subseteq Tokens
            BY <2>3, <3>1 DEF StoreRevokedJti, TypeOK
        <3>4. revokedAt' \in [Tokens -> Nat \union {None}]
            BY <2>3, <3>1 DEF StoreRevokedJti, TypeOK
        <3>5. cleanupIn' \in [Workers -> Nat]
            BY <2>2, <2>3, InFlightRequest DEF StoreRevokedJti
        <3>6. QED
            BY <2>3, <3>2, <3>3, <3>4, <3>5 DEF StoreRevokedJti, TypeOK
    <2>4. CASE StoreFails(r)
        <3>1. cleanupIn' \in [Workers -> Nat]
            <4>1. req[r].w \in Workers
                BY <2>4, InFlightRequest DEF StoreFails, At
            <4>2. CASE TakeCleanupTurn(req[r].w)
                BY <2>2, <4>1, <4>2
            <4>3. CASE UNCHANGED cleanupIn
                BY <4>3 DEF TypeOK
            <4>4. QED
                BY <2>4, <4>2, <4>3 DEF StoreFails
        <3>2. QED
            BY <2>4, <3>1, FinishTyped DEF StoreFails, TypeOK
    <2>5. CASE CacheRevocation(r)
        <3>1. local' \in [Workers -> [Tokens -> Entry]]
            <4>1. clock \in Nat /\ req[r].pc # "idle" /\ "revoked" \in Status
                BY <2>5 DEF CacheRevocation, TypeOK, Status
            <4>2. QED
                BY <2>5, <4>1, CacheLocallyTyped DEF CacheRevocation
        <3>2. req' \in [Requests -> Request]
            <4> DEFINE R == [pc : PC \ {"idle"}, w : Workers, t : Tokens,
                             start : Nat, seen : Status]
            <4>1. req[r] \in R /\ clock \in Nat
                BY <2>5, InFlightRequest DEF CacheRevocation, TypeOK
            <4>2. [req[r] EXCEPT !.pc = "announce", !.start = clock] \in R
                BY <4>1 DEF PC
            <4>3. QED
                BY <2>5, <4>2 DEF CacheRevocation, TypeOK, Request
        <3>3. QED
            BY <2>5, <3>1, <3>2 DEF CacheRevocation, TypeOK
    <2>6. CASE AnnounceRevocation(r)
        <3>1. redis' \in [Tokens -> Entry]
            BY <2>6, RedisSetTyped, InFlightRequest DEF AnnounceRevocation, Status
        <3>2. resetDone' \in [Workers -> SUBSET Tokens]
            BY <2>6, InFlightRequest DEF AnnounceRevocation, TypeOK
        <3>3. QED
            BY <2>6, <3>1, <3>2, FinishTyped DEF AnnounceRevocation, TypeOK
    <2>7. QED
        BY <1>3, <2>1, <2>3, <2>4, <2>5, <2>6 DEF Revoke
<1>4. ASSUME NEW w \in Workers, RestartWorker(w) PROVE TypeOK'
    BY <1>4, NoEntryTyped DEF RestartWorker, TypeOK, Request
<1>5. ASSUME NEW t \in Tokens, RedisForgets(t) PROVE TypeOK'
    BY <1>5, NoEntryTyped DEF RedisForgets, TypeOK
<1>6. CASE Tick
    BY <1>6, NoEntryTyped DEF Tick, TypeOK
<1>7. CASE UNCHANGED vars
    BY <1>7 DEF vars, TypeOK
<1>8. QED
    BY <1>1, <1>2, <1>3, <1>4, <1>5, <1>6, <1>7 DEF Next

\* Every variable keeps its type: requests in flight have a worker and a
\* token, entries a verdict and a date.
THEOREM TypeCorrect == Spec => []TypeOK
    BY InitTyped, NextTyped, PTL DEF Spec

-----------------------------------------------------------------------------
(***************************************************************************)
(* What a step leaves alone stays sound.  Moved(t) covers every step: the  *)
(* clock stands still or ticks, the history of t stands still or records   *)
(* its first commit.                                                       *)
(***************************************************************************)
Moved(t) ==
    /\ clock' \in {clock, clock + 1}
    /\ \/ revokedAt'[t] = revokedAt[t]
       \/ revokedAt[t] = None /\ revokedAt'[t] = clock

LEMMA GraceNat == Linger \in Nat /\ Grace \in Nat /\ Grace = MaxLag + Linger + Linger
    BY DEF Linger, Grace

LEMMA LocalFrame ==
    ASSUME TypeOK, TypeOK', NEW w \in Workers, NEW t \in Tokens,
           LocalSound(w, t), Moved(t),
           local'[w][t] = local[w][t] \/ local'[w][t] = NoEntry
    PROVE  LocalSound(w, t)'
<1>1. /\ clock \in Nat /\ clock' \in Nat /\ Exp[t] \in Nat
      /\ local[w][t].until \in Nat
      /\ revokedAt[t] \in Nat \union {None}
      /\ revokedAt'[t] \in Nat \union {None}
    BY DEF TypeOK, Entry
<1>2. CASE local'[w][t] = NoEntry
    BY <1>2 DEF LocalSound, NoEntry
<1>3. CASE local'[w][t] = local[w][t]
    BY <1>1, <1>3, GraceNat DEF LocalSound, Moved, Matters
<1>4. QED
    BY <1>2, <1>3

LEMMA RedisFrame ==
    ASSUME TypeOK, TypeOK', NEW t \in Tokens, RedisSound(t), Moved(t),
           \/ redis'[t] = redis[t] /\ (redis[t] = NoEntry \/ redis[t].until > clock')
           \/ redis'[t] = NoEntry
    PROVE  RedisSound(t)'
<1>1. /\ clock \in Nat /\ clock' \in Nat /\ Exp[t] \in Nat
      /\ redis[t].until \in Nat
      /\ revokedAt[t] \in Nat \union {None}
      /\ revokedAt'[t] \in Nat \union {None}
    BY DEF TypeOK, Entry
<1>2. CASE redis'[t] = NoEntry
    BY <1>2 DEF RedisSound, NoEntry
<1>3. CASE redis'[t] = redis[t] /\ redis'[t] # NoEntry
    BY <1>1, <1>3, GraceNat DEF RedisSound, Moved, Matters
<1>4. QED
    BY <1>2, <1>3

LEMMA RequestFrame ==
    ASSUME TypeOK, TypeOK', NEW r \in Requests, RequestSound(r),
           req[r].pc # "idle" => Moved(req[r].t) /\ clock' <= req[r].start + MaxLag,
           req'[r] = req[r]
    PROVE  RequestSound(r)'
<1>1. CASE req[r].pc = "idle"
    BY <1>1 DEF RequestSound, InFlight, At
<1>2. CASE req[r].pc # "idle"
    <2> DEFINE t == req[r].t
    <2>1. t \in Tokens /\ req[r].start \in Nat
        BY <1>2, InFlightRequest
    <2>2. /\ clock \in Nat /\ clock' \in Nat /\ Exp[t] \in Nat
          /\ revokedAt[t] \in Nat \union {None}
          /\ revokedAt'[t] \in Nat \union {None}
        BY <2>1 DEF TypeOK
    <2>3. Matters(t)' => Matters(t) \/ revokedAt'[t] = clock
        BY <1>2, <2>2 DEF Moved, Matters
    <2>4. revokedAt[t] # None => revokedAt'[t] = revokedAt[t]
        BY <1>2 DEF Moved
    <2>5. revokedAt[t] # None => revokedAt'[t] # None
        BY <2>4
    <2>6. req[r].start <= clock'
        BY <1>2, <2>1, <2>2 DEF RequestSound, Moved, InFlight, At
    <2>7. QED
        BY <1>2, <2>1, <2>2, <2>3, <2>4, <2>5, <2>6, GraceNat
           DEF RequestSound, InFlight, At, Matters
<1>3. QED
    BY <1>1, <1>2

LEMMA IdleSound ==
    ASSUME NEW r \in Requests, req'[r] = IdleRequest
    PROVE  RequestSound(r)'
    BY DEF RequestSound, InFlight, At, IdleRequest

\* A step that touches neither the table, its history nor the clock.
LEMMA RowFrame ==
    ASSUME NEW t \in Tokens, RowSound(t), clock' = clock, db' = db,
           revokedAt' = revokedAt
    PROVE  RowSound(t)'
    BY DEF RowSound, Matters

-----------------------------------------------------------------------------
(***************************************************************************)
(* What the helpers do to the request, the local cache and Redis.          *)
(***************************************************************************)
LEMMA GoEffect ==
    ASSUME TypeOK, NEW r \in Requests, req[r].pc # "idle", NEW pc, NEW seen,
           Go(r, pc, seen)
    PROVE  /\ \A q \in Requests : q # r => req'[q] = req[q]
           /\ req'[r].pc = pc /\ req'[r].seen = seen
           /\ req'[r].t = req[r].t /\ req'[r].start = req[r].start
    BY InFlightRequest DEF TypeOK, Go

LEMMA CacheLocallyEffect ==
    ASSUME TypeOK, NEW r \in Requests, req[r].pc # "idle",
           NEW status \in Status, NEW now \in Nat, CacheLocally(r, status, now)
    PROVE  \A w \in Workers, u \in Tokens :
              \/ local'[w][u] = NoEntry
              \/ local'[w][u] = local[w][u]
              \/ /\ u = req[r].t
                 /\ local'[w][u] = [status |-> status,
                                    until |-> CacheUntil(u, status, now)]
<1> DEFINE old == local[req[r].w]
           t == req[r].t
<1>1. PICK cache \in Insertions(old, t, status, now) :
            local' = [local EXCEPT ![req[r].w] = cache]
    BY DEF CacheLocally
<1>2. req[r].w \in Workers /\ t \in Tokens
    BY InFlightRequest
<1>3. old \in [Tokens -> Entry]
    BY <1>2 DEF TypeOK
<1> HIDE DEF old, t
<1>4. ASSUME NEW u \in Tokens
      PROVE  \/ cache[u] = NoEntry
             \/ cache[u] = old[u]
             \/ u = t /\ cache[u] = [status |-> status,
                                     until |-> CacheUntil(t, status, now)]
    BY <1>1, <1>2, <1>3, InsertionsKeepOrDrop
<1>5. QED
    BY <1>1, <1>2, <1>4 DEF TypeOK, old, t

LEMMA RedisSetEffect ==
    ASSUME TypeOK, NEW t \in Tokens, NEW status \in Status, NEW now \in Nat,
           RedisSet(t, status, now)
    PROVE  \A u \in Tokens :
              \/ redis'[u] = redis[u]
              \/ /\ u = t
                 /\ redis'[u] = [status |-> status,
                                 until |-> clock + RedisSeconds(t, status, now)]
    BY DEF RedisSet, TypeOK

\* A verdict that is true, or clear and early enough, is fit for the local
\* cache of a worker.
LEMMA CacheLocallySound ==
    ASSUME IInv, TypeOK', clock' = clock, revokedAt' = revokedAt,
           NEW r \in Requests, req[r].pc # "idle",
           NEW status \in Status, NEW now \in Nat, now <= clock,
           CacheLocally(r, status, now),
           status = "revoked" => revokedAt[req[r].t] # None,
           status = "clear" /\ Matters(req[r].t)
                => now <= revokedAt[req[r].t] + MaxLag + Linger
    PROVE  \A w \in Workers, t \in Tokens : LocalSound(w, t)'
<1> SUFFICES ASSUME NEW w \in Workers, NEW t \in Tokens PROVE LocalSound(w, t)'
    OBVIOUS
<1>1. TypeOK /\ LocalSound(w, t) /\ Moved(t)
    BY DEF IInv, Moved
<1>2. CASE local'[w][t] = NoEntry \/ local'[w][t] = local[w][t]
    BY <1>1, <1>2, LocalFrame
<1>3. CASE /\ t = req[r].t
           /\ local'[w][t] = [status |-> status, until |-> CacheUntil(t, status, now)]
    <2>1. clock \in Nat /\ revokedAt[t] \in Nat \union {None}
        BY <1>1 DEF TypeOK
    <2>2. status = "clear" => CacheUntil(t, status, now) <= now + LocalTTL
        BY Dates
    <2>3. CacheUntil(t, status, now) \in Nat
        BY Dates
    <2>4. local'[w][t].status = status /\ local'[w][t].until = CacheUntil(t, status, now)
        BY <1>3
    <2>5. QED
        BY <1>3, <2>1, <2>2, <2>3, <2>4, GraceNat DEF LocalSound, Matters
<1>4. QED
    BY <1>1, <1>2, <1>3, CacheLocallyEffect

LEMMA RedisSetSound ==
    ASSUME IInv, TypeOK', clock' = clock, revokedAt' = revokedAt,
           NEW t \in Tokens, NEW status \in Status, NEW now \in Nat,
           status # "none", clock <= now + MaxLag, RedisSet(t, status, now),
           status = "revoked" => revokedAt[t] # None,
           status = "clear" /\ Matters(t) => now <= revokedAt[t]
    PROVE  \A u \in Tokens : RedisSound(u)'
<1> SUFFICES ASSUME NEW u \in Tokens PROVE RedisSound(u)'
    OBVIOUS
<1>1. TypeOK /\ RedisSound(u) /\ Moved(u)
    BY DEF IInv, Moved
<1>2. CASE redis'[u] = redis[u]
    <2>1. redis[u] = NoEntry \/ redis[u].until > clock'
        BY <1>1 DEF RedisSound
    <2>2. QED
        BY <1>1, <1>2, <2>1, RedisFrame
<1>3. CASE /\ u = t
           /\ redis'[u] = [status |-> status,
                           until |-> clock + RedisSeconds(t, status, now)]
    <2>1. clock \in Nat /\ revokedAt[t] \in Nat \union {None}
        BY <1>1 DEF TypeOK
    <2>2. /\ RedisSeconds(t, status, now) \in Nat
          /\ RedisSeconds(t, status, now) >= 1
          /\ status = "clear" => RedisSeconds(t, status, now) <= Linger + 1
        BY Dates
    <2>3. /\ redis'[u].status = status
          /\ redis'[u].until = clock + RedisSeconds(t, status, now)
        BY <1>3
    <2>4. QED
        BY <1>3, <2>1, <2>2, <2>3, GraceNat DEF RedisSound, Matters
<1>4. \/ redis'[u] = redis[u]
      \/ /\ u = t
         /\ redis'[u] = [status |-> status,
                         until |-> clock + RedisSeconds(t, status, now)]
    BY <1>1, RedisSetEffect
<1>5. QED
    BY <1>2, <1>3, <1>4

-----------------------------------------------------------------------------
(***************************************************************************)
(* Steps of one request, between two changes of the clock and the history. *)
(***************************************************************************)
Still == clock' = clock /\ revokedAt' = revokedAt

\* What RequestSound asks of a request for t begun at start.
Fit(t, start, pc, seen) ==
    /\ pc = "deleteRow" => Exp[t] <= start
    /\ pc \in {"stored", "announce"} => revokedAt[t] # None
    /\ seen = "none" => pc \in {"redisGet", "select"}
    /\ seen = "revoked" => revokedAt[t] # None
    /\ Matters(t) /\ seen = "clear" =>
        /\ pc \in {"selected", "publish"} => start <= revokedAt[t]
        /\ pc = "redisGot" => start <= revokedAt[t] + MaxLag + Linger
        /\ pc = "answered" => start <= revokedAt[t] + Grace

LEMMA OneRequestMoves ==
    ASSUME IInv, TypeOK', Still, NEW r \in Requests,
           \A q \in Requests : q # r => req'[q] = req[q],
           RequestSound(r)'
    PROVE  \A q \in Requests : RequestSound(q)'
<1> SUFFICES ASSUME NEW q \in Requests, q # r PROVE RequestSound(q)'
    OBVIOUS
<1>1. TypeOK /\ RequestSound(q) /\ req'[q] = req[q]
    BY DEF IInv
<1>2. req[q].pc # "idle" => Moved(req[q].t) /\ clock' <= req[q].start + MaxLag
    BY <1>1 DEF Still, Moved, RequestSound, InFlight, At
<1>3. QED
    BY <1>1, <1>2, RequestFrame

LEMMA GoSound ==
    ASSUME IInv, TypeOK', Still, NEW r \in Requests, req[r].pc # "idle",
           NEW pc, NEW seen, Go(r, pc, seen),
           Fit(req[r].t, req[r].start, pc, seen)
    PROVE  \A q \in Requests : RequestSound(q)'
<1>1. TypeOK /\ RequestSound(r)
    BY DEF IInv
<1>2. /\ \A q \in Requests : q # r => req'[q] = req[q]
      /\ req'[r].pc = pc /\ req'[r].seen = seen
      /\ req'[r].t = req[r].t /\ req'[r].start = req[r].start
    BY <1>1, GoEffect
<1>3. RequestSound(r)'
    BY <1>1, <1>2 DEF RequestSound, Fit, Still, InFlight, At, Matters
<1>4. QED
    BY <1>2, <1>3, OneRequestMoves

LEMMA FinishSound ==
    ASSUME IInv, TypeOK', Still, NEW r \in Requests, Finish(r)
    PROVE  \A q \in Requests : RequestSound(q)'
<1>1. req' = [req EXCEPT ![r] = IdleRequest] /\ req \in [Requests -> Request]
    BY DEF Finish, IInv, TypeOK
<1>2. \A q \in Requests : q # r => req'[q] = req[q]
    BY <1>1
<1>3. req'[r] = IdleRequest
    BY <1>1
<1>4. QED
    BY <1>2, <1>3, IdleSound, OneRequestMoves

LEMMA ArriveSound ==
    ASSUME IInv, TypeOK', Still, NEW r \in Requests, NEW w \in Workers,
           NEW t \in Tokens, NEW pc, NEW seen, Arrive(r, w, t, pc, seen),
           Fit(t, clock, pc, seen)
    PROVE  \A q \in Requests : RequestSound(q)'
<1>1. /\ \A q \in Requests : q # r => req'[q] = req[q]
      /\ req'[r].pc = pc /\ req'[r].seen = seen
      /\ req'[r].t = t /\ req'[r].start = clock
    BY DEF Arrive, IInv, TypeOK
<1>2. clock \in Nat
    BY DEF IInv, TypeOK
<1>3. RequestSound(r)'
    BY <1>1, <1>2 DEF RequestSound, Fit, Still, InFlight, At, Matters
<1>4. QED
    BY <1>1, <1>3, OneRequestMoves

LEMMA StoresUntouched ==
    ASSUME IInv, TypeOK', Still
    PROVE  /\ db' = db => \A t \in Tokens : RowSound(t)'
           /\ redis' = redis => \A t \in Tokens : RedisSound(t)'
           /\ local' = local => \A w \in Workers, t \in Tokens : LocalSound(w, t)'
<1>1. ASSUME NEW t \in Tokens PROVE Moved(t)
    BY DEF Still, Moved
<1>2. ASSUME db' = db, NEW t \in Tokens PROVE RowSound(t)'
    BY <1>2, RowFrame DEF IInv, Still
<1>3. ASSUME redis' = redis, NEW t \in Tokens PROVE RedisSound(t)'
    <2>1. redis[t] = NoEntry \/ redis[t].until > clock'
        BY DEF IInv, RedisSound, Still
    <2>2. QED
        BY <1>1, <1>3, <2>1, RedisFrame DEF IInv
<1>4. ASSUME local' = local, NEW w \in Workers, NEW t \in Tokens
      PROVE  LocalSound(w, t)'
    BY <1>1, <1>4, LocalFrame DEF IInv
<1>5. QED
    BY <1>2, <1>3, <1>4

-----------------------------------------------------------------------------
(***************************************************************************)
(* The invariant is inductive.  Until the commit only one request moves;   *)
(* the steps that write an entry rest on the two lemmas about entries.     *)
(***************************************************************************)
LEMMA InitSound == Init => IInv
<1> SUFFICES ASSUME Init PROVE IInv
    OBVIOUS
<1>1. TypeOK
    BY InitTyped
<1>2. ASSUME NEW r \in Requests PROVE RequestSound(r)
    BY DEF Init, RequestSound, InFlight, At, IdleRequest
<1>3. ASSUME NEW t \in Tokens PROVE RowSound(t) /\ RedisSound(t)
    BY DEF Init, RowSound, RedisSound, NoEntry, Matters
<1>4. ASSUME NEW w \in Workers, NEW t \in Tokens PROVE LocalSound(w, t)
    BY DEF Init, LocalSound, NoEntry
<1>5. QED
    BY <1>1, <1>2, <1>3, <1>4 DEF IInv

LEMMA CheckSound ==
    ASSUME IInv, TypeOK', NEW r \in Requests, Check(r)
    PROVE  IInv'
<1> USE DEF At
<1>1. TypeOK /\ RequestSound(r)
    BY DEF IInv
<1>2. ASSUME NEW w \in Workers, NEW t \in Tokens, LocalHit(r, w, t) PROVE IInv'
    <2>1. Still /\ db' = db /\ redis' = redis /\ local' = local
        BY <1>2 DEF LocalHit, Still
    <2>2. Fit(t, clock, "answered", local[w][t].status)
        <3>1. LocalSound(w, t) /\ RowSound(t)
            BY DEF IInv
        <3>2. /\ clock \in Nat /\ local[w][t].until \in Nat
              /\ revokedAt[t] \in Nat \union {None}
            BY <1>1 DEF TypeOK, Entry
        <3>3. local[w][t].status # "none" /\ local[w][t].until > clock
            BY <1>2 DEF LocalHit, Live
        <3>4. QED
            BY <3>1, <3>2, <3>3 DEF Fit, LocalSound, Matters, Linger, Grace
    <2>3. \A q \in Requests : RequestSound(q)'
        BY <1>2, <2>1, <2>2, ArriveSound DEF LocalHit
    <2>4. QED
        BY <2>1, <2>3, StoresUntouched DEF IInv
<1>3. ASSUME NEW w \in Workers, NEW t \in Tokens, LocalMiss(r, w, t) PROVE IInv'
    <2>1. Still /\ db' = db /\ redis' = redis
        BY <1>3 DEF LocalMiss, Still
    <2>2. \A q \in Requests : RequestSound(q)'
        BY <1>3, <2>1, ArriveSound DEF LocalMiss, Fit
    <2>3. ASSUME NEW v \in Workers, NEW u \in Tokens PROVE LocalSound(v, u)'
        <3>1. local'[v][u] = local[v][u] \/ local'[v][u] = NoEntry
            BY <1>1, <1>3 DEF LocalMiss, TypeOK
        <3>2. Moved(u)
            BY <2>1 DEF Still, Moved
        <3>3. QED
            BY <3>1, <3>2, LocalFrame DEF IInv
    <2>4. QED
        BY <2>1, <2>2, <2>3, StoresUntouched DEF IInv
<1>4. CASE RedisGet(r)
    <2>1. Still /\ db' = db /\ redis' = redis /\ local' = local
        BY <1>4 DEF RedisGet, Still
    <2>2. Fit(req[r].t, req[r].start, "redisGot", redis[req[r].t].status)
        <3> DEFINE t == req[r].t
        <3>1. t \in Tokens /\ req[r].start \in Nat
            BY <1>1, <1>4, InFlightRequest DEF RedisGet
        <3>2. RedisSound(t) /\ RowSound(t)
            BY <3>1 DEF IInv
        <3>3. /\ clock \in Nat /\ redis[t].until \in Nat
              /\ revokedAt[t] \in Nat \union {None}
            BY <1>1, <3>1 DEF TypeOK, Entry
        <3>4. req[r].start <= clock
            BY <1>1, <1>4 DEF RedisGet, RequestSound, InFlight
        <3>5. redis[t].status # "none" /\ redis[t].until > clock
            BY <1>4, <3>2 DEF RedisGet, RedisSound
        <3>6. QED
            BY <3>1, <3>2, <3>3, <3>4, <3>5, GraceNat DEF Fit, RedisSound, Matters
    <2>3. \A q \in Requests : RequestSound(q)'
        BY <1>4, <2>1, <2>2, GoSound DEF RedisGet
    <2>4. QED
        BY <2>1, <2>3, StoresUntouched DEF IInv
<1>5. CASE RedisMiss(r)
    <2>1. Still /\ db' = db /\ redis' = redis /\ local' = local
        BY <1>5 DEF RedisMiss, Still
    <2>2. \A q \in Requests : RequestSound(q)'
        BY <1>5, <2>1, GoSound DEF RedisMiss, Fit
    <2>3. QED
        BY <2>1, <2>2, StoresUntouched DEF IInv
<1>6. CASE RedisExpired(r)
    <2>1. Still /\ db' = db /\ local' = local
        BY <1>6 DEF RedisExpired, Still
    <2>2. \A q \in Requests : RequestSound(q)'
        BY <1>6, <2>1, GoSound DEF RedisExpired, Fit
    <2>3. ASSUME NEW t \in Tokens PROVE RedisSound(t)'
        <3>1. redis'[t] = redis[t] \/ redis'[t] = NoEntry
            BY <1>1, <1>6 DEF RedisExpired, TypeOK
        <3>2. Moved(t) /\ (redis[t] = NoEntry \/ redis[t].until > clock')
            BY <2>1 DEF Still, Moved, IInv, RedisSound
        <3>3. QED
            BY <3>1, <3>2, RedisFrame DEF IInv
    <2>4. QED
        BY <2>1, <2>2, <2>3, StoresUntouched DEF IInv
<1>7. CASE RedisAnswered(r)
    <2>1. Still /\ db' = db /\ redis' = redis
        BY <1>7 DEF RedisAnswered, Still
    <2>2. /\ req[r].t \in Tokens /\ req[r].start \in Nat /\ req[r].seen \in Status
          /\ req[r].start <= clock
          /\ req[r].seen = "revoked" => revokedAt[req[r].t] # None
          /\ req[r].seen # "none"
          /\ req[r].seen = "clear" /\ Matters(req[r].t)
                => req[r].start <= revokedAt[req[r].t] + MaxLag + Linger
        BY <1>1, <1>7, InFlightRequest DEF RedisAnswered, RequestSound, InFlight
    <2>3. \A w \in Workers, t \in Tokens : LocalSound(w, t)'
        BY <1>7, <2>1, <2>2, CacheLocallySound DEF RedisAnswered, Still
    <2>4. Fit(req[r].t, req[r].start, "answered", req[r].seen)
        <3>1. Matters(req[r].t) => revokedAt[req[r].t] \in Nat
            BY <1>1, <2>2 DEF Matters, TypeOK
        <3>2. QED
            BY <2>2, <3>1, GraceNat DEF Fit
    <2>5. \A q \in Requests : RequestSound(q)'
        BY <1>7, <2>1, <2>4, GoSound DEF RedisAnswered
    <2>6. QED
        BY <2>1, <2>3, <2>5, StoresUntouched DEF IInv
<1>8. CASE DbSelect(r)
    <2> DEFINE t == req[r].t
               seen == IF t \in db THEN "revoked" ELSE "clear"
    <2>1. Still /\ db' = db /\ redis' = redis /\ local' = local
        BY <1>8 DEF DbSelect, Still
    <2>2. t \in Tokens
        BY <1>1, <1>8, InFlightRequest DEF DbSelect
    <2>3. Fit(t, req[r].start, "selected", seen)
        BY <2>2 DEF Fit, IInv, RowSound
    <2>4. \A q \in Requests : RequestSound(q)'
        BY <1>8, <2>1, <2>3, GoSound DEF DbSelect
    <2>5. QED
        BY <2>1, <2>4, StoresUntouched DEF IInv
<1>9. CASE CacheVerdict(r)
    <2>1. Still /\ db' = db /\ redis' = redis
        BY <1>9 DEF CacheVerdict, Still
    <2>2. /\ req[r].t \in Tokens /\ req[r].start \in Nat /\ req[r].seen \in Status
          /\ req[r].start <= clock
          /\ req[r].seen = "revoked" => revokedAt[req[r].t] # None
          /\ req[r].seen # "none"
          /\ req[r].seen = "clear" /\ Matters(req[r].t)
                => req[r].start <= revokedAt[req[r].t]
        BY <1>1, <1>9, InFlightRequest DEF CacheVerdict, RequestSound, InFlight
    <2>3. Matters(req[r].t) => revokedAt[req[r].t] \in Nat
        BY <1>1, <2>2 DEF Matters, TypeOK
    <2>4. req[r].seen = "clear" /\ Matters(req[r].t)
                => req[r].start <= revokedAt[req[r].t] + MaxLag + Linger
        BY <2>2, <2>3, GraceNat
    <2>5. \A w \in Workers, t \in Tokens : LocalSound(w, t)'
        BY <1>9, <2>1, <2>2, <2>4, CacheLocallySound DEF CacheVerdict, Still
    <2>6. Fit(req[r].t, req[r].start, "publish", req[r].seen)
        BY <2>2 DEF Fit
    <2>7. \A q \in Requests : RequestSound(q)'
        BY <1>9, <2>1, <2>6, GoSound DEF CacheVerdict
    <2>8. QED
        BY <2>1, <2>5, <2>7, StoresUntouched DEF IInv
<1>10. CASE FindExpiredRow(r)
    <2>1. Still /\ db' = db /\ redis' = redis /\ local' = local
        BY <1>10 DEF FindExpiredRow, Still
    <2>2. Fit(req[r].t, req[r].start, "deleteRow", "revoked")
        BY <1>1, <1>10 DEF FindExpiredRow, RequestSound, InFlight, Fit
    <2>3. \A q \in Requests : RequestSound(q)'
        BY <1>10, <2>1, <2>2, GoSound DEF FindExpiredRow
    <2>4. QED
        BY <2>1, <2>3, StoresUntouched DEF IInv
<1>11. CASE DeleteExpiredRow(r)
    <2> DEFINE t == req[r].t
    <2>1. Still /\ redis' = redis /\ local' = local /\ db' = db \ {t}
        BY <1>11 DEF DeleteExpiredRow, Still
    <2>2. t \in Tokens /\ req[r].start \in Nat
        BY <1>1, <1>11, InFlightRequest DEF DeleteExpiredRow
    <2>3. ~Matters(t)
        <3>1. Exp[t] <= req[r].start /\ req[r].start <= clock
            BY <1>1, <1>11 DEF DeleteExpiredRow, RequestSound, InFlight
        <3>2. clock \in Nat /\ Exp[t] \in Nat
            BY <1>1, <2>2 DEF TypeOK
        <3>3. QED
            BY <2>2, <3>1, <3>2 DEF Matters
    <2>4. Fit(t, req[r].start, "selected", "clear")
        BY <2>3 DEF Fit
    <2>5. \A q \in Requests : RequestSound(q)'
        BY <1>11, <2>1, <2>4, GoSound DEF DeleteExpiredRow
    <2>6. \A u \in Tokens : RowSound(u)'
        BY <2>1, <2>3 DEF IInv, RowSound, Still, Matters
    <2>7. QED
        BY <2>1, <2>5, <2>6, StoresUntouched DEF IInv
<1>12. CASE PublishVerdict(r)
    <2>1. Still /\ db' = db /\ local' = local
        BY <1>12 DEF PublishVerdict, Still
    <2>2. /\ req[r].t \in Tokens /\ req[r].start \in Nat /\ req[r].seen \in Status
          /\ clock <= req[r].start + MaxLag
          /\ req[r].seen = "revoked" => revokedAt[req[r].t] # None
          /\ req[r].seen # "none"
          /\ req[r].seen = "clear" /\ Matters(req[r].t)
                => req[r].start <= revokedAt[req[r].t]
        BY <1>1, <1>12, InFlightRequest DEF PublishVerdict, RequestSound, InFlight
    <2>3. \A u \in Tokens : RedisSound(u)'
        BY <1>12, <2>1, <2>2, RedisSetSound DEF PublishVerdict, Still
    <2>4. Fit(req[r].t, req[r].start, "answered", req[r].seen)
        <3>1. Matters(req[r].t) => revokedAt[req[r].t] \in Nat
            BY <1>1, <2>2 DEF Matters, TypeOK
        <3>2. QED
            BY <2>2, <3>1, GraceNat DEF Fit
    <2>5. \A q \in Requests : RequestSound(q)'
        BY <1>12, <2>1, <2>4, GoSound DEF PublishVerdict
    <2>6. QED
        BY <2>1, <2>3, <2>5, StoresUntouched DEF IInv
<1>13. CASE CheckFails(r)
    <2>1. Still /\ db' = db /\ redis' = redis /\ local' = local
        BY <1>13 DEF CheckFails, Still
    <2>2. \A q \in Requests : RequestSound(q)'
        BY <1>13, <2>1, FinishSound DEF CheckFails
    <2>3. QED
        BY <2>1, <2>2, StoresUntouched DEF IInv
<1>14. QED
    BY <1>2, <1>3, <1>4, <1>5, <1>6, <1>7, <1>8, <1>9, <1>10, <1>11, <1>12, <1>13
       DEF Check

LEMMA ServeSound ==
    ASSUME IInv, TypeOK', NEW r \in Requests, Serve(r)
    PROVE  IInv'
<1>1. Still /\ db' = db /\ redis' = redis /\ local' = local
    BY DEF Serve, Still
<1>2. \A q \in Requests : RequestSound(q)'
    BY <1>1, FinishSound DEF Serve
<1>3. QED
    BY <1>1, <1>2, StoresUntouched DEF IInv

\* The commit is the one step that changes the history: whatever says "clear"
\* at that moment is dated from then on.
LEMMA StoreSound ==
    ASSUME IInv, TypeOK', NEW r \in Requests, StoreRevokedJti(r)
    PROVE  IInv'
<1> USE DEF At
<1> DEFINE t == req[r].t
           swept == IF CleanupIsDue(req[r].w) THEN db \ ExpiredRows ELSE db
<1>1. TypeOK /\ RequestSound(r) /\ req[r].pc = "store"
    BY DEF IInv, StoreRevokedJti
<1>2. t \in Tokens /\ req[r].start \in Nat
    BY <1>1, InFlightRequest
<1>3. clock' = clock /\ redis' = redis /\ local' = local /\ clock \in Nat
    BY <1>1 DEF StoreRevokedJti, TypeOK
<1>4. /\ db' = IF clock < Exp[t] THEN swept \union {t} ELSE swept
      /\ revokedAt' = IF clock < Exp[t] /\ revokedAt[t] = None
                      THEN [revokedAt EXCEPT ![t] = clock] ELSE revokedAt
    BY DEF StoreRevokedJti
<1>5. ASSUME NEW u \in Tokens PROVE Moved(u)
    BY <1>1, <1>2, <1>3, <1>4 DEF Moved, TypeOK
<1>6. ASSUME NEW u \in Tokens PROVE RowSound(u)'
    <2>1. RowSound(u) /\ Exp[u] \in Nat /\ revokedAt[u] \in Nat \union {None}
        BY <1>1 DEF IInv, TypeOK
    <2>2. clock < Exp[u] /\ u \in db => u \in swept
        BY <1>3, <2>1 DEF ExpiredRows
    <2>3. swept \subseteq db
        BY DEF ExpiredRows
    <2>4. CASE u = t /\ clock < Exp[t]
        <3>1. revokedAt'[u] \in Nat /\ revokedAt'[u] <= clock
            BY <1>1, <1>2, <1>3, <1>4, <2>1, <2>4 DEF TypeOK, RowSound
        <3>2. u \in db'
            BY <1>4, <2>4
        <3>3. QED
            BY <1>3, <3>1, <3>2 DEF RowSound, Matters
    <2>5. CASE ~(u = t /\ clock < Exp[t])
        <3>1. revokedAt'[u] = revokedAt[u]
            BY <1>1, <1>2, <1>4, <2>5 DEF TypeOK
        <3>2. u \in db' => u \in db
            BY <1>4, <2>3, <2>5
        <3>3. clock < Exp[u] /\ u \in db => u \in db'
            BY <1>4, <2>2
        <3>4. QED
            BY <1>3, <2>1, <3>1, <3>2, <3>3 DEF RowSound, Matters
    <2>6. QED
        BY <2>4, <2>5
<1>7. ASSUME NEW u \in Tokens PROVE RedisSound(u)'
    <2>1. redis[u] = NoEntry \/ redis[u].until > clock'
        BY <1>3 DEF IInv, RedisSound
    <2>2. QED
        BY <1>3, <1>5, <2>1, RedisFrame DEF IInv
<1>8. ASSUME NEW w \in Workers, NEW u \in Tokens PROVE LocalSound(w, u)'
    BY <1>3, <1>5, LocalFrame DEF IInv
<1>9. ASSUME NEW q \in Requests PROVE RequestSound(q)'
    <2>1. CASE q # r
        <3>1. req'[q] = req[q]
            <4>1. CASE clock < Exp[t]
                BY <1>1, <2>1, <4>1, GoEffect DEF StoreRevokedJti
            <4>2. CASE ~(clock < Exp[t])
                BY <1>1, <2>1, <4>2 DEF StoreRevokedJti, Finish, TypeOK
            <4>3. QED
                BY <4>1, <4>2
        <3>2. req[q].pc # "idle" => Moved(req[q].t) /\ clock' <= req[q].start + MaxLag
            BY <1>1, <1>3, <1>5, InFlightRequest DEF IInv, RequestSound, InFlight
        <3>3. QED
            BY <1>1, <3>1, <3>2, RequestFrame DEF IInv
    <2>2. CASE q = r /\ clock < Exp[t]
        <3>1. /\ req'[r].pc = "stored" /\ req'[r].seen = "revoked"
              /\ req'[r].t = t /\ req'[r].start = req[r].start
            BY <1>1, <2>2, GoEffect DEF StoreRevokedJti
        <3>2. revokedAt'[t] # None
            BY <1>1, <1>2, <1>3, <1>4, <2>2 DEF TypeOK
        <3>3. QED
            BY <1>1, <1>3, <2>2, <3>1, <3>2 DEF RequestSound, InFlight
    <2>3. CASE q = r /\ ~(clock < Exp[t])
        <3>1. req'[r] = IdleRequest
            BY <1>1, <2>3 DEF StoreRevokedJti, Finish, TypeOK
        <3>2. QED
            BY <2>3, <3>1, IdleSound
    <2>4. QED
        BY <2>1, <2>2, <2>3
<1>10. QED
    BY <1>6, <1>7, <1>8, <1>9 DEF IInv

LEMMA RevokeSound ==
    ASSUME IInv, TypeOK', NEW r \in Requests, Revoke(r)
    PROVE  IInv'
<1> USE DEF At
<1>1. TypeOK /\ RequestSound(r)
    BY DEF IInv
<1>2. CASE Reset(r)
    <2>1. Still /\ db' = db /\ redis' = redis /\ local' = local
        BY <1>2 DEF Reset, Still
    <2>2. \A q \in Requests : RequestSound(q)'
        BY <1>2, <2>1, GoSound DEF Reset, Accepted, Fit
    <2>3. QED
        BY <2>1, <2>2, StoresUntouched DEF IInv
<1>3. CASE StoreRevokedJti(r)
    BY <1>3, StoreSound
<1>4. CASE StoreFails(r)
    <2>1. Still /\ db' = db /\ redis' = redis /\ local' = local
        BY <1>4 DEF StoreFails, Still
    <2>2. \A q \in Requests : RequestSound(q)'
        BY <1>4, <2>1, FinishSound DEF StoreFails
    <2>3. QED
        BY <2>1, <2>2, StoresUntouched DEF IInv
<1>5. CASE CacheRevocation(r)
    <2>1. Still /\ db' = db /\ redis' = redis
        BY <1>5 DEF CacheRevocation, Still
    <2>2. /\ req[r].t \in Tokens /\ clock \in Nat /\ "revoked" \in Status
          /\ req[r].seen \in Status /\ revokedAt[req[r].t] # None
          /\ req[r].seen # "none"
        BY <1>1, <1>5, InFlightRequest
           DEF CacheRevocation, RequestSound, InFlight, TypeOK, Status
    <2>3. \A w \in Workers, t \in Tokens : LocalSound(w, t)'
        BY <1>5, <2>1, <2>2, CacheLocallySound DEF CacheRevocation, Still
    <2>4. /\ \A q \in Requests : q # r => req'[q] = req[q]
          /\ req'[r].pc = "announce" /\ req'[r].start = clock
          /\ req'[r].t = req[r].t /\ req'[r].seen = req[r].seen
        BY <1>1, <1>5, InFlightRequest DEF CacheRevocation, TypeOK
    <2>5. RequestSound(r)'
        BY <2>1, <2>2, <2>4 DEF RequestSound, InFlight, Still
    <2>6. QED
        BY <2>1, <2>3, <2>4, <2>5, OneRequestMoves, StoresUntouched DEF IInv
<1>6. CASE AnnounceRevocation(r)
    <2>1. Still /\ db' = db /\ local' = local
        BY <1>6 DEF AnnounceRevocation, Still
    <2>2. /\ req[r].t \in Tokens /\ req[r].start \in Nat /\ "revoked" \in Status
          /\ clock <= req[r].start + MaxLag /\ revokedAt[req[r].t] # None
        BY <1>1, <1>6, InFlightRequest
           DEF AnnounceRevocation, RequestSound, InFlight, Status
    <2>3. \A u \in Tokens : RedisSound(u)'
        BY <1>6, <2>1, <2>2, RedisSetSound DEF AnnounceRevocation, Still
    <2>4. \A q \in Requests : RequestSound(q)'
        BY <1>6, <2>1, FinishSound DEF AnnounceRevocation
    <2>5. QED
        BY <2>1, <2>3, <2>4, StoresUntouched DEF IInv
<1>7. QED
    BY <1>2, <1>3, <1>4, <1>5, <1>6 DEF Revoke

LEMMA RestartSound ==
    ASSUME IInv, TypeOK', NEW w \in Workers, RestartWorker(w)
    PROVE  IInv'
<1>1. Still /\ db' = db /\ redis' = redis
    BY DEF RestartWorker, Still
<1>2. ASSUME NEW r \in Requests PROVE RequestSound(r)'
    <2>1. req'[r] = req[r] \/ req'[r] = IdleRequest
        BY DEF RestartWorker
    <2>2. req[r].pc # "idle" => Moved(req[r].t) /\ clock' <= req[r].start + MaxLag
        BY <1>1 DEF IInv, RequestSound, InFlight, At, Moved, Still
    <2>3. QED
        BY <2>1, <2>2, RequestFrame, IdleSound DEF IInv
<1>3. ASSUME NEW v \in Workers, NEW t \in Tokens PROVE LocalSound(v, t)'
    <2>1. local'[v][t] = local[v][t] \/ local'[v][t] = NoEntry
        BY DEF RestartWorker, IInv, TypeOK
    <2>2. Moved(t)
        BY <1>1 DEF Still, Moved
    <2>3. QED
        BY <2>1, <2>2, LocalFrame DEF IInv
<1>4. QED
    BY <1>1, <1>2, <1>3, StoresUntouched DEF IInv

LEMMA ForgetSound ==
    ASSUME IInv, TypeOK', NEW t \in Tokens, RedisForgets(t)
    PROVE  IInv'
<1>1. Still /\ db' = db /\ local' = local /\ req' = req
    BY DEF RedisForgets, Still
<1>2. ASSUME NEW r \in Requests PROVE RequestSound(r)'
    <2>1. req[r].pc # "idle" => Moved(req[r].t) /\ clock' <= req[r].start + MaxLag
        BY <1>1 DEF IInv, RequestSound, InFlight, At, Moved, Still
    <2>2. QED
        BY <1>1, <2>1, RequestFrame DEF IInv
<1>3. ASSUME NEW u \in Tokens PROVE RedisSound(u)'
    <2>1. redis'[u] = redis[u] \/ redis'[u] = NoEntry
        BY DEF RedisForgets, IInv, TypeOK
    <2>2. Moved(u) /\ (redis[u] = NoEntry \/ redis[u].until > clock')
        BY <1>1 DEF Still, Moved, IInv, RedisSound
    <2>3. QED
        BY <2>1, <2>2, RedisFrame DEF IInv
<1>4. QED
    BY <1>1, <1>2, <1>3, StoresUntouched DEF IInv

LEMMA TickSound ==
    ASSUME IInv, TypeOK', Tick
    PROVE  IInv'
<1>1. /\ clock' = clock + 1 /\ clock \in Nat
      /\ db' = db /\ local' = local /\ req' = req /\ revokedAt' = revokedAt
    BY DEF Tick, IInv, TypeOK
<1>2. ASSUME NEW t \in Tokens PROVE Moved(t)
    BY <1>1 DEF Moved
<1>3. ASSUME NEW r \in Requests PROVE RequestSound(r)'
    <2>1. req[r].pc # "idle" => req[r].t \in Tokens /\ req[r].start \in Nat
        BY InFlightRequest DEF IInv
    <2>2. req[r].pc # "idle" => clock < req[r].start + MaxLag
        BY DEF Tick, InFlight, At
    <2>3. req[r].pc # "idle" => Moved(req[r].t) /\ clock' <= req[r].start + MaxLag
        BY <1>1, <1>2, <2>1, <2>2
    <2>4. QED
        BY <1>1, <2>3, RequestFrame DEF IInv
<1>4. ASSUME NEW t \in Tokens PROVE RowSound(t)' /\ RedisSound(t)'
    <2>1. Exp[t] \in Nat /\ redis[t].until \in Nat /\ revokedAt[t] \in Nat \union {None}
        BY DEF IInv, TypeOK, Entry
    <2>2. RowSound(t)'
        BY <1>1, <2>1 DEF IInv, RowSound, Matters
    <2>3. \/ redis'[t] = redis[t] /\ redis[t].until > clock'
          \/ redis'[t] = NoEntry
        BY <1>1, <2>1 DEF Tick
    <2>4. QED
        BY <1>2, <2>2, <2>3, RedisFrame DEF IInv
<1>5. ASSUME NEW w \in Workers, NEW t \in Tokens PROVE LocalSound(w, t)'
    BY <1>1, <1>2, LocalFrame DEF IInv
<1>6. QED
    BY <1>3, <1>4, <1>5 DEF IInv

LEMMA NextSound == IInv /\ [Next]_vars => IInv'
<1> SUFFICES ASSUME IInv, [Next]_vars PROVE IInv'
    OBVIOUS
<1>1. TypeOK'
    BY NextTyped DEF IInv
<1>2. CASE Next
    BY <1>1, <1>2, CheckSound, ServeSound, RevokeSound, RestartSound, ForgetSound,
       TickSound DEF Next
<1>3. CASE UNCHANGED vars
    BY <1>3 DEF vars, IInv, TypeOK, RequestSound, RowSound, RedisSound, LocalSound,
                InFlight, At, Matters
<1>4. QED
    BY <1>2, <1>3

\* Rows, caches and requests in flight are sound in every reachable state.
THEOREM InductiveInvariant == Spec => []IInv
    BY InitSound, NextSound, PTL DEF Spec

-----------------------------------------------------------------------------
(***************************************************************************)
(* What the invariant is for.                                              *)
(***************************************************************************)

\* No cleanup, whatever it read and whenever it runs, removes the row of a
\* revoked token that has not expired.
THEOREM RevocationIsDurable == Spec => []RevocationDurable
<1>1. IInv => RevocationDurable
    BY DEF IInv, RevocationDurable, RowSound, Matters
<1>2. QED
    BY <1>1, InductiveInvariant, PTL

\* No cache and no answer ever calls a token revoked that nobody reset.
THEOREM RevocationIsHonest == Spec => []NoFalseRevocation
<1>1. IInv => NoFalseRevocation
    BY DEF IInv, NoFalseRevocation, RedisSound, LocalSound, RequestSound
<1>2. QED
    BY <1>1, InductiveInvariant, PTL

\* A request that begins more than Grace seconds after the commit of a reset
\* does not get the token accepted, on any worker, whatever Redis does.
THEOREM StalenessIsBounded == Spec => []StaleAnswerBounded
<1>1. IInv => StaleAnswerBounded
    BY DEF IInv, StaleAnswerBounded, RequestSound, Accepted, InFlight, At, Matters
<1>2. QED
    BY <1>1, InductiveInvariant, PTL

-----------------------------------------------------------------------------
(***************************************************************************)
(* The protocol implements RevocationContract.                             *)
(***************************************************************************)
LEMMA VerdictKept ==
    ASSUME \A q \in Requests : \/ req'[q] = req[q]
                               \/ ~At(q, "answered") /\ ~At(q, "answered")'
    PROVE  Verdict' = Verdict
    BY DEF Verdict, At

LEMMA SilentStep ==
    ASSUME Still, Verdict' = Verdict
    PROVE  UNCHANGED Contract!vars
    BY DEF Still, Contract!vars

\* A request that is being answered gets a justified answer.
LEMMA AnswerStep ==
    ASSUME IInv, IInv', Still, NEW r \in Requests,
           \A q \in Requests : q # r => req'[q] = req[q],
           ~At(r, "answered"), At(r, "answered")'
    PROVE  Contract!Next
<1> DEFINE t == req'[r].t
           start == req'[r].start
           answer == req'[r].seen
<1>1. req'[r].pc = "answered" /\ req[r].pc # "answered"
    BY DEF At
<1>2. t \in Tokens /\ start \in Nat /\ answer \in Status
    BY <1>1 DEF IInv, TypeOK, Request, IdleRequest
<1>3. RequestSound(r)'
    BY DEF IInv
<1>4. clock' = clock /\ revokedAt' = revokedAt /\ clock \in Nat /\ Exp[t] \in Nat
    BY <1>2 DEF Still, IInv, TypeOK
<1>5. start <= clock /\ answer \in {"clear", "revoked"}
    BY <1>1, <1>2, <1>3, <1>4 DEF RequestSound, InFlight, At, Status
<1>6. Contract!Justified(t, start, answer)
    <2>1. CASE answer = "revoked"
        BY <1>1, <1>3, <1>4, <2>1 DEF RequestSound, InFlight, At, Contract!Justified
    <2>2. CASE answer = "clear"
        <3>1. \/ revokedAt[t] = None
              \/ ~(clock < Exp[t])
              \/ start <= revokedAt[t] + Grace
            BY <1>1, <1>3, <1>4, <2>2 DEF RequestSound, InFlight, At, Matters
        <3>2. ~(clock < Exp[t]) => Exp[t] <= clock
            BY <1>4
        <3>3. QED
            BY <2>2, <3>1, <3>2 DEF Contract!Justified
    <2>3. QED
        BY <1>5, <2>1, <2>2
<1>7. Verdict[r] = Contract!NoVerdict
    BY <1>1 DEF Verdict, At, Contract!NoVerdict
<1>8. Verdict' = [Verdict EXCEPT ![r] = [t |-> t, start |-> start, answer |-> answer]]
    BY <1>1 DEF Verdict, At
<1>9. Contract!Answer(r, t, start, answer)
    BY <1>4, <1>5, <1>6, <1>7, <1>8 DEF Contract!Answer
<1>10. start \in 0 .. clock
    BY <1>2, <1>4, <1>5
<1> HIDE DEF t, start, answer
<1>11. QED
    BY <1>2, <1>5, <1>9, <1>10 DEF Contract!Next

\* Requests that end take their answers with them.
LEMMA LeaveStep ==
    ASSUME Still, NEW S \in SUBSET Requests,
           \A q \in Requests \ S : req'[q] = req[q],
           \A q \in S : ~At(q, "answered")'
    PROVE  Contract!Next
<1>1. Verdict' = [q \in Requests |-> IF q \in S THEN Contract!NoVerdict ELSE Verdict[q]]
    BY DEF Verdict, At, Contract!NoVerdict
<1>2. QED
    BY <1>1 DEF Contract!Next, Contract!Leave, Still

LEMMA CheckRefines ==
    ASSUME IInv, IInv', NEW r \in Requests, Check(r)
    PROVE  Contract!Next \/ UNCHANGED Contract!vars
<1>1. TypeOK
    BY DEF IInv
<1>2. Still
    BY DEF Still, Check, LocalHit, LocalMiss, RedisGet, RedisMiss, RedisExpired,
           RedisAnswered, DbSelect, CacheVerdict, FindExpiredRow, DeleteExpiredRow,
           PublishVerdict, CheckFails
<1>3. \A q \in Requests : q # r => req'[q] = req[q]
    BY <1>1 DEF Check, LocalHit, LocalMiss, RedisGet, RedisMiss, RedisExpired,
           RedisAnswered, DbSelect, CacheVerdict, FindExpiredRow, DeleteExpiredRow,
           PublishVerdict, CheckFails, Arrive, Go, Finish, TypeOK
<1>4. ~At(r, "answered")
    BY DEF At, Check, LocalHit, LocalMiss, RedisGet, RedisMiss, RedisExpired,
           RedisAnswered, DbSelect, CacheVerdict, FindExpiredRow, DeleteExpiredRow,
           PublishVerdict, CheckFails
<1>5. CASE At(r, "answered")'
    BY <1>2, <1>3, <1>4, <1>5, AnswerStep
<1>6. CASE ~At(r, "answered")'
    <2>1. Verdict' = Verdict
        BY <1>3, <1>4, <1>6, VerdictKept
    <2>2. QED
        BY <1>2, <2>1, SilentStep
<1>7. QED
    BY <1>5, <1>6

LEMMA RevokeRefines ==
    ASSUME IInv, IInv', NEW r \in Requests, Revoke(r)
    PROVE  Contract!Next \/ UNCHANGED Contract!vars
<1> USE DEF At
<1>1. TypeOK
    BY DEF IInv
<1>2. \A q \in Requests : q # r => req'[q] = req[q]
    BY <1>1 DEF Revoke, Reset, StoreRevokedJti, StoreFails, CacheRevocation,
           AnnounceRevocation, Go, Finish, TypeOK
<1>3. req'[r].pc # "answered"
    <2>1. req[r].pc # "idle" /\ req \in [Requests -> Request]
        BY <1>1 DEF Revoke, Reset, StoreRevokedJti, StoreFails, CacheRevocation,
               AnnounceRevocation, Accepted, TypeOK
    <2>2. CASE Finish(r)
        BY <2>1, <2>2 DEF Finish, IdleRequest
    <2>3. CASE Go(r, "store", "clear") \/ Go(r, "stored", "revoked")
        BY <1>1, <2>1, <2>3, GoEffect
    <2>4. CASE req' = [req EXCEPT ![r].pc = "announce", ![r].start = clock]
        BY <1>1, <2>1, <2>4, InFlightRequest
    <2>5. QED
        BY <2>2, <2>3, <2>4 DEF Revoke, Reset, StoreRevokedJti, StoreFails,
               CacheRevocation, AnnounceRevocation
<1>4. CASE Reset(r)
    <2>1. Still
        BY <1>4 DEF Reset, Still
    <2>2. /\ {r} \in SUBSET Requests
          /\ \A q \in Requests \ {r} : req'[q] = req[q]
          /\ \A q \in {r} : ~At(q, "answered")'
        BY <1>2, <1>3
    <2>3. QED
        BY ONLY <2>1, <2>2, LeaveStep
<1>5. CASE ~Reset(r)
    <2>1. req[r].pc # "answered"
        BY <1>5 DEF Revoke, StoreRevokedJti, StoreFails, CacheRevocation, AnnounceRevocation
    <2>2. Verdict' = Verdict
        BY <1>2, <1>3, <2>1, VerdictKept
    <2>3. clock' = clock
        BY <1>5 DEF Revoke, StoreRevokedJti, StoreFails, CacheRevocation, AnnounceRevocation
    <2>4. CASE revokedAt' = revokedAt
        BY <2>2, <2>3, <2>4, SilentStep DEF Still
    <2>5. CASE revokedAt' # revokedAt
        <3> DEFINE t == req[r].t
        <3>1. /\ clock < Exp[t] /\ revokedAt[t] = None
              /\ revokedAt' = [revokedAt EXCEPT ![t] = clock]
            BY <1>5, <2>5 DEF Revoke, StoreRevokedJti, StoreFails, CacheRevocation,
                   AnnounceRevocation
        <3>2. req[r].pc # "idle"
            BY <1>5 DEF Revoke, StoreRevokedJti, StoreFails, CacheRevocation,
                   AnnounceRevocation
        <3>3. t \in Tokens
            BY <1>1, <3>2, InFlightRequest
        <3>4. Contract!Commit(t)
            BY <2>2, <2>3, <3>1 DEF Contract!Commit
        <3>5. QED
            BY <3>3, <3>4 DEF Contract!Next
    <2>6. QED
        BY <2>4, <2>5
<1>6. QED
    BY <1>4, <1>5

LEMMA NextRefines ==
    ASSUME IInv, IInv', [Next]_vars
    PROVE  Contract!Next \/ UNCHANGED Contract!vars
<1>1. TypeOK
    BY DEF IInv
<1>2. ASSUME NEW r \in Requests, Serve(r) PROVE Contract!Next
    <2>1. /\ Still
          /\ \A q \in Requests \ {r} : req'[q] = req[q]
          /\ \A q \in {r} : ~At(q, "answered")'
          /\ {r} \in SUBSET Requests
        BY <1>1, <1>2 DEF Serve, Finish, Still, At, IdleRequest, TypeOK
    <2>2. QED
        BY ONLY <2>1, LeaveStep
<1>3. ASSUME NEW w \in Workers, RestartWorker(w) PROVE Contract!Next
    <2> DEFINE S == {q \in Requests : InFlight(q) /\ req[q].w = w}
    <2>1. /\ Still
          /\ \A q \in Requests \ S : req'[q] = req[q]
          /\ \A q \in S : ~At(q, "answered")'
        BY <1>3 DEF RestartWorker, Still, At, IdleRequest
    <2>2. QED
        BY <2>1, LeaveStep
<1>4. ASSUME NEW t \in Tokens, RedisForgets(t) PROVE UNCHANGED Contract!vars
    BY <1>4, VerdictKept, SilentStep DEF RedisForgets, Still
<1>5. CASE Tick
    <2>1. clock' = clock + 1 /\ revokedAt' = revokedAt /\ Verdict' = Verdict
        BY <1>5, VerdictKept DEF Tick
    <2>2. QED
        BY <2>1 DEF Contract!Next, Contract!Tick
<1>6. CASE UNCHANGED vars
    BY <1>6, VerdictKept, SilentStep DEF vars, Still
<1>7. QED
    BY <1>2, <1>3, <1>4, <1>5, <1>6, CheckRefines, RevokeRefines DEF Next

\* Whatever the interleaving of checks, resets, restarts and Redis failures,
\* the protocol gives only the answers the contract allows.
THEOREM RevocationKeepsContract == Spec => KeepsContract
<1>1. Init => Contract!Init
    BY DEF Init, Verdict, At, IdleRequest, Contract!Init, Contract!NoVerdict
<1>2. IInv /\ IInv' /\ [Next]_vars => [Contract!Next]_(Contract!vars)
    BY NextRefines
<1>3. QED
    BY <1>1, <1>2, InductiveInvariant, PTL DEF Spec, KeepsContract, Contract!Spec

=============================================================================
