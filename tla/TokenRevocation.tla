--------------------------- MODULE TokenRevocation ---------------------------
(***************************************************************************)
(* Access-token revocation: src/auth/service.py, src/auth/revocation.py    *)
(* and the /reset endpoint.  The table auth_revoked_token_jtis is the      *)
(* source of truth; above it sit one Redis entry per token, shared by all  *)
(* workers, and one in-process LRU cache per worker.                       *)
(*                                                                         *)
(* A request is a coroutine: each action below runs from one await to the  *)
(* next, and the answer of Redis or of the database is a step of its own,  *)
(* because other coroutines of the same worker run before the one that     *)
(* asked is resumed.  Time is counted in seconds.                          *)
(***************************************************************************)
EXTENDS Integers, FiniteSets

CONSTANTS
    Workers,         \* server processes
    Tokens,          \* decodable access tokens, named by their jti
    Requests,        \* slots for requests in flight
    Exp,             \* Exp[t]: the exp claim of token t
    LocalTTL,        \* TOKEN_REVOCATION_CACHE_TTL_SECONDS, whole seconds
    MaxEntries,      \* _TOKEN_REVOCATION_CACHE_MAX_ENTRIES
    CleanupInterval, \* _REVOCATION_EXPIRY_CLEANUP_INTERVAL
    MaxLag,          \* bound: seconds a request stays in flight
    MaxTime,         \* bound: the clock stops here
    None             \* no time, no worker, no token

ASSUME RevocationAssumption ==
    /\ Exp \in [Tokens -> Nat]
    /\ LocalTTL \in Nat
    /\ MaxEntries \in Nat \ {0}
    /\ CleanupInterval \in Nat
    /\ MaxLag \in Nat
    /\ MaxTime \in Nat
    /\ None \notin Nat \union Workers \union Tokens

VARIABLES
    clock,      \* the wall clock the workers share
    db,         \* tokens with a row in auth_revoked_token_jtis
    redis,      \* redis[t]: the shared entry auth:revoked:<t>
    local,      \* local[w][t]: the entry of worker w's _token_revocation_cache
    cleanupIn,  \* cleanupIn[w]: seconds until _revocation_cleanup_due_at
    req,        \* req[r]: the request in slot r
    revokedAt,  \* history: when the row of t was first committed
    resetDone   \* history: resetDone[w], tokens whose reset w has answered

vars == <<clock, db, redis, local, cleanupIn, req, revokedAt, resetDone>>

(***************************************************************************)
(* Types.                                                                  *)
(***************************************************************************)
Status == {"none", "clear", "revoked"}
Entry == [status : Status, until : Nat]
NoEntry == [status |-> "none", until |-> 0]

PC == {"idle", "redisGet", "redisGot", "select", "selected", "deleteRow",
       "publish", "answered", "store", "stored", "announce"}

IdleRequest == [pc |-> "idle", w |-> None, t |-> None, start |-> 0,
                seen |-> "none"]

Request ==
    {IdleRequest} \union
    [pc : PC \ {"idle"}, w : Workers, t : Tokens, start : Nat, seen : Status]

TypeOK ==
    /\ clock \in Nat
    /\ db \subseteq Tokens
    /\ redis \in [Tokens -> Entry]
    /\ local \in [Workers -> [Tokens -> Entry]]
    /\ cleanupIn \in [Workers -> Nat]
    /\ req \in [Requests -> Request]
    /\ revokedAt \in [Tokens -> Nat \union {None}]
    /\ resetDone \in [Workers -> SUBSET Tokens]

(***************************************************************************)
(* The caches.  A "revoked" verdict is kept until the token expires, a     *)
(* "clear" one for LocalTTL; Redis counts whole seconds and never fewer    *)
(* than one, and its countdown begins when the command reaches it.         *)
(***************************************************************************)
Earlier(a, b) == IF a <= b THEN a ELSE b

\* A bug in its place: a "clear" verdict cached for as long as a "revoked" one.
CacheUntilExpiry(t, status, now) == Exp[t]

CacheUntil(t, status, now) ==
    IF status = "revoked" THEN Exp[t] ELSE Earlier(Exp[t], now + LocalTTL)

RedisSeconds(t, status, now) ==
    LET left == CacheUntil(t, status, now) - now
    IN  IF left >= 1 THEN left ELSE 1

Live(e) == e.status # "none" /\ e.until > clock

Keys(cache) == {t \in Tokens : cache[t].status # "none"}

Without(cache, S) == [t \in Tokens |-> IF t \in S THEN NoEntry ELSE cache[t]]

\* The caches _cache_revocation_status may leave behind.  Past the limit it
\* drops what has expired and then, if it must, the least recently used
\* entry: which of the others that is, is left open.
Insertions(cache, t, status, now) ==
    LET put == [cache EXCEPT ![t] = [status |-> status,
                                     until |-> CacheUntil(t, status, now)]]
        kept == Without(put, {u \in Keys(put) : put[u].until <= now})
    IN  IF Cardinality(Keys(put)) <= MaxEntries THEN {put}
        ELSE IF Cardinality(Keys(kept)) <= MaxEntries THEN {kept}
        ELSE {Without(kept, {u}) : u \in Keys(kept) \ {t}}

\* A bug: the entry dated by its insertion, not by the start of the request.
CacheLocallyFromNow(r, status, now) ==
    \E cache \in Insertions(local[req[r].w], req[r].t, status, clock) :
        local' = [local EXCEPT ![req[r].w] = cache]

CacheLocally(r, status, now) ==
    \E cache \in Insertions(local[req[r].w], req[r].t, status, now) :
        local' = [local EXCEPT ![req[r].w] = cache]

\* RedisCacheService.set_json swallows every error: the entry is written, or
\* Redis is disabled or failed and nothing is.
RedisSet(t, status, now) ==
    \/ redis' = [redis EXCEPT ![t] =
                    [status |-> status,
                     until |-> clock + RedisSeconds(t, status, now)]]
    \/ UNCHANGED redis

(***************************************************************************)
(* Initially nothing is revoked and every cache is cold.                   *)
(***************************************************************************)
Init ==
    /\ clock = 0
    /\ db = {}
    /\ redis = [t \in Tokens |-> NoEntry]
    /\ local = [w \in Workers |-> [t \in Tokens |-> NoEntry]]
    /\ cleanupIn = [w \in Workers |-> 0]
    /\ req = [r \in Requests |-> IdleRequest]
    /\ revokedAt = [t \in Tokens |-> None]
    /\ resetDone = [w \in Workers |-> {}]

At(r, pc) == req[r].pc = pc

Go(r, pc, seen) == req' = [req EXCEPT ![r].pc = pc, ![r].seen = seen]

Finish(r) == req' = [req EXCEPT ![r] = IdleRequest]

(***************************************************************************)
(* is_token_revoked.  A token is named by its jti only while it decodes,   *)
(* that is before Exp[t]; clock = Exp[t] stands for a token that decoded   *)
(* an instant before `now` was read.                                       *)
(***************************************************************************)
Arrive(r, w, t, pc, seen) ==
    req' = [req EXCEPT ![r] = [pc |-> pc, w |-> w, t |-> t, start |-> clock,
                               seen |-> seen]]

\* The worker's own cache answers: no await, no further state.
LocalHit(r, w, t) ==
    /\ At(r, "idle")
    /\ clock <= Exp[t]
    /\ Live(local[w][t])
    /\ Arrive(r, w, t, "answered", local[w][t].status)
    /\ UNCHANGED <<clock, db, redis, local, cleanupIn, revokedAt, resetDone>>

\* A stale local entry is popped and Redis is asked.
LocalMiss(r, w, t) ==
    /\ At(r, "idle")
    /\ clock <= Exp[t]
    /\ ~Live(local[w][t])
    /\ local' = [local EXCEPT ![w][t] = NoEntry]
    /\ Arrive(r, w, t, "redisGet", "none")
    /\ UNCHANGED <<clock, db, redis, cleanupIn, revokedAt, resetDone>>

RedisGet(r) ==
    /\ At(r, "redisGet")
    /\ redis[req[r].t] # NoEntry
    /\ Go(r, "redisGot", redis[req[r].t].status)
    /\ UNCHANGED <<clock, db, redis, local, cleanupIn, revokedAt, resetDone>>

\* Redis holds nothing, is disabled or fails: the table is asked.
RedisMiss(r) ==
    /\ At(r, "redisGet")
    /\ Go(r, "select", "none")
    /\ UNCHANGED <<clock, db, redis, local, cleanupIn, revokedAt, resetDone>>

\* The payload's expires_at has passed: the entry is deleted, unless Redis
\* fails, and the answer counts as a miss.
RedisExpired(r) ==
    /\ At(r, "redisGot")
    /\ Exp[req[r].t] <= req[r].start
    /\ \/ redis' = [redis EXCEPT ![req[r].t] = NoEntry]
       \/ UNCHANGED redis
    /\ Go(r, "select", "none")
    /\ UNCHANGED <<clock, db, local, cleanupIn, revokedAt, resetDone>>

\* The answer of Redis is copied to the worker's cache, dated by the start
\* of the request.
RedisAnswered(r) ==
    /\ At(r, "redisGot")
    /\ Exp[req[r].t] > req[r].start
    /\ CacheLocally(r, req[r].seen, req[r].start)
    /\ Go(r, "answered", req[r].seen)
    /\ UNCHANGED <<clock, db, redis, cleanupIn, revokedAt, resetDone>>

DbSelect(r) ==
    /\ At(r, "select")
    /\ Go(r, "selected", IF req[r].t \in db THEN "revoked" ELSE "clear")
    /\ UNCHANGED <<clock, db, redis, local, cleanupIn, revokedAt, resetDone>>

\* No row, or a row of an unexpired token: the verdict is cached locally and
\* then sent to Redis.
CacheVerdict(r) ==
    /\ At(r, "selected")
    /\ req[r].seen = "clear" \/ Exp[req[r].t] > req[r].start
    /\ CacheLocally(r, req[r].seen, req[r].start)
    /\ Go(r, "publish", req[r].seen)
    /\ UNCHANGED <<clock, db, redis, cleanupIn, revokedAt, resetDone>>

FindExpiredRow(r) ==
    /\ At(r, "selected")
    /\ req[r].seen = "revoked"
    /\ Exp[req[r].t] <= req[r].start
    /\ Go(r, "deleteRow", "revoked")
    /\ UNCHANGED <<clock, db, redis, local, cleanupIn, revokedAt, resetDone>>

\* The expired row is deleted and the request goes on as if it had found none.
DeleteExpiredRow(r) ==
    /\ At(r, "deleteRow")
    /\ db' = db \ {req[r].t}
    /\ Go(r, "selected", "clear")
    /\ UNCHANGED <<clock, redis, local, cleanupIn, revokedAt, resetDone>>

PublishVerdict(r) ==
    /\ At(r, "publish")
    /\ RedisSet(req[r].t, req[r].seen, req[r].start)
    /\ Go(r, "answered", req[r].seen)
    /\ UNCHANGED <<clock, db, local, cleanupIn, revokedAt, resetDone>>

(***************************************************************************)
(* The blocklist has answered.  verify_token refuses an expired token, a   *)
(* refused request ends in 401; an accepted one is served, and the handler *)
(* of /reset goes on to revoke_token.                                      *)
(***************************************************************************)
Accepted(r) ==
    At(r, "answered") /\ req[r].seen = "clear" /\ clock < Exp[req[r].t]

Serve(r) ==
    /\ At(r, "answered")
    /\ Finish(r)
    /\ UNCHANGED <<clock, db, redis, local, cleanupIn, revokedAt, resetDone>>

Reset(r) ==
    /\ Accepted(r)
    /\ Go(r, "store", "clear")
    /\ UNCHANGED <<clock, db, redis, local, cleanupIn, revokedAt, resetDone>>

(***************************************************************************)
(* revoke_token.  _store_revoked_jti deletes expired rows at most once per *)
(* interval and replaces the row of the token, in one transaction.  A      *)
(* token that expired meanwhile no longer decodes: a raw: row that no      *)
(* decodable token consults is stored instead, which is left out.          *)
(***************************************************************************)
CleanupIsDue(w) == cleanupIn[w] = 0

\* A bug: rows swept an interval ahead of their expiry.
RowsNearExpiry == {t \in db : Exp[t] <= clock + CleanupInterval}

ExpiredRows == {t \in db : Exp[t] <= clock}

TakeCleanupTurn(w) ==
    cleanupIn' = [cleanupIn EXCEPT ![w] = IF @ = 0 THEN CleanupInterval ELSE @]

StoreRevokedJti(r) ==
    LET t == req[r].t
        swept == IF CleanupIsDue(req[r].w) THEN db \ ExpiredRows ELSE db
    IN  /\ At(r, "store")
        /\ TakeCleanupTurn(req[r].w)
        /\ IF clock < Exp[t]
           THEN /\ db' = swept \union {t}
                /\ revokedAt' = IF revokedAt[t] = None
                                THEN [revokedAt EXCEPT ![t] = clock]
                                ELSE revokedAt
                /\ Go(r, "stored", "revoked")
           ELSE /\ db' = swept
                /\ UNCHANGED revokedAt
                /\ Finish(r)
        /\ UNCHANGED <<clock, redis, local, resetDone>>

\* A bug: the error of the transaction is swallowed.
StoreFailsUnseen(r) ==
    /\ At(r, "store")
    /\ TakeCleanupTurn(req[r].w)
    /\ Go(r, "stored", "revoked")
    /\ UNCHANGED <<clock, db, redis, local, revokedAt, resetDone>>

\* The transaction fails (a lock, a concurrent insert of the same jti): it is
\* rolled back and the caller gets an error, but the cleanup turn is spent
\* unless there was no connection to begin with.
StoreFails(r) ==
    /\ At(r, "store")
    /\ TakeCleanupTurn(req[r].w) \/ UNCHANGED cleanupIn
    /\ Finish(r)
    /\ UNCHANGED <<clock, db, redis, local, revokedAt, resetDone>>

CacheRevocation(r) ==
    /\ At(r, "stored")
    /\ CacheLocally(r, "revoked", clock)
    /\ req' = [req EXCEPT ![r].pc = "announce", ![r].start = clock]
    /\ UNCHANGED <<clock, db, redis, cleanupIn, revokedAt, resetDone>>

\* Redis is told, and the reset is answered whether or not Redis heard.
AnnounceRevocation(r) ==
    /\ At(r, "announce")
    /\ RedisSet(req[r].t, "revoked", req[r].start)
    /\ resetDone' = [resetDone EXCEPT ![req[r].w] = @ \union {req[r].t}]
    /\ Finish(r)
    /\ UNCHANGED <<clock, db, local, cleanupIn, revokedAt>>

(***************************************************************************)
(* The environment: the clock, database errors, worker restarts, and a     *)
(* Redis that drops an entry before its time.                              *)
(***************************************************************************)
InFlight(r) == ~At(r, "idle")

\* Redis drops an entry when its time to live is over.
Tick ==
    /\ clock < MaxTime
    /\ \A r \in Requests : InFlight(r) => clock < req[r].start + MaxLag
    /\ clock' = clock + 1
    /\ redis' = [t \in Tokens |-> IF redis[t].until <= clock + 1
                                  THEN NoEntry ELSE redis[t]]
    /\ cleanupIn' = [w \in Workers |-> IF cleanupIn[w] = 0
                                       THEN 0 ELSE cleanupIn[w] - 1]
    /\ UNCHANGED <<db, local, req, revokedAt, resetDone>>

\* A bug: a check that cannot read the table lets the request pass.
CheckFailsOpen(r) ==
    /\ At(r, "select") \/ At(r, "deleteRow")
    /\ Go(r, "answered", "clear")
    /\ UNCHANGED <<clock, db, redis, local, cleanupIn, revokedAt, resetDone>>

\* A query of the check raises and the request ends in an error.
CheckFails(r) ==
    /\ At(r, "select") \/ At(r, "deleteRow")
    /\ Finish(r)
    /\ UNCHANGED <<clock, db, redis, local, cleanupIn, revokedAt, resetDone>>

RestartWorker(w) ==
    /\ local' = [local EXCEPT ![w] = [t \in Tokens |-> NoEntry]]
    /\ cleanupIn' = [cleanupIn EXCEPT ![w] = 0]
    /\ req' = [r \in Requests |-> IF InFlight(r) /\ req[r].w = w
                                  THEN IdleRequest ELSE req[r]]
    /\ UNCHANGED <<clock, db, redis, revokedAt, resetDone>>

RedisForgets(t) ==
    /\ redis[t] # NoEntry
    /\ redis' = [redis EXCEPT ![t] = NoEntry]
    /\ UNCHANGED <<clock, db, local, cleanupIn, req, revokedAt, resetDone>>

Check(r) ==
    \/ \E w \in Workers, t \in Tokens :
          LocalHit(r, w, t) \/ LocalMiss(r, w, t)
    \/ RedisGet(r) \/ RedisMiss(r) \/ RedisExpired(r) \/ RedisAnswered(r)
    \/ DbSelect(r) \/ CacheVerdict(r) \/ FindExpiredRow(r)
    \/ DeleteExpiredRow(r) \/ PublishVerdict(r) \/ CheckFails(r)

Revoke(r) ==
    \/ Reset(r) \/ StoreRevokedJti(r) \/ StoreFails(r)
    \/ CacheRevocation(r) \/ AnnounceRevocation(r)

Next ==
    \/ \E r \in Requests : Check(r) \/ Serve(r) \/ Revoke(r)
    \/ \E w \in Workers : RestartWorker(w)
    \/ \E t \in Tokens : RedisForgets(t)
    \/ Tick

Spec == Init /\ [][Next]_vars

-----------------------------------------------------------------------------
(***************************************************************************)
(* Properties.                                                             *)
(***************************************************************************)

\* A committed revocation stays in the table until the token expires: the
\* cleanup of _store_revoked_jti and the delete of is_token_revoked, which
\* acts on a row read earlier, never remove a row that still matters.
RevocationDurable ==
    \A t \in Tokens : revokedAt[t] # None /\ clock < Exp[t] => t \in db

\* No token is ever called revoked, by a cache or by an answer, unless some
\* reset of it was committed.
NoFalseRevocation ==
    \A t \in Tokens :
        \/ revokedAt[t] # None
        \/ /\ redis[t].status # "revoked"
           /\ \A w \in Workers : local[w][t].status # "revoked"
           /\ \A r \in Requests :
                InFlight(r) /\ req[r].t = t => req[r].seen # "revoked"

\* Negative verdicts outlive a revocation for a bounded time only.  A check
\* that read the table before the commit may publish MaxLag later; Redis keeps
\* what it wrote, and a worker that copies it keeps the copy, each for a time
\* to live whose last whole second is Linger later.
Linger == IF LocalTTL >= 1 THEN LocalTTL - 1 ELSE 0
Grace == MaxLag + Linger + Linger

StaleAnswerBounded ==
    \A r \in Requests :
        Accepted(r) /\ revokedAt[req[r].t] # None
            => req[r].start <= revokedAt[req[r].t] + Grace

(***************************************************************************)
(* The inductive invariant behind the three of them: what holds of every   *)
(* request in flight and of every token.  Matters(t) says that a           *)
(* revocation of t is in force; from the commit on, each kind of "clear"   *)
(* can be late by so much and no more.                                     *)
(***************************************************************************)
Matters(t) == revokedAt[t] # None /\ clock < Exp[t]

RequestSound(r) ==
    LET t == req[r].t
        start == req[r].start
        seen == req[r].seen
    IN  InFlight(r) =>
        /\ start <= clock /\ clock <= start + MaxLag
        /\ At(r, "deleteRow") => Exp[t] <= start
        /\ At(r, "stored") \/ At(r, "announce") => revokedAt[t] # None
        /\ seen = "none" => At(r, "redisGet") \/ At(r, "select")
        /\ seen = "revoked" => revokedAt[t] # None
        /\ Matters(t) /\ seen = "clear" =>
            /\ At(r, "selected") \/ At(r, "publish") => start <= revokedAt[t]
            /\ At(r, "redisGot") => start <= revokedAt[t] + MaxLag + Linger
            /\ At(r, "answered") => start <= revokedAt[t] + Grace

RedisSound(t) ==
    LET e == redis[t]
    IN  /\ e # NoEntry => e.status # "none" /\ e.until > clock
        /\ e.status = "revoked" => revokedAt[t] # None
        /\ e.status = "clear" => e.until <= clock + Linger + 1
        /\ Matters(t) /\ e.status = "clear" =>
                e.until <= revokedAt[t] + MaxLag + Linger + 1

LocalSound(w, t) ==
    LET e == local[w][t]
    IN  /\ e.status = "revoked" => revokedAt[t] # None
        /\ e.status = "clear" => e.until <= clock + LocalTTL
        /\ Matters(t) /\ e.status = "clear" =>
                e.until <= revokedAt[t] + MaxLag + Linger + LocalTTL

RowSound(t) ==
    /\ t \in db => revokedAt[t] # None
    /\ revokedAt[t] # None => revokedAt[t] <= clock
    /\ Matters(t) => t \in db

IInv ==
    /\ TypeOK
    /\ \A r \in Requests : RequestSound(r)
    /\ \A t \in Tokens : RowSound(t) /\ RedisSound(t)
    /\ \A w \in Workers, t \in Tokens : LocalSound(w, t)

\* The detailed protocol keeps the promise of RevocationContract.
Verdict ==
    [r \in Requests |->
        IF At(r, "answered")
        THEN [t |-> req[r].t, start |-> req[r].start, answer |-> req[r].seen]
        ELSE [t |-> None, start |-> 0, answer |-> "none"]]

Contract == INSTANCE RevocationContract WITH verdict <- Verdict

\* Every step of the protocol is a step of the contract or changes nothing
\* the contract speaks of: no answer is given that its clauses do not justify.
KeepsContract == Contract!Spec

\* "/reset revokes the current access token ... until token expiry" (release
\* notes): a worker that has answered the reset of a token does not go on to
\* accept the token out of its own cache.
ResetTakesEffect ==
    \A w \in Workers, t \in Tokens :
        t \in resetDone[w] /\ clock < Exp[t] /\ Live(local[w][t])
            => local[w][t].status = "revoked"
=============================================================================
