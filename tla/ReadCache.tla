------------------------------ MODULE ReadCache ------------------------------
(***************************************************************************)
(* The read-through cache in front of roles, users and translations:       *)
(* src/user_role/endpoints, src/user_role/cache.py, src/i18n/endpoints and *)
(* src/i18n/cache.py.  One Redis entry holds the list of all items and one *)
(* entry holds each item.  A read asks Redis, then the table, and caches   *)
(* what it selected; a write reads its row, commits the columns it changed *)
(* and only then drops or overwrites entries.                              *)
(*                                                                         *)
(* Nothing orders the cache commands of different requests, and a command  *)
(* Redis does not answer is swallowed: what is left is the time to live.   *)
(***************************************************************************)
EXTENDS Integers, Sequences, FiniteSets

CONSTANTS
    Items,     \* role ids, user ids or translation keys
    Columns,   \* the columns of a row
    Values,    \* what a column may hold
    List,      \* the name of the list's key
    Requests,  \* slots for requests in flight
    Kinds,     \* the kinds of write the endpoints of the family offer
    TTL,       \* default_ttl_seconds
    MaxLag,    \* bound: seconds a request stays in flight
    MaxTime,   \* bound: the clock stops here
    None       \* no value, no time

Modifying == {"patch", "append", "password", "delete", "upsert"}
Inserting == {"create", "signup"}

ASSUME ReadCacheAssumption ==
    /\ List \notin Items
    /\ Columns # {}
    /\ Kinds \subseteq Modifying \union Inserting \union {"reset"}
    /\ TTL \in Nat \ {0}
    /\ MaxLag \in Nat
    /\ MaxTime \in Nat
    /\ None \notin Values \union Nat \union Items \union {List}

VARIABLES
    clock,
    table,   \* table[i]: the row of item i
    cache,   \* cache[k]: the Redis entry of key k
    req,     \* req[r]: the request in slot r
    lastRow, \* history: lastRow[i][row], when item i last had that row
    calm     \* history: no two requests overlapped and no command was lost

vars == <<clock, table, cache, req, lastRow, calm>>

(***************************************************************************)
(* Rows, keys and entries.  Gone is the row of an item the table does not  *)
(* have; a list names it like the others, which stands for leaving it out. *)
(***************************************************************************)
Row == [Columns -> Values]
Gone == [c \in Columns |-> None]
Keys == Items \union {List}
Covers(k) == IF k = List THEN Items ELSE {k}
Rows(k) == [Covers(k) -> Row \union {Gone}]

NoRows == [i \in {} |-> Gone]
Snapshot == {NoRows} \union UNION {Rows(k) : k \in Keys}

Entry == [rows : Snapshot, until : Nat]
NoEntry == [rows |-> NoRows, until |-> 0]

Selected(k) == [i \in Covers(k) |-> table[i]]

(***************************************************************************)
(* What a request does to Redis once it has what it wants, in order: drop  *)
(* keys (one command) or set a key to the rows it holds.                   *)
(***************************************************************************)
Drop(S) == [op |-> "drop", keys |-> S]
Fill(k) == [op |-> "fill", keys |-> {k}]
Command == [op : {"drop", "fill"}, keys : SUBSET Keys]

\* Bugs: an append leaves the list as it is; a patch caches its object as if
\* it were the list.
PlanWithoutList(kind, i, ids) ==
    IF kind \in {"append", "password"} THEN <<Drop({i})>>
    ELSE IF kind \in {"create", "patch"} THEN <<Drop({List}), Fill(i)>>
    ELSE <<Drop(ids \union {i, List})>>

PlanFillingList(kind, i, ids) ==
    IF kind = "patch" THEN <<Fill(List), Fill(i)>>
    ELSE <<Drop(ids \union {i, List})>>

Plan(kind, i, ids) ==
    CASE kind \in {"create", "patch"}  -> <<Drop({List}), Fill(i)>>
      [] kind \in {"delete", "append"} -> <<Drop({i}), Drop({List})>>
      [] kind = "password"             -> <<Drop({i})>>
      [] kind = "upsert"               -> <<Drop({i, List})>>
      [] kind = "reset"                -> <<Drop(ids \union {List})>>
      [] kind = "signup"               -> <<>>

Idle == [pc |-> "idle", kind |-> "get", key |-> List, start |-> 0,
         rows |-> NoRows, todo |-> <<>>]

PC == {"idle", "select", "write", "cache", "answered"}
Request == [pc : PC, kind : Kinds \union {"get"}, key : Keys, start : Nat,
            rows : Snapshot, todo : Seq(Command)]

TypeOK ==
    /\ clock \in Nat
    /\ table \in [Items -> Row \union {Gone}]
    /\ cache \in [Keys -> Entry]
    /\ req \in [Requests -> Request]
    /\ lastRow \in [Items -> [Row \union {Gone} -> Nat \union {None}]]
    /\ calm \in BOOLEAN

Init ==
    /\ clock = 0
    /\ table \in [Items -> Row \union {Gone}]
    /\ cache = [k \in Keys |-> NoEntry]
    /\ req = [r \in Requests |-> Idle]
    /\ lastRow = [i \in Items |-> [row \in Row \union {Gone} |->
                                      IF row = table[i] THEN 0 ELSE None]]
    /\ calm = TRUE

At(r, pc) == req[r].pc = pc
InFlight(r) == ~At(r, "idle")
Finish(r) == req' = [req EXCEPT ![r] = Idle]

\* A request enters; the history notes whether it is alone.
Enter(r, pc, kind, k, rows) ==
    /\ At(r, "idle")
    /\ req' = [req EXCEPT ![r] = [pc |-> pc, kind |-> kind, key |-> k,
                                  start |-> clock, rows |-> rows, todo |-> <<>>]]
    /\ calm' = (calm /\ \A q \in Requests : ~InFlight(q))

(***************************************************************************)
(* Reads.                                                                  *)
(***************************************************************************)
\* A bug: what was found is cached again, with a fresh time to live.
GetHitAndRefresh(r, k) ==
    /\ cache[k] # NoEntry
    /\ Enter(r, "answered", "get", k, cache[k].rows)
    /\ cache' = [cache EXCEPT ![k].until = clock + TTL]
    /\ UNCHANGED <<clock, table, lastRow>>

GetHit(r, k) ==
    /\ cache[k] # NoEntry
    /\ Enter(r, "answered", "get", k, cache[k].rows)
    /\ UNCHANGED <<clock, table, cache, lastRow>>

\* Redis has no entry, or does not answer.
GetMiss(r, k) ==
    /\ Enter(r, "select", "get", k, NoRows)
    /\ UNCHANGED <<clock, table, cache, lastRow>>

\* An item that is not there is answered 404 and not cached.
Select(r) ==
    LET k == req[r].key
    IN  /\ At(r, "select")
        /\ IF k # List /\ table[k] = Gone
           THEN Finish(r)
           ELSE req' = [req EXCEPT ![r].pc = "cache",
                                   ![r].rows = Selected(k),
                                   ![r].todo = <<Fill(k)>>]
        /\ UNCHANGED <<clock, table, cache, lastRow, calm>>

(***************************************************************************)
(* Cache commands.  set_json, delete and delete_many swallow every error:  *)
(* the command takes effect or it does not, and the request goes on.       *)
(***************************************************************************)
\* A bug: an entry kept for twice its time.
AppliedForTwice(c, rows) ==
    [k \in Keys |-> IF k \notin c.keys THEN cache[k]
                    ELSE IF c.op = "drop" THEN NoEntry
                    ELSE [rows |-> rows, until |-> clock + TTL + TTL]]

Applied(c, rows) ==
    [k \in Keys |-> IF k \notin c.keys THEN cache[k]
                    ELSE IF c.op = "drop" THEN NoEntry
                    ELSE [rows |-> rows, until |-> clock + TTL]]

NextCommand(r) ==
    IF Len(req[r].todo) > 1
    THEN req' = [req EXCEPT ![r].todo = Tail(@)]
    ELSE IF req[r].kind = "get"
    THEN req' = [req EXCEPT ![r].pc = "answered", ![r].todo = <<>>]
    ELSE Finish(r)

CacheCommand(r) ==
    /\ At(r, "cache")
    /\ cache' = Applied(Head(req[r].todo), req[r].rows)
    /\ NextCommand(r)
    /\ UNCHANGED <<clock, table, lastRow, calm>>

CacheCommandLost(r) ==
    /\ At(r, "cache")
    /\ NextCommand(r)
    /\ calm' = FALSE
    /\ UNCHANGED <<clock, table, cache, lastRow>>

Answer(r) ==
    /\ At(r, "answered")
    /\ Finish(r)
    /\ UNCHANGED <<clock, table, cache, lastRow, calm>>

(***************************************************************************)
(* Writes.  Commit(r, new, held, ids) makes the rows of the table those of *)
(* new, notes the time, and leaves r with its cache commands to send and   *)
(* the rows it holds for them; a write is over when it has sent them.      *)
(***************************************************************************)
Remember(new) ==
    lastRow' = [i \in Items |-> [lastRow[i] EXCEPT ![new[i]] = clock]]

Commit(r, new, held, ids) ==
    LET plan == Plan(req[r].kind, req[r].key, ids)
    IN  /\ table' = new
        /\ Remember(new)
        /\ IF plan = <<>>
           THEN Finish(r)
           ELSE req' = [req EXCEPT ![r].pc = "cache", ![r].rows = held,
                                   ![r].todo = plan]
        /\ UNCHANGED <<clock, cache, calm>>

\* The handler reads the row it is to change; no row, no write, but for an
\* upsert, which then inserts.
ReadRow(r, i, kind) ==
    /\ kind \in Kinds \intersect Modifying
    /\ table[i] # Gone \/ kind = "upsert"
    /\ Enter(r, "write", kind, i, Selected(i))
    /\ UNCHANGED <<clock, table, cache, lastRow>>

\* Only the columns whose value differs from the one read are written.
Merged(current, read, new) ==
    [c \in Columns |-> IF new[c] # read[c] THEN new[c] ELSE current[c]]

\* The session keeps the object it read and changed (expire_on_commit is
\* off), and that object is what goes to the cache and to the client.
Modify(r) ==
    LET i == req[r].key
        read == req[r].rows[i]
    IN  /\ At(r, "write")
        /\ req[r].kind \in {"patch", "append", "upsert"}
        /\ read # Gone
        /\ \E new \in Row :
              /\ new = read \/ table[i] # Gone
              /\ Commit(r,
                        IF new = read THEN table
                        ELSE [table EXCEPT ![i] = Merged(@, read, new)],
                        IF req[r].kind = "patch" THEN [j \in {i} |-> new]
                        ELSE NoRows, {})

\* The password is no column of the cached row.
SetPassword(r) ==
    /\ At(r, "write")
    /\ req[r].kind = "password"
    /\ table[req[r].key] # Gone
    /\ Commit(r, table, NoRows, {})

Delete(r) ==
    /\ At(r, "write")
    /\ req[r].kind = "delete"
    /\ Commit(r, [table EXCEPT ![req[r].key] = Gone], NoRows, {})

\* An upsert that read no row inserts one.
UpsertInserts(r) ==
    LET i == req[r].key
    IN  /\ At(r, "write")
        /\ req[r].kind = "upsert"
        /\ req[r].rows[i] = Gone
        /\ table[i] = Gone
        /\ \E new \in Row :
              Commit(r, [table EXCEPT ![i] = new], NoRows, {})

\* The handler refuses (a protected role, a duplicate, a role in use), or
\* the transaction fails: the row it updates has vanished, a name is taken.
WriteFails(r) ==
    /\ At(r, "write")
    /\ Finish(r)
    /\ UNCHANGED <<clock, table, cache, lastRow, calm>>

\* A role or a user is inserted: by an administrator, or by a signup, which
\* sends nothing to the cache.
StartInsert(r, i, kind) ==
    /\ kind \in Kinds \intersect Inserting
    /\ Enter(r, "write", kind, i, NoRows)
    /\ UNCHANGED <<clock, table, cache, lastRow>>

Insert(r) ==
    LET i == req[r].key
    IN  /\ At(r, "write")
        /\ req[r].kind \in Inserting
        /\ table[i] = Gone
        /\ \E new \in Row :
              Commit(r, [table EXCEPT ![i] = new], [j \in {i} |-> new], {})

\* A reset lists the ids first; the update that follows touches every row,
\* the keys dropped are those of the ids that were listed.  Columns are alike
\* here: any column and value stand for the permissions and the empty set.
StartReset(r) ==
    /\ "reset" \in Kinds
    /\ Enter(r, "write", "reset", List, Selected(List))
    /\ UNCHANGED <<clock, table, cache, lastRow>>

Reset(r) ==
    /\ At(r, "write")
    /\ req[r].kind = "reset"
    /\ \E c \in Columns, v \in Values :
          Commit(r,
                 [i \in Items |-> IF table[i] = Gone THEN Gone
                                  ELSE [table[i] EXCEPT ![c] = v]],
                 NoRows,
                 {i \in Items : req[r].rows[i] # Gone})

(***************************************************************************)
(* The environment: time, a Redis that drops entries, and requests that    *)
(* die with their worker or their client.                                  *)
(***************************************************************************)
Tick ==
    /\ clock < MaxTime
    /\ \A r \in Requests : InFlight(r) => clock < req[r].start + MaxLag
    /\ clock' = clock + 1
    /\ cache' = [k \in Keys |-> IF cache[k].until <= clock + 1
                                THEN NoEntry ELSE cache[k]]
    /\ lastRow' = [i \in Items |-> [lastRow[i] EXCEPT ![table[i]] = clock + 1]]
    /\ UNCHANGED <<table, req, calm>>

RedisForgets(k) ==
    /\ cache[k] # NoEntry
    /\ cache' = [cache EXCEPT ![k] = NoEntry]
    /\ UNCHANGED <<clock, table, req, lastRow, calm>>

RequestDies(r) ==
    /\ InFlight(r)
    /\ Finish(r)
    /\ calm' = FALSE
    /\ UNCHANGED <<clock, table, cache, lastRow>>

Read(r) ==
    \/ \E k \in Keys : GetHit(r, k) \/ GetMiss(r, k)
    \/ Select(r)

Write(r) ==
    \/ \E i \in Items, kind \in Kinds :
          ReadRow(r, i, kind) \/ StartInsert(r, i, kind)
    \/ StartReset(r)
    \/ Modify(r) \/ SetPassword(r) \/ Delete(r) \/ UpsertInserts(r)
    \/ Insert(r) \/ Reset(r) \/ WriteFails(r)

Next ==
    \/ \E r \in Requests :
          \/ Read(r) \/ Write(r)
          \/ CacheCommand(r) \/ CacheCommandLost(r) \/ Answer(r) \/ RequestDies(r)
    \/ \E k \in Keys : RedisForgets(k)
    \/ Tick

Spec == Init /\ [][Next]_vars

-----------------------------------------------------------------------------
(***************************************************************************)
(* Properties.                                                             *)
(***************************************************************************)
\* By history h, item i had this row at time t or later.
RowSince(h, i, row, t) == h[i][row] # None /\ h[i][row] >= t

\* Column c of item i had the value of this row at time t or later.
ColumnSince(h, i, c, row, t) ==
    \E old \in Row \union {Gone} : old[c] = row[c] /\ RowSince(h, i, old, t)

RowsSince(h, rows, t) == \A i \in DOMAIN rows : RowSince(h, i, rows[i], t)

ColumnsSince(h, rows, t) ==
    \A i \in DOMAIN rows, c \in Columns : ColumnSince(h, i, c, rows[i], t)

Oldest(until) == until - TTL - MaxLag

\* However reads, writes and lost cache commands interleave, no column of an
\* answer is older than one time to live and the stay of one request: the
\* entries a slow reader or a writer leaves behind it are never refreshed
\* from the cache itself.
StaleReadBounded ==
    \A r \in Requests :
        At(r, "answered") /\ req[r].kind = "get" =>
            ColumnsSince(lastRow, req[r].rows, Oldest(req[r].start + 1))

\* An item's entry may mix columns of different times, since a writer caches
\* the object it read and changed; a list is filled from one select only, and
\* each of its rows was a row of the table.
ListRowsWereRows ==
    \A r \in Requests :
        At(r, "answered") /\ req[r].kind = "get" /\ req[r].key = List =>
            RowsSince(lastRow, req[r].rows, Oldest(req[r].start + 1))

\* While requests come one at a time and Redis answers, every write leaves
\* behind it a cache that agrees with the table ("RBAC writes invalidate
\* only the corresponding Redis keys": only, but all of them).
FreshWhenCalm ==
    calm /\ (\A r \in Requests : ~InFlight(r)) =>
        \A k \in Keys : cache[k] = NoEntry \/ cache[k].rows = Selected(k)

(***************************************************************************)
(* The inductive invariant behind the first two: when the rows in memory   *)
(* and in Redis were last those of the table.  What a request selected was *)
(* so when it began or later; what a writer is about to cache mixes the    *)
(* columns it wrote with those it read; an entry was filled at most MaxLag *)
(* after that and expires one time to live later.                          *)
(***************************************************************************)
HistorySound ==
    \A i \in Items :
        /\ lastRow[i][table[i]] = clock
        /\ \A row \in Row \union {Gone} :
              lastRow[i][row] # None => lastRow[i][row] <= clock

RequestSound(r) ==
    LET k == req[r].key
        kind == req[r].kind
        rows == req[r].rows
        start == req[r].start
    IN  InFlight(r) =>
        /\ start <= clock /\ clock <= start + MaxLag
        /\ kind \in Modifying \union Inserting => k \in Items
        /\ At(r, "select") => kind = "get"
        /\ At(r, "write") /\ kind \in Modifying =>
              rows \in Rows(k) /\ RowsSince(lastRow, rows, start)
        /\ At(r, "cache") =>
              /\ req[r].todo # <<>>
              /\ kind = "get" => req[r].todo = <<Fill(k)>>
              /\ \A n \in 1 .. Len(req[r].todo) : req[r].todo[n].op = "fill" =>
                    /\ req[r].todo[n] = Fill(k)
                    /\ rows \in Rows(k)
                    /\ ColumnsSince(lastRow, rows, start)
                    /\ k = List => RowsSince(lastRow, rows, start)
        /\ At(r, "answered") =>
              /\ ColumnsSince(lastRow, rows, Oldest(start + 1))
              /\ rows \in Rows(k)
              /\ k = List => RowsSince(lastRow, rows, Oldest(start + 1))

EntrySound(k) ==
    LET e == cache[k]
    IN  e # NoEntry =>
        /\ e.rows \in Rows(k)
        /\ clock < e.until
        /\ ColumnsSince(lastRow, e.rows, Oldest(e.until))
        /\ k = List => RowsSince(lastRow, e.rows, Oldest(e.until))

IInv ==
    /\ TypeOK
    /\ HistorySound
    /\ \A r \in Requests : RequestSound(r)
    /\ \A k \in Keys : EntrySound(k)

(***************************************************************************)
(* The inductive invariant behind the third: in a calm a request is alone, *)
(* what it holds is what the table has, and an entry that disagrees with   *)
(* the table is one it is still going to drop or to fill.                  *)
(***************************************************************************)
Alone == \A q, r \in Requests : InFlight(q) /\ InFlight(r) => q = r

Pending(r, k) ==
    /\ At(r, "cache")
    /\ \E n \in 1 .. Len(req[r].todo) : k \in req[r].todo[n].keys

HoldsCurrent(r) ==
    LET k == req[r].key
        rows == req[r].rows
    IN  /\ At(r, "write") /\ req[r].kind \in Modifying \union {"reset"} =>
              rows = Selected(k)
        /\ At(r, "write") /\ req[r].kind = "reset" => k = List
        /\ At(r, "cache") =>
              \A n \in 1 .. Len(req[r].todo) :
                  req[r].todo[n].op = "fill" => rows = Selected(k)

CalmInv ==
    calm =>
        /\ Alone
        /\ \A r \in Requests : HoldsCurrent(r)
        /\ \A k \in Keys :
              \/ cache[k] = NoEntry
              \/ cache[k].rows = Selected(k)
              \/ \E r \in Requests : Pending(r, k)

(***************************************************************************)
(* ReadContract is what all this comes to for a client.                    *)
(***************************************************************************)
Told ==
    [r \in Requests |->
        IF At(r, "answered")
        THEN [key |-> req[r].key, start |-> req[r].start, rows |-> req[r].rows]
        ELSE [key |-> None, start |-> 0, rows |-> [i \in {} |-> None]]]

Contract == INSTANCE ReadContract
    WITH AllRows <- Row \union {Gone}, Age <- TTL + MaxLag - 1, answer <- Told

\* Every step of the endpoints and of Redis is a step of the contract or changes
\* nothing it speaks of: no client is told anything older, and in a calm, when
\* one request follows the other, everybody is told what the last write left.
KeepsContract == Contract!Spec
=============================================================================
