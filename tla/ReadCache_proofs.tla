--------------------------- MODULE ReadCache_proofs ---------------------------
(***************************************************************************)
(* Proofs about ReadCache: the bounds on what a read may be answered, and  *)
(* the agreement of cache and table in a calm, for any items, columns,     *)
(* values, requests and times to live.                                     *)
(***************************************************************************)
EXTENDS ReadCache, SequenceTheorems, TLAPS

USE ReadCacheAssumption

-----------------------------------------------------------------------------
(***************************************************************************)
(* Rows, plans and commands.                                               *)
(***************************************************************************)
RowOrGone == Row \union {Gone}

LEMMA SnapshotFacts ==
    /\ NoRows \in Snapshot
    /\ \A k \in Keys : Rows(k) \subseteq Snapshot
    /\ \A i \in Items, new \in Row : [j \in {i} |-> new] \in Rows(i)
    BY DEF Snapshot, Rows, Covers, NoRows, Keys

LEMMA SelectedTyped ==
    ASSUME TypeOK, NEW k \in Keys
    PROVE  Selected(k) \in Rows(k)
    BY DEF TypeOK, Selected, Rows, Covers, Keys

LEMMA PlanIs ==
    ASSUME NEW kind \in Kinds, NEW i, NEW ids
    PROVE  \/ kind \in {"create", "patch"} /\ Plan(kind, i, ids) = <<Drop({List}), Fill(i)>>
           \/ kind \in {"delete", "append"} /\ Plan(kind, i, ids) = <<Drop({i}), Drop({List})>>
           \/ kind = "password" /\ Plan(kind, i, ids) = <<Drop({i})>>
           \/ kind = "upsert" /\ Plan(kind, i, ids) = <<Drop({i, List})>>
           \/ kind = "reset" /\ Plan(kind, i, ids) = <<Drop(ids \union {List})>>
           \/ kind = "signup" /\ Plan(kind, i, ids) = <<>>
    BY Zenon DEF Plan, Modifying, Inserting

LEMMA PlanTyped ==
    ASSUME NEW kind \in Kinds, NEW i \in Keys, NEW ids \in SUBSET Items
    PROVE  Plan(kind, i, ids) \in Seq(Command)
<1>1. \A S \in SUBSET Keys : Drop(S) \in Command
    BY DEF Drop, Command
<1>2. Fill(i) \in Command
    BY DEF Fill, Command
<1>3. List \in Keys /\ ids \subseteq Keys
    BY DEF Keys
<1>4. Drop({i}) \in Command /\ Drop({List}) \in Command
      /\ Drop({i, List}) \in Command /\ Drop(ids \union {List}) \in Command
    BY <1>1, <1>3
<1>5. \A a, b \in Command : <<>> \in Seq(Command) /\ <<a>> \in Seq(Command)
                            /\ <<a, b>> \in Seq(Command)
    OBVIOUS
<1> DEFINE T == Seq(Command)
<1>6. /\ <<>> \in T
      /\ <<Drop({List}), Fill(i)>> \in T
      /\ <<Drop({i}), Drop({List})>> \in T
      /\ <<Drop({i})>> \in T
      /\ <<Drop({i, List})>> \in T
      /\ <<Drop(ids \union {List})>> \in T
    BY <1>2, <1>4, <1>5
<1> HIDE DEF T
<1>7. Plan(kind, i, ids) \in T
    BY ZenonT(40), <1>6, PlanIs
<1>8. QED
    BY <1>7 DEF T

\* Only what is created or patched is put into the cache, and under its key.
LEMMA PlanFills ==
    ASSUME NEW kind \in Kinds, NEW i \in Keys, NEW ids \in SUBSET Items,
           NEW n \in 1 .. Len(Plan(kind, i, ids)),
           Plan(kind, i, ids)[n].op = "fill"
    PROVE  kind \in {"create", "patch"} /\ Plan(kind, i, ids)[n] = Fill(i)
<1>1. \A S : Drop(S).op = "drop"
    BY DEF Drop
<1>2. ASSUME NEW a, NEW b, NEW m \in 1 .. Len(<<a, b>>) PROVE <<a, b>>[m] = a \/ <<a, b>>[m] = b
    BY <1>2
<1>3. ASSUME NEW a, NEW m \in 1 .. Len(<<a>>) PROVE <<a>>[m] = a
    BY <1>3
<1>4. Len(<<>>) = 0
    OBVIOUS
<1> DEFINE plan == Plan(kind, i, ids)
<1> HIDE DEF plan
<1>4a. n \in 1 .. Len(plan) /\ plan[n].op = "fill"
    BY DEF plan
<1>5. CASE kind \in {"create", "patch"} /\ plan = <<Drop({List}), Fill(i)>>
    BY <1>1, <1>2, <1>4a, <1>5 DEF plan
<1>6. CASE \E S, R : plan = <<Drop(S), Drop(R)>>
    BY <1>1, <1>2, <1>4a, <1>6
<1>7. CASE \E S : plan = <<Drop(S)>>
    BY <1>1, <1>3, <1>4a, <1>7
<1>8. CASE plan = <<>>
    BY <1>4, <1>4a, <1>8
<1>8a. \/ kind \in {"create", "patch"} /\ plan = <<Drop({List}), Fill(i)>>
       \/ plan = <<Drop({i}), Drop({List})>>
       \/ plan = <<Drop({i})>>
       \/ plan = <<Drop({i, List})>>
       \/ plan = <<Drop(ids \union {List})>>
       \/ plan = <<>>
    BY ONLY PlanIs, kind \in Kinds DEF plan
<1>9. \/ kind \in {"create", "patch"} /\ plan = <<Drop({List}), Fill(i)>>
      \/ \E S, R : plan = <<Drop(S), Drop(R)>>
      \/ \E S : plan = <<Drop(S)>>
      \/ plan = <<>>
    BY Zenon, <1>8a
<1>10. QED
    BY Zenon, <1>5, <1>6, <1>7, <1>8, <1>9

-----------------------------------------------------------------------------
(***************************************************************************)
(* Type correctness.                                                       *)
(***************************************************************************)
LEMMA RequestTyped ==
    ASSUME TypeOK, NEW r \in Requests
    PROVE  /\ req[r] \in Request
           /\ req[r].pc \in PC /\ req[r].kind \in Kinds \union {"get"}
           /\ req[r].key \in Keys /\ req[r].start \in Nat
           /\ req[r].rows \in Snapshot /\ req[r].todo \in Seq(Command)
    BY DEF TypeOK, Request

LEMMA FinishTyped ==
    ASSUME TypeOK, NEW r \in Requests, Finish(r)
    PROVE  req' \in [Requests -> Request]
<1>1. Idle \in Request
    BY SnapshotFacts DEF Idle, Request, PC, Keys
<1>2. QED
    BY <1>1 DEF TypeOK, Finish

LEMMA EnterTyped ==
    ASSUME TypeOK, NEW r \in Requests, NEW pc \in PC, NEW kind \in Kinds \union {"get"},
           NEW k \in Keys, NEW rows \in Snapshot, Enter(r, pc, kind, k, rows)
    PROVE  req' \in [Requests -> Request] /\ calm' \in BOOLEAN
<1>1. [pc |-> pc, kind |-> kind, key |-> k, start |-> clock, rows |-> rows,
       todo |-> <<>>] \in Request
    BY DEF TypeOK, Request
<1>2. QED
    BY <1>1 DEF TypeOK, Enter

LEMMA RememberTyped ==
    ASSUME TypeOK, NEW new \in [Items -> RowOrGone], Remember(new)
    PROVE  lastRow' \in [Items -> [RowOrGone -> Nat \union {None}]]
    BY DEF TypeOK, Remember, RowOrGone

LEMMA UpdateTyped ==
    ASSUME TypeOK, NEW r \in Requests, NEW pc \in PC, NEW rows \in Snapshot,
           NEW todo \in Seq(Command),
           req' = [req EXCEPT ![r].pc = pc, ![r].rows = rows, ![r].todo = todo]
    PROVE  req' \in [Requests -> Request]
<1> DEFINE T == Seq(Command)
           K == Kinds \union {"get"}
           new == [req[r] EXCEPT !.pc = pc, !.rows = rows, !.todo = todo]
<1>1. req[r] \in [pc : PC, kind : K, key : Keys, start : Nat, rows : Snapshot, todo : T]
    BY DEF TypeOK, Request
<1>2. todo \in T
    OBVIOUS
<1> HIDE DEF T, K
<1>3. new \in [pc : PC, kind : K, key : Keys, start : Nat, rows : Snapshot, todo : T]
    BY <1>1, <1>2
<1>4. new \in Request
    BY <1>3 DEF T, K, Request
<1>5. req' = [req EXCEPT ![r] = new]
    BY DEF TypeOK
<1> HIDE DEF new
<1>6. QED
    BY <1>4, <1>5 DEF TypeOK

LEMMA NextCommandTyped ==
    ASSUME TypeOK, NEW r \in Requests, At(r, "cache"), req[r].todo # <<>>,
           NextCommand(r)
    PROVE  req' \in [Requests -> Request]
<1> DEFINE rest == Tail(req[r].todo)
<1>1. rest \in Seq(Command)
    BY RequestTyped
<1>2. req[r].rows \in Snapshot /\ req[r].pc \in PC
    BY RequestTyped
<1>3. CASE Len(req[r].todo) > 1
    <2>1. req' = [req EXCEPT ![r].todo = rest]
        BY <1>3 DEF NextCommand
    <2>2. req' = [req EXCEPT ![r].pc = req[r].pc, ![r].rows = req[r].rows,
                             ![r].todo = rest]
        BY <2>1, RequestTyped DEF TypeOK, Request
    <2> HIDE DEF rest
    <2>3. QED
        BY <1>1, <1>2, <2>2, UpdateTyped
<1>4. CASE ~(Len(req[r].todo) > 1) /\ req[r].kind = "get"
    <2>1. req' = [req EXCEPT ![r].pc = "answered", ![r].rows = req[r].rows,
                             ![r].todo = <<>>]
        BY <1>4, RequestTyped DEF NextCommand, TypeOK, Request
    <2>2. "answered" \in PC /\ <<>> \in Seq(Command)
        BY DEF PC
    <2>3. QED
        BY <1>2, <2>1, <2>2, UpdateTyped
<1>5. CASE ~(Len(req[r].todo) > 1) /\ req[r].kind # "get"
    BY <1>5, FinishTyped DEF NextCommand
<1>6. QED
    BY <1>3, <1>4, <1>5

LEMMA CommitTyped ==
    ASSUME TypeOK, NEW r \in Requests, req[r].kind \in Kinds,
           NEW new \in [Items -> RowOrGone], NEW held \in Snapshot,
           NEW ids \in SUBSET Items, Commit(r, new, held, ids)
    PROVE  TypeOK'
<1> DEFINE plan == Plan(req[r].kind, req[r].key, ids)
<1>1. plan \in Seq(Command)
    BY PlanTyped, RequestTyped
<1>2. req' \in [Requests -> Request]
    <2>1. CASE plan = <<>>
        BY <2>1, FinishTyped DEF Commit
    <2>2. CASE plan # <<>>
        <3>1. "cache" \in PC
            BY DEF PC
        <3>2. req' = [req EXCEPT ![r].pc = "cache", ![r].rows = held, ![r].todo = plan]
            BY <2>2 DEF Commit
        <3> HIDE DEF plan
        <3>3. QED
            BY <3>1, <3>2, <1>1, UpdateTyped
    <2>3. QED
        BY <2>1, <2>2
<1>3. lastRow' \in [Items -> [RowOrGone -> Nat \union {None}]]
    BY RememberTyped DEF Commit
<1>4. QED
    BY <1>2, <1>3 DEF TypeOK, Commit, RowOrGone

-----------------------------------------------------------------------------
(***************************************************************************)
(* The history only grows, and what held since a time goes on holding.     *)
(***************************************************************************)
Histories == [Items -> [RowOrGone -> Nat \union {None}]]

Extends(h, g) ==
    \A i \in Items, row \in RowOrGone :
        h[i][row] # None => g[i][row] # None /\ g[i][row] >= h[i][row]

LEMMA StaysSince ==
    ASSUME NEW h \in Histories, NEW g \in Histories, Extends(h, g),
           NEW k \in Keys, NEW rows \in Rows(k), NEW t \in Int, NEW u \in Int, u <= t
    PROVE  /\ RowsSince(h, rows, t) => RowsSince(g, rows, u)
           /\ ColumnsSince(h, rows, t) => ColumnsSince(g, rows, u)
           /\ RowsSince(h, rows, t) => ColumnsSince(h, rows, t)
<1>1. DOMAIN rows \subseteq Items /\ \A i \in DOMAIN rows : rows[i] \in RowOrGone
    BY DEF Rows, Covers, Keys, RowOrGone
<1>2. ASSUME NEW i \in Items, NEW row \in RowOrGone, RowSince(h, i, row, t)
      PROVE  RowSince(g, i, row, u)
    <2>1. h[i][row] \in Nat /\ g[i][row] \in Nat \union {None}
        BY <1>2 DEF RowSince, Histories
    <2>2. g[i][row] # None /\ g[i][row] >= h[i][row] /\ h[i][row] >= t
        BY <1>2 DEF RowSince, Extends
    <2>3. QED
        BY <2>1, <2>2 DEF RowSince
<1>3. RowsSince(h, rows, t) => RowsSince(g, rows, u)
    BY <1>1, <1>2 DEF RowsSince
<1>4. ColumnsSince(h, rows, t) => ColumnsSince(g, rows, u)
    BY <1>1, <1>2 DEF ColumnsSince, ColumnSince, RowOrGone
<1>5. RowsSince(h, rows, t) => ColumnsSince(h, rows, t)
    BY <1>1 DEF RowsSince, ColumnsSince, ColumnSince, RowOrGone
<1>6. QED
    BY <1>3, <1>4, <1>5

LEMMA SelfExtends ==
    ASSUME TypeOK
    PROVE  lastRow \in Histories /\ Extends(lastRow, lastRow)
<1>1. lastRow \in Histories
    BY DEF TypeOK, Histories, RowOrGone
<1>2. ASSUME NEW i \in Items, NEW row \in RowOrGone, lastRow[i][row] # None
      PROVE  lastRow[i][row] >= lastRow[i][row]
    BY <1>1, <1>2 DEF Histories
<1>3. QED
    BY <1>1, <1>2 DEF Extends

LEMMA RememberExtends ==
    ASSUME TypeOK, HistorySound, NEW new \in [Items -> RowOrGone], Remember(new)
    PROVE  /\ lastRow' \in Histories
           /\ Extends(lastRow, lastRow')
           /\ \A i \in Items : lastRow'[i][new[i]] = clock
           /\ \A i \in Items, row \in RowOrGone :
                 lastRow'[i][row] # None => lastRow'[i][row] <= clock
<1>1. lastRow' \in Histories
    BY RememberTyped DEF Histories
<1>2. \A i \in Items, row \in RowOrGone :
          lastRow'[i][row] = IF row = new[i] THEN clock ELSE lastRow[i][row]
    BY DEF TypeOK, Remember, RowOrGone
<1>3. /\ clock \in Nat
      /\ \A i \in Items, row \in RowOrGone :
            /\ lastRow[i][row] \in Nat \union {None}
            /\ lastRow[i][row] # None => lastRow[i][row] <= clock
    BY DEF TypeOK, HistorySound, RowOrGone
<1>4. \A i \in Items : lastRow'[i][new[i]] = clock
    BY <1>2
<1>5. \A i \in Items, row \in RowOrGone :
          lastRow'[i][row] # None => lastRow'[i][row] <= clock
    BY <1>2, <1>3
<1>6. Extends(lastRow, lastRow')
    BY <1>2, <1>3 DEF Extends
<1>7. QED
    BY <1>1, <1>4, <1>5, <1>6

\* What is selected was last so now.
LEMMA SelectedNow ==
    ASSUME TypeOK, HistorySound, NEW k \in Keys, NEW t \in Int, t <= clock
    PROVE  RowsSince(lastRow, Selected(k), t) /\ ColumnsSince(lastRow, Selected(k), t)
<1>1. Selected(k) \in Rows(k)
    BY SelectedTyped
<1>2. RowsSince(lastRow, Selected(k), t)
    BY DEF TypeOK, HistorySound, RowsSince, RowSince, Selected, Covers, Keys
<1>3. QED
    BY <1>1, <1>2, StaysSince, SelfExtends

-----------------------------------------------------------------------------
(***************************************************************************)
(* What every write commits: rows for the whole table, and, where they go  *)
(* to the cache, rows whose columns are no older than the request.         *)
(***************************************************************************)
Commits(r) ==
    \/ Modify(r) \/ SetPassword(r) \/ Delete(r) \/ UpsertInserts(r)
    \/ Insert(r) \/ Reset(r)

CommitsSoundly(r, new, held, ids) ==
    /\ new \in [Items -> RowOrGone]
    /\ held \in Snapshot
    /\ ids \in SUBSET Items
    /\ req[r].kind \in Kinds
    /\ At(r, "write")
    /\ Commit(r, new, held, ids)
    /\ req[r].kind \in {"create", "patch"} =>
          /\ req[r].key \in Items
          /\ held \in Rows(req[r].key)
          /\ ColumnsSince(lastRow', held, req[r].start)

LEMMA ModifyCommits ==
    ASSUME IInv, NEW r \in Requests, Modify(r)
    PROVE  \E new, held, ids : CommitsSoundly(r, new, held, ids)
<1> DEFINE i == req[r].key
           read == req[r].rows[i]
<1>1. /\ TypeOK /\ HistorySound /\ At(r, "write")
      /\ req[r].kind \in {"patch", "append", "upsert"}
      /\ req[r].kind \in Kinds /\ req[r].kind \in Modifying
      /\ InFlight(r)
    BY RequestTyped DEF IInv, Modify, Modifying, At, InFlight
<1>2. i \in Items /\ req[r].rows \in Rows(i)
      /\ RowsSince(lastRow, req[r].rows, req[r].start)
      /\ req[r].start <= clock
    BY <1>1 DEF IInv, RequestSound
<1>3. read \in Row /\ DOMAIN req[r].rows = {i}
    BY <1>2 DEF Modify, Rows, Covers
<1> DEFINE t(new) == IF new = read THEN table
                     ELSE [table EXCEPT ![i] = Merged(@, read, new)]
           h(new) == IF req[r].kind = "patch" THEN [j \in {i} |-> new] ELSE NoRows
<1>4. PICK new \in Row : /\ new = read \/ table[i] # Gone
                         /\ Commit(r, t(new), h(new), {})
    BY DEF Modify
<1>5. t(new) \in [Items -> RowOrGone]
    <2>1. CASE new = read
        BY <2>1, <1>1 DEF TypeOK, RowOrGone
    <2>2. CASE new # read
        <3>1. table[i] \in Row
            BY <1>1, <1>2, <1>4, <2>2 DEF TypeOK
        <3>2. Merged(table[i], read, new) \in Row
            BY <3>1, <1>4 DEF Merged, Row
        <3>3. QED
            BY <3>2, <2>2, <1>1, <1>2 DEF TypeOK, RowOrGone
    <2>3. QED
        BY <2>1, <2>2
<1>6. [j \in {i} |-> new] \in Rows(i) /\ h(new) \in Snapshot
    BY <1>2, SnapshotFacts DEF Keys
<1>7. ColumnsSince(lastRow', [j \in {i} |-> new], req[r].start)
    <2>1. Extends(lastRow, lastRow') /\ lastRow'[i][t(new)[i]] = clock
          /\ lastRow \in Histories /\ lastRow' \in Histories
        BY <1>1, <1>2, <1>4, <1>5, RememberExtends, SelfExtends DEF Commit
    <2>2. ASSUME NEW c \in Columns
          PROVE  ColumnSince(lastRow', i, c, new, req[r].start)
        <3>1. CASE new[c] = read[c]
            <4>1. RowSince(lastRow, i, read, req[r].start)
                BY <1>2, <1>3 DEF RowsSince
            <4>2. lastRow[i][read] \in Nat /\ lastRow'[i][read] \in Nat \union {None}
                BY SMTT(30), <4>1, <2>1, <1>2, <1>3 DEF RowSince, Histories, RowOrGone
            <4>3. lastRow'[i][read] # None /\ lastRow'[i][read] >= lastRow[i][read]
                BY <4>1, <2>1, <1>2, <1>3 DEF RowSince, Extends, RowOrGone
            <4>4. req[r].start \in Nat
                BY <1>1, RequestTyped
            <4>5. RowSince(lastRow', i, read, req[r].start)
                BY SMTT(30), <4>1, <4>2, <4>3, <4>4 DEF RowSince
            <4>6. QED
                BY <4>5, <3>1, <1>3 DEF ColumnSince
        <3>2. CASE new[c] # read[c]
            <4>1. t(new)[i] = Merged(table[i], read, new)
                BY <3>2, <1>1, <1>2 DEF TypeOK
            <4>2. t(new)[i][c] = new[c]
                BY <4>1, <3>2 DEF Merged
            <4>3. RowSince(lastRow', i, t(new)[i], req[r].start)
                BY <2>1, <1>1, <1>2 DEF RowSince, TypeOK
            <4>4. t(new)[i] \in RowOrGone
                BY <1>2, <1>5
            <4> HIDE DEF t
            <4>5. QED
                BY <4>2, <4>3, <4>4 DEF ColumnSince, RowOrGone
        <3>3. QED
            BY <3>1, <3>2
    <2>3. QED
        BY <2>2 DEF ColumnsSince
<1>8. req[r].kind = "patch" => h(new) = [j \in {i} |-> new]
    OBVIOUS
<1> HIDE DEF t, h
<1>9. CommitsSoundly(r, t(new), h(new), {})
    BY <1>1, <1>2, <1>4, <1>5, <1>6, <1>7, <1>8 DEF CommitsSoundly
<1>10. QED
    BY <1>9

LEMMA InsertCommits ==
    ASSUME IInv, NEW r \in Requests, Insert(r)
    PROVE  \E new, held, ids : CommitsSoundly(r, new, held, ids)
<1> DEFINE i == req[r].key
<1>1. /\ TypeOK /\ HistorySound /\ At(r, "write")
      /\ req[r].kind \in Inserting /\ req[r].kind \in Kinds
      /\ InFlight(r)
    BY RequestTyped DEF IInv, Insert, Inserting, At, InFlight
<1>2. i \in Items /\ req[r].start <= clock /\ req[r].start \in Nat
    BY <1>1, RequestTyped DEF IInv, RequestSound
<1>3. PICK new \in Row : Commit(r, [table EXCEPT ![i] = new], [j \in {i} |-> new], {})
    BY DEF Insert
<1> DEFINE t == [table EXCEPT ![i] = new]
<1>4. t \in [Items -> RowOrGone] /\ t[i] = new
    BY <1>1, <1>2, <1>3 DEF TypeOK, RowOrGone
<1>5. [j \in {i} |-> new] \in Rows(i) /\ [j \in {i} |-> new] \in Snapshot
    BY <1>2, <1>3, SnapshotFacts DEF Keys
<1>6. lastRow'[i][new] = clock
    BY <1>1, <1>2, <1>3, <1>4, RememberExtends DEF Commit
<1>7. ColumnsSince(lastRow', [j \in {i} |-> new], req[r].start)
    BY <1>1, <1>2, <1>3, <1>6 DEF ColumnsSince, ColumnSince, RowSince, TypeOK
<1> HIDE DEF t
<1>8. CommitsSoundly(r, t, [j \in {i} |-> new], {})
    BY <1>1, <1>2, <1>3, <1>4, <1>5, <1>7 DEF CommitsSoundly, t
<1>9. QED
    BY <1>8

LEMMA WriteCommits ==
    ASSUME IInv, NEW r \in Requests, Commits(r)
    PROVE  \E new, held, ids : CommitsSoundly(r, new, held, ids)
<1>1. TypeOK /\ NoRows \in Snapshot /\ {} \in SUBSET Items
    BY SnapshotFacts DEF IInv
<1>2. CASE Modify(r)
    BY <1>2, ModifyCommits
<1>3. CASE Insert(r)
    BY <1>3, InsertCommits
<1>4. CASE SetPassword(r)
    <2>1. CommitsSoundly(r, table, NoRows, {})
        BY <1>1, <1>4, RequestTyped DEF SetPassword, CommitsSoundly, TypeOK, RowOrGone
    <2>2. QED
        BY <2>1
<1>5. CASE Delete(r)
    <2> DEFINE t == [table EXCEPT ![req[r].key] = Gone]
    <2>1. t \in [Items -> RowOrGone]
        BY <1>1 DEF TypeOK, RowOrGone
    <2>2. CommitsSoundly(r, t, NoRows, {})
        BY <1>1, <1>5, <2>1, RequestTyped DEF Delete, CommitsSoundly
    <2>3. QED
        BY <2>2
<1>6. CASE UpsertInserts(r)
    <2>1. PICK new \in Row : Commit(r, [table EXCEPT ![req[r].key] = new], NoRows, {})
        BY <1>6 DEF UpsertInserts
    <2> DEFINE t == [table EXCEPT ![req[r].key] = new]
    <2>2. t \in [Items -> RowOrGone]
        BY <1>1 DEF TypeOK, RowOrGone
    <2>3. CommitsSoundly(r, t, NoRows, {})
        BY <1>1, <1>6, <2>1, <2>2, RequestTyped DEF UpsertInserts, CommitsSoundly
    <2>4. QED
        BY <2>3
<1>7. CASE Reset(r)
    <2> DEFINE t(c, v) == [i \in Items |-> IF table[i] = Gone THEN Gone
                                          ELSE [table[i] EXCEPT ![c] = v]]
               ids == {i \in Items : req[r].rows[i] # Gone}
    <2>1. PICK c \in Columns, v \in Values : Commit(r, t(c, v), NoRows, ids)
        BY <1>7 DEF Reset
    <2>2. t(c, v) \in [Items -> RowOrGone]
        <3>1. ASSUME NEW i \in Items, table[i] # Gone
              PROVE  [table[i] EXCEPT ![c] = v] \in Row
            BY <3>1, <1>1 DEF TypeOK, Row
        <3>2. QED
            BY <3>1 DEF RowOrGone
    <2>3. CommitsSoundly(r, t(c, v), NoRows, ids)
        BY <1>1, <1>7, <2>1, <2>2, RequestTyped DEF Reset, CommitsSoundly
    <2>4. QED
        BY <2>3
<1>8. QED
    BY <1>2, <1>3, <1>4, <1>5, <1>6, <1>7 DEF Commits

-----------------------------------------------------------------------------
(***************************************************************************)
(* What a step leaves alone stays sound.                                   *)
(***************************************************************************)
LEMMA RequestStays ==
    ASSUME IInv, NEW q \in Requests, req'[q] = req[q],
           lastRow' \in Histories, Extends(lastRow, lastRow'),
           clock' \in Nat, clock <= clock',
           InFlight(q) => clock' <= req[q].start + MaxLag
    PROVE  RequestSound(q)'
<1> DEFINE k == req[q].key
           rows == req[q].rows
           start == req[q].start
<1>1. /\ TypeOK /\ RequestSound(q) /\ lastRow \in Histories
      /\ clock \in Nat /\ k \in Keys /\ start \in Nat
    BY RequestTyped, SelfExtends DEF IInv, TypeOK
<1>1a. start \in Int /\ Oldest(start + 1) \in Int
    BY <1>1 DEF Oldest
<1>2. ASSUME NEW t \in Int, rows \in Rows(k)
      PROVE  /\ RowsSince(lastRow, rows, t) => RowsSince(lastRow', rows, t)
             /\ ColumnsSince(lastRow, rows, t) => ColumnsSince(lastRow', rows, t)
    BY <1>1, <1>2, StaysSince
<1> HIDE DEF k, rows, start
<1>3. InFlight(q) =>
        /\ start <= clock' /\ clock' <= start + MaxLag
        /\ req[q].kind \in Modifying \union Inserting => k \in Items
        /\ At(q, "select") => req[q].kind = "get"
        /\ At(q, "write") /\ req[q].kind \in Modifying =>
              rows \in Rows(k) /\ RowsSince(lastRow', rows, start)
        /\ At(q, "cache") =>
              /\ req[q].todo # <<>>
              /\ req[q].kind = "get" => req[q].todo = <<Fill(k)>>
              /\ \A n \in 1 .. Len(req[q].todo) : req[q].todo[n].op = "fill" =>
                    /\ req[q].todo[n] = Fill(k)
                    /\ rows \in Rows(k)
                    /\ ColumnsSince(lastRow', rows, start)
                    /\ k = List => RowsSince(lastRow', rows, start)
        /\ At(q, "answered") =>
              /\ ColumnsSince(lastRow', rows, Oldest(start + 1))
              /\ rows \in Rows(k)
              /\ k = List => RowsSince(lastRow', rows, Oldest(start + 1))
    BY SMTT(30), <1>1, <1>1a, <1>2 DEF RequestSound, k, rows, start
<1>4. QED
    BY <1>3 DEF RequestSound, k, rows, start, InFlight, At, Oldest

LEMMA EntryStays ==
    ASSUME IInv, NEW k \in Keys, cache'[k] \in {cache[k], NoEntry},
           lastRow' \in Histories, Extends(lastRow, lastRow'),
           cache'[k] # NoEntry => clock' < cache'[k].until
    PROVE  EntrySound(k)'
<1>1. CASE cache'[k] = NoEntry
    BY <1>1 DEF EntrySound
<1>2. CASE cache'[k] = cache[k] /\ cache[k] # NoEntry
    <2> DEFINE e == cache[k]
    <2>1. TypeOK /\ EntrySound(k) /\ lastRow \in Histories /\ e.until \in Nat
        BY SelfExtends DEF IInv, TypeOK, Entry
    <2>2. Oldest(e.until) \in Int
        BY <2>1 DEF Oldest
    <2>3. e.rows \in Rows(k)
        BY <2>1, <1>2 DEF EntrySound
    <2>4. /\ ColumnsSince(lastRow', e.rows, Oldest(e.until))
          /\ k = List => RowsSince(lastRow', e.rows, Oldest(e.until))
        BY <2>1, <2>2, <2>3, <1>2, StaysSince DEF EntrySound
    <2>5. QED
        BY <2>3, <2>4, <1>2 DEF EntrySound, Oldest
<1>3. QED
    BY <1>1, <1>2

\* A step that leaves table, time and history alone.
LEMMA HistoryStays ==
    ASSUME IInv, UNCHANGED <<clock, table, lastRow>>
    PROVE  /\ HistorySound'
           /\ lastRow' \in Histories /\ Extends(lastRow, lastRow')
           /\ clock' \in Nat /\ clock <= clock'
           /\ \A q \in Requests : InFlight(q) => clock' <= req[q].start + MaxLag
           /\ \A k \in Keys : cache[k] # NoEntry => clock' < cache[k].until
<1>1. TypeOK /\ HistorySound
    BY DEF IInv
<1>2. HistorySound'
    BY <1>1 DEF HistorySound
<1>3. lastRow' \in Histories /\ Extends(lastRow, lastRow')
    BY <1>1, SelfExtends
<1>4. clock' \in Nat /\ clock <= clock'
    BY <1>1 DEF TypeOK
<1>5. \A q \in Requests : InFlight(q) => clock' <= req[q].start + MaxLag
    BY DEF IInv, RequestSound
<1>6. \A k \in Keys : cache[k] # NoEntry => clock' < cache[k].until
    BY DEF IInv, EntrySound
<1>7. QED
    BY <1>2, <1>3, <1>4, <1>5, <1>6

LEMMA IdleSound ==
    ASSUME NEW r \in Requests, req'[r] = Idle
    PROVE  RequestSound(r)'
    BY DEF RequestSound, InFlight, At, Idle

LEMMA FinishSound ==
    ASSUME IInv, NEW r \in Requests, Finish(r), UNCHANGED <<clock, table, lastRow>>
    PROVE  \A q \in Requests : RequestSound(q)'
<1>1. req'[r] = Idle /\ \A q \in Requests \ {r} : req'[q] = req[q]
    BY DEF Finish, IInv, TypeOK
<1>2. ASSUME NEW q \in Requests PROVE RequestSound(q)'
    <2>1. CASE q = r
        BY <2>1, <1>1, IdleSound
    <2>2. CASE q # r
        BY <2>2, <1>1, HistoryStays, RequestStays
    <2>3. QED
        BY <2>1, <2>2
<1>3. QED
    BY <1>2

\* One request changes and is sound afterwards.
LEMMA OthersSound ==
    ASSUME IInv, NEW r \in Requests, RequestSound(r)',
           \A q \in Requests \ {r} : req'[q] = req[q],
           clock' = clock, lastRow' \in Histories, Extends(lastRow, lastRow')
    PROVE  \A q \in Requests : RequestSound(q)'
<1>1. ASSUME NEW q \in Requests, q # r PROVE RequestSound(q)'
    <2>1. clock' \in Nat /\ clock <= clock' /\ req'[q] = req[q]
        BY <1>1 DEF IInv, TypeOK
    <2>2. InFlight(q) => clock' <= req[q].start + MaxLag
        BY DEF IInv, RequestSound
    <2>3. QED
        BY <2>1, <2>2, RequestStays
<1>2. QED
    BY <1>1

-----------------------------------------------------------------------------
(***************************************************************************)
(* The inductive invariant, one lemma per group of actions.                *)
(***************************************************************************)
LEMMA EntriesStay ==
    ASSUME IInv, UNCHANGED <<clock, table, lastRow>>,
           \A k \in Keys : cache'[k] \in {cache[k], NoEntry}
    PROVE  \A k \in Keys : EntrySound(k)'
<1>1. ASSUME NEW k \in Keys PROVE EntrySound(k)'
    <2>1. cache'[k] # NoEntry => clock' < cache'[k].until
        BY HistoryStays
    <2>2. QED
        BY <2>1, HistoryStays, EntryStays
<1>2. QED
    BY <1>1

\* A request enters with nothing to remember, or with what was selected or
\* found: in each case the new request must be shown sound.
LEMMA EnterSound ==
    ASSUME IInv, NEW r \in Requests, NEW pc \in PC, NEW kind \in Kinds \union {"get"},
           NEW k \in Keys, NEW rows \in Snapshot, Enter(r, pc, kind, k, rows),
           UNCHANGED <<clock, table, cache, lastRow>>,
           pc \in {"select", "write", "answered"},
           kind \in Modifying \union Inserting => k \in Items,
           pc = "select" => kind = "get",
           pc = "write" /\ kind \in Modifying =>
               rows \in Rows(k) /\ RowsSince(lastRow, rows, clock),
           pc = "answered" =>
               /\ rows \in Rows(k)
               /\ ColumnsSince(lastRow, rows, Oldest(clock + 1))
               /\ k = List => RowsSince(lastRow, rows, Oldest(clock + 1))
    PROVE  IInv'
<1>1. TypeOK'
    BY EnterTyped DEF IInv, TypeOK
<1>2. /\ req'[r] = [pc |-> pc, kind |-> kind, key |-> k, start |-> clock,
                    rows |-> rows, todo |-> <<>>]
      /\ \A q \in Requests \ {r} : req'[q] = req[q]
    BY DEF IInv, TypeOK, Enter
<1>3. RequestSound(r)'
    <2>1. clock <= clock + MaxLag /\ clock <= clock /\ clock' = clock /\ lastRow' = lastRow
        BY DEF IInv, TypeOK
    <2>2. /\ req'[r].pc = pc /\ req'[r].kind = kind /\ req'[r].key = k
          /\ req'[r].start = clock /\ req'[r].rows = rows
        BY <1>2
    <2>3. CASE pc = "select"
        BY <2>1, <2>2, <2>3 DEF RequestSound, At
    <2>4. CASE pc = "write"
        BY <2>1, <2>2, <2>4 DEF RequestSound, At
    <2>5. CASE pc = "answered"
        BY <2>1, <2>2, <2>5 DEF RequestSound, At, Oldest
    <2>6. QED
        BY <2>3, <2>4, <2>5
<1>4. \A q \in Requests : RequestSound(q)'
    BY <1>2, <1>3, OthersSound, HistoryStays
<1>5. QED
    BY <1>1, <1>4, HistoryStays, EntriesStay DEF IInv

LEMMA ReadSound ==
    ASSUME IInv, NEW r \in Requests, Read(r)
    PROVE  IInv'
<1>1. TypeOK /\ HistorySound /\ clock \in Nat
    BY DEF IInv, TypeOK
<1>2. ASSUME NEW k \in Keys, GetHit(r, k) PROVE IInv'
    <2> DEFINE e == cache[k]
    <2>1. e # NoEntry /\ EntrySound(k) /\ e \in Entry
        BY <1>2 DEF GetHit, IInv, TypeOK
    <2>2. e.rows \in Rows(k) /\ e.rows \in Snapshot /\ e.until \in Nat /\ clock < e.until
        BY <2>1 DEF EntrySound, Entry
    <2>3. /\ Oldest(clock + 1) \in Int /\ Oldest(e.until) \in Int
          /\ Oldest(clock + 1) <= Oldest(e.until)
        BY <1>1, <2>2 DEF Oldest
    <2>4. /\ ColumnsSince(lastRow, e.rows, Oldest(clock + 1))
          /\ k = List => RowsSince(lastRow, e.rows, Oldest(clock + 1))
        BY <1>1, <2>1, <2>2, <2>3, SelfExtends, StaysSince DEF EntrySound
    <2>5. "answered" \in PC /\ "get" \in Kinds \union {"get"} /\ "get" \notin Modifying \union Inserting
        BY DEF PC, Modifying, Inserting
    <2>6. /\ Enter(r, "answered", "get", k, e.rows)
          /\ UNCHANGED <<clock, table, cache, lastRow>>
        BY <1>2 DEF GetHit
    <2> HIDE DEF e
    <2>7. QED
        BY <2>2, <2>4, <2>5, <2>6, EnterSound
<1>3. ASSUME NEW k \in Keys, GetMiss(r, k) PROVE IInv'
    <2>1. /\ "select" \in PC /\ "get" \in Kinds \union {"get"}
          /\ "get" \notin Modifying \union Inserting
          /\ NoRows \in Snapshot
        BY SnapshotFacts DEF PC, Modifying, Inserting
    <2>2. /\ Enter(r, "select", "get", k, NoRows)
          /\ UNCHANGED <<clock, table, cache, lastRow>>
        BY <1>3 DEF GetMiss
    <2>3. QED
        BY <2>1, <2>2, EnterSound
<1>4. CASE Select(r)
    <2> DEFINE k == req[r].key
    <2>1. k \in Keys /\ req[r].kind = "get" /\ InFlight(r)
        BY <1>1, <1>4, RequestTyped DEF IInv, RequestSound, Select, At, InFlight
    <2>2. UNCHANGED <<clock, table, cache, lastRow, calm>>
        BY <1>4 DEF Select
    <2>3. CASE Finish(r)
        <3>1. TypeOK'
            BY <1>1, <2>2, <2>3, FinishTyped DEF TypeOK
        <3>2. QED
            BY <3>1, <2>2, <2>3, FinishSound, HistoryStays, EntriesStay DEF IInv
    <2>4. CASE req' = [req EXCEPT ![r].pc = "cache", ![r].rows = Selected(k),
                                  ![r].todo = <<Fill(k)>>]
        <3>1. Selected(k) \in Rows(k) /\ Selected(k) \in Snapshot
            BY <1>1, <2>1, SelectedTyped, SnapshotFacts
        <3>2. "cache" \in PC /\ <<Fill(k)>> \in Seq(Command)
            BY <2>1 DEF PC, Fill, Command
        <3>3. TypeOK'
            BY <1>1, <2>2, <2>4, <3>1, <3>2, UpdateTyped DEF TypeOK
        <3>4. /\ req'[r].pc = "cache" /\ req'[r].rows = Selected(k)
              /\ req'[r].todo = <<Fill(k)>> /\ req'[r].key = k
              /\ req'[r].kind = "get" /\ req'[r].start = req[r].start
              /\ \A q \in Requests \ {r} : req'[q] = req[q]
            BY <1>1, <2>1, <2>4, RequestTyped DEF TypeOK, Request
        <3>5. req[r].start <= clock /\ clock <= req[r].start + MaxLag /\ req[r].start \in Nat
            BY <1>1, <2>1, RequestTyped DEF IInv, RequestSound
        <3>6. /\ RowsSince(lastRow, Selected(k), req[r].start)
              /\ ColumnsSince(lastRow, Selected(k), req[r].start)
            BY <1>1, <2>1, <3>5, SelectedNow
        <3>7. "get" \notin Modifying \union Inserting
            BY DEF Modifying, Inserting
        <3> HIDE DEF k
        <3>8. RequestSound(r)'
            BY <2>2, <3>1, <3>4, <3>5, <3>6, <3>7 DEF RequestSound, At
        <3>9. QED
            BY <2>2, <3>3, <3>4, <3>8, OthersSound, HistoryStays, EntriesStay DEF IInv
    <2>5. QED
        BY <1>4, <2>3, <2>4 DEF Select
<1>5. QED
    BY <1>2, <1>3, <1>4 DEF Read

LEMMA StartSound ==
    ASSUME IInv, NEW r \in Requests,
           \/ \E i \in Items, kind \in Kinds : ReadRow(r, i, kind) \/ StartInsert(r, i, kind)
           \/ StartReset(r)
    PROVE  IInv'
<1>1. TypeOK /\ HistorySound /\ clock \in Nat /\ "write" \in PC
    BY DEF IInv, TypeOK, PC
<1>2. ASSUME NEW i \in Items, NEW kind \in Kinds, ReadRow(r, i, kind) PROVE IInv'
    <2>1. i \in Keys /\ Selected(i) \in Rows(i) /\ Selected(i) \in Snapshot
        BY <1>1, SelectedTyped, SnapshotFacts DEF Keys
    <2>2. clock \in Int /\ clock <= clock
        BY <1>1
    <2>3. RowsSince(lastRow, Selected(i), clock)
        BY <1>1, <2>1, <2>2, SelectedNow
    <2>4. /\ Enter(r, "write", kind, i, Selected(i))
          /\ UNCHANGED <<clock, table, cache, lastRow>>
        BY <1>2 DEF ReadRow
    <2>5. kind \in Kinds \union {"get"}
        OBVIOUS
    <2>6. QED
        BY <1>1, <2>1, <2>3, <2>4, <2>5, EnterSound
<1>3. ASSUME NEW i \in Items, NEW kind \in Kinds, StartInsert(r, i, kind) PROVE IInv'
    <2>1. i \in Keys /\ NoRows \in Snapshot /\ kind \in Kinds \union {"get"}
        BY SnapshotFacts DEF Keys
    <2>2. kind \notin Modifying
        BY <1>3 DEF StartInsert, Inserting, Modifying
    <2>3. /\ Enter(r, "write", kind, i, NoRows)
          /\ UNCHANGED <<clock, table, cache, lastRow>>
        BY <1>3 DEF StartInsert
    <2>4. QED
        BY <1>1, <2>1, <2>2, <2>3, EnterSound
<1>4. CASE StartReset(r)
    <2>1. List \in Keys /\ Selected(List) \in Snapshot
        BY <1>1, SelectedTyped, SnapshotFacts DEF Keys
    <2>2. "reset" \in Kinds \union {"get"} /\ "reset" \notin Modifying \union Inserting
        BY <1>4 DEF StartReset, Inserting, Modifying
    <2>3. /\ Enter(r, "write", "reset", List, Selected(List))
          /\ UNCHANGED <<clock, table, cache, lastRow>>
        BY <1>4 DEF StartReset
    <2>4. QED
        BY <1>1, <2>1, <2>2, <2>3, EnterSound
<1>5. QED
    BY <1>2, <1>3, <1>4

\* Every write: the table changes, and the request turns to the cache.
LEMMA CommitSound ==
    ASSUME IInv, NEW r \in Requests, Commits(r)
    PROVE  IInv'
<1>1. PICK new, held, ids : CommitsSoundly(r, new, held, ids)
    BY WriteCommits
<1> DEFINE plan == Plan(req[r].kind, req[r].key, ids)
           k == req[r].key
           kind == req[r].kind
<1>2. /\ TypeOK /\ HistorySound /\ At(r, "write") /\ InFlight(r)
      /\ new \in [Items -> RowOrGone] /\ held \in Snapshot /\ ids \in SUBSET Items
      /\ kind \in Kinds /\ k \in Keys
      /\ Commit(r, new, held, ids)
      /\ kind \in {"create", "patch"} =>
            /\ k \in Items /\ held \in Rows(k)
            /\ ColumnsSince(lastRow', held, req[r].start)
    BY <1>1, RequestTyped DEF IInv, CommitsSoundly, At, InFlight
<1>3. TypeOK'
    BY <1>2, CommitTyped
<1>4. Remember(new) /\ table' = new /\ UNCHANGED <<clock, cache, calm>>
    BY <1>2 DEF Commit
<1>5. lastRow' \in Histories /\ Extends(lastRow, lastRow')
    BY <1>2, <1>4, RememberExtends
<1>6. HistorySound'
    BY <1>2, <1>4, RememberExtends DEF HistorySound, RowOrGone, Row, Gone
<1>7. \A j \in Keys : EntrySound(j)'
    <2>1. ASSUME NEW j \in Keys PROVE EntrySound(j)'
        <3>1. cache'[j] = cache[j] /\ clock' = clock
            BY <1>4
        <3>2. cache'[j] # NoEntry => clock' < cache'[j].until
            BY <3>1 DEF IInv, EntrySound
        <3>3. QED
            BY <3>1, <3>2, <1>5, EntryStays
    <2>2. QED
        BY <2>1
<1>8. RequestSound(r)'
    <2>1. CASE plan = <<>>
        BY <1>2, <2>1, IdleSound DEF Commit, Finish, TypeOK
    <2>2. CASE plan # <<>>
        <3>1. /\ req'[r].pc = "cache" /\ req'[r].rows = held /\ req'[r].todo = plan
              /\ req'[r].key = k /\ req'[r].kind = kind /\ req'[r].start = req[r].start
            BY <1>2, <2>2, RequestTyped DEF Commit, TypeOK, Request
        <3>2. /\ req[r].start <= clock /\ clock <= req[r].start + MaxLag
              /\ kind \in Modifying \union Inserting => k \in Items
            BY <1>2 DEF IInv, RequestSound
        <3>3. kind # "get"
            BY <1>2 DEF Modifying, Inserting
        <3>4. ASSUME NEW n \in 1 .. Len(plan), plan[n].op = "fill"
              PROVE  /\ plan[n] = Fill(k)
                     /\ held \in Rows(k)
                     /\ ColumnsSince(lastRow', held, req[r].start)
                     /\ k # List
            BY <1>2, <3>4, PlanFills
        <3>5. plan # <<>> /\ clock' = clock
            BY <2>2, <1>4
        <3> HIDE DEF plan, k, kind
        <3>6. QED
            BY <3>1, <3>2, <3>3, <3>4, <3>5 DEF RequestSound, At
    <2>3. QED
        BY <2>1, <2>2
<1>9. \A q \in Requests \ {r} : req'[q] = req[q]
    BY <1>2 DEF Commit, Finish, TypeOK
<1>10. \A q \in Requests : RequestSound(q)'
    BY <1>4, <1>5, <1>8, <1>9, OthersSound
<1>11. QED
    BY <1>3, <1>6, <1>7, <1>10 DEF IInv

\* A request that is over leaves all else as it was.
LEMMA EndSound ==
    ASSUME IInv, NEW r \in Requests,
           WriteFails(r) \/ Answer(r) \/ RequestDies(r)
    PROVE  IInv'
<1>1. /\ Finish(r) /\ UNCHANGED <<clock, table, cache, lastRow>>
      /\ calm' \in {calm, FALSE}
    BY DEF WriteFails, Answer, RequestDies
<1>2. TypeOK'
    BY <1>1, FinishTyped DEF IInv, TypeOK
<1>3. QED
    BY <1>1, <1>2, FinishSound, HistoryStays, EntriesStay DEF IInv

-----------------------------------------------------------------------------
\* After a cache command, sent or lost, the request goes on with the rest.
LEMMA NextCommandSound ==
    ASSUME IInv, NEW r \in Requests, At(r, "cache"), NextCommand(r),
           UNCHANGED <<clock, table, lastRow>>
    PROVE  /\ req' \in [Requests -> Request]
           /\ \A q \in Requests : RequestSound(q)'
<1> DEFINE todo == req[r].todo
           start == req[r].start
           k == req[r].key
           rows == req[r].rows
<1>1. TypeOK /\ InFlight(r) /\ RequestSound(r) /\ todo # <<>> /\ todo \in Seq(Command)
    BY RequestTyped DEF IInv, RequestSound, At, InFlight
<1>2. req' \in [Requests -> Request]
    BY <1>1, NextCommandTyped
<1>3. \A q \in Requests \ {r} : req'[q] = req[q]
    BY <1>1 DEF NextCommand, Finish, TypeOK
<1>4. /\ start <= clock /\ clock <= start + MaxLag /\ start \in Nat
      /\ req[r].kind \in Modifying \union Inserting => k \in Items
    BY <1>1, RequestTyped DEF RequestSound
<1>5. clock' = clock /\ lastRow' = lastRow
    OBVIOUS
<1>6. CASE Len(todo) > 1
    <2>1. /\ req'[r].pc = "cache" /\ req'[r].todo = Tail(todo) /\ req'[r].kind = req[r].kind
          /\ req'[r].key = k /\ req'[r].start = start /\ req'[r].rows = rows
        <3> DEFINE rest == Tail(todo)
                   T == Seq(Command)
        <3>1. req' = [req EXCEPT ![r].todo = rest] /\ req[r].pc = "cache"
            BY <1>6 DEF NextCommand, At
        <3>2. req[r] \in [pc : PC, kind : Kinds \union {"get"}, key : Keys, start : Nat,
                          rows : Snapshot, todo : T] /\ r \in DOMAIN req
            BY <1>1 DEF TypeOK, Request
        <3> HIDE DEF T, todo, rest
        <3>3. req'[r] = [req[r] EXCEPT !.todo = rest]
            BY <3>1, <3>2
        <3>4. QED
            BY <3>1, <3>2, <3>3 DEF rest
    <2>2. req[r].kind # "get"
        BY <1>1, <1>6 DEF RequestSound
    <2>3. /\ Tail(todo) # <<>>
          /\ \A n \in 1 .. Len(Tail(todo)) : n + 1 \in 1 .. Len(todo)
                                              /\ Tail(todo)[n] = todo[n + 1]
        <3> HIDE DEF todo
        <3>1. Len(todo) \in Nat /\ Len(Tail(todo)) = Len(todo) - 1
              /\ \A n \in 1 .. Len(Tail(todo)) : Tail(todo)[n] = todo[n + 1]
            BY <1>1, <1>6
        <3>2. Tail(todo) # <<>>
            <4>1. Len(Tail(todo)) > 0 /\ Len(<<>>) = 0
                BY <3>1, <1>6 DEF todo
            <4>2. QED
                BY <4>1
        <3>3. QED
            BY <3>1, <3>2
    <2>4. \A n \in 1 .. Len(todo) : todo[n].op = "fill" =>
              /\ todo[n] = Fill(k)
              /\ rows \in Rows(k)
              /\ ColumnsSince(lastRow, rows, start)
              /\ k = List => RowsSince(lastRow, rows, start)
        BY <1>1 DEF RequestSound
    <2> HIDE DEF todo, start, k, rows
    <2>5. RequestSound(r)'
        BY <1>4, <1>5, <2>1, <2>2, <2>3, <2>4 DEF RequestSound, At
    <2>6. QED
        BY <1>2, <1>3, <1>5, <2>5, OthersSound, HistoryStays
<1>7. CASE ~(Len(todo) > 1) /\ req[r].kind = "get"
    <2>1. /\ req'[r].pc = "answered" /\ req'[r].kind = "get"
          /\ req'[r].key = k /\ req'[r].start = start /\ req'[r].rows = rows
        BY <1>1, <1>7, RequestTyped DEF NextCommand, TypeOK, Request, At
    <2>2. todo = <<Fill(k)>>
        BY <1>1, <1>7 DEF RequestSound
    <2>3. todo[1].op = "fill" /\ 1 \in 1 .. Len(todo)
        BY <2>2 DEF Fill
    <2>4. /\ rows \in Rows(k) /\ ColumnsSince(lastRow, rows, start)
          /\ k = List => RowsSince(lastRow, rows, start)
        BY <1>1, <2>3 DEF RequestSound
    <2>5. start \in Int /\ Oldest(start + 1) \in Int /\ Oldest(start + 1) <= start
        BY <1>4 DEF Oldest
    <2>6. k \in Keys /\ lastRow \in Histories /\ Extends(lastRow, lastRow)
        BY <1>1, RequestTyped, SelfExtends
    <2>7. /\ ColumnsSince(lastRow, rows, Oldest(start + 1))
          /\ k = List => RowsSince(lastRow, rows, Oldest(start + 1))
        BY <2>4, <2>5, <2>6, StaysSince
    <2>8. "get" \notin Modifying \union Inserting
        BY DEF Modifying, Inserting
    <2> HIDE DEF todo, start, k, rows
    <2>9. RequestSound(r)'
        BY <1>4, <1>5, <2>1, <2>4, <2>7, <2>8 DEF RequestSound, At, Oldest
    <2>10. QED
        BY <1>2, <1>3, <1>5, <2>9, OthersSound, HistoryStays
<1>8. CASE ~(Len(todo) > 1) /\ req[r].kind # "get"
    BY <1>2, <1>8, FinishSound DEF NextCommand
<1>9. QED
    BY <1>6, <1>7, <1>8

LEMMA CommandSound ==
    ASSUME IInv, NEW r \in Requests, CacheCommand(r) \/ CacheCommandLost(r)
    PROVE  IInv'
<1>1. /\ At(r, "cache") /\ NextCommand(r) /\ UNCHANGED <<clock, table, lastRow>>
      /\ calm' \in {calm, FALSE} /\ TypeOK /\ calm \in BOOLEAN
    BY DEF CacheCommand, CacheCommandLost, IInv, TypeOK
<1>2. /\ req' \in [Requests -> Request]
      /\ \A q \in Requests : RequestSound(q)'
    BY <1>1, NextCommandSound
<1>3. cache' \in [Keys -> Entry] /\ \A k \in Keys : EntrySound(k)'
    <2>1. CASE CacheCommandLost(r)
        BY <1>1, <2>1, EntriesStay DEF CacheCommandLost, TypeOK
    <2>2. CASE CacheCommand(r)
        <3> DEFINE c == Head(req[r].todo)
                   rows == req[r].rows
        <3>1. /\ req[r].todo # <<>> /\ req[r].todo \in Seq(Command)
              /\ InFlight(r) /\ RequestSound(r) /\ rows \in Snapshot
            BY <1>1, RequestTyped DEF IInv, RequestSound, At, InFlight
        <3>2. c = req[r].todo[1] /\ 1 \in 1 .. Len(req[r].todo) /\ c \in Command
            BY <3>1
        <3>3. cache' = Applied(c, rows)
            BY <2>2 DEF CacheCommand
        <3>4. /\ NoEntry \in Entry /\ clock \in Nat
              /\ [rows |-> rows, until |-> clock + TTL] \in Entry
            BY <1>1, <3>1, SnapshotFacts DEF NoEntry, Entry, TypeOK
        <3> HIDE DEF c, rows
        <3>5. cache' \in [Keys -> Entry]
            BY <1>1, <3>3, <3>4 DEF Applied, TypeOK
        <3>6. ASSUME NEW k \in Keys PROVE EntrySound(k)'
            <4>1. CASE k \in c.keys /\ c.op # "drop"
                <5> DEFINE start == req[r].start
                           until == clock + TTL
                <5>1. c.op = "fill"
                    BY <4>1, <3>2 DEF Command
                <5>2. /\ c = Fill(req[r].key) /\ rows \in Rows(req[r].key)
                      /\ ColumnsSince(lastRow, rows, start)
                      /\ req[r].key = List => RowsSince(lastRow, rows, start)
                    BY <1>1, <3>1, <3>2, <5>1 DEF RequestSound, rows
                <5>3. k = req[r].key
                    BY <4>1, <5>2 DEF Fill
                <5>4. start \in Nat /\ start <= clock /\ clock <= start + MaxLag
                    BY <1>1, <3>1, RequestTyped DEF RequestSound
                <5>5. Oldest(until) \in Int /\ Oldest(until) <= start /\ start \in Int
                      /\ clock < until
                    BY <3>4, <5>4 DEF Oldest
                <5>6. /\ ColumnsSince(lastRow, rows, Oldest(until))
                      /\ k = List => RowsSince(lastRow, rows, Oldest(until))
                    BY <1>1, <5>2, <5>3, <5>5, SelfExtends, StaysSince
                <5>7. cache'[k] = [rows |-> rows, until |-> until]
                    BY <3>3, <4>1 DEF Applied
                <5> HIDE DEF until
                <5>8. cache'[k].rows = rows /\ cache'[k].until = until
                    BY <5>7
                <5>9. QED
                    BY <1>1, <5>2, <5>3, <5>5, <5>6, <5>8 DEF EntrySound, Oldest
            <4>2. CASE ~(k \in c.keys /\ c.op # "drop")
                <5>1. cache'[k] \in {cache[k], NoEntry}
                    BY <3>3, <4>2 DEF Applied
                <5>2. cache'[k] # NoEntry => clock' < cache'[k].until
                    BY <1>1, <5>1, HistoryStays
                <5>3. QED
                    BY <1>1, <5>1, <5>2, HistoryStays, EntryStays
            <4>3. QED
                BY <4>1, <4>2
        <3>7. QED
            BY <3>5, <3>6
    <2>3. QED
        BY <2>1, <2>2
<1>4. TypeOK'
    BY <1>1, <1>2, <1>3 DEF TypeOK
<1>5. QED
    BY <1>1, <1>2, <1>3, <1>4, HistoryStays DEF IInv

LEMMA TickSound ==
    ASSUME IInv, Tick
    PROVE  IInv'
<1>1. TypeOK /\ HistorySound /\ clock \in Nat /\ clock' = clock + 1 /\ clock' \in Nat
      /\ table' = table /\ req' = req /\ calm' = calm
    <2>1. TypeOK /\ HistorySound /\ clock \in Nat
        BY DEF IInv, TypeOK
    <2>2. QED
        BY <2>1 DEF Tick
<1>2. \A i \in Items, row \in RowOrGone :
          lastRow'[i][row] = IF row = table[i] THEN clock + 1 ELSE lastRow[i][row]
    BY <1>1 DEF TypeOK, Tick, RowOrGone
<1>3. lastRow' \in Histories
    BY <1>1 DEF TypeOK, Tick, Histories, RowOrGone
<1>4. Extends(lastRow, lastRow') /\ HistorySound'
    BY <1>1, <1>2 DEF TypeOK, HistorySound, Extends, RowOrGone
<1>5. cache' \in [Keys -> Entry]
    <2>1. NoEntry \in Entry
        BY SnapshotFacts DEF NoEntry, Entry
    <2>2. QED
        BY <1>1, <2>1 DEF TypeOK, Tick
<1>6. TypeOK'
    BY <1>1, <1>3, <1>5 DEF TypeOK, Histories, RowOrGone
<1>7. ASSUME NEW q \in Requests PROVE RequestSound(q)'
    <2>1. req'[q] = req[q] /\ clock <= clock'
        BY <1>1
    <2>2. InFlight(q) => clock' <= req[q].start + MaxLag
        BY <1>1, RequestTyped DEF Tick
    <2>3. QED
        BY <1>1, <1>3, <1>4, <2>1, <2>2, RequestStays
<1>8. ASSUME NEW k \in Keys PROVE EntrySound(k)'
    <2>1. /\ cache'[k] \in {cache[k], NoEntry}
          /\ cache'[k] # NoEntry => ~(cache[k].until <= clock + 1) /\ cache'[k] = cache[k]
        BY <1>1 DEF Tick, TypeOK
    <2>2. cache[k].until \in Nat
        BY <1>1 DEF TypeOK, Entry
    <2>3. cache'[k] # NoEntry => clock' < cache'[k].until
        BY <1>1, <2>1, <2>2
    <2>4. QED
        BY <1>3, <1>4, <2>1, <2>3, EntryStays
<1>9. QED
    BY <1>4, <1>6, <1>7, <1>8 DEF IInv

LEMMA ForgetSound ==
    ASSUME IInv, NEW k \in Keys, RedisForgets(k)
    PROVE  IInv'
<1>1. UNCHANGED <<clock, table, req, lastRow, calm>> /\ TypeOK
    BY DEF RedisForgets, IInv
<1>2. NoEntry \in Entry
    BY SnapshotFacts DEF NoEntry, Entry
<1>3. TypeOK' /\ \A j \in Keys : cache'[j] \in {cache[j], NoEntry}
    BY <1>1, <1>2 DEF RedisForgets, TypeOK
<1>4. \A q \in Requests : RequestSound(q)'
    <2>1. ASSUME NEW q \in Requests PROVE RequestSound(q)'
        BY <1>1, HistoryStays, RequestStays
    <2>2. QED
        BY <2>1
<1>5. QED
    BY <1>1, <1>3, <1>4, HistoryStays, EntriesStay DEF IInv

LEMMA StutterSound ==
    ASSUME IInv, UNCHANGED vars
    PROVE  IInv'
<1>1. UNCHANGED <<clock, table, cache, req, lastRow, calm>>
    BY DEF vars
<1>2. QED
    BY ZenonT(40), <1>1 DEF IInv, TypeOK, HistorySound, RequestSound, EntrySound, InFlight, At

-----------------------------------------------------------------------------
(***************************************************************************)
(* Theorems.                                                               *)
(***************************************************************************)
\* Rows in flight and rows in Redis are as old as the inductive invariant
\* says, whatever the interleaving of reads, writes and lost commands.
THEOREM InductiveInvariant == Spec => []IInv
<1>1. Init => IInv
    <2> SUFFICES ASSUME Init PROVE IInv
        OBVIOUS
    <2>1. Idle \in Request /\ NoEntry \in Entry
        BY SnapshotFacts DEF Idle, Request, PC, Keys, NoEntry, Entry
    <2>2. TypeOK
        BY <2>1 DEF Init, TypeOK
    <2>3. HistorySound
        BY DEF Init, HistorySound
    <2>4. \A r \in Requests : RequestSound(r)
        BY DEF Init, RequestSound, InFlight, At, Idle
    <2>5. \A k \in Keys : EntrySound(k)
        BY DEF Init, EntrySound
    <2>6. QED
        BY <2>2, <2>3, <2>4, <2>5 DEF IInv
<1>2. IInv /\ [Next]_vars => IInv'
    <2> SUFFICES ASSUME IInv, [Next]_vars PROVE IInv'
        OBVIOUS
    <2>1. CASE UNCHANGED vars
        BY <2>1, StutterSound
    <2>2. ASSUME NEW r \in Requests, Read(r) PROVE IInv'
        BY <2>2, ReadSound
    <2>3. ASSUME NEW r \in Requests, Write(r) PROVE IInv'
        BY <2>3, StartSound, CommitSound, EndSound DEF Write, Commits
    <2>4. ASSUME NEW r \in Requests, CacheCommand(r) \/ CacheCommandLost(r) PROVE IInv'
        BY <2>4, CommandSound
    <2>5. ASSUME NEW r \in Requests, Answer(r) \/ RequestDies(r) PROVE IInv'
        BY <2>5, EndSound
    <2>6. ASSUME NEW k \in Keys, RedisForgets(k) PROVE IInv'
        BY <2>6, ForgetSound
    <2>7. CASE Tick
        BY <2>7, TickSound
    <2>8. QED
        BY <2>1, <2>2, <2>3, <2>4, <2>5, <2>6, <2>7 DEF Next
<1>3. QED
    BY <1>1, <1>2, PTL DEF Spec

\* No column of an answer is older than one time to live and the stay of one
\* request, though no lock orders cache commands and any may be lost.
THEOREM StalenessIsBounded == Spec => []StaleReadBounded
<1>1. IInv => StaleReadBounded
    BY DEF IInv, RequestSound, StaleReadBounded, InFlight, At
<1>2. QED
    BY <1>1, InductiveInvariant, PTL

\* A list that is answered names rows the table had, each of them whole.
THEOREM ListsHoldRows == Spec => []ListRowsWereRows
<1>1. IInv => ListRowsWereRows
    BY DEF IInv, RequestSound, ListRowsWereRows, InFlight, At
<1>2. QED
    BY <1>1, InductiveInvariant, PTL

-----------------------------------------------------------------------------
(***************************************************************************)
(* The calm: requests come one at a time and Redis answers.                *)
(***************************************************************************)
Names(todo, k) == \E n \in 1 .. Len(todo) : k \in todo[n].keys

\* Every write names, in its commands, the keys of what it changed.
LEMMA PlanNames ==
    ASSUME NEW kind \in Kinds, kind # "signup", NEW i, NEW ids
    PROVE  LET plan == Plan(kind, i, ids)
           IN  /\ plan # <<>>
               /\ kind \in {"create", "patch", "append", "delete", "upsert"} =>
                     Names(plan, i) /\ Names(plan, List)
               /\ kind = "reset" => \A k \in ids \union {List} : Names(plan, k)
<1> DEFINE plan == Plan(kind, i, ids)
<1>1. \A S : Drop(S).keys = S
    BY DEF Drop
<1>2. Fill(i).keys = {i}
    BY DEF Fill
<1>3. ASSUME NEW a, NEW b, NEW k, k \in a.keys \union b.keys
      PROVE  <<a, b>> # <<>> /\ Names(<<a, b>>, k)
    <2>1. Len(<<a, b>>) = 2 /\ <<a, b>>[1] = a /\ <<a, b>>[2] = b
          /\ 1 \in 1 .. 2 /\ 2 \in 1 .. 2
        OBVIOUS
    <2>2. <<a, b>> # <<>>
        OBVIOUS
    <2>3. QED
        BY <1>3, <2>1, <2>2 DEF Names
<1>4. ASSUME NEW a PROVE <<a>> # <<>> /\ \A k \in a.keys : Names(<<a>>, k)
    <2>1. Len(<<a>>) = 1 /\ <<a>>[1] = a /\ 1 \in 1 .. 1
        OBVIOUS
    <2>2. <<a>> # <<>>
        OBVIOUS
    <2>3. QED
        BY <2>1, <2>2 DEF Names
<1>5. CASE kind \in {"create", "patch"} /\ plan = <<Drop({List}), Fill(i)>>
    <2>1. i \in Drop({List}).keys \union Fill(i).keys
          /\ List \in Drop({List}).keys \union Fill(i).keys
        BY <1>1, <1>2
    <2>2. Names(plan, i) /\ Names(plan, List) /\ plan # <<>>
        BY <1>3, <1>5, <2>1
    <2>3. QED
        BY <1>5, <2>2
<1>6. CASE kind \in {"delete", "append"} /\ plan = <<Drop({i}), Drop({List})>>
    <2>1. i \in Drop({i}).keys \union Drop({List}).keys
          /\ List \in Drop({i}).keys \union Drop({List}).keys
        BY <1>1
    <2>2. Names(plan, i) /\ Names(plan, List) /\ plan # <<>>
        BY <1>3, <1>6, <2>1
    <2>3. QED
        BY <1>6, <2>2
<1>7. CASE kind = "password" /\ plan = <<Drop({i})>>
    BY <1>4, <1>7
<1>8. CASE kind = "upsert" /\ plan = <<Drop({i, List})>>
    BY <1>1, <1>4, <1>8
<1>9. CASE kind = "reset" /\ plan = <<Drop(ids \union {List})>>
    BY <1>1, <1>4, <1>9
<1> HIDE DEF plan
<1>10. \/ kind \in {"create", "patch"} /\ plan = <<Drop({List}), Fill(i)>>
       \/ kind \in {"delete", "append"} /\ plan = <<Drop({i}), Drop({List})>>
       \/ kind = "password" /\ plan = <<Drop({i})>>
       \/ kind = "upsert" /\ plan = <<Drop({i, List})>>
       \/ kind = "reset" /\ plan = <<Drop(ids \union {List})>>
    BY PlanIs, kind # "signup" DEF plan
<1>11. QED
    BY <1>5, <1>6, <1>7, <1>8, <1>9, <1>10 DEF plan

\* In a calm, what a write commits and holds: it changes its own item only,
\* or those it listed, and holds the row it leaves in the table.
CommitsCalmly(r, new, held, ids) ==
    LET k == req[r].key
        kind == req[r].kind
    IN  /\ new \in [Items -> RowOrGone]
        /\ ids \in SUBSET Items
        /\ kind \in Kinds
        /\ k \in Keys
        /\ At(r, "write")
        /\ Commit(r, new, held, ids)
        /\ kind \in {"create", "patch"} => k \in Items /\ held = [j \in {k} |-> new[j]]
        /\ kind = "reset" => \A i \in Items : new[i] # table[i] => i \in ids
        /\ kind = "password" => new = table
        /\ kind # "reset" => \A i \in Items \ {k} : new[i] = table[i]

LEMMA MergedWithItself ==
    ASSUME NEW read \in Row, NEW new \in Row
    PROVE  Merged(read, read, new) = new
    BY DEF Merged, Row

LEMMA ModifyCommitsCalmly ==
    ASSUME IInv, CalmInv, calm, NEW r \in Requests, Modify(r)
    PROVE  \E new, held, ids : CommitsCalmly(r, new, held, ids)
<1> DEFINE i == req[r].key
           kind == req[r].kind
           read == req[r].rows[i]
<1>1. /\ TypeOK /\ At(r, "write") /\ kind \in {"patch", "append", "upsert"}
      /\ kind \in Kinds /\ kind \in Modifying /\ InFlight(r) /\ RequestSound(r)
    BY RequestTyped DEF IInv, Modify, Modifying, At, InFlight
<1>2. i \in Items /\ i \in Keys /\ req[r].rows = Selected(i)
    BY <1>1 DEF RequestSound, CalmInv, HoldsCurrent, Keys
<1>3. read = table[i]
    BY <1>2 DEF Selected, Covers
<1>4. read \in Row
    BY <1>1, <1>2, <1>3 DEF Modify, TypeOK
<1> DEFINE t(new) == IF new = read THEN table
                     ELSE [table EXCEPT ![i] = Merged(@, read, new)]
           h(new) == IF kind = "patch" THEN [j \in {i} |-> new] ELSE NoRows
<1>5. PICK new \in Row : Commit(r, t(new), h(new), {})
    BY DEF Modify
<1>6. t(new) = [table EXCEPT ![i] = new]
    BY <1>1, <1>2, <1>3, <1>4, MergedWithItself DEF TypeOK
<1>7. /\ t(new) \in [Items -> RowOrGone]
      /\ t(new)[i] = new
      /\ \A j \in Items \ {i} : t(new)[j] = table[j]
    BY <1>1, <1>2, <1>6 DEF TypeOK, RowOrGone
<1>8. kind = "patch" => h(new) = [j \in {i} |-> t(new)[j]]
    BY <1>7
<1> HIDE DEF t, h
<1>9. CommitsCalmly(r, t(new), h(new), {})
    BY <1>1, <1>2, <1>5, <1>7, <1>8 DEF CommitsCalmly
<1>10. QED
    BY <1>9

LEMMA WriteCommitsCalmly ==
    ASSUME IInv, CalmInv, calm, NEW r \in Requests, Commits(r)
    PROVE  \E new, held, ids : CommitsCalmly(r, new, held, ids)
<1> DEFINE i == req[r].key
<1>1. /\ TypeOK /\ i \in Keys /\ {} \in SUBSET Items
      /\ At(r, "write") => InFlight(r)
      /\ RequestSound(r)
    BY RequestTyped DEF IInv, At, InFlight
<1>2. CASE Modify(r)
    BY <1>2, ModifyCommitsCalmly
<1>3. CASE Insert(r)
    <2>1. req[r].kind \in Inserting /\ At(r, "write") /\ req[r].kind \in Kinds /\ i \in Items
        BY <1>1, <1>3, RequestTyped DEF Insert, RequestSound, Inserting
    <2>2. PICK new \in Row : Commit(r, [table EXCEPT ![i] = new], [j \in {i} |-> new], {})
        BY <1>3 DEF Insert
    <2> DEFINE t == [table EXCEPT ![i] = new]
               h == [j \in {i} |-> new]
    <2>3. /\ t \in [Items -> RowOrGone] /\ t[i] = new
          /\ \A j \in Items \ {i} : t[j] = table[j]
        BY <1>1, <2>1 DEF TypeOK, RowOrGone
    <2>4. h = [j \in {i} |-> t[j]]
        BY <2>3
    <2>5. Commit(r, t, h, {})
        BY <2>2
    <2> HIDE DEF t, h
    <2>6. CommitsCalmly(r, t, h, {})
        BY <1>1, <2>1, <2>3, <2>4, <2>5 DEF CommitsCalmly, Inserting
    <2>7. QED
        BY <2>6
<1>4. CASE SetPassword(r)
    <2>1. CommitsCalmly(r, table, NoRows, {})
        BY <1>1, <1>4, RequestTyped DEF SetPassword, CommitsCalmly, TypeOK, RowOrGone
    <2>2. QED
        BY <2>1
<1>5. CASE Delete(r)
    <2> DEFINE t == [table EXCEPT ![i] = Gone]
    <2>1. t \in [Items -> RowOrGone] /\ \A j \in Items \ {i} : t[j] = table[j]
        BY <1>1 DEF TypeOK, RowOrGone
    <2>2. Commit(r, t, NoRows, {}) /\ At(r, "write") /\ req[r].kind = "delete"
          /\ req[r].kind \in Kinds
        BY <1>5, <1>1, RequestTyped DEF Delete
    <2> HIDE DEF t
    <2>3. CommitsCalmly(r, t, NoRows, {})
        BY <1>1, <2>1, <2>2 DEF CommitsCalmly
    <2>4. QED
        BY <2>3
<1>6. CASE UpsertInserts(r)
    <2>1. PICK new \in Row : Commit(r, [table EXCEPT ![i] = new], NoRows, {})
        BY <1>6 DEF UpsertInserts
    <2> DEFINE t == [table EXCEPT ![i] = new]
    <2>2. t \in [Items -> RowOrGone] /\ \A j \in Items \ {i} : t[j] = table[j]
        BY <1>1 DEF TypeOK, RowOrGone
    <2>3. Commit(r, t, NoRows, {}) /\ At(r, "write") /\ req[r].kind = "upsert"
          /\ req[r].kind \in Kinds
        BY <1>6, <1>1, <2>1, RequestTyped DEF UpsertInserts
    <2> HIDE DEF t
    <2>4. CommitsCalmly(r, t, NoRows, {})
        BY <1>1, <2>2, <2>3 DEF CommitsCalmly
    <2>5. QED
        BY <2>4
<1>7. CASE Reset(r)
    <2> DEFINE t(c, v) == [j \in Items |-> IF table[j] = Gone THEN Gone
                                          ELSE [table[j] EXCEPT ![c] = v]]
               ids == {j \in Items : req[r].rows[j] # Gone}
    <2>1. PICK c \in Columns, v \in Values : Commit(r, t(c, v), NoRows, ids)
        BY <1>7 DEF Reset
    <2>2. At(r, "write") /\ req[r].kind = "reset" /\ req[r].kind \in Kinds
        BY <1>1, <1>7, RequestTyped DEF Reset
    <2>3. i = List /\ req[r].rows = Selected(i)
        BY <2>2 DEF CalmInv, HoldsCurrent
    <2>4. \A j \in Items : t(c, v)[j] # table[j] => j \in ids
        BY <2>3 DEF Selected, Covers
    <2>5. t(c, v) \in [Items -> RowOrGone]
        <3>1. ASSUME NEW j \in Items, table[j] # Gone
              PROVE  [table[j] EXCEPT ![c] = v] \in Row
            BY <3>1, <1>1 DEF TypeOK, Row
        <3>2. QED
            BY <3>1 DEF RowOrGone
    <2>6. ids \in SUBSET Items
        OBVIOUS
    <2> HIDE DEF t, ids
    <2>7. CommitsCalmly(r, t(c, v), NoRows, ids)
        BY <1>1, <2>1, <2>2, <2>4, <2>5, <2>6 DEF CommitsCalmly
    <2>8. QED
        BY <2>7
<1>8. QED
    BY <1>2, <1>3, <1>4, <1>5, <1>6, <1>7 DEF Commits

\* Nobody is in flight but r, whose new state must be shown sound.
LEMMA CalmStep ==
    ASSUME NEW r \in Requests, \A q \in Requests \ {r} : req'[q].pc = "idle",
           HoldsCurrent(r)',
           \A k \in Keys : (cache[k] = NoEntry \/ cache[k].rows = Selected(k)
                            \/ Pending(r, k))'
    PROVE  CalmInv'
<1>1. Alone'
    BY DEF Alone, InFlight, At
<1>2. \A q \in Requests : HoldsCurrent(q)'
    BY DEF HoldsCurrent, At
<1>3. QED
    BY <1>1, <1>2 DEF CalmInv

\* In a calm with nobody in flight, or none but one who sends nothing, the
\* cache agrees with the table.
LEMMA CalmAgrees ==
    ASSUME CalmInv, calm, \A r \in Requests : ~At(r, "cache")
    PROVE  \A k \in Keys : cache[k] = NoEntry \/ cache[k].rows = Selected(k)
    BY DEF CalmInv, Pending

LEMMA CalmEnter ==
    ASSUME IInv, CalmInv, calm, calm', NEW r \in Requests, NEW pc, NEW kind, NEW k, NEW rows,
           Enter(r, pc, kind, k, rows), UNCHANGED <<clock, table, cache, lastRow>>,
           pc # "cache",
           pc = "write" /\ kind \in Modifying \union {"reset"} => rows = Selected(k),
           pc = "write" /\ kind = "reset" => k = List
    PROVE  CalmInv'
<1>1. \A q \in Requests : ~InFlight(q)
    BY DEF Enter, IInv, TypeOK
<1>2. /\ req'[r].pc = pc /\ req'[r].kind = kind /\ req'[r].key = k /\ req'[r].rows = rows
      /\ \A q \in Requests \ {r} : req'[q] = req[q]
    BY DEF Enter, IInv, TypeOK
<1>3. \A q \in Requests \ {r} : req'[q].pc = "idle"
    BY <1>1, <1>2 DEF InFlight, At
<1>4. \A j \in Keys : cache[j] = NoEntry \/ cache[j].rows = Selected(j)
    BY <1>1, CalmAgrees DEF InFlight, At
<1>5. \A j \in Keys : (cache[j] = NoEntry \/ cache[j].rows = Selected(j))'
    BY <1>4 DEF Selected
<1>6. HoldsCurrent(r)'
    BY <1>2 DEF HoldsCurrent, At, Selected
<1>7. QED
    BY <1>3, <1>5, <1>6, CalmStep

LEMMA CalmFinish ==
    ASSUME IInv, CalmInv, calm, NEW r \in Requests, Finish(r), InFlight(r), ~At(r, "cache"),
           UNCHANGED <<clock, table, cache, lastRow>>
    PROVE  CalmInv'
<1>1. \A q \in Requests \ {r} : req[q].pc = "idle"
    BY DEF CalmInv, Alone, InFlight, At
<1>2. req'[r] = Idle /\ \A q \in Requests \ {r} : req'[q] = req[q]
    BY DEF Finish, IInv, TypeOK
<1>3. \A j \in Keys : cache[j] = NoEntry \/ cache[j].rows = Selected(j)
    BY <1>1, CalmAgrees DEF At
<1>4. \A j \in Keys : (cache[j] = NoEntry \/ cache[j].rows = Selected(j))'
    BY <1>3 DEF Selected
<1>5. HoldsCurrent(r)'
    BY <1>2 DEF HoldsCurrent, At, Idle
<1>6. QED
    BY <1>1, <1>2, <1>4, <1>5, CalmStep

LEMMA CalmCommit ==
    ASSUME IInv, CalmInv, calm, NEW r \in Requests, Commits(r), "signup" \notin Kinds
    PROVE  CalmInv'
<1>1. PICK new, held, ids : CommitsCalmly(r, new, held, ids)
    BY WriteCommitsCalmly
<1> DEFINE k == req[r].key
           kind == req[r].kind
           plan == Plan(kind, k, ids)
<1>2. /\ new \in [Items -> RowOrGone] /\ ids \in SUBSET Items
      /\ kind \in Kinds /\ k \in Keys /\ At(r, "write") /\ kind # "signup"
      /\ Commit(r, new, held, ids)
      /\ kind \in {"create", "patch"} => k \in Items /\ held = [j \in {k} |-> new[j]]
      /\ kind = "reset" => \A i \in Items : new[i] # table[i] => i \in ids
      /\ kind = "password" => new = table
      /\ kind # "reset" => \A i \in Items \ {k} : new[i] = table[i]
    BY <1>1 DEF CommitsCalmly
<1>3. /\ plan # <<>>
      /\ kind \in {"create", "patch", "append", "delete", "upsert"} =>
            Names(plan, k) /\ Names(plan, List)
      /\ kind = "reset" => \A j \in ids \union {List} : Names(plan, j)
    BY <1>2, PlanNames
<1>4. /\ req'[r].pc = "cache" /\ req'[r].rows = held /\ req'[r].todo = plan
      /\ req'[r].key = k /\ req'[r].kind = kind
      /\ \A q \in Requests \ {r} : req'[q] = req[q]
      /\ cache' = cache /\ table' = new
    BY <1>2, <1>3, RequestTyped DEF Commit, IInv, TypeOK, Request
<1>5. \A q \in Requests \ {r} : req[q].pc = "idle"
    BY <1>2 DEF CalmInv, Alone, InFlight, At
<1>6. \A j \in Keys : cache[j] = NoEntry \/ cache[j].rows = Selected(j)
    BY <1>2, <1>5, CalmAgrees DEF At
<1>7. HoldsCurrent(r)'
    <2>1. ASSUME NEW n \in 1 .. Len(plan), plan[n].op = "fill"
          PROVE  held = Selected(k)'
        <3>1. kind \in {"create", "patch"}
            BY <1>2, <2>1, PlanFills
        <3>2. k \in Items /\ held = [j \in {k} |-> new[j]] /\ k # List
            BY <1>2, <3>1
        <3>3. QED
            BY <1>4, <3>2 DEF Selected, Covers
    <2> HIDE DEF plan
    <2>2. req'[r].pc # "write" /\ req'[r].rows = held /\ req'[r].todo = plan
          /\ req'[r].key = k
        BY <1>4
    <2>3. QED
        BY <2>1, <2>2 DEF HoldsCurrent, At
<1>8. ASSUME NEW j \in Keys
      PROVE  (cache[j] = NoEntry \/ cache[j].rows = Selected(j) \/ Pending(r, j))'
    <2>1. kind \in {"create", "patch", "append", "delete", "upsert", "password", "reset"}
        BY <1>2 DEF Modifying, Inserting
    <2>2. CASE Names(plan, j)
        <3> HIDE DEF plan
        <3>1. QED
            BY <1>4, <2>2 DEF Names, Pending, At
    <2>3. CASE ~Names(plan, j)
        <3>1. \A i \in Covers(j) : i \in Items
            BY DEF Covers, Keys
        <3>2. \A i \in Covers(j) : new[i] = table[i]
            <4>1. CASE kind = "password"
                BY <4>1, <1>2
            <4>2. CASE kind = "reset"
                <5>1. j \notin ids /\ j # List
                    BY <1>3, <2>3, <4>2
                <5>2. QED
                    BY <5>1, <1>2, <4>2, <3>1 DEF Covers
            <4>3. CASE kind \in {"create", "patch", "append", "delete", "upsert"}
                <5>1. j # k /\ j # List
                    BY <1>3, <2>3, <4>3
                <5>2. QED
                    BY <5>1, <1>2, <4>3, <3>1 DEF Covers
            <4>4. QED
                BY <2>1, <4>1, <4>2, <4>3
        <3>3. Selected(j)' = Selected(j)
            BY <1>4, <3>2 DEF Selected
        <3>4. QED
            BY <1>4, <1>6, <3>3
    <2>4. QED
        BY <2>2, <2>3
<1>9. QED
    BY <1>4, <1>5, <1>7, <1>8, CalmStep

LEMMA CalmRead ==
    ASSUME IInv, CalmInv, calm, calm', NEW r \in Requests, Read(r)
    PROVE  CalmInv'
<1>1. ASSUME NEW k \in Keys, GetHit(r, k) PROVE CalmInv'
    <2>1. Enter(r, "answered", "get", k, cache[k].rows)
          /\ UNCHANGED <<clock, table, cache, lastRow>>
        BY <1>1 DEF GetHit
    <2>2. QED
        BY <2>1, CalmEnter
<1>2. ASSUME NEW k \in Keys, GetMiss(r, k) PROVE CalmInv'
    <2>1. Enter(r, "select", "get", k, NoRows)
          /\ UNCHANGED <<clock, table, cache, lastRow>>
        BY <1>2 DEF GetMiss
    <2>2. QED
        BY <2>1, CalmEnter
<1>3. CASE Select(r)
    <2> DEFINE k == req[r].key
    <2>1. At(r, "select") /\ ~At(r, "cache") /\ InFlight(r) /\ k \in Keys
          /\ UNCHANGED <<clock, table, cache, lastRow, calm>>
        BY <1>3, RequestTyped DEF Select, At, InFlight, IInv
    <2>2. CASE Finish(r)
        BY <2>1, <2>2, CalmFinish
    <2>3. CASE req' = [req EXCEPT ![r].pc = "cache", ![r].rows = Selected(k),
                                  ![r].todo = <<Fill(k)>>]
        <3>1. /\ req'[r].pc = "cache" /\ req'[r].rows = Selected(k) /\ req'[r].key = k
              /\ \A q \in Requests \ {r} : req'[q] = req[q]
            BY <2>3, RequestTyped DEF IInv, TypeOK, Request
        <3>2. \A q \in Requests \ {r} : req[q].pc = "idle"
            BY <2>1 DEF CalmInv, Alone, InFlight, At
        <3>3. \A j \in Keys : cache[j] = NoEntry \/ cache[j].rows = Selected(j)
            BY <2>1, <3>2, CalmAgrees DEF At
        <3>4. \A j \in Keys : (cache[j] = NoEntry \/ cache[j].rows = Selected(j))'
            BY <2>1, <3>3 DEF Selected
        <3>5. HoldsCurrent(r)'
            BY <2>1, <3>1 DEF HoldsCurrent, At, Selected
        <3>6. QED
            BY <3>1, <3>2, <3>4, <3>5, CalmStep
    <2>4. QED
        BY <1>3, <2>2, <2>3 DEF Select
<1>4. QED
    BY <1>1, <1>2, <1>3 DEF Read

LEMMA CalmWrite ==
    ASSUME IInv, CalmInv, calm, calm', NEW r \in Requests, Write(r), "signup" \notin Kinds
    PROVE  CalmInv'
<1>1. ASSUME NEW i \in Items, NEW kind \in Kinds, ReadRow(r, i, kind) PROVE CalmInv'
    <2>1. kind # "reset"
        BY <1>1 DEF ReadRow, Modifying
    <2>2. Enter(r, "write", kind, i, Selected(i))
          /\ UNCHANGED <<clock, table, cache, lastRow>>
        BY <1>1 DEF ReadRow
    <2>3. QED
        BY <2>1, <2>2, CalmEnter
<1>2. ASSUME NEW i \in Items, NEW kind \in Kinds, StartInsert(r, i, kind) PROVE CalmInv'
    <2>1. kind \notin Modifying \union {"reset"} /\ kind # "reset"
        BY <1>2 DEF StartInsert, Modifying, Inserting
    <2>2. Enter(r, "write", kind, i, NoRows)
          /\ UNCHANGED <<clock, table, cache, lastRow>>
        BY <1>2 DEF StartInsert
    <2>3. QED
        BY <2>1, <2>2, CalmEnter
<1>3. CASE StartReset(r)
    <2>1. Enter(r, "write", "reset", List, Selected(List))
          /\ UNCHANGED <<clock, table, cache, lastRow>>
        BY <1>3 DEF StartReset
    <2>2. QED
        BY <2>1, CalmEnter
<1>4. CASE Commits(r)
    BY <1>4, CalmCommit
<1>5. CASE WriteFails(r)
    BY <1>5, CalmFinish DEF WriteFails, At, InFlight
<1>6. QED
    BY <1>1, <1>2, <1>3, <1>4, <1>5 DEF Write, Commits

LEMMA CalmCommand ==
    ASSUME IInv, CalmInv, calm, calm', NEW r \in Requests,
           CacheCommand(r) \/ CacheCommandLost(r)
    PROVE  CalmInv'
<1> DEFINE todo == req[r].todo
           k == req[r].key
           rows == req[r].rows
<1>1. CacheCommand(r)
    BY DEF CacheCommandLost
<1>2. /\ At(r, "cache") /\ InFlight(r) /\ NextCommand(r) /\ TypeOK
      /\ UNCHANGED <<clock, table, lastRow, calm>>
      /\ cache' = Applied(Head(todo), rows)
      /\ RequestSound(r) /\ HoldsCurrent(r)
    BY <1>1 DEF CacheCommand, At, InFlight, IInv, CalmInv
<1>3. /\ todo # <<>> /\ todo \in Seq(Command) /\ Len(todo) \in Nat
      /\ Head(todo) = todo[1] /\ 1 \in 1 .. Len(todo) /\ todo[1] \in Command
    <2>1. todo # <<>> /\ todo \in Seq(Command)
        BY <1>2, RequestTyped DEF RequestSound
    <2> HIDE DEF todo
    <2>2. QED
        BY <2>1
<1>4. \A n \in 1 .. Len(todo) : todo[n].op = "fill" =>
          todo[n] = Fill(k) /\ rows = Selected(k)
    BY <1>2 DEF RequestSound, HoldsCurrent
<1>5. \A q \in Requests \ {r} : req[q].pc = "idle"
    BY <1>2 DEF CalmInv, Alone, InFlight, At
<1>6. \A q \in Requests \ {r} : req'[q] = req[q]
    BY <1>2 DEF NextCommand, Finish, TypeOK
<1>7. ASSUME NEW j \in Keys, j \in todo[1].keys
      PROVE  (cache[j] = NoEntry \/ cache[j].rows = Selected(j))'
    <2>1. CASE todo[1].op = "drop"
        BY <1>2, <1>3, <1>7, <2>1 DEF Applied
    <2>2. CASE todo[1].op # "drop"
        <3>1. todo[1].op = "fill"
            BY <1>3, <2>2 DEF Command
        <3>2. todo[1] = Fill(k) /\ rows = Selected(k)
            BY <1>3, <1>4, <3>1
        <3>3. j = k
            BY <1>7, <3>2 DEF Fill
        <3>4. cache'[j] = [rows |-> rows, until |-> clock + TTL]
            BY <1>2, <1>3, <1>7, <2>2 DEF Applied
        <3>5. cache'[j].rows = Selected(j)
            BY <3>2, <3>3, <3>4
        <3>6. QED
            BY <1>2, <3>5 DEF Selected
    <2>3. QED
        BY <2>1, <2>2
<1>8. ASSUME NEW j \in Keys, j \notin todo[1].keys
      PROVE  /\ cache'[j] = cache[j]
             /\ cache[j] = NoEntry \/ cache[j].rows = Selected(j)
                \/ \E n \in 1 .. Len(todo) : n # 1 /\ j \in todo[n].keys
    <2>1. cache'[j] = cache[j]
        BY <1>2, <1>3, <1>8 DEF Applied
    <2>2. cache[j] = NoEntry \/ cache[j].rows = Selected(j)
          \/ \E q \in Requests : Pending(q, j)
        BY DEF CalmInv
    <2>3. \A q \in Requests : Pending(q, j) => q = r
        BY <1>5 DEF Pending, At
    <2>4. Pending(r, j) => \E n \in 1 .. Len(todo) : n # 1 /\ j \in todo[n].keys
        BY <1>8 DEF Pending
    <2>5. QED
        BY <2>1, <2>2, <2>3, <2>4
<1>9. CASE Len(todo) > 1
    <2> DEFINE rest == Tail(todo)
               T == Seq(Command)
    <2>1. req' = [req EXCEPT ![r].todo = rest] /\ req[r].pc = "cache"
        BY <1>2, <1>9 DEF NextCommand, At
    <2>2. req[r] \in [pc : PC, kind : Kinds \union {"get"}, key : Keys, start : Nat,
                      rows : Snapshot, todo : T] /\ r \in DOMAIN req
        BY <1>2 DEF TypeOK, Request
    <2>3. /\ Len(rest) = Len(todo) - 1
          /\ \A n \in 1 .. Len(rest) : rest[n] = todo[n + 1] /\ n + 1 \in 1 .. Len(todo)
        <3> HIDE DEF todo
        <3>1. Len(rest) = Len(todo) - 1
              /\ \A n \in 1 .. Len(rest) : rest[n] = todo[n + 1]
            BY <1>3
        <3>2. QED
            BY <1>3, <3>1
    <2> HIDE DEF T, rest
    <2>4. req'[r] = [req[r] EXCEPT !.todo = rest]
        BY <2>1, <2>2
    <2>5. req'[r].pc = "cache" /\ req'[r].todo = rest /\ req'[r].key = k /\ req'[r].rows = rows
        BY <2>1, <2>2, <2>4
    <2>6. \A n \in 1 .. Len(rest) : rest[n].op = "fill" => rows = Selected(k)
        BY <1>4, <2>3
    <2>7. HoldsCurrent(r)'
        BY <1>2, <2>5, <2>6 DEF HoldsCurrent, At, Selected
    <2>8. ASSUME NEW j \in Keys, NEW n \in 1 .. Len(todo), n # 1, j \in todo[n].keys
          PROVE  Pending(r, j)'
        <3>1. n - 1 \in 1 .. Len(rest) /\ rest[n - 1] = todo[n]
            BY <1>3, <2>3, <2>8
        <3>2. QED
            BY <2>5, <2>8, <3>1 DEF Pending, At
    <2>9. ASSUME NEW j \in Keys
          PROVE  (cache[j] = NoEntry \/ cache[j].rows = Selected(j) \/ Pending(r, j))'
        <3>1. CASE j \in todo[1].keys
            BY <1>7, <3>1
        <3>2. CASE j \notin todo[1].keys
            <4>1. cache'[j] = cache[j] /\ Selected(j)' = Selected(j)
                BY <1>2, <1>8, <3>2 DEF Selected
            <4>2. QED
                BY <1>8, <2>8, <3>2, <4>1
        <3>3. QED
            BY <3>1, <3>2
    <2>10. QED
        BY <1>5, <1>6, <2>7, <2>9, CalmStep
<1>10. CASE ~(Len(todo) > 1)
    <2>1. req'[r].pc \in {"answered", "idle"}
        <3>1. CASE Finish(r)
            BY <1>2, <3>1 DEF Finish, TypeOK, Idle
        <3>2. CASE req' = [req EXCEPT ![r].pc = "answered", ![r].todo = <<>>]
            <4>1. DOMAIN req[r] = {"pc", "kind", "key", "start", "rows", "todo"}
                BY <1>2 DEF TypeOK, Request
            <4>2. QED
                BY <1>2, <3>2, <4>1 DEF TypeOK
        <3>3. QED
            BY <1>2, <1>10, <3>1, <3>2 DEF NextCommand
    <2>2. HoldsCurrent(r)'
        BY <2>1 DEF HoldsCurrent, At
    <2>3. ASSUME NEW j \in Keys
          PROVE  (cache[j] = NoEntry \/ cache[j].rows = Selected(j) \/ Pending(r, j))'
        <3>1. CASE j \in todo[1].keys
            BY <1>7, <3>1
        <3>2. CASE j \notin todo[1].keys
            <4>1. cache'[j] = cache[j] /\ Selected(j)' = Selected(j)
                BY <1>2, <1>8, <3>2 DEF Selected
            <4>2. \A n \in 1 .. Len(todo) : n = 1
                BY <1>3, <1>10
            <4>3. QED
                BY <1>8, <3>2, <4>1, <4>2
        <3>3. QED
            BY <3>1, <3>2
    <2>4. QED
        BY <1>5, <1>6, <2>2, <2>3, CalmStep
<1>11. QED
    BY <1>9, <1>10

\* Entries that go, and nothing else, leave the calm as it is.
LEMMA CalmShrinks ==
    ASSUME IInv, CalmInv, UNCHANGED <<table, req, calm>>,
           \A k \in Keys : cache'[k] \in {cache[k], NoEntry}
    PROVE  CalmInv'
    BY DEF CalmInv, Alone, HoldsCurrent, Pending, InFlight, At, Selected

\* While requests come one at a time and Redis answers, a request finds the
\* rows it read unchanged and an entry is current or about to be deleted: if
\* nothing but a signup is missing from the plans.
THEOREM CalmInvariant == ASSUME "signup" \notin Kinds PROVE Spec => []CalmInv
<1>1. Init => CalmInv
    BY DEF Init, CalmInv, Alone, HoldsCurrent, InFlight, At, Idle
<1>2. IInv /\ CalmInv /\ [Next]_vars => CalmInv'
    <2> SUFFICES ASSUME IInv, CalmInv, [Next]_vars PROVE CalmInv'
        OBVIOUS
    <2>1. CASE ~calm'
        BY <2>1 DEF CalmInv
    <2>2. CASE calm'
        <3>1. CASE UNCHANGED vars
            <4>1. UNCHANGED <<table, req, calm>> /\ cache' = cache
                BY <3>1 DEF vars
            <4>2. QED
                BY <4>1, CalmShrinks
        <3>2. ASSUME NEW k \in Keys, RedisForgets(k) PROVE CalmInv'
            <4>1. UNCHANGED <<table, req, calm>>
                  /\ \A j \in Keys : cache'[j] \in {cache[j], NoEntry}
                BY <3>2 DEF RedisForgets, IInv, TypeOK
            <4>2. QED
                BY <4>1, CalmShrinks
        <3>3. CASE Tick
            <4>1. UNCHANGED <<table, req, calm>>
                  /\ \A j \in Keys : cache'[j] \in {cache[j], NoEntry}
                BY <3>3 DEF Tick
            <4>2. QED
                BY <4>1, CalmShrinks
        <3>4. ASSUME NEW r \in Requests, Read(r) PROVE CalmInv'
            <4>1. calm
                BY <2>2, <3>4 DEF Read, GetHit, GetMiss, Select, Enter, IInv, TypeOK
            <4>2. QED
                BY <2>2, <3>4, <4>1, CalmRead
        <3>5. ASSUME NEW r \in Requests, Write(r) PROVE CalmInv'
            <4>1. calm
                <5>1. CASE Commits(r)
                    BY <2>2, <5>1 DEF Commits, Modify, SetPassword, Delete, UpsertInserts,
                                      Insert, Reset, Commit
                <5>2. CASE ~Commits(r)
                    BY <2>2, <3>5, <5>2 DEF Write, Commits, ReadRow, StartInsert, StartReset,
                                            WriteFails, Enter, IInv, TypeOK
                <5>3. QED
                    BY <5>1, <5>2
            <4>2. QED
                BY <2>2, <3>5, <4>1, CalmWrite
        <3>6. ASSUME NEW r \in Requests, CacheCommand(r) \/ CacheCommandLost(r) PROVE CalmInv'
            <4>1. calm
                BY <2>2, <3>6 DEF CacheCommand, CacheCommandLost
            <4>2. QED
                BY <2>2, <3>6, <4>1, CalmCommand
        <3>7. ASSUME NEW r \in Requests, Answer(r) \/ RequestDies(r) PROVE CalmInv'
            <4>1. calm /\ Answer(r)
                BY <2>2, <3>7 DEF Answer, RequestDies
            <4>2. Finish(r) /\ InFlight(r) /\ ~At(r, "cache")
                  /\ UNCHANGED <<clock, table, cache, lastRow>>
                BY <4>1 DEF Answer, At, InFlight
            <4>3. QED
                BY <4>1, <4>2, CalmFinish
        <3>8. QED
            BY <3>1, <3>2, <3>3, <3>4, <3>5, <3>6, <3>7 DEF Next
    <2>3. QED
        BY <2>1, <2>2
<1>3. QED
    BY <1>1, <1>2, InductiveInvariant, PTL DEF Spec

\* While requests come one at a time and Redis answers, the cache agrees with
\* the table between them: under the same assumption.
THEOREM CalmCacheIsFresh == ASSUME "signup" \notin Kinds PROVE Spec => []FreshWhenCalm
<1>1. IInv /\ CalmInv => FreshWhenCalm
    BY DEF CalmInv, FreshWhenCalm, Pending, InFlight, At
<1>2. QED
    BY <1>1, CalmInvariant, InductiveInvariant, PTL

-----------------------------------------------------------------------------
(***************************************************************************)
(* The contract with the clients.                                          *)
(***************************************************************************)
Still == UNCHANGED <<clock, table, lastRow>>
Disturbable == calm' \in {calm, FALSE}

LEMMA ToldStays ==
    ASSUME NEW r \in Requests, ~At(r, "answered"), ~At(r, "answered")',
           \A q \in Requests \ {r} : req'[q] = req[q]
    PROVE  Told' = Told
    BY DEF Told, At

\* Nothing is told to anybody.
LEMMA NobodyTold ==
    ASSUME Told' = Told, Still, Disturbable
    PROVE  Contract!Next \/ UNCHANGED Contract!vars
<1>1. CASE calm' = calm
    BY <1>1 DEF Still, Contract!vars
<1>2. CASE calm' = FALSE
    BY <1>2 DEF Still, Contract!Next, Contract!Disturb
<1>3. QED
    BY <1>1, <1>2 DEF Disturbable

LEMMA Leaves ==
    ASSUME TypeOK, NEW r \in Requests, Finish(r), Still, Disturbable
    PROVE  Contract!Next
<1>1. req'[r] = Idle /\ \A q \in Requests \ {r} : req'[q] = req[q]
    BY DEF TypeOK, Finish
<1>2. Told' = [Told EXCEPT ![r] = Contract!NoAnswer]
    <2>1. Told'[r] = Contract!NoAnswer
        BY <1>1 DEF Told, At, Idle, Contract!NoAnswer
    <2>2. \A q \in Requests \ {r} : Told'[q] = Told[q]
        BY <1>1 DEF Told, At
    <2>3. /\ Told = [q \in Requests |-> Told[q]]
          /\ Told' = [q \in Requests |-> Told'[q]]
        BY DEF Told
    <2>4. QED
        BY <2>1, <2>2, <2>3
<1>3. Contract!Leave(r)
    BY <1>2 DEF Contract!Leave, Contract!MayBeDisturbed, Still, Disturbable
<1>4. QED
    BY <1>3 DEF Contract!Next

\* A request that comes to be answered is told what the contract allows.
LEMMA Answers ==
    ASSUME TypeOK', NEW r \in Requests, RequestSound(r)',
           ~At(r, "answered"), At(r, "answered")',
           \A q \in Requests \ {r} : req'[q] = req[q], Still, Disturbable,
           calm' => req'[r].rows = Selected(req'[r].key)
    PROVE  Contract!Next
<1> DEFINE k == req'[r].key
           start == req'[r].start
           rows == req'[r].rows
           t == start - (TTL + MaxLag - 1)
<1>1. k \in Keys /\ start \in Nat /\ clock' \in Nat /\ req'[r].pc = "answered"
    BY DEF TypeOK, Request, At
<1>2. /\ start <= clock'
      /\ rows \in Rows(k)
      /\ ColumnsSince(lastRow', rows, Oldest(start + 1))
      /\ k = List => RowsSince(lastRow', rows, Oldest(start + 1))
    BY <1>1 DEF RequestSound, InFlight, At
<1>3. start \in 0 .. clock
    BY <1>1, <1>2 DEF Still
<1>4. k \in Contract!Keys /\ rows \in [Contract!Covers(k) -> Row \union {Gone}]
      /\ Contract!Covers(k) = Covers(k)
    BY <1>1, <1>2 DEF Rows, Covers, Keys, Contract!Keys, Contract!Covers
<1>5. Oldest(start + 1) = t
    BY <1>1 DEF Oldest
<1>6. Contract!Recent(k, rows, t)
    <2>1. DOMAIN rows = Covers(k) /\ lastRow' = lastRow
        BY <1>2 DEF Rows, Still
    <2>2. ASSUME NEW i \in Covers(k), NEW c \in Columns
          PROVE  Contract!ColumnSince(i, c, rows[i], t)
        <3>1. ColumnSince(lastRow, i, c, rows[i], t)
            BY <1>2, <1>5, <2>1, <2>2 DEF ColumnsSince
        <3>2. QED
            BY <3>1 DEF ColumnSince, RowSince, Contract!ColumnSince, Contract!RowSince
    <2>3. ASSUME k = List, NEW i \in Items
          PROVE  Contract!RowSince(i, rows[i], t)
        <3>1. RowSince(lastRow, i, rows[i], t)
            BY <1>2, <1>5, <2>1, <2>3 DEF RowsSince, Covers
        <3>2. QED
            BY <3>1 DEF RowSince, Contract!RowSince
    <2>4. QED
        BY <1>4, <2>2, <2>3 DEF Contract!Recent
<1>7. calm' => Contract!Current(rows)
    BY DEF Contract!Current, Selected, Still
<1>8. Told' = [Told EXCEPT ![r] = [key |-> k, start |-> start, rows |-> rows]]
    BY <1>1 DEF Told, At
<1>9. Told[r] = Contract!NoAnswer
    BY DEF Told, Contract!NoAnswer
<1>10. Told'[r] # Contract!NoAnswer
    <2>1. Told'[r].key = k
        BY <1>1 DEF Told, At
    <2>2. k # None
        BY <1>1, ReadCacheAssumption DEF Keys
    <2>3. QED
        BY <2>1, <2>2 DEF Contract!NoAnswer
<1> HIDE DEF k, start, rows
<1>11. Contract!Answer(r, k, start, rows)
    BY <1>6, <1>7, <1>8 DEF Contract!Answer, Contract!MayBeDisturbed, Still, Disturbable
<1>12. QED
    BY <1>3, <1>4, <1>9, <1>10, <1>11 DEF Contract!Next

LEMMA CommitChanges ==
    ASSUME IInv, NEW r \in Requests, Commits(r)
    PROVE  Contract!Next
<1>1. PICK new, held, ids : CommitsSoundly(r, new, held, ids)
    BY WriteCommits
<1>2. /\ new \in [Items -> Row \union {Gone}] /\ At(r, "write")
      /\ Commit(r, new, held, ids) /\ req \in [Requests -> Request]
    BY <1>1 DEF CommitsSoundly, RowOrGone, IInv, TypeOK
<1>3. /\ \A q \in Requests \ {r} : req'[q] = req[q]
      /\ req'[r].pc \in {"idle", "cache"}
    <2>1. CASE Finish(r)
        BY <1>2, <2>1 DEF Finish, Idle
    <2>2. CASE ~Finish(r)
        <3>1. PICK plan : req' = [req EXCEPT ![r].pc = "cache", ![r].rows = held,
                                             ![r].todo = plan]
            BY <1>2, <2>2 DEF Commit
        <3>2. QED
            BY <1>2, <3>1 DEF Request
    <2>3. QED
        BY <2>1, <2>2
<1>4. Told' = Told
    BY <1>2, <1>3, ToldStays DEF At
<1>5. Contract!Change(new)
    BY <1>2, <1>4 DEF Commit, Remember, Contract!Change, Contract!Note
<1>6. QED
    BY <1>2, <1>5 DEF Contract!Next

\* Nobody is in flight when a request enters in a calm.
LEMMA EntersCurrent ==
    ASSUME CalmInv, NEW r \in Requests, NEW k \in Keys, GetHit(r, k), calm'
    PROVE  cache[k].rows = Selected(k)
<1>1. calm /\ (\A q \in Requests : ~InFlight(q)) /\ cache[k] # NoEntry
    BY DEF GetHit, Enter
<1>2. \A q \in Requests : ~Pending(q, k)
    BY <1>1 DEF Pending, InFlight, At
<1>3. QED
    BY <1>1, <1>2 DEF CalmInv

LEMMA EnterSteps ==
    ASSUME TypeOK, NEW r \in Requests, NEW pc, NEW kind, NEW k, NEW rows,
           Enter(r, pc, kind, k, rows)
    PROVE  /\ ~At(r, "answered") /\ Disturbable
           /\ req'[r].pc = pc /\ req'[r].key = k /\ req'[r].rows = rows
           /\ \A q \in Requests \ {r} : req'[q] = req[q]
    BY DEF TypeOK, Enter, At, Disturbable

LEMMA ReadSteps ==
    ASSUME IInv, IInv', CalmInv, NEW r \in Requests, Read(r)
    PROVE  Contract!Next \/ UNCHANGED Contract!vars
<1>1. TypeOK /\ TypeOK' /\ RequestSound(r)'
    BY DEF IInv
<1>2. ASSUME NEW k \in Keys, GetHit(r, k)
      PROVE  Contract!Next
    <2>1. Enter(r, "answered", "get", k, cache[k].rows) /\ Still /\ table' = table
        BY <1>2 DEF GetHit, Still
    <2>2. /\ ~At(r, "answered") /\ Disturbable /\ \A q \in Requests \ {r} : req'[q] = req[q]
          /\ req'[r].pc = "answered" /\ req'[r].key = k /\ req'[r].rows = cache[k].rows
        BY <1>1, <2>1, EnterSteps
    <2>3. calm' => req'[r].rows = Selected(req'[r].key)
        BY <1>2, <2>2, EntersCurrent
    <2>4. QED
        BY <1>1, <2>1, <2>2, <2>3, Answers DEF At
<1>3. ASSUME NEW k \in Keys, GetMiss(r, k)
      PROVE  Contract!Next \/ UNCHANGED Contract!vars
    <2>1. Enter(r, "select", "get", k, NoRows) /\ Still
        BY <1>3 DEF GetMiss, Still
    <2>2. /\ ~At(r, "answered") /\ Disturbable /\ \A q \in Requests \ {r} : req'[q] = req[q]
          /\ req'[r].pc = "select"
        BY <1>1, <2>1, EnterSteps
    <2>3. QED
        BY <2>1, <2>2, ToldStays, NobodyTold DEF At
<1>4. CASE Select(r)
    <2>1. Still /\ Disturbable /\ At(r, "select")
        BY <1>4 DEF Select, Still, Disturbable
    <2>2. CASE Finish(r)
        BY <1>1, <2>1, <2>2, Leaves
    <2>3. CASE ~Finish(r)
        <3>1. req' = [req EXCEPT ![r].pc = "cache", ![r].rows = Selected(req[r].key),
                                 ![r].todo = <<Fill(req[r].key)>>]
            BY <1>4, <2>3 DEF Select
        <3>2. req'[r].pc = "cache" /\ \A q \in Requests \ {r} : req'[q] = req[q]
            BY <1>1, <3>1 DEF TypeOK, Request
        <3>3. QED
            BY <2>1, <3>2, ToldStays, NobodyTold DEF At
    <2>4. QED
        BY <2>2, <2>3
<1>5. QED
    BY <1>2, <1>3, <1>4 DEF Read

LEMMA WriteSteps ==
    ASSUME IInv, NEW r \in Requests, Write(r)
    PROVE  Contract!Next \/ UNCHANGED Contract!vars
<1>1. TypeOK
    BY DEF IInv
<1>2. ASSUME NEW kind, NEW k, NEW rows, Enter(r, "write", kind, k, rows),
             UNCHANGED <<clock, table, cache, lastRow>>
      PROVE  Contract!Next \/ UNCHANGED Contract!vars
    <2>1. /\ ~At(r, "answered") /\ Disturbable /\ \A q \in Requests \ {r} : req'[q] = req[q]
          /\ req'[r].pc = "write"
        BY <1>1, <1>2, EnterSteps
    <2>2. Still
        BY <1>2 DEF Still
    <2>3. QED
        BY <2>1, <2>2, ToldStays, NobodyTold DEF At
<1>3. ASSUME NEW i \in Items, NEW kind \in Kinds, ReadRow(r, i, kind) \/ StartInsert(r, i, kind)
      PROVE  Contract!Next \/ UNCHANGED Contract!vars
    BY <1>2, <1>3 DEF ReadRow, StartInsert
<1>4. CASE StartReset(r)
    BY <1>2, <1>4 DEF StartReset
<1>5. CASE Commits(r)
    BY <1>5, CommitChanges
<1>6. CASE WriteFails(r)
    BY <1>1, <1>6, Leaves DEF WriteFails, Still, Disturbable
<1>7. QED
    BY <1>3, <1>4, <1>5, <1>6 DEF Write, Commits

LEMMA CommandSteps ==
    ASSUME IInv, IInv', CalmInv, NEW r \in Requests, CacheCommand(r) \/ CacheCommandLost(r)
    PROVE  Contract!Next \/ UNCHANGED Contract!vars
<1>1. /\ TypeOK /\ TypeOK' /\ RequestSound(r) /\ RequestSound(r)'
      /\ At(r, "cache") /\ InFlight(r) /\ NextCommand(r) /\ req \in [Requests -> Request]
    BY DEF IInv, TypeOK, CacheCommand, CacheCommandLost, At, InFlight
<1>2. Still /\ Disturbable
    BY DEF CacheCommand, CacheCommandLost, Still, Disturbable, IInv, TypeOK
<1>3. calm' => calm
    BY <1>2 DEF Disturbable, IInv, TypeOK
<1>4. CASE Len(req[r].todo) > 1
    <2>1. req'[r].pc = "cache" /\ \A q \in Requests \ {r} : req'[q] = req[q]
        BY <1>1, <1>4 DEF NextCommand, Request, At
    <2>2. QED
        BY <1>1, <1>2, <2>1, ToldStays, NobodyTold DEF At
<1>5. CASE ~(Len(req[r].todo) > 1) /\ req[r].kind = "get"
    <2> DEFINE k == req[r].key
    <2>1. /\ req'[r].pc = "answered" /\ req'[r].key = k /\ req'[r].rows = req[r].rows
          /\ \A q \in Requests \ {r} : req'[q] = req[q]
        BY <1>1, <1>5 DEF NextCommand, Request
    <2>2. req[r].todo = <<Fill(k)>>
        BY <1>1, <1>5 DEF RequestSound
    <2>3. Len(req[r].todo) = 1 /\ req[r].todo[1].op = "fill"
        BY <2>2 DEF Fill
    <2>4. calm' => req[r].rows = Selected(k)
        BY <1>1, <1>3, <2>3 DEF CalmInv, HoldsCurrent
    <2>5. QED
        BY <1>1, <1>2, <2>1, <2>4, Answers DEF At
<1>6. CASE ~(Len(req[r].todo) > 1) /\ req[r].kind # "get"
    BY <1>1, <1>2, <1>6, Leaves DEF NextCommand
<1>7. QED
    BY <1>4, <1>5, <1>6

LEMMA StepKeepsContract ==
    ASSUME IInv, IInv', CalmInv, [Next]_vars
    PROVE  Contract!Next \/ UNCHANGED Contract!vars
<1>1. TypeOK
    BY DEF IInv
<1>2. ASSUME NEW r \in Requests, Answer(r) \/ RequestDies(r)
      PROVE  Contract!Next
    BY <1>1, <1>2, Leaves DEF Answer, RequestDies, Still, Disturbable
<1>3. ASSUME NEW k \in Keys, RedisForgets(k)
      PROVE  UNCHANGED Contract!vars
    BY <1>3 DEF RedisForgets, Contract!vars, Told, At
<1>4. CASE Tick
    <2>1. Told' = Told
        BY <1>4 DEF Tick, Told, At
    <2>2. Contract!Tick
        BY <1>4, <2>1 DEF Tick, Contract!Tick, Contract!Note
    <2>3. QED
        BY <2>2 DEF Contract!Next
<1>5. CASE UNCHANGED vars
    BY <1>5 DEF vars, Contract!vars, Told, At
<1>6. ASSUME NEW r \in Requests,
             Read(r) \/ Write(r) \/ CacheCommand(r) \/ CacheCommandLost(r)
      PROVE  Contract!Next \/ UNCHANGED Contract!vars
    BY <1>6, ReadSteps, WriteSteps, CommandSteps
<1>7. QED
    BY <1>2, <1>3, <1>4, <1>5, <1>6 DEF Next

\* Roles, users and translations as clients see them: whatever the endpoints and
\* Redis do, the promise of ReadContract is kept, if no signup adds users to it.
THEOREM ReadsKeepContract == ASSUME "signup" \notin Kinds PROVE Spec => KeepsContract
<1>1. Init => Contract!Init
    BY DEF Init, Told, At, Idle, Contract!Init, Contract!NoAnswer
<1>2. IInv /\ IInv' /\ CalmInv /\ [Next]_vars => [Contract!Next]_(Contract!vars)
    BY StepKeepsContract
<1>3. QED
    BY <1>1, <1>2, InductiveInvariant, CalmInvariant, PTL
       DEF Spec, KeepsContract, Contract!Spec
=============================================================================
