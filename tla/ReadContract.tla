---------------------------- MODULE ReadContract ----------------------------
(***************************************************************************)
(* What the clients of a family of items are promised, without the cache,  *)
(* the requests of others or Redis: an answer may be old, but not older    *)
(* than Age seconds when its request began, and while nothing disturbs the *)
(* family it says what the table says.                                     *)
(***************************************************************************)
EXTENDS Integers

CONSTANTS Items, Columns, AllRows, List, Requests, Age, None

VARIABLES
    clock,
    table,   \* table[i]: the row of item i
    lastRow, \* lastRow[i][row]: when item i last had that row
    calm,    \* nothing has disturbed the family
    answer   \* answer[r]: what request r has been told

vars == <<clock, table, lastRow, calm, answer>>

Keys == Items \union {List}
Covers(k) == IF k = List THEN Items ELSE {k}

NoAnswer == [key |-> None, start |-> 0, rows |-> [i \in {} |-> None]]

Init ==
    /\ clock = 0
    /\ table \in [Items -> AllRows]
    /\ lastRow = [i \in Items |-> [row \in AllRows |-> IF row = table[i] THEN 0 ELSE None]]
    /\ calm = TRUE
    /\ answer = [r \in Requests |-> NoAnswer]

Note(new, time) == lastRow' = [i \in Items |-> [lastRow[i] EXCEPT ![new[i]] = time]]

Tick ==
    /\ clock' = clock + 1
    /\ Note(table, clock')
    /\ UNCHANGED <<table, calm, answer>>

Change(new) ==
    /\ table' = new
    /\ Note(new, clock)
    /\ UNCHANGED <<clock, calm, answer>>

RowSince(i, row, t) == lastRow[i][row] # None /\ lastRow[i][row] >= t

ColumnSince(i, c, row, t) == \E old \in AllRows : old[c] = row[c] /\ RowSince(i, old, t)

\* An item may mix columns of different times; a list never mixes a row.
Recent(k, rows, t) ==
    /\ \A i \in Covers(k), c \in Columns : ColumnSince(i, c, rows[i], t)
    /\ k = List => \A i \in Items : RowSince(i, rows[i], t)

Current(rows) == \A i \in DOMAIN rows : rows[i] = table[i]

\* Requests overlap, or one of them dies, or a command is lost.
MayBeDisturbed == calm' \in {calm, FALSE}

Answer(r, k, start, rows) ==
    /\ answer' = [answer EXCEPT ![r] = [key |-> k, start |-> start, rows |-> rows]]
    /\ Recent(k, rows, start - Age)
    /\ MayBeDisturbed
    /\ calm' => Current(rows)
    /\ UNCHANGED <<clock, table, lastRow>>

\* A request is done with its answer.
Leave(r) ==
    /\ MayBeDisturbed
    /\ answer' = [answer EXCEPT ![r] = NoAnswer]
    /\ UNCHANGED <<clock, table, lastRow>>

Disturb ==
    /\ calm' = FALSE
    /\ UNCHANGED <<clock, table, lastRow, answer>>

Next ==
    \/ Disturb
    \/ Tick
    \/ \E new \in [Items -> AllRows] : Change(new)
    \/ \E r \in Requests :
          \/ Leave(r)
          \/ /\ answer[r] = NoAnswer
             /\ answer'[r] # NoAnswer
             /\ \E k \in Keys, start \in 0 .. clock :
                   \E rows \in [Covers(k) -> AllRows] : Answer(r, k, start, rows)

Spec == Init /\ [][Next]_vars
=============================================================================
