--------------------------- MODULE Startup_proofs ---------------------------
(***************************************************************************)
(* Proofs about Startup, for every set of processes, default roles, keys   *)
(* and users and every number of requests and crashes.                     *)
(***************************************************************************)
EXTENDS Startup, TLAPS

USE StartupAssumption, NoneAssumption

-----------------------------------------------------------------------------
(***************************************************************************)
(* Rows of the table of roles.                                             *)
(***************************************************************************)
Rows == [Ids -> Row \union {None}]

LEMMA FixedIdIsId == \A n \in FixedNames : FixedId[n] \in Ids
BY DEF Ids

LEMMA DefaultIsName == \A n \in DefaultNames : n \in Names
BY DEF Names

LEMMA FreshIsRow ==
    ASSUME NEW n \in DefaultNames
    PROVE  Fresh(n) \in Row /\ Fresh(n).name = n /\ Fresh(n) # None
<1>1. Fresh(n) \in Row /\ Fresh(n).name = n
    BY DefaultIsName DEF Fresh, Row
<1>2. QED
    BY <1>1

\* permission.py:174-187.  A row that is completed keeps its name and whatever
\* has been decided.
LEMMA FillIsRow ==
    ASSUME NEW row \in Row
    PROVE  /\ Fill(row) \in Row /\ Fill(row).name = row.name
           /\ \A k \in Keys : row.perms[k] = "decided" => Fill(row).perms[k] = "decided"
BY DEF Fill, Row

LEMMA WithPermsIsRow ==
    ASSUME NEW row \in Row, NEW other \in Row
    PROVE  /\ [row EXCEPT !.perms = other.perms] \in Row
           /\ [row EXCEPT !.perms = other.perms].name = row.name
           /\ [row EXCEPT !.perms = other.perms].perms = other.perms
BY DEF Row

LEMMA UpdatedRows ==
    ASSUME NEW S \in Rows, roles \in Rows, ~Conflict(S), NEW i \in Ids
    PROVE  /\ roles[i] = None => Updated(S)[i] = None
           /\ roles[i] # None => Updated(S)[i] \in Row /\ Updated(S)[i].name = roles[i].name
           /\ i \notin ToFill(S) => Updated(S)[i] = roles[i]
           /\ i \in ToFill(S) => Updated(S)[i].perms = Fill(S[i]).perms
<1>1. CASE i \in ToFill(S)
    <2>1. S[i] \in Row /\ roles[i] \in Row /\ roles[i] # None
        BY <1>1 DEF ToFill, Used, Conflict, Rows
    <2>2. Fill(S[i]) \in Row
        BY <2>1, FillIsRow
    <2>3. Updated(S)[i] = [roles[i] EXCEPT !.perms = Fill(S[i]).perms]
        BY <1>1 DEF Updated
    <2>4. QED
        BY <1>1, <2>1, <2>2, <2>3, WithPermsIsRow
<1>2. CASE i \notin ToFill(S)
    <2>1. Updated(S)[i] = roles[i]
        BY <1>2 DEF Updated
    <2>2. QED
        BY <1>2, <2>1 DEF Rows
<1>3. QED
    BY <1>1, <1>2

\* What an insert of the missing default roles adds to the rows T.
LEMMA InsertedRows ==
    ASSUME NEW T \in [Ids -> Row \union {None}], NEW M \in SUBSET DefaultNames,
           \A n \in M \intersect FixedNames : T[FixedId[n]] = None, NEW j \in Ids
    PROVE  /\ T[j] # None => WithFixed(T, M)[j] = T[j]
           /\ \A n \in M \intersect FixedNames :
                 FixedId[n] = j => WithFixed(T, M)[j] = Fresh(n)
           /\ (\A n \in M \intersect FixedNames : FixedId[n] # j) =>
                 WithFixed(T, M)[j] = T[j]
<1>1. ASSUME NEW n \in M \intersect FixedNames, FixedId[n] = j
      PROVE  WithFixed(T, M)[j] = Fresh(n) /\ T[j] = None
    <2>1. (CHOOSE m \in M \intersect FixedNames : FixedId[m] = j) = n
        BY <1>1
    <2>2. QED
        BY <1>1, <2>1 DEF WithFixed
<1>2. ASSUME \A n \in M \intersect FixedNames : FixedId[n] # j
      PROVE  WithFixed(T, M)[j] = T[j]
    BY <1>2 DEF WithFixed
<1>3. QED
    BY <1>1, <1>2

\* permission.py and bootstrap.py:60-89.  The rows after the flush of a seeding.
SeedAdds(S, i) ==
    \A j \in Ids :
        \/ roles[j] # None /\ roles'[j] = Updated(S)[j]
        \/ roles[j] = None /\ roles'[j] = None
        \/ /\ roles[j] = None
           /\ \E n \in MissingNames(S) :
                 /\ roles'[j] = Fresh(n)
                 /\ n \in FixedNames => j = FixedId[n]
                 /\ n = AutoName => j = i

LEMMA SeedRows ==
    ASSUME TypeOK, NEW p \in Processes, SeedRoles(p)
    PROVE  \E i \in Ids :
             /\ SeedAdds(seen[p], i)
             /\ \A n \in MissingNames(seen[p]) \intersect FixedNames :
                   roles'[FixedId[n]] = Fresh(n)
             /\ AutoName \in MissingNames(seen[p]) =>
                   /\ roles'[i] = Fresh(AutoName)
                   /\ \A j \in Ids : roles[j] # None => i # j
                   /\ \A n \in MissingNames(seen[p]) \intersect FixedNames : i # FixedId[n]
<1> DEFINE S == seen[p]
           M == MissingNames(S)
           U == Updated(S)
           T == WithFixed(U, M)
<1>1. S \in Rows /\ roles \in Rows
    BY DEF TypeOK, Rows
<1>2. ~Conflict(S)
    BY DEF SeedRoles
<1>3. M \in SUBSET DefaultNames
    BY DEF MissingNames
<1>4. \A j \in Ids : /\ roles[j] = None => U[j] = None
                     /\ roles[j] # None => U[j] \in Row
    BY <1>1, <1>2, UpdatedRows
<1>5. U \in [Ids -> Row \union {None}]
    <2>1. U = [j \in Ids |-> U[j]]
        BY DEF Updated
    <2>2. \A j \in Ids : U[j] \in Row \union {None}
        BY <1>4
    <2>3. QED
        BY <2>1, <2>2
<1>6. \A n \in M \intersect FixedNames : roles[FixedId[n]] = None /\ U[FixedId[n]] = None
    BY <1>2, <1>4, FixedIdIsId DEF Conflict
<1>7. \A j \in Ids :
        /\ U[j] # None => T[j] = U[j]
        /\ \A n \in M \intersect FixedNames : FixedId[n] = j => T[j] = Fresh(n)
        /\ (\A n \in M \intersect FixedNames : FixedId[n] # j) => T[j] = U[j]
    BY <1>3, <1>5, <1>6, InsertedRows
<1> HIDE DEF S, M, U, T
<1>8. PICK i \in Ids :
        /\ AutoName \in M => IsNextId(T, i) /\ roles' = [T EXCEPT ![i] = Fresh(AutoName)]
        /\ AutoName \notin M => roles' = T
    <2>1. FixedId[SuperName] \in Ids
        BY FixedIdIsId
    <2>2. QED
        BY <2>1 DEF SeedRoles, S, M, U, T
<1>9. AutoName \in M => \A j \in Ids : T[j] # None => i # j
    <2>1. AutoName \in M => \A j \in Used(T) : j < i
        BY <1>8 DEF IsNextId, NextIds
    <2>2. QED
        BY <2>1 DEF Used, Ids
<1>10. AutoName \in M => \A j \in Ids : roles[j] # None => i # j
    <2>1. \A j \in Ids : roles[j] # None => T[j] # None
        BY <1>4, <1>7
    <2>2. QED
        BY <1>9, <2>1
<1>11. \A n \in M \intersect FixedNames :
          T[FixedId[n]] = Fresh(n) /\ (AutoName \in M => i # FixedId[n])
    BY <1>3, <1>7, <1>9, FixedIdIsId, FreshIsRow
<1>12. \A j \in Ids : j # i \/ AutoName \notin M => roles'[j] = T[j]
    <2>1. T = [j \in Ids |-> T[j]]
        BY DEF T, WithFixed
    <2>2. QED
        BY <1>8, <2>1
<1>13. AutoName \in M => roles'[i] = Fresh(AutoName)
    <2>1. T = [j \in Ids |-> T[j]]
        BY DEF T, WithFixed
    <2>2. QED
        BY <1>8, <2>1
<1>14. SeedAdds(S, i)
    <2> SUFFICES ASSUME NEW j \in Ids
                 PROVE  \/ roles[j] # None /\ roles'[j] = U[j]
                        \/ roles[j] = None /\ roles'[j] = None
                        \/ /\ roles[j] = None
                           /\ \E n \in M : /\ roles'[j] = Fresh(n)
                                           /\ n \in FixedNames => j = FixedId[n]
                                           /\ n = AutoName => j = i
        BY DEF SeedAdds, M, U
    <2>1. CASE roles[j] # None
        <3>1. roles'[j] = T[j]
            BY <1>10, <1>12, <2>1
        <3>2. QED
            BY <1>4, <1>7, <2>1, <3>1
    <2>2. CASE roles[j] = None /\ j = i /\ AutoName \in M
        BY <1>13, <2>2
    <2>3. CASE roles[j] = None /\ (j # i \/ AutoName \notin M)
        <3>1. roles'[j] = T[j]
            BY <1>12, <2>3
        <3>2. CASE \E n \in M \intersect FixedNames : FixedId[n] = j
            BY <1>7, <3>1, <3>2, <2>3
        <3>3. CASE \A n \in M \intersect FixedNames : FixedId[n] # j
            BY <1>4, <1>7, <2>3, <3>1, <3>3
        <3>4. QED
            BY <3>2, <3>3
    <2>4. QED
        BY <2>1, <2>2, <2>3
<1>15. \A n \in M \intersect FixedNames : roles'[FixedId[n]] = Fresh(n)
    BY <1>11, <1>12, FixedIdIsId
<1>16. QED
    BY <1>10, <1>11, <1>13, <1>14, <1>15 DEF S, M

-----------------------------------------------------------------------------
(***************************************************************************)
(* Requests.                                                               *)
(***************************************************************************)
SuperId == FixedId[SuperName]

LEMMA SuperIdIsId == SuperId \in Ids /\ SuperName \in DefaultNames /\ SuperName # AutoName
BY FixedIdIsId DEF SuperId, DefaultNames

\* A request finds a process that serves, so the tables, the translations and
\* the SuperAdmin role are there.
LEMMA ChangeFinds ==
    ASSUME RolesOK, SuperRoleStays, SchemaOK, Change
    PROVE  /\ roles[SuperId] # None /\ roles[SuperId].name = SuperName
           /\ SuperId \in Named(roles, SuperName)
           /\ HasTables
           /\ UNCHANGED <<schema, translated, run, pc, seen, crashes>>
           /\ changes' = changes + 1 /\ changes < MaxChanges
<1>1. PICK p \in Processes : pc[p] = "serving"
    BY DEF Change
<1>2. roles[SuperId] # None /\ HasTables
    BY <1>1 DEF SuperRoleStays, SchemaOK, Seeded, SuperId
<1>3. roles[SuperId].name = SuperName
    BY <1>2 DEF RolesOK, SuperId
<1>4. QED
    BY <1>2, <1>3, SuperIdIsId DEF Change, Named

\* What a request leaves of the rows, the users and the history.
RequestKeeps ==
    /\ roles' \in Rows
    /\ users' \in [Users -> {"none", "plain", "super"}]
    /\ gone' \in [Processes -> SUBSET (DefaultNames \union {Boot})]
    /\ \A p \in Processes : gone[p] \subseteq gone'[p]
    /\ roles'[SuperId] # None
    /\ RolesOK'
    /\ \A n \in DefaultNames : Named(roles, n) # {} /\ Named(roles', n) = {} =>
          \A p \in Processes : n \in gone'[p]
    /\ \/ \A u \in Users : users[u] # "none" => users'[u] = users[u]
       \/ \A p \in Processes : Boot \in gone'[p]

\* A request that writes one row.
LEMMA OneRow ==
    ASSUME roles \in Rows, NEW i \in Ids, NEW row \in Row \union {None},
           roles' = [roles EXCEPT ![i] = row]
    PROVE  roles' \in Rows /\ roles'[i] = row /\ \A j \in Ids : j # i => roles'[j] = roles[j]
BY DEF Rows

LEMMA TakenAway ==
    ASSUME TypeOK, NEW x, TakeAway(x)
    PROVE  /\ gone' \in [Processes -> SUBSET (DefaultNames \union {Boot})]
           /\ \A p \in Processes : gone[p] \subseteq gone'[p]
           /\ \A p \in Processes : x \in DefaultNames \union {Boot} => x \in gone'[p]
BY DEF TypeOK, TakeAway

\* A new row, or one under a new name, for a name that nobody has.
LEMMA NewName ==
    ASSUME TypeOK, RolesOK, NEW i \in Ids, NEW row \in Row,
           Named(roles, row.name) = {}, row.name # SuperName, i # SuperId,
           roles' = [roles EXCEPT ![i] = row]
    PROVE  RolesOK'
<1>1. roles \in Rows /\ row # None
    BY DEF TypeOK, Rows
<1>2. roles'[i] = row /\ \A j \in Ids : j # i => roles'[j] = roles[j]
    BY <1>1, OneRow
<1>3. \A j \in Ids : roles[j] # None => roles[j].name # row.name
    BY DEF Named
<1>4. \A j, k \in Used(roles') : roles'[j].name = roles'[k].name => j = k
    BY <1>1, <1>2, <1>3 DEF RolesOK, Used
<1>5. Named(roles', SuperName) \subseteq {SuperId}
    BY <1>1, <1>2 DEF RolesOK, Named, SuperId
<1>6. roles'[SuperId] = roles[SuperId]
    BY <1>2, SuperIdIsId
<1>7. QED
    BY <1>4, <1>5, <1>6 DEF RolesOK, SuperId

\* The rows keep their names.
LEMMA SameNames ==
    ASSUME TypeOK, RolesOK,
           \A j \in Ids : (roles[j] = None <=> roles'[j] = None)
                          /\ (roles[j] # None => roles'[j].name = roles[j].name)
    PROVE  RolesOK' /\ \A n : Named(roles', n) = Named(roles, n)
<1>1. \A j, k \in Used(roles') : roles'[j].name = roles'[k].name => j = k
    BY DEF RolesOK, Used
<1>2. \A n : Named(roles', n) = Named(roles, n)
    BY DEF Named
<1>3. roles'[SuperId] # None => roles'[SuperId].name = SuperName
    BY SuperIdIsId DEF RolesOK, SuperId
<1>4. QED
    BY <1>1, <1>2, <1>3 DEF RolesOK, SuperId

LEMMA RequestStep ==
    ASSUME TypeOK, RolesOK, SuperRoleStays, SchemaOK, Requests
    PROVE  RequestKeeps
<1> USE SuperIdIsId
<1>1. roles \in Rows
    BY DEF TypeOK, Rows
<1>2. ASSUME Change
      PROVE  roles[SuperId] # None /\ SuperId \in Named(roles, SuperName)
    BY <1>2, ChangeFinds
<1>3. ASSUME NEW i \in Ids, NEW n \in Names, RenameRole(i, n)
      PROVE  RequestKeeps
    <2>1. roles[i] # None /\ roles[i] \in Row /\ i # SuperId /\ Named(roles, n) = {}
        BY <1>1, <1>3 DEF RenameRole, IsSuperAdmin, SuperId, Rows
    <2>2. n # SuperName
        BY <1>2, <1>3, <2>1 DEF RenameRole
    <2> DEFINE row == [roles[i] EXCEPT !.name = n]
    <2>3. row \in Row /\ row.name = n
        BY <2>1 DEF Row
    <2>4. roles' = [roles EXCEPT ![i] = row]
        BY <1>3 DEF RenameRole
    <2> HIDE DEF row
    <2>5. roles' \in Rows /\ roles'[i] = row /\ \A j \in Ids : j # i => roles'[j] = roles[j]
        BY <1>1, <2>3, <2>4, OneRow
    <2>6. RolesOK'
        BY <2>1, <2>2, <2>3, <2>4, NewName
    <2>7. \A m \in DefaultNames : Named(roles, m) # {} /\ Named(roles', m) = {} =>
             m = roles[i].name
        BY <2>5 DEF Named
    <2>8. TakeAway(roles[i].name) /\ UNCHANGED users
        BY <1>3 DEF RenameRole
    <2>9. \A m \in DefaultNames : Named(roles, m) # {} /\ Named(roles', m) = {} =>
             \A p \in Processes : m \in gone'[p]
        BY <2>7, <2>8, TakenAway
    <2>10. roles'[SuperId] # None
        BY <1>2, <1>3, <2>1, <2>5 DEF RenameRole
    <2>11. QED
        BY <2>5, <2>6, <2>8, <2>9, <2>10, TakenAway DEF RequestKeeps, TypeOK
<1>4. ASSUME NEW i \in Ids, DeleteRole(i)
      PROVE  RequestKeeps
    <2>1. roles[i] # None /\ roles[i] \in Row /\ i # SuperId
        BY <1>1, <1>4 DEF DeleteRole, IsSuperAdmin, SuperId, Rows
    <2>2. roles' \in Rows /\ roles'[i] = None /\ \A j \in Ids : j # i => roles'[j] = roles[j]
        BY <1>1, <1>4, OneRow DEF DeleteRole
    <2>3. RolesOK'
        <3>1. \A j, k \in Used(roles') : roles'[j].name = roles'[k].name => j = k
            BY <2>2 DEF RolesOK, Used
        <3>2. Named(roles', SuperName) \subseteq {SuperId}
            BY <2>2 DEF RolesOK, Named, SuperId
        <3>3. roles'[SuperId] = roles[SuperId]
            BY <2>1, <2>2
        <3>4. QED
            BY <3>1, <3>2, <3>3 DEF RolesOK, SuperId
    <2>4. \A m \in DefaultNames : Named(roles, m) # {} /\ Named(roles', m) = {} =>
             m = roles[i].name
        BY <2>2 DEF Named
    <2>5. TakeAway(roles[i].name) /\ UNCHANGED users
        BY <1>4 DEF DeleteRole
    <2>6. \A m \in DefaultNames : Named(roles, m) # {} /\ Named(roles', m) = {} =>
             \A p \in Processes : m \in gone'[p]
        BY <2>4, <2>5, TakenAway
    <2>7. roles'[SuperId] # None
        BY <1>2, <1>4, <2>1, <2>2 DEF DeleteRole
    <2>8. QED
        BY <2>2, <2>3, <2>5, <2>6, <2>7, TakenAway DEF RequestKeeps, TypeOK
<1>5. ASSUME NEW i \in Ids, NEW n \in Names, CreateRole(i, n)
      PROVE  RequestKeeps
    <2> DEFINE row == [name |-> n, perms |-> [k \in Keys |-> "unset"]]
    <2>1. row \in Row /\ row.name = n /\ Named(roles, n) = {} /\ Change
          /\ roles' = [roles EXCEPT ![i] = row] /\ UNCHANGED <<users, gone>>
        BY <1>5 DEF CreateRole, Row
    <2> HIDE DEF row
    <2>2. roles[i] = None
        BY <1>5 DEF CreateRole, IsNextId, NextIds, Used, Ids
    <2>3. n # SuperName /\ i # SuperId
        BY <1>2, <2>1, <2>2
    <2>4. roles' \in Rows /\ roles'[i] = row /\ \A j \in Ids : j # i => roles'[j] = roles[j]
        BY <1>1, <2>1, OneRow
    <2>5. RolesOK'
        BY <2>1, <2>3, NewName
    <2>6. \A m \in DefaultNames : Named(roles, m) # {} => Named(roles', m) # {}
        BY <2>2, <2>4 DEF Named
    <2>7. roles'[SuperId] # None
        BY <1>2, <2>1, <2>3, <2>4
    <2>8. QED
        BY <2>1, <2>4, <2>5, <2>6, <2>7 DEF RequestKeeps, TypeOK
<1>6. ASSUME NEW i \in Ids, NEW k \in Keys, PatchRole(i, k)
      PROVE  RequestKeeps
    <2>1. roles[i] # None /\ roles[i] \in Row /\ Change /\ UNCHANGED <<users, gone>>
        BY <1>1, <1>6 DEF PatchRole, Rows
    <2> DEFINE row == [roles[i] EXCEPT !.perms[k] = "decided"]
    <2>2. row \in Row /\ row.name = roles[i].name
        BY <2>1 DEF Row
    <2>3. roles' = [roles EXCEPT ![i] = row]
        BY <1>6 DEF PatchRole
    <2> HIDE DEF row
    <2>4. roles' \in Rows /\ roles'[i] = row /\ \A j \in Ids : j # i => roles'[j] = roles[j]
        BY <1>1, <2>2, <2>3, OneRow
    <2>5. row # None
        BY <2>2
    <2>6. RolesOK' /\ \A m : Named(roles', m) = Named(roles, m)
        BY <2>1, <2>2, <2>4, <2>5, SameNames
    <2>7. roles'[SuperId] # None
        BY <1>2, <2>1, <2>4, <2>5
    <2>8. QED
        BY <2>1, <2>4, <2>6, <2>7 DEF RequestKeeps, TypeOK
<1>7. ASSUME ResetRoles
      PROVE  RequestKeeps
    <2> DEFINE Unset(row) == [row EXCEPT !.perms = [k \in Keys |-> "unset"]]
    <2>1. Change /\ UNCHANGED <<users, gone>>
        BY <1>7 DEF ResetRoles
    <2>2. \A i \in Ids : roles[i] # None =>
             /\ Unset(roles[i]) \in Row /\ Unset(roles[i]).name = roles[i].name
             /\ Unset(roles[i]) # None /\ roles[i] \in Row
        <3> SUFFICES ASSUME NEW i \in Ids, roles[i] # None
                     PROVE  /\ Unset(roles[i]) \in Row /\ Unset(roles[i]).name = roles[i].name
                            /\ Unset(roles[i]) # None /\ roles[i] \in Row
            OBVIOUS
        <3>1. roles[i] \in Row
            BY <1>1 DEF Rows
        <3>2. Unset(roles[i]) \in Row /\ Unset(roles[i]).name = roles[i].name
            BY <3>1 DEF Row
        <3>3. Unset(roles[i]) # None
            BY <3>2
        <3>4. QED
            BY <3>1, <3>2, <3>3
    <2>3. /\ \A i \in Ids : \/ roles'[i] = roles[i]
                            \/ roles[i] # None /\ roles'[i] = Unset(roles[i])
          /\ roles' = [i \in Ids |-> roles'[i]]
        BY <1>7 DEF ResetRoles
    <2> HIDE DEF Unset
    <2>4. \A i \in Ids : roles'[i] \in Row \union {None}
        BY <1>1, <2>2, <2>3 DEF Rows
    <2>5. roles' \in Rows
        BY <2>3, <2>4 DEF Rows
    <2>6. \A j \in Ids : (roles[j] = None <=> roles'[j] = None)
                         /\ (roles[j] # None => roles'[j].name = roles[j].name)
        BY <2>2, <2>3
    <2>7. RolesOK' /\ \A m : Named(roles', m) = Named(roles, m)
        BY <2>6, SameNames
    <2>8. roles'[SuperId] # None
        BY <1>2, <2>1, <2>6
    <2>9. QED
        BY <2>1, <2>5, <2>7, <2>8 DEF RequestKeeps, TypeOK
<1>8. ASSUME NEW u \in Users, Signup(u)
      PROVE  RequestKeeps
    <2>1. /\ Change /\ UNCHANGED gone /\ users[u] = "none"
          /\ users' = [users EXCEPT ![u] = "plain"]
        BY <1>8 DEF Signup
    <2>2. users' \in [Users -> {"none", "plain", "super"}]
          /\ \A v \in Users : users[v] # "none" => users'[v] = users[v]
        BY <2>1 DEF TypeOK
    <2>3. roles' \in Rows /\ RolesOK' /\ roles'[SuperId] # None
          /\ \A m \in DefaultNames : Named(roles, m) # {} => Named(roles', m) # {}
        <3>1. CASE Named(roles, SignupName) # {}
            <4>1. UNCHANGED roles
                BY <1>8, <3>1 DEF Signup
            <4>2. QED
                BY <1>1, <1>2, <2>1, <4>1 DEF RolesOK, Used, Named
        <3>2. CASE Named(roles, SignupName) = {}
            <4> DEFINE i == FixedId[SignupName]
                       row == Fresh(SignupName)
            <4>1. SignupName \in DefaultNames /\ i \in Ids /\ i # SuperId
                BY FixedIdIsId DEF DefaultNames, SuperId
            <4>2. row \in Row /\ row.name = SignupName /\ row # None
                BY <4>1, FreshIsRow
            <4>3. roles' = [roles EXCEPT ![i] = row] /\ roles[i] = None
                BY <1>8, <3>2 DEF Signup, Drifted
            <4> HIDE DEF i, row
            <4>4. roles' \in Rows /\ roles'[i] = row /\ \A j \in Ids : j # i => roles'[j] = roles[j]
                BY <1>1, <4>1, <4>2, <4>3, OneRow
            <4>5. RolesOK'
                BY <3>2, <4>1, <4>2, <4>3, NewName
            <4>6. \A m \in DefaultNames : Named(roles, m) # {} => Named(roles', m) # {}
                BY <4>3, <4>4 DEF Named
            <4>7. QED
                BY <1>2, <2>1, <4>1, <4>4, <4>5, <4>6
        <3>3. QED
            BY <3>1, <3>2
    <2>4. QED
        BY <2>1, <2>2, <2>3 DEF RequestKeeps, TypeOK
<1>9. ASSUME NEW u \in Users, NEW s \in {"none", "plain", "super"}, ChangeUser(u, s)
      PROVE  RequestKeeps
    <2>1. Change /\ TakeAway(Boot) /\ UNCHANGED roles /\ users' = [users EXCEPT ![u] = s]
        BY <1>9 DEF ChangeUser
    <2>2. \A p \in Processes : Boot \in gone'[p]
        BY <2>1, TakenAway
    <2>3. RolesOK'
        BY <2>1 DEF RolesOK, Used, Named
    <2>4. QED
        BY <1>1, <1>2, <2>1, <2>2, <2>3, TakenAway DEF RequestKeeps, TypeOK
<1>10. QED
    BY <1>3, <1>4, <1>5, <1>6, <1>7, <1>8, <1>9 DEF Requests

-----------------------------------------------------------------------------
(***************************************************************************)
(* The seeding of the roles.                                               *)
(***************************************************************************)
LEMMA SeedFrame ==
    ASSUME NEW p \in Processes, SeedRoles(p)
    PROVE  /\ pc[p] = "flush" /\ pc' = [pc EXCEPT ![p] = "super"]
           /\ translated' = TRUE
           /\ seen' = [seen EXCEPT ![p] = NoRoles]
           /\ UNCHANGED <<schema, users, run, changes, crashes, gone>>
           /\ ~Conflict(seen[p])
BY DEF SeedRoles, Goto, countVars

\* A process past its select has seen the SuperAdmin role, or is to insert it.
LEMMA SeenSuper ==
    ASSUME TypeOK, SeenOK, NEW p \in Processes, pc[p] = "flush",
           SuperName \notin MissingNames(seen[p])
    PROVE  roles[SuperId] # None
<1>1. ~Drifted(seen[p], SuperName)
    BY SuperIdIsId DEF SeenOK, Drift
<1>2. Named(seen[p], SuperName) # {}
    BY SuperIdIsId DEF MissingNames
<1>3. Named(seen[p], SuperName) = {SuperId}
    BY <1>1, <1>2 DEF Drifted, SuperId
<1>4. seen[p][SuperId] # None
    BY <1>3 DEF Named
<1>5. QED
    BY <1>4 DEF SeenOK, SuperId

\* What a seeding leaves of the rows.
SeedKeeps(S) ==
    /\ roles' \in Rows
    /\ RolesOK'
    /\ roles'[SuperId] # None
    /\ \A j \in Ids : roles[j] # None =>
          /\ roles'[j] # None /\ roles'[j].name = roles[j].name
          /\ roles'[j] = Updated(S)[j]
    /\ \A n \in DefaultNames : Named(roles, n) # {} \/ n \in MissingNames(S) =>
          Named(roles', n) # {}

LEMMA SeedStep ==
    ASSUME TypeOK, RolesOK, SeenOK, NEW p \in Processes, SeedRoles(p)
    PROVE  SeedKeeps(seen[p])
<1> DEFINE S == seen[p]
           M == MissingNames(S)
<1>1. PICK i \in Ids :
        /\ SeedAdds(S, i)
        /\ \A n \in M \intersect FixedNames : roles'[FixedId[n]] = Fresh(n)
        /\ AutoName \in M => roles'[i] = Fresh(AutoName)
    BY SeedRows
<1>2. ~Conflict(S) /\ S \in Rows /\ roles \in Rows /\ M \subseteq DefaultNames
    BY SeedFrame DEF TypeOK, Rows, MissingNames
<1>3. \A j \in Ids : roles[j] # None =>
         Updated(S)[j] \in Row /\ Updated(S)[j] # None /\ Updated(S)[j].name = roles[j].name
    BY <1>2, UpdatedRows
<1>4. \A n \in M : Fresh(n) \in Row /\ Fresh(n).name = n /\ Fresh(n) # None
    BY <1>2, FreshIsRow
<1>5. \A n \in M : Named(roles, n) = {}
    BY <1>2 DEF Conflict
<1> HIDE DEF M
<1>6. \A j \in Ids :
        \/ roles[j] # None /\ roles'[j] = Updated(S)[j]
        \/ roles[j] = None /\ roles'[j] = None
        \/ roles[j] = None /\ \E n \in M : /\ roles'[j] = Fresh(n)
                                           /\ n \in FixedNames => j = FixedId[n]
                                           /\ n = AutoName => j = i
    BY <1>1 DEF SeedAdds, M
<1>7. roles' \in Rows
    <2>1. roles' = [j \in Ids |-> roles'[j]]
        <3>1. \E k \in Ids : roles' = [WithFixed(Updated(S), M) EXCEPT ![k] = Fresh(AutoName)]
              \/ roles' = WithFixed(Updated(S), M)
            BY DEF SeedRoles, M
        <3>2. QED
            BY <3>1 DEF WithFixed
    <2>2. \A j \in Ids : roles'[j] \in Row \union {None}
        BY <1>3, <1>4, <1>6
    <2>3. QED
        BY <2>1, <2>2 DEF Rows
<1>8. \A j \in Ids : roles[j] # None => roles'[j] # None /\ roles'[j].name = roles[j].name
    BY <1>3, <1>6
<1>9. \A j \in Ids : roles'[j] # None /\ roles[j] = None =>
        /\ roles'[j].name \in M
        /\ roles'[j].name \in FixedNames => j = FixedId[roles'[j].name]
        /\ roles'[j].name = AutoName => j = i
    BY <1>4, <1>6
<1>10. \A n \in DefaultNames : Named(roles, n) # {} \/ n \in M => Named(roles', n) # {}
    <2> TAKE n \in DefaultNames
    <2>1. CASE Named(roles, n) # {}
        BY <1>8, <2>1 DEF Named
    <2>2. CASE n \in M /\ n \in FixedNames
        <3>1. roles'[FixedId[n]] = Fresh(n) /\ FixedId[n] \in Ids
            BY <1>1, <2>2, FixedIdIsId DEF M
        <3>2. FixedId[n] \in Named(roles', n)
            BY <1>4, <2>2, <3>1 DEF Named
        <3>3. QED
            BY <3>2
    <2>3. CASE n \in M /\ n = AutoName
        <3>1. roles'[i] = Fresh(n)
            BY <1>1, <2>3 DEF M
        <3>2. i \in Named(roles', n)
            BY <1>4, <2>3, <3>1 DEF Named
        <3>3. QED
            BY <3>2
    <2>4. QED
        BY <2>1, <2>2, <2>3 DEF DefaultNames
<1>11. \A j, k \in Used(roles') : roles'[j].name = roles'[k].name => j = k
    <2> SUFFICES ASSUME NEW j \in Ids, NEW k \in Ids, roles'[j] # None, roles'[k] # None,
                        roles'[j].name = roles'[k].name
                 PROVE  j = k
        BY DEF Used
    <2>1. CASE roles[j] # None /\ roles[k] # None
        BY <1>8, <2>1 DEF RolesOK, Used
    <2>2. CASE roles[j] = None /\ roles[k] = None
        BY <1>2, <1>9, <2>2 DEF DefaultNames
    <2>3. CASE roles[j] # None /\ roles[k] = None
        BY <1>5, <1>8, <1>9, <2>3 DEF Named
    <2>4. CASE roles[j] = None /\ roles[k] # None
        BY <1>5, <1>8, <1>9, <2>4 DEF Named
    <2>5. QED
        BY <2>1, <2>2, <2>3, <2>4
<1>12. Named(roles', SuperName) \subseteq {SuperId}
    <2> SUFFICES ASSUME NEW j \in Ids, roles'[j] # None, roles'[j].name = SuperName
                 PROVE  j = SuperId
        BY DEF Named
    <2>1. CASE roles[j] # None
        BY <1>8, <2>1 DEF RolesOK, Named, SuperId
    <2>2. CASE roles[j] = None
        BY <1>9, <2>2 DEF SuperId
    <2>3. QED
        BY <2>1, <2>2
<1>13. roles'[SuperId] # None /\ roles'[SuperId].name = SuperName
    <2>1. CASE SuperName \in M
        BY <1>1, <1>4, <2>1 DEF M, SuperId
    <2>2. CASE SuperName \notin M
        <3>1. roles[SuperId] # None
            BY <2>2, SeedFrame, SeenSuper DEF M
        <3>2. QED
            BY <1>8, <3>1, SuperIdIsId DEF RolesOK, SuperId
    <2>3. QED
        BY <2>1, <2>2
<1>14. QED
    BY <1>6, <1>7, <1>8, <1>10, <1>11, <1>12, <1>13 DEF SeedKeeps, RolesOK, M, SuperId

-----------------------------------------------------------------------------
(***************************************************************************)
(* Every other step leaves the roles alone.                                *)
(***************************************************************************)
LEMMA StepKeepsRoles ==
    ASSUME NEW p \in Processes, Step(p) \/ Crash(p), ~SeedRoles(p)
    PROVE  UNCHANGED roles
BY DEF Step, Crash, Start, Migrate, Seed, MakeSuper, ReadRevision, CreateTable, TableExists,
       CreateOthers, StampRevision, MissingSchema, DriftDetected, SelectRoles, SeedConflicts,
       RolesInPlace, SelectTitles, InsertTitles, TitleConflicts, SelectSuper, SelectName,
       InsertSuper, SuperConflicts, Fail, dbVars

\* What is never taken away: the tables, the translations, the SuperAdmin role.
LEMMA Lasting ==
    ASSUME TypeOK, RolesOK, SuperRoleStays, SchemaOK, SeenOK, Next
    PROVE  /\ HasTables => HasTables'
           /\ translated => translated'
           /\ roles[SuperId] # None => roles'[SuperId] # None
<1>1. ASSUME NEW p \in Processes, Step(p) \/ Crash(p), ~SeedRoles(p)
      PROVE  (HasTables => HasTables') /\ (translated => translated')
    BY <1>1 DEF Step, Crash, Start, Migrate, Seed, MakeSuper, ReadRevision, CreateTable,
       TableExists, CreateOthers, StampRevision, MissingSchema, DriftDetected, SelectRoles,
       SeedConflicts, RolesInPlace, SelectTitles, InsertTitles, TitleConflicts, SelectSuper,
       SelectName, InsertSuper, SuperConflicts, Fail, dbVars, HasTables
<1>2. ASSUME NEW p \in Processes, SeedRoles(p)
      PROVE  /\ (HasTables => HasTables') /\ (translated => translated')
             /\ roles'[SuperId] # None
    BY <1>2, SeedFrame, SeedStep DEF HasTables, SeedKeeps
<1>3. ASSUME Requests
      PROVE  UNCHANGED <<schema, translated>> /\ roles'[SuperId] # None
    <2>1. Change
        BY <1>3 DEF Requests, RenameRole, CreateRole, DeleteRole, PatchRole, ResetRoles, Signup,
              ChangeUser
    <2>2. QED
        BY <1>3, <2>1, RequestStep DEF Change, RequestKeeps
<1>4. QED
    BY <1>1, <1>2, <1>3, StepKeepsRoles DEF Next, HasTables

-----------------------------------------------------------------------------
(***************************************************************************)
(* Type correctness.                                                       *)
(***************************************************************************)
Labels == {"down"} \union Migrating \union Seeding \union Seeded

LEMMA NoRolesTyped == NoRoles \in Rows /\ Used(NoRoles) = {}
BY DEF NoRoles, Rows, Used

LEMMA RequestFrame ==
    ASSUME Requests
    PROVE  Change
BY DEF Requests, RenameRole, CreateRole, DeleteRole, PatchRole, ResetRoles, Signup, ChangeUser

LEMMA ForgetTyped ==
    ASSUME TypeOK, NEW p \in Processes, Forget(p)
    PROVE  /\ run' \in [Processes -> {"native", "prestart", "worker"}]
           /\ seen' \in [Processes -> Rows]
BY NoRolesTyped DEF TypeOK, Forget, Rows

LEMMA FailTyped ==
    ASSUME TypeOK, NEW p \in Processes, Fail(p)
    PROVE  TypeOK'
<1>1. pc' \in [Processes -> Labels]
    BY DEF TypeOK, Fail, Goto, Labels
<1>2. QED
    BY <1>1, ForgetTyped DEF TypeOK, Fail, dbVars, countVars, Labels, Rows

LEMMA MigrateTyped ==
    ASSUME TypeOK, NEW p \in Processes, Start(p) \/ Migrate(p)
    PROVE  TypeOK'
<1>1. CASE TableExists(p)
    BY <1>1, FailTyped DEF TableExists
<1>2. CASE Start(p) \/ ReadRevision(p) \/ CreateTable(p) \/ CreateOthers(p) \/ StampRevision(p)
    <2>1. pc' \in [Processes -> Labels]
        BY <1>2 DEF TypeOK, Start, ReadRevision, CreateTable, CreateOthers, StampRevision, Goto,
              Labels, Migrating, Seeding
    <2>2. schema' \in {"none", "part", "unstamped", "head"}
        BY <1>2 DEF TypeOK, Start, ReadRevision, CreateTable, CreateOthers, StampRevision, dbVars
    <2>3. UNCHANGED <<roles, translated, users, run, seen, changes, crashes, gone>>
        BY <1>2 DEF Start, ReadRevision, CreateTable, CreateOthers, StampRevision, dbVars,
              countVars
    <2>4. QED
        BY <2>1, <2>2, <2>3 DEF TypeOK, Labels
<1>3. QED
    BY <1>1, <1>2 DEF Migrate

LEMMA SelectRolesFrame ==
    ASSUME TypeOK, NEW p \in Processes, SelectRoles(p)
    PROVE  \E S \in Rows :
             /\ \A i \in Ids : S[i] = IF roles[i] # None /\ roles[i].name \in DefaultNames
                                      THEN roles[i] ELSE None
             /\ seen' = [seen EXCEPT ![p] = S]
<1> DEFINE S == [i \in Ids |-> IF roles[i] # None /\ roles[i].name \in DefaultNames
                               THEN roles[i] ELSE None]
<1>1. seen' = [seen EXCEPT ![p] = S]
    BY DEF SelectRoles
<1>2. S \in Rows
    BY DEF TypeOK, Rows
<1>3. QED
    BY <1>1, <1>2

LEMMA SeedTyped ==
    ASSUME TypeOK, RolesOK, SeenOK, NEW p \in Processes, Seed(p)
    PROVE  TypeOK'
<1>1. CASE DriftDetected(p) \/ SeedConflicts(p) \/ TitleConflicts(p)
    BY <1>1, FailTyped DEF DriftDetected, SeedConflicts, TitleConflicts
<1>2. CASE SelectRoles(p)
    <2>1. seen' \in [Processes -> Rows]
        BY <1>2, SelectRolesFrame DEF TypeOK, Rows
    <2>2. pc' \in [Processes -> Labels]
        BY <1>2 DEF TypeOK, SelectRoles, Goto, Labels, Seeding
    <2>3. gone' \in [Processes -> SUBSET (DefaultNames \union {Boot})]
        BY <1>2 DEF TypeOK, SelectRoles
    <2>4. QED
        BY <1>2, <2>1, <2>2, <2>3 DEF TypeOK, SelectRoles, dbVars, countVars, Labels, Rows
<1>3. CASE SeedRoles(p)
    <2>1. pc' \in [Processes -> Labels]
        BY <1>3, SeedFrame DEF TypeOK, Labels, Seeded
    <2>2. seen' \in [Processes -> Rows]
        <3>1. seen' = [seen EXCEPT ![p] = NoRoles]
            BY <1>3, SeedFrame
        <3>2. seen \in [Processes -> Rows] /\ NoRoles \in Rows
            BY NoRolesTyped DEF TypeOK, Rows
        <3>3. QED
            BY <3>1, <3>2
    <2>3. roles' \in Rows /\ translated' \in BOOLEAN
        BY <1>3, SeedFrame, SeedStep DEF SeedKeeps
    <2>4. QED
        BY <1>3, <2>1, <2>2, <2>3, SeedFrame DEF TypeOK, Labels, Rows
<1>4. CASE MissingSchema(p) \/ RolesInPlace(p) \/ SelectTitles(p) \/ InsertTitles(p)
    <2>1. pc' \in [Processes -> Labels]
        BY <1>4 DEF TypeOK, MissingSchema, RolesInPlace, SelectTitles, InsertTitles, Goto,
              Labels, Migrating, Seeding, Seeded
    <2>2. seen' \in [Processes -> Rows]
        BY <1>4, NoRolesTyped DEF TypeOK, MissingSchema, RolesInPlace, SelectTitles, InsertTitles,
              Rows
    <2>3. translated' \in BOOLEAN
        BY <1>4 DEF TypeOK, MissingSchema, RolesInPlace, SelectTitles, InsertTitles, dbVars
    <2>4. UNCHANGED <<schema, roles, users, run, changes, crashes, gone>>
        BY <1>4 DEF MissingSchema, RolesInPlace, SelectTitles, InsertTitles, dbVars, countVars
    <2>5. QED
        BY <2>1, <2>2, <2>3, <2>4 DEF TypeOK, Labels, Rows
<1>5. QED
    BY <1>1, <1>2, <1>3, <1>4 DEF Seed

LEMMA ReadyTyped ==
    ASSUME TypeOK, NEW p \in Processes, IsReady(p)
    PROVE  /\ run' \in [Processes -> {"native", "prestart", "worker"}]
           /\ pc' \in [Processes -> Labels]
BY DEF TypeOK, IsReady, Goto, Labels, Seeded

LEMMA MakeSuperTyped ==
    ASSUME TypeOK, NEW p \in Processes, MakeSuper(p)
    PROVE  TypeOK'
<1>1. CASE SuperConflicts(p)
    BY <1>1, FailTyped DEF SuperConflicts
<1>2. CASE SelectSuper(p) \/ SelectName(p) \/ InsertSuper(p)
    <2>1. \/ IsReady(p)
          \/ Goto(p, "name") /\ UNCHANGED run
          \/ Goto(p, "insert") /\ UNCHANGED run
        BY <1>2 DEF SelectSuper, SelectName, InsertSuper
    <2>2. /\ run' \in [Processes -> {"native", "prestart", "worker"}]
          /\ pc' \in [Processes -> Labels]
        <3>1. CASE IsReady(p)
            BY <3>1, ReadyTyped
        <3>2. CASE (Goto(p, "name") \/ Goto(p, "insert")) /\ UNCHANGED run
            BY <3>2 DEF TypeOK, Goto, Labels, Seeded
        <3>3. QED
            BY <2>1, <3>1, <3>2
    <2>3. users' \in [Users -> {"none", "plain", "super"}]
        BY <1>2 DEF TypeOK, SelectSuper, SelectName, InsertSuper, dbVars
    <2>4. gone' \in [Processes -> SUBSET (DefaultNames \union {Boot})]
        BY <1>2 DEF TypeOK, SelectSuper, SelectName, InsertSuper
    <2>5. UNCHANGED <<schema, roles, translated, seen, changes, crashes>>
        BY <1>2 DEF SelectSuper, SelectName, InsertSuper, dbVars, countVars
    <2>6. QED
        BY <2>2, <2>3, <2>4, <2>5 DEF TypeOK, Labels
<1>3. QED
    BY <1>1, <1>2 DEF MakeSuper

LEMMA NextTyped ==
    ASSUME TypeOK, RolesOK, SuperRoleStays, SchemaOK, SeenOK, [Next]_vars
    PROVE  TypeOK'
<1>1. ASSUME NEW p \in Processes, Step(p)
      PROVE  TypeOK'
    BY <1>1, MigrateTyped, SeedTyped, MakeSuperTyped DEF Step
<1>2. ASSUME NEW p \in Processes, Crash(p)
      PROVE  TypeOK'
    <2>1. pc' \in [Processes -> Labels]
        BY <1>2 DEF TypeOK, Crash, Goto, Labels
    <2>2. Forget(p) /\ crashes' \in 0 .. MaxCrashes
        BY <1>2 DEF TypeOK, Crash
    <2>3. QED
        BY <1>2, <2>1, <2>2, ForgetTyped DEF TypeOK, Crash, dbVars, Labels, Rows
<1>3. ASSUME Requests
      PROVE  TypeOK'
    <2>1. RequestKeeps /\ Change
        BY <1>3, RequestStep, RequestFrame
    <2>2. changes' \in 0 .. MaxChanges
        BY <2>1 DEF TypeOK, Change
    <2>3. QED
        BY <2>1, <2>2 DEF TypeOK, RequestKeeps, Change, Rows
<1>4. CASE UNCHANGED vars
    BY <1>4 DEF TypeOK, vars
<1>5. QED
    BY <1>1, <1>2, <1>3, <1>4 DEF Next

-----------------------------------------------------------------------------
(***************************************************************************)
(* The schema and the stages of a start.                                   *)
(***************************************************************************)
SchemaOf(p) ==
    /\ pc[p] = "finish" => schema = "part"
    /\ pc[p] = "stamp" => schema = "unstamped"
    /\ pc[p] = "roles" /\ run[p] = "prestart" => HasTables
    /\ pc[p] \in (Seeding \ {"roles"}) \union Seeded => HasTables
    /\ run[p] = "worker" => pc[p] \in Seeded
    /\ run[p] = "native" <=> p \in Natives

\* A start that neither migrates nor goes on with a schema that is not there.
LEMMA StageStep ==
    ASSUME TypeOK, SchemaOK, NEW p \in Processes, NEW l \in Labels, HasTables => HasTables',
           pc' = [pc EXCEPT ![p] = l],
           l \notin {"finish", "stamp"},
           UNCHANGED schema,
           \A q \in Processes : q # p => run'[q] = run[q],
           SchemaOf(p)',
           ~HasTables => UNCHANGED <<roles, translated>>
    PROVE  SchemaOK'
<1>1. \A q \in Processes : SchemaOf(q)'
    <2> TAKE q \in Processes
    <2>1. CASE q = p
        BY <2>1
    <2>2. CASE q # p
        <3>1. pc'[q] = pc[q] /\ run'[q] = run[q]
            BY <2>2 DEF TypeOK
        <3>2. SchemaOf(q)
            BY DEF SchemaOK, SchemaOf
        <3>3. QED
            BY <3>1, <3>2 DEF SchemaOf, HasTables
    <2>3. QED
        BY <2>1, <2>2
<1>2. \A q, r \in Processes :
         pc'[q] \in {"finish", "stamp"} /\ pc'[r] \in {"finish", "stamp"} => q = r
    BY DEF TypeOK, SchemaOK
<1>3. ~HasTables' => roles' = NoRoles /\ ~translated'
    BY DEF SchemaOK, HasTables
<1>4. QED
    BY <1>1, <1>2, <1>3 DEF SchemaOK, SchemaOf

LEMMA FailStage ==
    ASSUME TypeOK, SchemaOK, NEW p \in Processes, Goto(p, "down"), Forget(p), UNCHANGED dbVars
    PROVE  SchemaOK'
<1>1. SchemaOf(p)'
    BY DEF TypeOK, Goto, Forget, SchemaOf, Seeding, Seeded
<1>2. \A q \in Processes : q # p => run'[q] = run[q]
    BY DEF TypeOK, Forget
<1>3. pc' = [pc EXCEPT ![p] = "down"] /\ UNCHANGED <<schema, roles, translated>>
    BY DEF Goto, dbVars
<1>4. "down" \in Labels
    BY DEF Labels
<1>5. QED
    BY <1>1, <1>2, <1>3, <1>4, StageStep DEF HasTables

LEMMA MigrateStage ==
    ASSUME TypeOK, SchemaOK, NEW p \in Processes, Start(p) \/ Migrate(p)
    PROVE  SchemaOK'
<1>1. CASE TableExists(p)
    BY <1>1, FailStage DEF TableExists, Fail
<1>2. CASE Start(p)
    <2> DEFINE l == IF p \in Natives THEN "roles" ELSE "migrate"
    <2>1. pc' = [pc EXCEPT ![p] = l] /\ l \in Labels \ {"finish", "stamp"} /\ pc[p] = "down"
          /\ UNCHANGED <<schema, roles, translated, run>>
        BY <1>2 DEF Start, Goto, dbVars, Labels, Migrating, Seeding
    <2>2. SchemaOf(p)'
        BY <2>1 DEF TypeOK, SchemaOK, SchemaOf, Seeding, Seeded
    <2>3. QED
        BY <2>1, <2>2, StageStep DEF HasTables
<1>3. CASE ReadRevision(p)
    <2> DEFINE l == IF schema = "head" THEN "roles" ELSE "create"
    <2>1. pc' = [pc EXCEPT ![p] = l] /\ l \in Labels \ {"finish", "stamp"} /\ pc[p] = "migrate"
          /\ UNCHANGED <<schema, roles, translated, run>>
        BY <1>3 DEF ReadRevision, Goto, dbVars, Labels, Migrating, Seeding
    <2>2. SchemaOf(p)'
        BY <2>1 DEF TypeOK, SchemaOK, SchemaOf, Seeding, Seeded, HasTables
    <2>3. QED
        BY <2>1, <2>2, StageStep DEF HasTables
<1>4. CASE CreateTable(p)
    <2>1. /\ pc[p] = "create" /\ schema = "none" /\ schema' = "part"
          /\ pc' = [pc EXCEPT ![p] = "finish"] /\ UNCHANGED <<roles, translated, run>>
        BY <1>4 DEF CreateTable, Goto
    <2>2. \A q \in Processes : pc[q] \notin {"finish", "stamp"}
        BY <2>1 DEF SchemaOK
    <2>3. \A q \in Processes : pc'[q] = IF q = p THEN "finish" ELSE pc[q]
        BY <2>1 DEF TypeOK
    <2>4. ~HasTables /\ ~HasTables'
        BY <2>1 DEF HasTables
    <2>5. \A q \in Processes : SchemaOf(q)'
        BY <2>1, <2>2, <2>3, <2>4 DEF SchemaOK, SchemaOf, Seeding, Seeded
    <2>6. QED
        BY <2>1, <2>2, <2>3, <2>4, <2>5 DEF SchemaOK, SchemaOf
<1>5. CASE CreateOthers(p)
    <2>1. /\ pc[p] = "finish" /\ schema' = "unstamped"
          /\ pc' = [pc EXCEPT ![p] = "stamp"] /\ UNCHANGED <<roles, translated, run>>
        BY <1>5 DEF CreateOthers, Goto
    <2>2. \A q \in Processes : q # p => pc[q] \notin {"finish", "stamp"}
        BY <2>1 DEF SchemaOK
    <2>3. \A q \in Processes : pc'[q] = IF q = p THEN "stamp" ELSE pc[q]
        BY <2>1 DEF TypeOK
    <2>4. HasTables'
        BY <2>1 DEF HasTables
    <2>5. \A q \in Processes : SchemaOf(q)'
        BY <2>1, <2>2, <2>3, <2>4 DEF SchemaOK, SchemaOf, Seeding, Seeded
    <2>6. QED
        BY <2>1, <2>2, <2>3, <2>4, <2>5 DEF SchemaOK, SchemaOf
<1>6. CASE StampRevision(p)
    <2>1. /\ pc[p] = "stamp" /\ schema' = "head"
          /\ pc' = [pc EXCEPT ![p] = "roles"] /\ UNCHANGED <<roles, translated, run>>
        BY <1>6 DEF StampRevision, Goto
    <2>2. \A q \in Processes : q # p => pc[q] \notin {"finish", "stamp"}
        BY <2>1 DEF SchemaOK
    <2>3. \A q \in Processes : pc'[q] = IF q = p THEN "roles" ELSE pc[q]
        BY <2>1 DEF TypeOK
    <2>4. HasTables'
        BY <2>1 DEF HasTables
    <2>5. \A q \in Processes : SchemaOf(q)'
        BY <2>1, <2>2, <2>3, <2>4 DEF SchemaOK, SchemaOf, Seeding, Seeded
    <2>6. QED
        BY <2>1, <2>2, <2>3, <2>4, <2>5 DEF SchemaOK, SchemaOf
<1>7. QED
    BY <1>1, <1>2, <1>3, <1>4, <1>5, <1>6 DEF Migrate

LEMMA SeedStage ==
    ASSUME TypeOK, SchemaOK, NEW p \in Processes, Seed(p)
    PROVE  SchemaOK'
<1>1. CASE DriftDetected(p) \/ SeedConflicts(p) \/ TitleConflicts(p)
    BY <1>1, FailStage DEF DriftDetected, SeedConflicts, TitleConflicts, Fail
<1>2. CASE MissingSchema(p)
    <2>1. /\ pc[p] = "roles" /\ ~HasTables /\ pc' = [pc EXCEPT ![p] = "migrate"]
          /\ UNCHANGED <<schema, roles, translated, run>>
        BY <1>2 DEF MissingSchema, Goto, dbVars
    <2>2. SchemaOf(p)' /\ "migrate" \in Labels
        BY <2>1 DEF TypeOK, SchemaOK, SchemaOf, Seeding, Seeded, Labels, Migrating
    <2>3. QED
        BY <2>1, <2>2, StageStep DEF HasTables
<1>3. CASE SelectRoles(p) \/ SeedRoles(p) \/ RolesInPlace(p) \/ SelectTitles(p) \/ InsertTitles(p)
    <2>1. /\ HasTables
          /\ \E l \in {"flush", "titles", "insertTitles", "super"} : pc' = [pc EXCEPT ![p] = l]
          /\ UNCHANGED <<schema, run>>
        BY <1>3, SeedFrame DEF SelectRoles, RolesInPlace, SelectTitles, InsertTitles, Goto, dbVars,
              SchemaOK, Seeding
    <2>2. PICK l \in {"flush", "titles", "insertTitles", "super"} : pc' = [pc EXCEPT ![p] = l]
        BY <2>1
    <2>3. pc[p] # "down" /\ run[p] # "worker"
        BY <1>3, SeedFrame DEF SelectRoles, RolesInPlace, SelectTitles, InsertTitles, SchemaOK,
              Seeded
    <2>4. SchemaOf(p)' /\ l \in Labels
        BY <2>1, <2>2, <2>3 DEF TypeOK, SchemaOK, SchemaOf, Seeding, Seeded, Labels, HasTables
    <2>5. QED
        BY <2>1, <2>2, <2>4, StageStep DEF HasTables
<1>4. QED
    BY <1>1, <1>2, <1>3 DEF Seed

LEMMA MakeSuperStage ==
    ASSUME TypeOK, SchemaOK, NEW p \in Processes, MakeSuper(p)
    PROVE  SchemaOK'
<1>1. CASE SuperConflicts(p)
    BY <1>1, FailStage DEF SuperConflicts, Fail
<1>2. CASE SelectSuper(p) \/ SelectName(p) \/ InsertSuper(p)
    <2>1. /\ HasTables /\ UNCHANGED <<schema, roles, translated>>
          /\ \/ IsReady(p)
             \/ Goto(p, "name") /\ UNCHANGED run
             \/ Goto(p, "insert") /\ UNCHANGED run
        BY <1>2 DEF SelectSuper, SelectName, InsertSuper, dbVars, SchemaOK, Seeded
    <2>2. PICK l \in Seeded : pc' = [pc EXCEPT ![p] = l]
        BY <2>1 DEF IsReady, Goto, Seeded
    <2>3. \/ UNCHANGED run
          \/ run[p] = "prestart" /\ run' = [run EXCEPT ![p] = "worker"]
        <3>1. CASE IsReady(p)
            BY <3>1 DEF IsReady
        <3>2. CASE UNCHANGED run
            BY <3>2
        <3>3. QED
            BY <2>1, <3>1, <3>2
    <2>4. SchemaOf(p)' /\ l \in Labels /\ l \notin {"finish", "stamp"}
        BY <2>1, <2>2, <2>3 DEF TypeOK, SchemaOK, SchemaOf, Seeding, Seeded, Labels, HasTables
    <2>5. \A q \in Processes : q # p => run'[q] = run[q]
        BY <2>3 DEF TypeOK
    <2>6. QED
        BY <2>1, <2>2, <2>4, <2>5, StageStep DEF HasTables
<1>3. QED
    BY <1>1, <1>2 DEF MakeSuper

LEMMA SchemaStep ==
    ASSUME TypeOK, RolesOK, SuperRoleStays, SchemaOK, [Next]_vars
    PROVE  SchemaOK'
<1>1. ASSUME NEW p \in Processes, Step(p) \/ Crash(p)
      PROVE  SchemaOK'
    BY <1>1, MigrateStage, SeedStage, MakeSuperStage, FailStage DEF Step, Crash
<1>2. ASSUME Requests
      PROVE  SchemaOK'
    <2>1. HasTables /\ UNCHANGED <<schema, run, pc>>
        BY <1>2, RequestFrame, ChangeFinds
    <2>2. QED
        BY <2>1 DEF SchemaOK, HasTables
<1>3. CASE UNCHANGED vars
    BY <1>3 DEF vars, SchemaOK, HasTables
<1>4. QED
    BY <1>1, <1>2, <1>3 DEF Next

-----------------------------------------------------------------------------
(***************************************************************************)
(* What a process has seen and what is there.                              *)
(***************************************************************************)
Late == {"titles", "insertTitles"} \union Seeded

\* A start changes nothing of another one.
LEMMA MovesOne ==
    ASSUME TypeOK, NEW p \in Processes, Step(p) \/ Crash(p), NEW q \in Processes, q # p
    PROVE  pc'[q] = pc[q] /\ seen'[q] = seen[q] /\ gone'[q] = gone[q]
<1>1. CASE Start(p) \/ Migrate(p) \/ Crash(p)
    BY <1>1 DEF TypeOK, Start, Crash, Migrate, ReadRevision, CreateTable, TableExists,
       CreateOthers, StampRevision, Fail, Forget, Goto
<1>2. CASE Seed(p)
    <2>1. CASE SeedRoles(p)
        <3>1. /\ pc' = [pc EXCEPT ![p] = "super"] /\ seen' = [seen EXCEPT ![p] = NoRoles]
              /\ UNCHANGED gone
            BY <2>1, SeedFrame
        <3>2. QED
            BY <3>1 DEF TypeOK
    <2>2. CASE SelectRoles(p)
        BY <2>2 DEF TypeOK, SelectRoles, Goto
    <2>3. CASE ~SeedRoles(p) /\ ~SelectRoles(p)
        BY <1>2, <2>3 DEF TypeOK, Seed, MissingSchema, DriftDetected, SeedConflicts, RolesInPlace,
           SelectTitles, InsertTitles, TitleConflicts, Fail, Forget, Goto
    <2>4. QED
        BY <2>1, <2>2, <2>3
<1>3. CASE MakeSuper(p)
    <2>1. CASE SuperConflicts(p)
        BY <2>1 DEF TypeOK, SuperConflicts, Fail, Forget, Goto
    <2>2. CASE SelectSuper(p)
        BY <2>2 DEF TypeOK, SelectSuper, IsReady, Goto
    <2>3. CASE SelectName(p)
        BY <2>3 DEF TypeOK, SelectName, IsReady, Goto
    <2>4. CASE InsertSuper(p)
        BY <2>4 DEF TypeOK, InsertSuper, IsReady, Goto
    <2>5. QED
        BY <1>3, <2>1, <2>2, <2>3, <2>4 DEF MakeSuper
<1>4. QED
    BY <1>1, <1>2, <1>3 DEF Step

\* How a process comes to a stage past the seeding of the roles, ...
LEMMA EntersLate ==
    ASSUME TypeOK, NEW p \in Processes, Step(p) \/ Crash(p), pc'[p] \in Late, pc[p] \notin Late
    PROVE  RolesInPlace(p) \/ SeedRoles(p)
<1>1. CASE Start(p) \/ Migrate(p) \/ Crash(p)
    BY <1>1 DEF TypeOK, Start, Crash, Migrate, ReadRevision, CreateTable, TableExists,
       CreateOthers, StampRevision, Fail, Forget, Goto, Late, Seeded
<1>2. CASE Seed(p)
    BY <1>2 DEF TypeOK, Seed, MissingSchema, SelectRoles, DriftDetected, SeedConflicts,
       SelectTitles, InsertTitles, TitleConflicts, Fail, Forget, Goto, Late, Seeded
<1>3. CASE MakeSuper(p)
    BY <1>3 DEF MakeSuper, SelectSuper, SelectName, InsertSuper, SuperConflicts, Late, Seeded
<1>4. QED
    BY <1>1, <1>2, <1>3 DEF Step

\* ... and to the flush.
LEMMA EntersFlush ==
    ASSUME TypeOK, NEW p \in Processes, Step(p) \/ Crash(p), pc'[p] = "flush"
    PROVE  SelectRoles(p)
<1>1. CASE Start(p) \/ Migrate(p) \/ Crash(p)
    BY <1>1 DEF TypeOK, Start, Crash, Migrate, ReadRevision, CreateTable, TableExists,
       CreateOthers, StampRevision, Fail, Forget, Goto
<1>2. CASE Seed(p)
    <2>1. ~SeedRoles(p)
        BY SeedFrame DEF TypeOK
    <2>2. QED
        BY <1>2, <2>1 DEF TypeOK, Seed, MissingSchema, DriftDetected, SeedConflicts,
           RolesInPlace, SelectTitles, InsertTitles, TitleConflicts, Fail, Forget, Goto
<1>3. CASE MakeSuper(p)
    <2>1. CASE SuperConflicts(p)
        BY <2>1 DEF TypeOK, SuperConflicts, Fail, Forget, Goto
    <2>2. CASE SelectSuper(p)
        BY <2>2 DEF TypeOK, SelectSuper, IsReady, Goto
    <2>3. CASE SelectName(p)
        BY <2>3 DEF TypeOK, SelectName, IsReady, Goto
    <2>4. CASE InsertSuper(p)
        BY <2>4 DEF TypeOK, InsertSuper, IsReady, Goto
    <2>5. QED
        BY <1>3, <2>1, <2>2, <2>3, <2>4 DEF MakeSuper
<1>4. QED
    BY <1>1, <1>2, <1>3 DEF Step

LEMMA SuperRoleStep ==
    ASSUME TypeOK, RolesOK, SuperRoleStays, SchemaOK, SeenOK, [Next]_vars
    PROVE  SuperRoleStays'
<1>1. ASSUME NEW p \in Processes, Step(p) \/ Crash(p)
      PROVE  SuperRoleStays'
    <2>1. roles[SuperId] # None => roles'[SuperId] # None
        BY <1>1, Lasting DEF Next
    <2>2. ASSUME NEW q \in Processes, pc'[q] \in Late
          PROVE  roles'[SuperId] # None
        <3>1. CASE pc[q] \in Late
            BY <2>1, <3>1 DEF SuperRoleStays, Late, SuperId
        <3>2. CASE pc[q] \notin Late
            <4>1. q = p
                BY <1>1, <2>2, <3>2, MovesOne
            <4>2. CASE SeedRoles(p)
                BY <4>2, SeedStep DEF SeedKeeps
            <4>3. CASE RolesInPlace(p)
                <5>1. pc[p] = "flush" /\ MissingNames(seen[p]) = {}
                    BY <4>3 DEF RolesInPlace
                <5>2. roles[SuperId] # None
                    BY <5>1, SeenSuper
                <5>3. QED
                    BY <2>1, <5>2
            <4>4. QED
                BY <1>1, <2>2, <3>2, <4>1, <4>2, <4>3, EntersLate
        <3>3. QED
            BY <3>1, <3>2
    <2>3. QED
        BY <2>2 DEF SuperRoleStays, Late, SuperId
<1>2. ASSUME Requests
      PROVE  SuperRoleStays'
    BY <1>2, RequestStep DEF RequestKeeps, SuperRoleStays, SuperId
<1>3. CASE UNCHANGED vars
    BY <1>3 DEF vars, SuperRoleStays
<1>4. QED
    BY <1>1, <1>2, <1>3 DEF Next

\* A default role that is there no more is one a request has taken away.
LEMMA NamesStay ==
    ASSUME TypeOK, RolesOK, SuperRoleStays, SchemaOK, SeenOK, Next, NEW n \in DefaultNames,
           Named(roles, n) # {}, Named(roles', n) = {}
    PROVE  \A q \in Processes : n \in gone'[q]
<1>1. ASSUME NEW p \in Processes, Step(p) \/ Crash(p)
      PROVE  FALSE
    <2>1. CASE SeedRoles(p)
        BY <2>1, SeedStep DEF SeedKeeps
    <2>2. CASE ~SeedRoles(p)
        BY <1>1, <2>2, StepKeepsRoles
    <2>3. QED
        BY <2>1, <2>2
<1>2. CASE Requests
    BY <1>2, RequestStep DEF RequestKeeps
<1>3. QED
    BY <1>1, <1>2 DEF Next

SeenOf(q) ==
    /\ \A i \in Used(seen[q]) : seen[q][i].name \in DefaultNames
    /\ seen[q][SuperId] # None => roles[SuperId] # None
    /\ pc[q] = "flush" =>
          /\ ~Drift(seen[q])
          /\ \A n \in DefaultNames \ gone[q] : Named(seen[q], n) # {} => Named(roles, n) # {}

\* What a process sees that finds no drift.
LEMMA SelectSeen ==
    ASSUME TypeOK, NEW p \in Processes, SelectRoles(p)
    PROVE  SeenOf(p)'
<1>1. PICK S \in Rows :
        /\ \A i \in Ids : S[i] = IF roles[i] # None /\ roles[i].name \in DefaultNames
                                 THEN roles[i] ELSE None
        /\ seen' = [seen EXCEPT ![p] = S]
    BY SelectRolesFrame
<1>2. seen'[p] = S /\ UNCHANGED roles /\ ~Drift(roles)
    BY <1>1 DEF TypeOK, SelectRoles, dbVars
<1>3. \A n \in DefaultNames : Named(S, n) = Named(roles, n)
    BY <1>1 DEF Named
<1>4. ~Drift(S)
    <2> SUFFICES ASSUME NEW n \in DefaultNames, Drifted(S, n)
                 PROVE  Drifted(roles, n)
        BY <1>2 DEF Drift
    <2>1. n \in FixedNames /\ FixedId[n] \in Ids
        BY FixedIdIsId DEF Drifted
    <2>2. S[FixedId[n]] # None => roles[FixedId[n]] # None
        BY <1>1, <2>1
    <2>3. QED
        BY <1>3, <2>1, <2>2 DEF Drifted
<1>5. \A i \in Used(S) : S[i].name \in DefaultNames
    BY <1>1 DEF Used
<1>6. S[SuperId] # None => roles[SuperId] # None
    BY <1>1, SuperIdIsId
<1>7. QED
    BY <1>2, <1>3, <1>4, <1>5, <1>6 DEF SeenOf

LEMMA SeenStep ==
    ASSUME TypeOK, RolesOK, SuperRoleStays, SchemaOK, SeenOK, [Next]_vars
    PROVE  SeenOK'
<1> SUFFICES ASSUME NEW q \in Processes
             PROVE  SeenOf(q)'
    BY DEF SeenOK, SeenOf, SuperId
<1>1. SeenOf(q)
    BY DEF SeenOK, SeenOf, SuperId
<1>2. ASSUME Next, seen'[q] = seen[q], pc'[q] = "flush" => pc[q] = "flush" /\ gone[q] \subseteq gone'[q]
      PROVE  SeenOf(q)'
    <2>1. roles[SuperId] # None => roles'[SuperId] # None
        BY <1>2, Lasting
    <2>2. \A n \in DefaultNames :
             Named(roles, n) # {} /\ n \notin gone'[q] => Named(roles', n) # {}
        BY <1>2, NamesStay
    <2>3. QED
        BY <1>1, <1>2, <2>1, <2>2 DEF SeenOf
<1>3. ASSUME NEW p \in Processes, Step(p) \/ Crash(p)
      PROVE  SeenOf(q)'
    <2>1. CASE q # p
        BY <1>2, <1>3, <2>1, MovesOne DEF Next
    <2>2. CASE q = p /\ SelectRoles(p)
        BY <2>2, SelectSeen
    <2>3. CASE q = p /\ ~SelectRoles(p)
        <3>1. pc'[q] # "flush"
            BY <1>3, <2>3, EntersFlush
        <3>2. seen'[q] = seen[q] \/ seen'[q] = NoRoles
            <4>1. CASE SeedRoles(p)
                BY <2>3, <4>1, SeedFrame DEF TypeOK
            <4>2. CASE ~SeedRoles(p)
                BY <1>3, <2>3, <4>2 DEF TypeOK, Step, Crash, Start, Migrate, Seed, MakeSuper,
                   ReadRevision, CreateTable, TableExists, CreateOthers, StampRevision,
                   MissingSchema, DriftDetected, SeedConflicts, RolesInPlace, SelectTitles,
                   InsertTitles, TitleConflicts, SelectSuper, SelectName, InsertSuper,
                   SuperConflicts, Fail, Forget
            <4>3. QED
                BY <4>1, <4>2
        <3>3. CASE seen'[q] = NoRoles
            BY <3>1, <3>3, SuperIdIsId DEF SeenOf, NoRoles, Used
        <3>4. CASE seen'[q] = seen[q]
            BY <1>2, <1>3, <3>1, <3>4 DEF Next
        <3>5. QED
            BY <3>2, <3>3, <3>4
    <2>4. QED
        BY <2>1, <2>2, <2>3
<1>4. ASSUME Requests
      PROVE  SeenOf(q)'
    BY <1>2, <1>4, RequestFrame, RequestStep DEF Next, Change, RequestKeeps
<1>5. CASE UNCHANGED vars
    BY <1>1, <1>5 DEF vars, SeenOf
<1>6. QED
    BY <1>3, <1>4, <1>5 DEF Next

-----------------------------------------------------------------------------
(***************************************************************************)
(* The invariant.                                                          *)
(***************************************************************************)
LEMMA OldRolesOK ==
    ASSUME NEW R, R \in {{}, Recent}
    PROVE  /\ OldRoles(R) \in Rows
           /\ \A i \in Used(OldRoles(R)) :
                 OldRoles(R)[i].name \in DefaultNames /\ OldId(OldRoles(R)[i].name) = i
<1>1. ASSUME NEW n \in DefaultNames
      PROVE  OldRow(n, R) \in Row /\ OldRow(n, R).name = n
    BY <1>1, DefaultIsName DEF OldRow, Row
<1>2. ASSUME NEW i \in Ids
      PROVE  /\ OldRoles(R)[i] \in Row \union {None}
             /\ OldRoles(R)[i] # None =>
                   OldRoles(R)[i].name \in DefaultNames /\ OldId(OldRoles(R)[i].name) = i
    <2> DEFINE n == CHOOSE m \in DefaultNames \ R : OldId(m) = i
    <2>1. CASE \E m \in DefaultNames \ R : OldId(m) = i
        <3>1. n \in DefaultNames /\ OldId(n) = i
            BY <2>1
        <3>2. OldRoles(R)[i] = OldRow(n, R)
            BY <2>1 DEF OldRoles
        <3>3. QED
            BY <1>1, <3>1, <3>2
    <2>2. CASE ~ \E m \in DefaultNames \ R : OldId(m) = i
        BY <2>2 DEF OldRoles
    <2>3. QED
        BY <2>1, <2>2
<1>3. QED
    BY <1>2 DEF Rows, Used, OldRoles

LEMMA InitOK == Init => IInv
<1> SUFFICES ASSUME Init
             PROVE  IInv
    OBVIOUS
<1>1. roles \in Rows
    BY NoRolesTyped, OldRolesOK DEF Init
<1>2. \A i \in Used(roles) : roles[i].name \in DefaultNames /\ OldId(roles[i].name) = i
    BY NoRolesTyped, OldRolesOK DEF Init
<1>3. TypeOK
    <2>1. schema \in {"none", "part", "unstamped", "head"} /\ translated \in BOOLEAN
        BY DEF Init
    <2>2. /\ pc \in [Processes -> Labels]
          /\ run \in [Processes -> {"native", "prestart", "worker"}]
          /\ users \in [Users -> {"none", "plain", "super"}]
        BY DEF Init, Labels
    <2>3. seen \in [Processes -> Rows]
        BY NoRolesTyped DEF Init
    <2>4. changes \in 0 .. MaxChanges /\ crashes \in 0 .. MaxCrashes
        BY DEF Init
    <2>5. gone \in [Processes -> SUBSET (DefaultNames \union {Boot})]
        BY DEF Init
    <2>6. QED
        BY <1>1, <2>1, <2>2, <2>3, <2>4, <2>5 DEF TypeOK, Rows, Labels
<1>4. RolesOK
    <2>1. \A i, j \in Used(roles) : roles[i].name = roles[j].name => i = j
        BY <1>2
    <2>2. Named(roles, SuperName) \subseteq {FixedId[SuperName]}
        BY <1>2 DEF Named, Used, OldId
    <2>3. roles[FixedId[SuperName]] # None => roles[FixedId[SuperName]].name = SuperName
        <3> SUFFICES ASSUME roles[SuperId] # None
                     PROVE  roles[SuperId].name = SuperName
            BY DEF SuperId
        <3> DEFINE n == roles[SuperId].name
        <3>1. n \in DefaultNames /\ OldId(n) = SuperId
            BY <1>2, SuperIdIsId DEF Used
        <3>2. n # AutoName
            BY <3>1 DEF OldId, SuperId
        <3>3. QED
            BY <3>1, <3>2 DEF OldId, SuperId, DefaultNames
    <2>4. QED
        BY <2>1, <2>2, <2>3 DEF RolesOK
<1>5. \A p \in Processes : pc[p] = "down" /\ seen[p] = NoRoles
         /\ run[p] = IF p \in Natives THEN "native" ELSE "prestart"
    BY DEF Init
<1>6. SuperRoleStays
    BY <1>5 DEF SuperRoleStays, Seeded
<1>7. SchemaOK
    BY <1>5 DEF Init, SchemaOK, HasTables, Seeding, Seeded
<1>8. SeenOK
    BY <1>5, SuperIdIsId, NoRolesTyped DEF SeenOK, NoRoles, SuperId
<1>9. QED
    BY <1>3, <1>4, <1>6, <1>7, <1>8 DEF IInv

LEMMA RolesStep ==
    ASSUME TypeOK, RolesOK, SuperRoleStays, SchemaOK, SeenOK, [Next]_vars
    PROVE  RolesOK'
<1>1. ASSUME UNCHANGED roles
      PROVE  RolesOK'
    BY <1>1 DEF RolesOK, Used, Named
<1>2. ASSUME NEW p \in Processes, Step(p) \/ Crash(p)
      PROVE  RolesOK'
    BY <1>1, <1>2, StepKeepsRoles, SeedStep DEF SeedKeeps
<1>3. ASSUME Requests
      PROVE  RolesOK'
    BY <1>3, RequestStep DEF RequestKeeps
<1>4. QED
    BY <1>1, <1>2, <1>3 DEF Next, vars

\* startup/bootstrap.py, user_role/bootstrap.py, user_role/permission.py.
\* However many processes start, serve, crash and lose races: role names are
\* unique, the SuperAdmin's name and id stay together and the role is there once
\* a start is past the seeding, rows need tables, no two migrations run past
\* their first statement, and what a process has selected is there at its flush.
THEOREM StartupInvariant == Spec => []IInv
<1>1. IInv /\ [Next]_vars => IInv'
    BY NextTyped, RolesStep, SuperRoleStep, SchemaStep, SeenStep DEF IInv
<1>2. QED
    BY <1>1, InitOK, PTL DEF Spec

-----------------------------------------------------------------------------
(***************************************************************************)
(* Who serves has what it needs.                                           *)
(***************************************************************************)
\* A step of a start takes nobody's name away.
LEMMA UsersStay ==
    ASSUME TypeOK, NEW p \in Processes, Step(p) \/ Crash(p), NEW u \in Users, users[u] # "none"
    PROVE  users'[u] = users[u]
<1>1. CASE SeedRoles(p)
    BY <1>1, SeedFrame
<1>2. CASE InsertSuper(p)
    BY <1>2 DEF TypeOK, InsertSuper
<1>3. CASE ~SeedRoles(p) /\ ~InsertSuper(p)
    BY <1>3 DEF Step, Crash, Start, Migrate, Seed, MakeSuper, ReadRevision, CreateTable,
       TableExists, CreateOthers, StampRevision, MissingSchema, DriftDetected, SelectRoles,
       SeedConflicts, RolesInPlace, SelectTitles, InsertTitles, TitleConflicts, SelectSuper,
       SelectName, SuperConflicts, Fail, dbVars
<1>4. QED
    BY <1>1, <1>2, <1>3

SomeSuper == users[Boot] # "none" \/ \E u \in Users : users[u] = "super"

LEMMA EntersServing ==
    ASSUME TypeOK, NEW p \in Processes, Step(p) \/ Crash(p), pc'[p] = "serving"
    PROVE  SomeSuper' /\ pc[p] # "serving"
<1>1. CASE Start(p) \/ Migrate(p) \/ Crash(p)
    BY <1>1 DEF TypeOK, Start, Crash, Migrate, ReadRevision, CreateTable, TableExists,
       CreateOthers, StampRevision, Fail, Forget, Goto
<1>2. CASE Seed(p)
    <2>1. ~SeedRoles(p)
        BY SeedFrame DEF TypeOK
    <2>2. QED
        BY <1>2, <2>1 DEF TypeOK, Seed, MissingSchema, DriftDetected, SeedConflicts, SelectRoles,
           RolesInPlace, SelectTitles, InsertTitles, TitleConflicts, Fail, Forget, Goto
<1>3. CASE MakeSuper(p)
    <2>1. CASE SuperConflicts(p)
        BY <2>1 DEF TypeOK, SuperConflicts, Fail, Forget, Goto
    <2>2. CASE SelectSuper(p)
        <3>1. UNCHANGED users /\ pc[p] = "super"
            BY <2>2 DEF SelectSuper, dbVars
        <3>2. \E u \in Users : users[u] = "super"
            BY <2>2 DEF TypeOK, SelectSuper, Goto
        <3>3. QED
            BY <3>1, <3>2 DEF SomeSuper
    <2>3. CASE SelectName(p)
        <3>1. UNCHANGED users /\ pc[p] = "name"
            BY <2>3 DEF SelectName, dbVars
        <3>2. users[Boot] # "none"
            BY <2>3 DEF TypeOK, SelectName, Goto
        <3>3. QED
            BY <3>1, <3>2 DEF SomeSuper
    <2>4. CASE InsertSuper(p)
        BY <2>4 DEF TypeOK, InsertSuper, SomeSuper
    <2>5. QED
        BY <1>3, <2>1, <2>2, <2>3, <2>4 DEF MakeSuper
<1>4. QED
    BY <1>1, <1>2, <1>3 DEF Step

\* What a start that is past the seeding of the roles forgets of the history.
LEMMA GoneStays ==
    ASSUME TypeOK, NEW p \in Processes, Step(p) \/ Crash(p), pc[p] \in Late
    PROVE  gone[p] \intersect DefaultNames \subseteq gone'[p]
<1>1. CASE SelectSuper(p)
    BY <1>1 DEF TypeOK, SelectSuper
<1>2. CASE SelectRoles(p)
    BY <1>2 DEF SelectRoles, Late, Seeded
<1>3. CASE SeedRoles(p)
    BY <1>3, SeedFrame
<1>4. CASE ~SelectSuper(p) /\ ~SelectRoles(p) /\ ~SeedRoles(p)
    BY <1>4 DEF Step, Crash, Start, Migrate, Seed, MakeSuper, ReadRevision, CreateTable,
       TableExists, CreateOthers, StampRevision, MissingSchema, DriftDetected,
       SeedConflicts, RolesInPlace, SelectTitles, InsertTitles, TitleConflicts,
       SelectName, InsertSuper, SuperConflicts, Fail
<1>5. QED
    BY <1>1, <1>2, <1>3, <1>4

LEMMA EntersSeeded ==
    ASSUME TypeOK, NEW p \in Processes, Step(p) \/ Crash(p), pc'[p] \in Seeded, pc[p] \notin Seeded
    PROVE  translated'
<1>1. CASE SeedRoles(p)
    BY <1>1, SeedFrame
<1>2. CASE ~SeedRoles(p) /\ Seed(p)
    BY <1>2 DEF TypeOK, Seed, MissingSchema, DriftDetected, SeedConflicts, SelectRoles,
       RolesInPlace, SelectTitles, InsertTitles, TitleConflicts, Fail, Forget, Goto, Seeded, dbVars
<1>3. CASE Start(p) \/ Migrate(p) \/ Crash(p)
    BY <1>3 DEF TypeOK, Start, Crash, Migrate, ReadRevision, CreateTable, TableExists,
       CreateOthers, StampRevision, Fail, Forget, Goto, Seeded
<1>4. CASE MakeSuper(p)
    BY <1>4 DEF MakeSuper, SelectSuper, SelectName, InsertSuper, SuperConflicts, Seeded
<1>5. QED
    BY <1>1, <1>2, <1>3, <1>4 DEF Step

ReadyOf(q) ==
    /\ pc[q] \in Late => \A n \in DefaultNames \ gone[q] : Named(roles, n) # {}
    /\ pc[q] \in Seeded => translated
    /\ pc[q] = "serving" /\ Boot \notin gone[q] => SomeSuper

LEMMA ReadyStep ==
    ASSUME IInv, ReadyMeansSeeded, [Next]_vars
    PROVE  ReadyMeansSeeded'
<1> USE DEF IInv
<1> SUFFICES ASSUME NEW q \in Processes
             PROVE  ReadyOf(q)'
    BY DEF ReadyMeansSeeded, ReadyOf, SomeSuper, Late
<1>1. ReadyOf(q)
    BY DEF ReadyMeansSeeded, ReadyOf, SomeSuper, Late
<1>2. ASSUME Next
      PROVE  /\ translated => translated'
             /\ \A n \in DefaultNames :
                   Named(roles, n) # {} /\ n \notin gone'[q] => Named(roles', n) # {}
    BY <1>2, Lasting, NamesStay
<1>3. ASSUME NEW p \in Processes, Step(p) \/ Crash(p)
      PROVE  ReadyOf(q)'
    <2>1. SomeSuper => SomeSuper'
        BY <1>3, UsersStay DEF SomeSuper
    <2>2. Next
        BY <1>3 DEF Next
    <2>3. CASE q # p
        <3>1. pc'[q] = pc[q] /\ gone'[q] = gone[q]
            BY <1>3, <2>3, MovesOne
        <3>2. QED
            BY <1>1, <1>2, <2>1, <2>2, <3>1 DEF ReadyOf
    <2>4. CASE q = p
        <3>1. ASSUME pc'[q] \in Late, NEW n \in DefaultNames \ gone'[q]
              PROVE  Named(roles', n) # {}
            <4>1. CASE pc[q] \in Late
                <5>1. n \notin gone[q]
                    BY <1>3, <2>4, <3>1, <4>1, GoneStays
                <5>2. QED
                    BY <1>1, <1>2, <2>2, <3>1, <4>1, <5>1 DEF ReadyOf
            <4>2. CASE RolesInPlace(q)
                <5>1. pc[q] = "flush" /\ MissingNames(seen[q]) = {} /\ UNCHANGED <<roles, gone>>
                    BY <4>2 DEF RolesInPlace, dbVars
                <5>2. Named(seen[q], n) # {}
                    BY <5>1 DEF MissingNames
                <5>3. QED
                    BY <3>1, <5>1, <5>2 DEF SeenOK
            <4>3. CASE SeedRoles(q)
                <5>1. pc[q] = "flush" /\ UNCHANGED gone
                    BY <4>3, SeedFrame
                <5>2. n \in MissingNames(seen[q]) \/ Named(seen[q], n) # {}
                    BY DEF MissingNames
                <5>3. n \in MissingNames(seen[q]) \/ Named(roles, n) # {}
                    BY <3>1, <5>1, <5>2 DEF SeenOK
                <5>4. QED
                    BY <4>3, <5>3, SeedStep DEF SeedKeeps
            <4>4. QED
                BY <1>3, <2>4, <3>1, <4>1, <4>2, <4>3, EntersLate
        <3>2. pc'[q] \in Seeded => translated'
            BY <1>1, <1>2, <1>3, <2>2, <2>4, EntersSeeded DEF ReadyOf
        <3>3. pc'[q] = "serving" => SomeSuper'
            BY <1>3, <2>4, EntersServing
        <3>4. QED
            BY <3>1, <3>2, <3>3 DEF ReadyOf
    <2>5. QED
        BY <2>3, <2>4
<1>4. ASSUME Requests
      PROVE  ReadyOf(q)'
    <2>1. UNCHANGED pc /\ gone[q] \subseteq gone'[q] /\ Next
        BY <1>4, RequestFrame, RequestStep DEF Change, RequestKeeps, Next
    <2>2. Boot \notin gone'[q] => \A u \in Users : users[u] # "none" => users'[u] = users[u]
        BY <1>4, RequestStep DEF RequestKeeps
    <2>3. Boot \notin gone'[q] /\ SomeSuper => SomeSuper'
        BY <2>2 DEF SomeSuper
    <2>4. QED
        BY <1>1, <1>2, <2>1, <2>3 DEF ReadyOf
<1>5. CASE UNCHANGED vars
    BY <1>1, <1>5 DEF vars, ReadyOf, SomeSuper
<1>6. QED
    BY <1>3, <1>4, <1>5 DEF Next

\* startup/bootstrap.py:60-89, lifespan.py:43-59.  A process serves only after
\* every default role and translation is there, save for what requests have
\* taken away since it looked, and with a superuser or the bootstrap name taken.
THEOREM WhoServesIsSeeded == Spec => []ReadyMeansSeeded
<1>1. Init => ReadyMeansSeeded
    BY DEF Init, ReadyMeansSeeded, Seeded
<1>2. QED
    BY <1>1, ReadyStep, StartupInvariant, PTL DEF Spec

\* The step of SeedKeepsDecisions.
DecisionsKept ==
    \A p \in Processes : pc[p] = "flush" =>
        \A i \in Used(roles), k \in Keys :
            /\ roles[i].perms[k] = "decided"
            /\ seen[p][i] = roles[i] \/ i \notin ToFill(seen[p])
            /\ pc'[p] # "flush"
            => roles'[i] # None /\ roles'[i].perms[k] = "decided"

LEMMA DecisionStep ==
    ASSUME IInv, Next
    PROVE  DecisionsKept
<1> USE DEF IInv
<1> SUFFICES ASSUME NEW p \in Processes, pc[p] = "flush", NEW i \in Used(roles), NEW k \in Keys,
                    roles[i].perms[k] = "decided",
                    seen[p][i] = roles[i] \/ i \notin ToFill(seen[p]),
                    pc'[p] # "flush"
             PROVE  roles'[i] # None /\ roles'[i].perms[k] = "decided"
    BY DEF DecisionsKept
<1>1. i \in Ids /\ roles[i] # None /\ roles[i] \in Row
    BY DEF Used, TypeOK
<1>2. Step(p) \/ Crash(p)
    <2>1. ~Requests
        BY RequestFrame DEF Change
    <2>2. QED
        BY <2>1, MovesOne DEF Next
<1>3. CASE SeedRoles(p)
    <2>1. roles'[i] # None /\ roles'[i] = Updated(seen[p])[i]
        BY <1>1, <1>3, SeedStep DEF SeedKeeps
    <2>2. ~Conflict(seen[p]) /\ seen[p] \in Rows /\ roles \in Rows
        BY <1>3, SeedFrame DEF TypeOK, Rows
    <2>3. CASE i \notin ToFill(seen[p])
        BY <1>1, <2>1, <2>2, <2>3, UpdatedRows
    <2>4. CASE i \in ToFill(seen[p])
        <3>1. roles'[i].perms = Fill(roles[i]).perms
            BY <1>1, <2>1, <2>2, <2>4, UpdatedRows
        <3>2. QED
            BY <1>1, <2>1, <3>1, FillIsRow
    <2>5. QED
        BY <2>3, <2>4
<1>4. CASE ~SeedRoles(p)
    BY <1>1, <1>2, <1>4, StepKeepsRoles
<1>5. QED
    BY <1>3, <1>4

\* user_role/permission.py:174-187.  A start takes no decision back, except one
\* made between its select and its flush, in a row it had to complete.
THEOREM DecisionsStay == Spec => SeedKeepsDecisions
<1>1. IInv /\ [Next]_vars => [DecisionsKept]_vars
    BY DecisionStep
<1>2. QED
    BY <1>1, StartupInvariant, PTL DEF Spec, SeedKeepsDecisions, DecisionsKept

-----------------------------------------------------------------------------
(***************************************************************************)
(* One start seeds.  Until a request changes something, a row that a start *)
(* has selected is as it was or has got its defaults from another one.     *)
(***************************************************************************)
SeenStands(q) ==
    pc[q] = "flush" => \A i \in Used(seen[q]) :
        roles[i] # None /\ roles[i] \in {seen[q][i], Fill(seen[q][i])}

Untouched ==
    changes = 0 =>
        /\ \A i \in Used(roles) : roles[i].name \in DefaultNames
        /\ \A q \in Processes : SeenStands(q)

\* permission.py:174-187.  What has got its defaults lacks none.
LEMMA FillTwice ==
    ASSUME NEW row \in Row
    PROVE  Fill(Fill(row)) = Fill(row)
<1>1. Fill(row) = [name |-> row.name,
                   perms |-> [k \in Keys |-> IF k \in Defaults[row.name] /\ row.perms[k] = "unset"
                                             THEN "default" ELSE row.perms[k]]]
    BY DEF Fill, Row
<1>2. Fill(Fill(row)) =
         [name |-> row.name,
          perms |-> [k \in Keys |-> IF k \in Defaults[row.name] /\ Fill(row).perms[k] = "unset"
                                    THEN "default" ELSE Fill(row).perms[k]]]
    BY <1>1 DEF Fill
<1>3. \A k \in Keys : ~(k \in Defaults[row.name] /\ Fill(row).perms[k] = "unset")
    BY <1>1
<1>4. [k \in Keys |-> IF k \in Defaults[row.name] /\ Fill(row).perms[k] = "unset"
                      THEN "default" ELSE Fill(row).perms[k]]
         = [k \in Keys |-> Fill(row).perms[k]]
    BY <1>3
<1>5. Fill(row).perms = [k \in Keys |-> Fill(row).perms[k]]
    BY <1>1
<1>6. QED
    BY <1>1, <1>2, <1>4, <1>5

LEMMA FreshIsFull ==
    ASSUME NEW n \in DefaultNames
    PROVE  Fill(Fresh(n)) = Fresh(n)
<1>1. \A k \in Keys : (IF k \in Defaults[n] /\ Fresh(n).perms[k] = "unset"
                       THEN "default" ELSE Fresh(n).perms[k]) = Fresh(n).perms[k]
    BY DEF Fresh
<1>2. [k \in Keys |-> IF k \in Defaults[n] /\ Fresh(n).perms[k] = "unset"
                      THEN "default" ELSE Fresh(n).perms[k]] = Fresh(n).perms
    <2>1. Fresh(n).perms = [k \in Keys |-> Fresh(n).perms[k]]
        BY DEF Fresh
    <2>2. QED
        BY <1>1, <2>1
<1>3. Fill(Fresh(n)) = [Fresh(n) EXCEPT !.perms = Fresh(n).perms]
    BY <1>2, FreshIsRow DEF Fill
<1>4. QED
    BY <1>3 DEF Fresh

\* A flush that meets no conflict leaves a row it has selected filled.
LEMMA FlushFills ==
    ASSUME NEW S \in Rows, roles \in Rows, ~Conflict(S), NEW i \in Used(S),
           roles[i] \in {S[i], Fill(S[i])}
    PROVE  Updated(S)[i] = Fill(roles[i]) /\ Updated(S)[i] = Fill(S[i])
<1>1. i \in Ids /\ S[i] \in Row /\ S[i] # None
    BY DEF Used, Rows
<1>2. Fill(roles[i]) = Fill(S[i])
    BY <1>1, FillTwice
<1>3. CASE i \notin ToFill(S)
    <2>1. Fill(S[i]) = S[i]
        BY <1>3 DEF ToFill
    <2>2. Updated(S)[i] = roles[i]
        BY <1>1, <1>3, UpdatedRows
    <2>3. QED
        BY <1>2, <2>1, <2>2
<1>4. CASE i \in ToFill(S)
    <2>1. Updated(S)[i] = [roles[i] EXCEPT !.perms = Fill(S[i]).perms]
        BY <1>1, <1>4 DEF Updated
    <2>2. roles[i] \in Row /\ roles[i].name = S[i].name /\ Fill(S[i]) \in Row
          /\ Fill(S[i]).name = S[i].name
        BY <1>1, FillIsRow
    <2>3. [roles[i] EXCEPT !.perms = Fill(S[i]).perms] = Fill(S[i])
        BY <2>2 DEF Row
    <2>4. QED
        BY <1>2, <2>1, <2>3
<1>5. QED
    BY <1>3, <1>4

\* A row that is there at a flush without a conflict is one that was selected.
LEMMA FlushKnowsAll ==
    ASSUME IInv, Untouched, changes = 0, NEW p \in Processes, pc[p] = "flush",
           ~Conflict(seen[p]), NEW j \in Used(roles)
    PROVE  j \in Used(seen[p])
<1>1. PICK n \in DefaultNames : roles[j].name = n
    BY DEF Untouched
<1>2. Named(roles, n) # {} /\ j \in Ids
    BY <1>1 DEF Named, Used
<1>3. Named(seen[p], n) # {}
    BY <1>2 DEF Conflict, MissingNames
<1>4. PICK i \in Used(seen[p]) : seen[p][i].name = n
    BY <1>3 DEF Named, Used
<1>5. i \in Ids /\ seen[p][i] \in Row
    BY <1>4 DEF Used, IInv, TypeOK
<1>6. roles[i] # None /\ roles[i].name = n
    BY <1>4, <1>5, FillIsRow DEF Untouched, SeenStands
<1>7. i = j
    BY <1>1, <1>5, <1>6 DEF IInv, RolesOK, Used
<1>8. QED
    BY <1>4, <1>7

LEMMA SeedFillsAll ==
    ASSUME IInv, Untouched, changes = 0, NEW p \in Processes, SeedRoles(p)
    PROVE  /\ \A j \in Used(roles) : roles'[j] # None /\ roles'[j] = Fill(roles[j])
           /\ \A j \in Ids \ Used(roles) :
                 roles'[j] = None \/ \E n \in MissingNames(seen[p]) : roles'[j] = Fresh(n)
<1>1. ~Conflict(seen[p]) /\ seen[p] \in Rows /\ roles \in Rows /\ pc[p] = "flush"
    BY SeedFrame DEF IInv, TypeOK, Rows
<1>2. ASSUME NEW j \in Used(roles)
      PROVE  roles'[j] # None /\ roles'[j] = Fill(roles[j])
    <2>1. j \in Used(seen[p])
        BY <1>1, FlushKnowsAll
    <2>2. j \in Ids /\ roles[j] # None
        BY DEF Used
    <2>3. roles[j] \in {seen[p][j], Fill(seen[p][j])}
        BY <1>1, <2>1 DEF Untouched, SeenStands
    <2>4. roles'[j] # None /\ roles'[j] = Updated(seen[p])[j]
        BY <2>2, SeedStep DEF SeedKeeps, IInv
    <2>5. QED
        BY <1>1, <2>1, <2>3, <2>4, FlushFills
<1>3. ASSUME NEW j \in Ids \ Used(roles)
      PROVE  roles'[j] = None \/ \E n \in MissingNames(seen[p]) : roles'[j] = Fresh(n)
    <2>1. PICK i \in Ids : SeedAdds(seen[p], i)
        BY SeedRows DEF IInv
    <2>2. roles[j] = None
        BY DEF Used
    <2>3. QED
        BY <2>1, <2>2 DEF SeedAdds
<1>4. QED
    BY <1>2, <1>3

LEMMA UntouchedStep ==
    ASSUME IInv, Untouched, [Next]_vars
    PROVE  Untouched'
<1> SUFFICES ASSUME changes' = 0
             PROVE  /\ \A i \in Used(roles') : roles'[i].name \in DefaultNames
                    /\ \A q \in Processes : SeenStands(q)'
    BY DEF Untouched, SeenStands
<1> USE DEF IInv
<1>1. CASE UNCHANGED vars
    BY <1>1 DEF vars, Untouched, SeenStands, Used
<1>2. ~Requests
    BY RequestFrame DEF Change, TypeOK
<1>3. ASSUME NEW p \in Processes, Step(p) \/ Crash(p)
      PROVE  /\ changes = 0
             /\ \A i \in Used(roles') : roles'[i].name \in DefaultNames
             /\ \A q \in Processes : SeenStands(q)'
    <2>1. changes = 0
        BY <1>3, SeedFrame DEF Step, Crash, Start, Migrate, Seed, MakeSuper, ReadRevision,
           CreateTable, TableExists, CreateOthers, StampRevision, MissingSchema, DriftDetected,
           SelectRoles, SeedConflicts, RolesInPlace, SelectTitles, InsertTitles, TitleConflicts,
           SelectSuper, SelectName, InsertSuper, SuperConflicts, Fail, countVars
    <2>2. (\A i \in Used(roles) : roles[i].name \in DefaultNames)
          /\ \A q \in Processes : SeenStands(q)
        BY <2>1 DEF Untouched
    <2>3. CASE SeedRoles(p)
        <3>1. ASSUME NEW i \in Used(roles')
              PROVE  roles'[i].name \in DefaultNames
            <4>1. i \in Ids /\ roles'[i] # None
                BY DEF Used
            <4>2. CASE i \in Used(roles)
                <5>1. roles'[i] = Fill(roles[i]) /\ roles[i] \in Row
                    BY <2>1, <2>3, <4>2, SeedFillsAll DEF Used, TypeOK
                <5>2. QED
                    BY <2>2, <4>2, <5>1, FillIsRow
            <4>3. CASE i \notin Used(roles)
                <5>1. PICK n \in MissingNames(seen[p]) : roles'[i] = Fresh(n)
                    BY <2>1, <2>3, <4>1, <4>3, SeedFillsAll
                <5>2. QED
                    BY <5>1, FreshIsRow DEF MissingNames
            <4>4. QED
                BY <4>2, <4>3
        <3>2. ASSUME NEW q \in Processes, pc'[q] = "flush", NEW i \in Used(seen'[q])
              PROVE  roles'[i] # None /\ roles'[i] \in {seen'[q][i], Fill(seen'[q][i])}
            <4>1. q # p
                BY <2>3, <3>2, SeedFrame DEF TypeOK
            <4>2. pc[q] = "flush" /\ seen'[q] = seen[q]
                BY <1>3, <3>2, <4>1, MovesOne
            <4>3. roles[i] # None /\ roles[i] \in {seen[q][i], Fill(seen[q][i])}
                BY <2>2, <3>2, <4>2 DEF SeenStands
            <4>4. i \in Used(roles) /\ seen[q][i] \in Row
                BY <3>2, <4>2, <4>3 DEF Used, TypeOK
            <4>5. roles'[i] # None /\ roles'[i] = Fill(roles[i])
                BY <2>1, <2>3, <4>4, SeedFillsAll
            <4>6. Fill(roles[i]) = Fill(seen[q][i])
                BY <4>3, <4>4, FillTwice
            <4>7. QED
                BY <4>2, <4>5, <4>6
        <3>3. QED
            BY <2>1, <3>1, <3>2 DEF SeenStands
    <2>4. CASE ~SeedRoles(p)
        <3>1. UNCHANGED roles
            BY <1>3, <2>4, StepKeepsRoles
        <3>2. ASSUME NEW q \in Processes, pc'[q] = "flush", NEW i \in Used(seen'[q])
              PROVE  roles'[i] # None /\ roles'[i] \in {seen'[q][i], Fill(seen'[q][i])}
            <4>1. CASE q = p
                <5>1. SelectRoles(p)
                    BY <1>3, <3>2, <4>1, EntersFlush
                <5>2. seen'[p] = [j \in Ids |-> IF roles[j] # None /\ roles[j].name \in DefaultNames
                                                THEN roles[j] ELSE None]
                    BY <5>1 DEF SelectRoles, TypeOK
                <5>3. i \in Ids /\ seen'[p][i] # None
                    BY <3>2, <4>1 DEF Used
                <5>4. seen'[p][i] = roles[i] /\ roles[i] # None
                    BY <5>2, <5>3
                <5>5. QED
                    BY <3>1, <4>1, <5>4
            <4>2. CASE q # p
                BY <1>3, <2>2, <3>1, <3>2, <4>2, MovesOne DEF SeenStands
            <4>3. QED
                BY <4>1, <4>2
        <3>3. QED
            BY <2>1, <2>2, <3>1, <3>2 DEF SeenStands
    <2>5. QED
        BY <2>3, <2>4
<1>4. QED
    BY <1>1, <1>2, <1>3 DEF Next

LEMMA UntouchedFirst ==
    ASSUME Init
    PROVE  Untouched
<1>1. \A i \in Used(roles) : roles[i].name \in DefaultNames
    BY NoRolesTyped, OldRolesOK DEF Init
<1>2. \A q \in Processes : pc[q] = "down"
    BY DEF Init
<1>3. QED
    BY <1>1, <1>2 DEF Untouched, SeenStands

\* A seeding that finds its rows there, each with all it lacked, writes nothing.
LEMMA FullStaysFull ==
    ASSUME IInv, Untouched, changes = 0, NEW p \in Processes, SeedRoles(p), ~Lacks(roles)
    PROVE  roles' = roles
<1>1. MissingNames(roles) = {} /\ ToFill(roles) = {}
    BY DEF Lacks
<1>2. MissingNames(seen[p]) = {}
    BY <1>1, SeedFrame DEF Conflict, MissingNames
<1>3. \A j \in Ids : roles'[j] = roles[j]
    <2> SUFFICES ASSUME NEW j \in Ids
                 PROVE  roles'[j] = roles[j]
        OBVIOUS
    <2>1. CASE j \in Used(roles)
        <3>1. roles'[j] = Fill(roles[j])
            BY <2>1, SeedFillsAll
        <3>2. Fill(roles[j]) = roles[j]
            BY <1>1, <2>1 DEF ToFill
        <3>3. QED
            BY <3>1, <3>2
    <2>2. CASE j \notin Used(roles)
        <3>1. roles'[j] = None
            BY <1>2, <2>2, SeedFillsAll
        <3>2. QED
            BY <2>2, <3>1 DEF Used
    <2>3. QED
        BY <2>1, <2>2
<1>4. roles \in Rows /\ roles' \in Rows
    BY SeedStep DEF IInv, TypeOK, Rows, SeedKeeps
<1>5. QED
    BY <1>3, <1>4 DEF Rows

LEMMA SeedLacksNothing ==
    ASSUME IInv, Untouched, changes = 0, NEW p \in Processes, SeedRoles(p)
    PROVE  ~Lacks(roles')
<1> USE DEF IInv
<1>1. ASSUME NEW n \in DefaultNames
      PROVE  Named(roles', n) # {}
    <2>1. CASE n \in MissingNames(seen[p])
        BY <2>1, SeedStep DEF SeedKeeps
    <2>2. CASE n \notin MissingNames(seen[p])
        <3>1. PICK i \in Used(seen[p]) : seen[p][i].name = n
            BY <2>2 DEF MissingNames, Named, Used
        <3>2. i \in Ids /\ seen[p][i] \in Row
            BY <3>1 DEF Used, TypeOK
        <3>3. pc[p] = "flush"
            BY SeedFrame
        <3>4. roles[i] # None /\ roles[i].name = n
            BY <3>1, <3>2, <3>3, FillIsRow DEF Untouched, SeenStands
        <3>5. Named(roles, n) # {}
            BY <3>2, <3>4 DEF Named
        <3>6. QED
            BY <3>5, SeedStep DEF SeedKeeps
    <2>3. QED
        BY <2>1, <2>2
<1>2. ASSUME NEW j \in Ids, roles'[j] # None
      PROVE  Fill(roles'[j]) = roles'[j]
    <2>1. CASE j \in Used(roles)
        <3>1. roles'[j] = Fill(roles[j]) /\ roles[j] \in Row
            BY <2>1, SeedFillsAll DEF Used, TypeOK
        <3>2. QED
            BY <3>1, FillTwice
    <2>2. CASE j \notin Used(roles)
        <3>1. PICK n \in MissingNames(seen[p]) : roles'[j] = Fresh(n)
            BY <1>2, <2>2, SeedFillsAll
        <3>2. QED
            BY <3>1, FreshIsFull DEF MissingNames
    <2>3. QED
        BY <2>1, <2>2
<1>3. QED
    BY <1>1, <1>2 DEF Lacks, MissingNames, ToFill, Used

\* startup/bootstrap.py:60-89.  Before the first request changes something, of
\* all starts that race and crash one writes the roles: what it writes lacks
\* nothing, and another start that selected before it finds its inserts refused.
THEOREM OneStartSeeds == Spec => SeedOnce
<1> DEFINE Once == changes' = 0 /\ roles' # roles => Lacks(roles) /\ ~Lacks(roles')
<1>1. IInv /\ Untouched /\ [Next]_vars => [Once]_vars
    <2> SUFFICES ASSUME IInv, Untouched, Next, changes' = 0, roles' # roles
                 PROVE  Lacks(roles) /\ ~Lacks(roles')
        OBVIOUS
    <2>1. ~Requests
        BY RequestFrame DEF Change, IInv, TypeOK
    <2>2. PICK p \in Processes : SeedRoles(p)
        BY <2>1, StepKeepsRoles DEF Next
    <2>3. changes = 0
        BY <2>2, SeedFrame
    <2>4. QED
        BY <2>2, <2>3, FullStaysFull, SeedLacksNothing
<1>2. IInv /\ Untouched /\ [Next]_vars => Untouched'
    BY UntouchedStep
<1>3. Init => Untouched
    BY UntouchedFirst
<1>4. QED
    BY <1>1, <1>2, <1>3, StartupInvariant, PTL DEF Spec, SeedOnce

-----------------------------------------------------------------------------
(***************************************************************************)
(* Starts that fail.  Until a request changes something the default roles  *)
(* are where the code expects them, and a start has selected what is there *)
(* or another one has seeded since; while nobody crashes, a schema in the  *)
(* making has its maker.                                                   *)
(***************************************************************************)
InPlace(T) ==
    /\ \A i \in Used(T) : T[i].name \in FixedNames => i = FixedId[T[i].name]
    /\ \A n \in FixedNames : T[FixedId[n]] # None => T[FixedId[n]].name = n

LEMMA InPlaceIsNoDrift ==
    ASSUME NEW T \in Rows
    PROVE  InPlace(T) <=> ~Drift(T)
<1>1. ASSUME InPlace(T), NEW n \in FixedNames
      PROVE  ~Drifted(T, n)
    <2>1. Named(T, n) \subseteq {FixedId[n]}
        BY <1>1 DEF InPlace, Named, Used
    <2>2. T[FixedId[n]] # None => FixedId[n] \in Named(T, n)
        BY <1>1, FixedIdIsId DEF InPlace, Named
    <2>3. QED
        BY <2>1, <2>2 DEF Drifted
<1>2. ASSUME ~Drift(T)
      PROVE  InPlace(T)
    <2>1. \A n \in FixedNames : ~Drifted(T, n)
        BY <1>2 DEF Drift, DefaultNames
    <2>2. ASSUME NEW i \in Used(T), T[i].name \in FixedNames
          PROVE  i = FixedId[T[i].name]
        <3>1. i \in Named(T, T[i].name)
            BY DEF Named, Used
        <3>2. QED
            BY <2>1, <2>2, <3>1 DEF Drifted
    <2>3. ASSUME NEW n \in FixedNames, T[FixedId[n]] # None
          PROVE  T[FixedId[n]].name = n
        <3>1. Named(T, n) = {FixedId[n]}
            BY <2>1, <2>3 DEF Drifted
        <3>2. QED
            BY <3>1 DEF Named
    <2>4. QED
        BY <2>2, <2>3 DEF InPlace
<1>3. QED
    BY <1>1, <1>2 DEF Drift, Drifted

FreshStart ==
    changes = 0 =>
        /\ InPlace(roles)
        /\ users[Boot] \in {"none", "super"}
        /\ \A q \in Processes :
              /\ pc[q] = "flush" => seen[q] = roles \/ Settled
              /\ pc[q] \in Late => ~Lacks(roles)

MigrationsRun ==
    crashes = 0 =>
        /\ schema = "part" => \E q \in Processes : pc[q] = "finish"
        /\ schema = "unstamped" => \E q \in Processes : pc[q] = "stamp"

LEMMA FreshFirst ==
    ASSUME Init
    PROVE  FreshStart /\ MigrationsRun
<1>1. roles \in Rows
      /\ \A i \in Used(roles) : roles[i].name \in DefaultNames /\ OldId(roles[i].name) = i
    BY NoRolesTyped, OldRolesOK DEF Init
<1>2. InPlace(roles)
    <2>1. ASSUME NEW n \in FixedNames, roles[FixedId[n]] # None
          PROVE  roles[FixedId[n]].name = n
        <3> DEFINE m == roles[FixedId[n]].name
        <3>1. m \in DefaultNames /\ OldId(m) = FixedId[n]
            BY <1>1, <2>1, FixedIdIsId DEF Used
        <3>2. m # AutoName
            BY <3>1, StartupAssumption DEF OldId
        <3>3. QED
            BY <3>1, <3>2, StartupAssumption DEF OldId, DefaultNames
    <2>2. QED
        BY <1>1, <2>1, StartupAssumption DEF InPlace, OldId
<1>3. \A q \in Processes : pc[q] = "down"
    BY DEF Init
<1>4. users[Boot] = "none" /\ schema \in {"none", "head"}
    BY StartupAssumption DEF Init
<1>5. QED
    BY <1>2, <1>3, <1>4 DEF FreshStart, MigrationsRun, Late, Seeded

\* bootstrap.py:60-89.  What a flush adds is where the code expects it.
LEMMA SeedsInPlace ==
    ASSUME IInv, Untouched, changes = 0, InPlace(roles), NEW p \in Processes, SeedRoles(p)
    PROVE  InPlace(roles')
<1> USE DEF IInv
<1>1. pc[p] = "flush" /\ roles \in Rows /\ seen[p] \in Rows
    BY SeedFrame DEF TypeOK, Rows
<1>2. PICK i \in Ids :
        /\ SeedAdds(seen[p], i)
        /\ AutoName \in MissingNames(seen[p]) =>
              /\ \A j \in Ids : roles[j] # None => i # j
              /\ \A n \in MissingNames(seen[p]) \intersect FixedNames : i # FixedId[n]
    BY SeedRows
<1>3. ASSUME NEW n \in FixedNames, AutoName \in MissingNames(seen[p])
      PROVE  i # FixedId[n]
    <2>1. CASE n \in MissingNames(seen[p])
        BY <1>2, <1>3, <2>1
    <2>2. CASE n \notin MissingNames(seen[p])
        <3>1. PICK j \in Used(seen[p]) : seen[p][j].name = n
            BY <2>2 DEF MissingNames, Named, Used, DefaultNames
        <3>2. j \in Ids /\ seen[p][j] \in Row
            BY <1>1, <3>1 DEF Used, Rows
        <3>3. roles[j] # None /\ roles[j].name = n
            BY <1>1, <3>1, <3>2, FillIsRow DEF Untouched, SeenStands
        <3>4. j = FixedId[n]
            BY <3>2, <3>3 DEF InPlace, Used
        <3>5. QED
            BY <1>2, <1>3, <3>2, <3>3, <3>4
    <2>3. QED
        BY <2>1, <2>2
<1>4. ASSUME NEW j \in Ids, roles'[j] # None
      PROVE  \/ roles[j] # None /\ roles'[j].name = roles[j].name
             \/ /\ roles[j] = None
                /\ roles'[j].name \in FixedNames => j = FixedId[roles'[j].name]
                /\ roles'[j].name \notin FixedNames =>
                      j = i /\ AutoName \in MissingNames(seen[p])
    <2>1. CASE roles[j] # None
        <3>1. roles'[j] = Fill(roles[j]) /\ roles[j] \in Row
            BY <1>1, <2>1, SeedFillsAll DEF Used, Rows
        <3>2. QED
            BY <2>1, <3>1, FillIsRow
    <2>2. CASE roles[j] = None
        <3>1. PICK n \in MissingNames(seen[p]) :
                 /\ roles'[j] = Fresh(n)
                 /\ n \in FixedNames => j = FixedId[n]
                 /\ n = AutoName => j = i
            BY <1>2, <1>4, <2>2 DEF SeedAdds
        <3>2. n \in DefaultNames /\ roles'[j].name = n
            BY <3>1, FreshIsRow DEF MissingNames
        <3>3. QED
            BY <2>2, <3>1, <3>2 DEF DefaultNames
    <2>3. QED
        BY <2>1, <2>2
<1>5. ASSUME NEW j \in Used(roles'), roles'[j].name \in FixedNames
      PROVE  j = FixedId[roles'[j].name]
    BY <1>4, <1>5 DEF InPlace, Used
<1>6. ASSUME NEW n \in FixedNames, roles'[FixedId[n]] # None
      PROVE  roles'[FixedId[n]].name = n
    <2>1. FixedId[n] \in Ids
        BY FixedIdIsId
    <2>2. CASE roles[FixedId[n]] # None
        BY <1>4, <1>6, <2>1, <2>2 DEF InPlace
    <2>3. CASE roles[FixedId[n]] = None
        <3>1. roles'[FixedId[n]].name \in FixedNames
            BY <1>3, <1>4, <1>6, <2>1, <2>3
        <3>2. FixedId[n] = FixedId[roles'[FixedId[n]].name]
            BY <1>4, <1>6, <2>1, <2>3, <3>1
        <3>3. QED
            BY <3>1, <3>2, StartupAssumption
    <2>4. QED
        BY <2>2, <2>3
<1>7. QED
    BY <1>5, <1>6 DEF InPlace

\* A start that has selected what is there still meets no conflict.
LEMMA CurrentHasNoConflict ==
    ASSUME InPlace(roles), roles \in Rows
    PROVE  ~Conflict(roles)
<1>1. \A n \in MissingNames(roles) : Named(roles, n) = {}
    BY DEF MissingNames
<1>2. ASSUME NEW n \in MissingNames(roles) \intersect FixedNames
      PROVE  roles[FixedId[n]] = None
    BY <1>1, FixedIdIsId DEF InPlace, Named
<1>3. \A i \in ToFill(roles) : roles[i] # None
    BY DEF ToFill, Used
<1>4. QED
    BY <1>1, <1>2, <1>3 DEF Conflict

\* What is complete stays so until a request comes.
LEMMA FullStays ==
    ASSUME IInv, Untouched, changes = 0, NEW p \in Processes, Step(p) \/ Crash(p),
           ~Lacks(roles)
    PROVE  UNCHANGED roles
<1>1. CASE SeedRoles(p)
    BY <1>1, FullStaysFull
<1>2. CASE ~SeedRoles(p)
    BY <1>2, StepKeepsRoles
<1>3. QED
    BY <1>1, <1>2

LEMMA FreshStep ==
    ASSUME IInv, ReadyMeansSeeded, Untouched, FreshStart, [Next]_vars
    PROVE  FreshStart'
<1> USE DEF IInv
<1> SUFFICES ASSUME changes' = 0
             PROVE  /\ InPlace(roles')
                    /\ users'[Boot] \in {"none", "super"}
                    /\ \A q \in Processes :
                          /\ pc'[q] = "flush" => seen'[q] = roles' \/ Settled'
                          /\ pc'[q] \in Late => ~Lacks(roles')
    BY DEF FreshStart
<1>1. CASE UNCHANGED vars
    BY <1>1 DEF vars, FreshStart, Settled
<1>2. ~Requests
    BY RequestFrame DEF Change, TypeOK
<1>3. ASSUME NEW p \in Processes, Step(p) \/ Crash(p)
      PROVE  /\ InPlace(roles')
             /\ users'[Boot] \in {"none", "super"}
             /\ \A q \in Processes :
                   /\ pc'[q] = "flush" => seen'[q] = roles' \/ Settled'
                   /\ pc'[q] \in Late => ~Lacks(roles')
    <2>1. changes = 0
        BY <1>3, SeedFrame DEF Step, Crash, Start, Migrate, Seed, MakeSuper, ReadRevision,
           CreateTable, TableExists, CreateOthers, StampRevision, MissingSchema, DriftDetected,
           SelectRoles, SeedConflicts, RolesInPlace, SelectTitles, InsertTitles, TitleConflicts,
           SelectSuper, SelectName, InsertSuper, SuperConflicts, Fail, countVars
    <2>2. /\ InPlace(roles)
          /\ users[Boot] \in {"none", "super"}
          /\ \A q \in Processes :
                /\ pc[q] = "flush" => seen[q] = roles \/ Settled
                /\ pc[q] \in Late => ~Lacks(roles)
        BY <2>1 DEF FreshStart
    <2>3. InPlace(roles')
        BY <1>3, <2>1, <2>2, SeedsInPlace, StepKeepsRoles
    <2>4. users'[Boot] \in {"none", "super"}
        <3>1. UNCHANGED users \/ users' = [users EXCEPT ![Boot] = "super"]
            BY <1>3, SeedFrame DEF Step, Crash, Start, Migrate, Seed, MakeSuper, ReadRevision,
               CreateTable, TableExists, CreateOthers, StampRevision, MissingSchema,
               DriftDetected, SelectRoles, SeedConflicts, RolesInPlace, SelectTitles,
               InsertTitles, TitleConflicts, SelectSuper, SelectName, InsertSuper,
               SuperConflicts, Fail, dbVars
        <3>2. QED
            BY <2>2, <3>1 DEF TypeOK
    <2>5. Settled => Settled'
        <3>1. translated => translated'
            BY <1>3, Lasting DEF Next
        <3>2. QED
            BY <1>3, <2>1, <3>1, FullStays DEF Settled
    <2>6. ~Lacks(roles) => ~Lacks(roles')
        BY <1>3, <2>1, FullStays
    <2>7. SeedRoles(p) => Settled'
        BY <2>1, SeedFrame, SeedLacksNothing DEF Settled
    <2>8. ASSUME NEW q \in Processes, pc'[q] = "flush"
          PROVE  seen'[q] = roles' \/ Settled'
        <3>1. CASE q = p
            <4>1. SelectRoles(p)
                BY <1>3, <2>8, <3>1, EntersFlush
            <4>2. PICK S \in Rows :
                     /\ \A i \in Ids : S[i] = IF roles[i] # None /\ roles[i].name \in DefaultNames
                                              THEN roles[i] ELSE None
                     /\ seen' = [seen EXCEPT ![p] = S]
                BY <4>1, SelectRolesFrame
            <4>3. \A i \in Ids : S[i] = roles[i]
                BY <2>1, <4>2 DEF Untouched, Used
            <4>4. S = roles
                BY <4>3 DEF Rows, TypeOK
            <4>5. UNCHANGED roles
                BY <4>1 DEF SelectRoles, dbVars
            <4>6. QED
                BY <3>1, <4>2, <4>4, <4>5 DEF TypeOK
        <3>2. CASE q # p /\ SeedRoles(p)
            BY <2>7, <3>2
        <3>3. CASE q # p /\ ~SeedRoles(p)
            <4>1. pc[q] = "flush" /\ seen'[q] = seen[q] /\ UNCHANGED roles
                BY <1>3, <2>8, <3>3, MovesOne, StepKeepsRoles
            <4>2. QED
                BY <2>2, <2>5, <4>1
        <3>4. QED
            BY <3>1, <3>2, <3>3
    <2>9. ASSUME NEW q \in Processes, pc'[q] \in Late
          PROVE  ~Lacks(roles')
        <3>1. CASE pc[q] \in Late
            BY <2>2, <2>6, <3>1
        <3>2. CASE pc[q] \notin Late
            <4>1. q = p
                BY <1>3, <2>9, <3>2, MovesOne
            <4>2. RolesInPlace(p) \/ SeedRoles(p)
                BY <1>3, <2>9, <3>2, <4>1, EntersLate
            <4>3. CASE SeedRoles(p)
                BY <2>7, <4>3 DEF Settled
            <4>4. CASE RolesInPlace(p)
                <5>1. ~Lacks(seen[p]) /\ pc[p] = "flush"
                    BY <4>4 DEF RolesInPlace, Lacks
                <5>2. ~Lacks(roles)
                    BY <2>2, <5>1 DEF Settled
                <5>3. QED
                    BY <2>6, <5>2
            <4>5. QED
                BY <4>2, <4>3, <4>4
        <3>3. QED
            BY <3>1, <3>2
    <2>10. QED
        BY <2>3, <2>4, <2>8, <2>9
<1>4. QED
    BY <1>1, <1>2, <1>3 DEF Next

\* alembic.py.  Only who creates the tables changes the schema.
LEMMA MigrationsStep ==
    ASSUME IInv, MigrationsRun, [Next]_vars
    PROVE  MigrationsRun'
<1> USE DEF IInv
<1> SUFFICES ASSUME crashes' = 0
             PROVE  /\ schema' = "part" => \E q \in Processes : pc'[q] = "finish"
                    /\ schema' = "unstamped" => \E q \in Processes : pc'[q] = "stamp"
    BY DEF MigrationsRun
<1>1. CASE UNCHANGED vars
    BY <1>1 DEF vars, MigrationsRun
<1>2. CASE Requests
    BY <1>2, ChangeFinds, RequestFrame DEF MigrationsRun, Change
<1>3. ASSUME NEW p \in Processes, Crash(p)
      PROVE  FALSE
    BY <1>3 DEF Crash, TypeOK
<1>4. ASSUME NEW p \in Processes, Step(p)
      PROVE  /\ schema' = "part" => \E q \in Processes : pc'[q] = "finish"
             /\ schema' = "unstamped" => \E q \in Processes : pc'[q] = "stamp"
    <2>1. CASE CreateTable(p)
        BY <2>1 DEF CreateTable, Goto, TypeOK
    <2>2. CASE CreateOthers(p)
        BY <2>2 DEF CreateOthers, Goto, TypeOK
    <2>3. CASE StampRevision(p)
        BY <2>3 DEF StampRevision
    <2>4. CASE ~(CreateTable(p) \/ CreateOthers(p) \/ StampRevision(p))
        <3>1. UNCHANGED <<schema, crashes>>
            BY <1>4, <2>4, SeedFrame DEF Step, Start, Migrate, Seed, MakeSuper, ReadRevision,
               TableExists, MissingSchema, DriftDetected, SelectRoles, SeedConflicts,
               RolesInPlace, SelectTitles, InsertTitles, TitleConflicts, SelectSuper,
               SelectName, InsertSuper, SuperConflicts, Fail, dbVars, countVars
        <3>2. pc[p] \notin {"finish", "stamp"}
            BY <1>4, <2>4, SeedFrame DEF Step, Start, Migrate, Seed, MakeSuper, ReadRevision,
               TableExists, MissingSchema, DriftDetected, SelectRoles, SeedConflicts,
               RolesInPlace, SelectTitles, InsertTitles, TitleConflicts, SelectSuper,
               SelectName, InsertSuper, SuperConflicts
        <3>3. \A q \in Processes : pc[q] \in {"finish", "stamp"} => pc'[q] = pc[q]
            BY <1>4, <3>2, MovesOne
        <3>4. QED
            BY <3>1, <3>3 DEF MigrationsRun
    <2>5. QED
        BY <2>1, <2>2, <2>3, <2>4
<1>5. QED
    BY <1>1, <1>2, <1>3, <1>4 DEF Next

\* Who raises, and what it was about.
LEMMA Raises ==
    ASSUME TypeOK, Next, crashes' = crashes, NEW p \in Processes, pc[p] # "down", pc'[p] = "down"
    PROVE  \/ TableExists(p) \/ DriftDetected(p) \/ SeedConflicts(p)
           \/ TitleConflicts(p) \/ SuperConflicts(p)
<1>1. ~Requests
    BY RequestFrame DEF Change
<1>2. \A q \in Processes : ~Crash(q)
    BY DEF Crash, TypeOK
<1>3. PICK q \in Processes : Step(q)
    BY <1>1, <1>2 DEF Next
<1>4. q = p
    BY <1>3, MovesOne
<1>5. CASE Start(p) \/ Migrate(p)
    BY <1>5 DEF Start, Migrate, ReadRevision, CreateTable, CreateOthers, StampRevision, Goto,
       TypeOK
<1>6. CASE Seed(p)
    <2>1. ~SeedRoles(p)
        BY SeedFrame DEF TypeOK
    <2>2. QED
        BY <1>6, <2>1 DEF Seed, MissingSchema, SelectRoles, RolesInPlace, SelectTitles,
           InsertTitles, Goto, TypeOK
<1>7. CASE MakeSuper(p)
    <2>1. CASE SelectSuper(p)
        BY <2>1 DEF SelectSuper, IsReady, Goto, TypeOK
    <2>2. CASE SelectName(p)
        BY <2>2 DEF SelectName, IsReady, Goto, TypeOK
    <2>3. CASE InsertSuper(p)
        BY <2>3 DEF InsertSuper, IsReady, Goto, TypeOK
    <2>4. QED
        BY <1>7, <2>1, <2>2, <2>3 DEF MakeSuper
<1>8. QED
    BY <1>3, <1>4, <1>5, <1>6, <1>7 DEF Step

\* alembic.py, startup/bootstrap.py:60-89, super_user.py:224-250.  A start that
\* raises has lost a race, and what it was about is done or being done.
THEOREM FailedStartsLostRaces == Spec => FailuresAreLostRaces
<1> DEFINE Lost(p) ==
        pc[p] # "down" /\ pc'[p] = "down" /\ crashes' = crashes =>
          /\ pc[p] = "create" /\ crashes = 0 =>
                schema = "head" \/ \E q \in Processes \ {p} : pc[q] \in {"finish", "stamp"}
          /\ pc[p] # "create" /\ changes = 0 =>
                Settled /\ (pc[p] = "insert" => users[Boot] = "super")
<1>1. IInv /\ ReadyMeansSeeded /\ FreshStart /\ MigrationsRun /\ [Next]_vars
         => [\A p \in Processes : Lost(p)]_vars
    <2> SUFFICES ASSUME IInv, ReadyMeansSeeded, FreshStart, MigrationsRun, Next,
                        NEW p \in Processes,
                        pc[p] # "down", pc'[p] = "down", crashes' = crashes
                 PROVE  /\ pc[p] = "create" /\ crashes = 0 =>
                              schema = "head"
                              \/ \E q \in Processes \ {p} : pc[q] \in {"finish", "stamp"}
                        /\ pc[p] # "create" /\ changes = 0 =>
                              Settled /\ (pc[p] = "insert" => users[Boot] = "super")
        OBVIOUS
    <2> USE DEF IInv
    <2>1. CASE TableExists(p)
        BY <2>1 DEF TableExists, MigrationsRun, TypeOK
    <2>2. CASE DriftDetected(p)
        <3>1. pc[p] = "roles" /\ (changes = 0 => ~Drift(roles))
            BY <2>2, InPlaceIsNoDrift DEF DriftDetected, FreshStart, TypeOK, Rows
        <3>2. QED
            BY <2>2, <3>1 DEF DriftDetected
    <2>3. CASE SeedConflicts(p)
        <3>1. pc[p] = "flush" /\ Conflict(seen[p])
            BY <2>3 DEF SeedConflicts
        <3>2. ASSUME changes = 0
              PROVE  Settled
            <4>1. InPlace(roles) /\ roles \in Rows
                BY <3>2 DEF FreshStart, TypeOK, Rows
            <4>2. seen[p] # roles
                BY <3>1, <4>1, CurrentHasNoConflict
            <4>3. QED
                BY <3>1, <3>2, <4>2 DEF FreshStart
        <3>3. QED
            BY <3>1, <3>2
    <2>4. CASE TitleConflicts(p)
        BY <2>4 DEF TitleConflicts, FreshStart, Late, Settled
    <2>5. CASE SuperConflicts(p)
        BY <2>5 DEF SuperConflicts, FreshStart, Late, Seeded, Settled, ReadyMeansSeeded
    <2>6. QED
        BY <2>1, <2>2, <2>3, <2>4, <2>5, Raises
<1>2. IInv /\ ReadyMeansSeeded /\ Untouched /\ FreshStart /\ [Next]_vars => FreshStart'
    BY FreshStep
<1>3. IInv /\ MigrationsRun /\ [Next]_vars => MigrationsRun'
    BY MigrationsStep
<1>4. IInv /\ Untouched /\ [Next]_vars => Untouched'
    BY UntouchedStep
<1>5. Init => Untouched /\ FreshStart /\ MigrationsRun
    BY UntouchedFirst, FreshFirst
<1>6. QED
    BY <1>1, <1>2, <1>3, <1>4, <1>5, StartupInvariant, WhoServesIsSeeded, PTL
       DEF Spec, FailuresAreLostRaces

-----------------------------------------------------------------------------
(***************************************************************************)
(* Starts get through.  Each step brings a start further, and what runs    *)
(* beside it takes it nowhere back.  That a step can be taken at all is a  *)
(* hypothesis, since the prover knows nothing of ENABLED.                  *)
(***************************************************************************)

\* How far a start is from its end: a native one migrates if it finds no
\* tables, and the script of a container gives way to its worker.
Ahead(p) ==
    IF pc[p] = "roles" THEN IF HasTables THEN 10 ELSE 15
    ELSE IF pc[p] = "migrate" THEN 14
    ELSE IF pc[p] = "create" THEN 13
    ELSE IF pc[p] = "finish" THEN 12
    ELSE IF pc[p] = "stamp" THEN 11
    ELSE IF pc[p] = "flush" THEN 9
    ELSE IF pc[p] = "titles" THEN 8
    ELSE IF pc[p] = "insertTitles" THEN 7
    ELSE IF pc[p] = "super" THEN IF run[p] = "prestart" THEN 6 ELSE 3
    ELSE IF pc[p] = "name" THEN IF run[p] = "prestart" THEN 5 ELSE 2
    ELSE IF pc[p] = "insert" THEN IF run[p] = "prestart" THEN 4 ELSE 1
    ELSE 0

Starting(p) == pc[p] \notin {"down", "serving"}

LEMMA FailEnds ==
    ASSUME TypeOK, NEW p \in Processes, Fail(p)
    PROVE  Ahead(p)' = 0
BY DEF TypeOK, Fail, Goto, Ahead

LEMMA StepBringsFurther ==
    ASSUME TypeOK, NEW p \in Processes, Step(p), Starting(p)
    PROVE  Ahead(p)' < Ahead(p)
<1> USE DEF TypeOK, Goto, Ahead, Starting, dbVars
<1>1. CASE Start(p)
    BY <1>1 DEF Start
<1>2. CASE Migrate(p)
    <2>1. CASE ReadRevision(p)
        BY <2>1 DEF ReadRevision, HasTables
    <2>2. CASE CreateTable(p)
        BY <2>2 DEF CreateTable
    <2>3. CASE TableExists(p)
        BY <2>3, FailEnds DEF TableExists
    <2>4. CASE CreateOthers(p)
        BY <2>4 DEF CreateOthers
    <2>5. CASE StampRevision(p)
        BY <2>5 DEF StampRevision, HasTables
    <2>6. QED
        BY <1>2, <2>1, <2>2, <2>3, <2>4, <2>5 DEF Migrate
<1>3. CASE Seed(p)
    <2>1. CASE MissingSchema(p)
        BY <2>1 DEF MissingSchema
    <2>2. CASE DriftDetected(p)
        BY <2>2, FailEnds DEF DriftDetected
    <2>3. CASE SelectRoles(p)
        BY <2>3 DEF SelectRoles
    <2>4. CASE SeedRoles(p)
        <3>1. pc[p] = "flush" /\ pc'[p] = "super"
            BY <2>4, SeedFrame
        <3>2. QED
            BY <3>1
    <2>5. CASE SeedConflicts(p)
        BY <2>5, FailEnds DEF SeedConflicts
    <2>6. CASE RolesInPlace(p)
        BY <2>6 DEF RolesInPlace
    <2>7. CASE SelectTitles(p)
        BY <2>7 DEF SelectTitles
    <2>8. CASE InsertTitles(p)
        BY <2>8 DEF InsertTitles
    <2>9. CASE TitleConflicts(p)
        BY <2>9, FailEnds DEF TitleConflicts
    <2>10. QED
        BY <1>3, <2>1, <2>2, <2>3, <2>4, <2>5, <2>6, <2>7, <2>8, <2>9 DEF Seed
<1>4. CASE MakeSuper(p)
    <2>1. CASE SelectSuper(p)
        BY <2>1 DEF SelectSuper, IsReady
    <2>2. CASE SelectName(p)
        BY <2>2 DEF SelectName, IsReady
    <2>3. CASE InsertSuper(p)
        BY <2>3 DEF InsertSuper, IsReady
    <2>4. CASE SuperConflicts(p)
        BY <2>4, FailEnds DEF SuperConflicts
    <2>5. QED
        BY <1>4, <2>1, <2>2, <2>3, <2>4 DEF MakeSuper
<1>5. QED
    BY <1>1, <1>2, <1>3, <1>4 DEF Step

\* A start runs nothing of another one.
LEMMA RunsOne ==
    ASSUME TypeOK, NEW p \in Processes, Step(p) \/ Crash(p), NEW q \in Processes, q # p
    PROVE  run'[q] = run[q]
<1>1. CASE Start(p) \/ Migrate(p) \/ Crash(p)
    BY <1>1 DEF TypeOK, Start, Crash, Migrate, ReadRevision, CreateTable, TableExists,
       CreateOthers, StampRevision, Fail, Forget
<1>2. CASE Seed(p)
    BY <1>2, SeedFrame DEF TypeOK, Seed, MissingSchema, DriftDetected, SelectRoles,
       SeedConflicts, RolesInPlace, SelectTitles, InsertTitles, TitleConflicts, Fail, Forget
<1>3. CASE MakeSuper(p)
    BY <1>3 DEF TypeOK, MakeSuper, SelectSuper, SelectName, InsertSuper, SuperConflicts,
       IsReady, Fail, Forget
<1>4. QED
    BY <1>1, <1>2, <1>3 DEF Step

LEMMA NothingTakesBack ==
    ASSUME IInv, NEW p \in Processes, [Next]_vars, Starting(p)
    PROVE  Ahead(p)' <= Ahead(p)
<1> USE DEF IInv
<1>1. ASSUME pc'[p] = pc[p], run'[p] = run[p], HasTables => HasTables'
      PROVE  Ahead(p)' <= Ahead(p)
    BY <1>1 DEF Ahead
<1>2. ASSUME NEW q \in Processes, Step(q) \/ Crash(q), q # p
      PROVE  Ahead(p)' <= Ahead(p)
    <2>1. Next
        BY <1>2 DEF Next
    <2>2. QED
        BY <1>1, <1>2, <2>1, MovesOne, RunsOne, Lasting
<1>3. CASE Step(p)
    BY <1>3, StepBringsFurther DEF Ahead
<1>4. CASE Crash(p)
    BY <1>4 DEF TypeOK, Crash, Goto, Ahead
<1>5. CASE Requests
    BY <1>1, <1>5, RequestFrame DEF Change, HasTables
<1>6. CASE UNCHANGED vars
    BY <1>1, <1>6 DEF vars, HasTables
<1>7. QED
    BY <1>2, <1>3, <1>4, <1>5, <1>6 DEF Next

LEMMA StartingIsAhead ==
    ASSUME TypeOK, NEW p \in Processes
    PROVE  Ahead(p) \in 0 .. 15 /\ (Starting(p) <=> Ahead(p) # 0)
BY DEF TypeOK, Ahead, Starting, Migrating, Seeding, Seeded

\* A start does not stay where it is.
LEMMA EveryStagePasses ==
    ASSUME NEW p \in Processes, NEW n \in 1 .. 15
    PROVE  Spec /\ []StartsCanGoOn => (Ahead(p) = n ~> Ahead(p) \in 0 .. n - 1)
<1> DEFINE A == Ahead(p) = n
           B == Ahead(p) \in 0 .. n - 1
<1>1. Spec => StartGoesOn(p)
    BY DEF Spec, Fairness
<1>2. IInv /\ A => Starting(p)
    BY StartingIsAhead DEF IInv
<1>3. IInv /\ StartsCanGoOn /\ A => ENABLED <<Step(p)>>_vars
    <2>1. Starting(p) => pc[p] # "serving"
        BY DEF Starting
    <2>2. QED
        BY <1>2, <2>1 DEF StartsCanGoOn
<1>4. IInv' => (Ahead(p) \in 0 .. 15)'
    <2>1. IInv => Ahead(p) \in 0 .. 15
        BY StartingIsAhead DEF IInv
    <2>2. QED
        BY <2>1, PTL
<1>5. IInv /\ IInv' /\ A /\ [Next]_vars => A' \/ B'
    BY <1>2, <1>4, NothingTakesBack
<1>6. IInv /\ IInv' /\ A /\ <<Step(p)>>_vars => B'
    BY <1>2, <1>4, StepBringsFurther DEF IInv
<1> HIDE DEF A, B
<1>7. Spec /\ []StartsCanGoOn => (A ~> B)
    BY <1>1, <1>3, <1>5, <1>6, StartupInvariant, PTL DEF Spec, StartGoesOn
<1>8. QED
    BY <1>7 DEF A, B

\* From so far on a start gets through.
Through(p, n) == Spec /\ []StartsCanGoOn => (Ahead(p) \in 0 .. n ~> Ahead(p) = 0)

LEMMA OneStageMore ==
    ASSUME NEW p \in Processes, NEW n \in 1 .. 15
    PROVE  Through(p, n - 1) => Through(p, n)
<1> DEFINE A == Ahead(p) = n
           B == Ahead(p) \in 0 .. n - 1
           C == Ahead(p) \in 0 .. n
           Z == Ahead(p) = 0
           H == Spec /\ []StartsCanGoOn
<1>1. H => (A ~> B)
    BY EveryStagePasses
<1>2. C => A \/ B
    OBVIOUS
<1> HIDE DEF A, B, C, Z, H
<1>3. (H => (B ~> Z)) => (H => (C ~> Z))
    BY <1>1, <1>2, PTL
<1>4. QED
    BY <1>3 DEF B, C, Z, H, Through

\* A start never hangs, whatever state it finds and whatever runs beside it: it
\* serves or it fails.
THEOREM StartsGetThrough == Spec /\ []StartsCanGoOn => StartsEnd
<1> SUFFICES ASSUME NEW p \in Processes
             PROVE  Spec /\ []StartsCanGoOn =>
                       (Starting(p) ~> pc[p] \in {"down", "serving"})
    BY DEF StartsEnd, Starting
<1>1. Through(p, 0)
    <2>1. Ahead(p) \in 0 .. 0 => Ahead(p) = 0
        OBVIOUS
    <2>2. QED
        BY <2>1, PTL DEF Through
<1>2. Through(p, 3)
    <2>1. Through(p, 1)
        BY <1>1, OneStageMore
    <2>2. Through(p, 2)
        BY <2>1, OneStageMore
    <2>3. QED
        BY <2>2, OneStageMore
<1>3. Through(p, 6)
    <2>1. Through(p, 4)
        BY <1>2, OneStageMore
    <2>2. Through(p, 5)
        BY <2>1, OneStageMore
    <2>3. QED
        BY <2>2, OneStageMore
<1>4. Through(p, 9)
    <2>1. Through(p, 7)
        BY <1>3, OneStageMore
    <2>2. Through(p, 8)
        BY <2>1, OneStageMore
    <2>3. QED
        BY <2>2, OneStageMore
<1>5. Through(p, 12)
    <2>1. Through(p, 10)
        BY <1>4, OneStageMore
    <2>2. Through(p, 11)
        BY <2>1, OneStageMore
    <2>3. QED
        BY <2>2, OneStageMore
<1>6. Through(p, 15)
    <2>1. Through(p, 13)
        BY <1>5, OneStageMore
    <2>2. Through(p, 14)
        BY <2>1, OneStageMore
    <2>3. QED
        BY <2>2, OneStageMore
<1>7. IInv => (Starting(p) => Ahead(p) \in 0 .. 15)
    BY StartingIsAhead DEF IInv
<1>8. IInv => (Ahead(p) = 0 => pc[p] \in {"down", "serving"})
    BY StartingIsAhead DEF IInv, Starting
<1>9. QED
    BY <1>6, <1>7, <1>8, StartupInvariant, PTL DEF Through
=============================================================================
