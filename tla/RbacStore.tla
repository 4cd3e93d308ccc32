------------------------------ MODULE RbacStore ------------------------------
(***************************************************************************)
(* The roles and users tables and the requests that change them:           *)
(* src/user_role/crud.py behind its endpoints, and signup (src/auth).      *)
(*                                                                         *)
(* A handler is a coroutine with a database session of its own.  What it   *)
(* selects it keeps as an object, and its commit sends only the columns    *)
(* whose value differs from the one it read; between its statements other  *)
(* sessions commit.  On SQLite, the default, a select takes no lock, and a *)
(* transaction that has written excludes other writers until it ends: from *)
(* its first write to its commit a handler is one step.                    *)
(***************************************************************************)
EXTENDS Integers, FiniteSets

CONSTANTS
    MaxRoleId,    \* bound: role ids are 1 .. MaxRoleId
    MaxUserId,    \* bound: user ids are 1 .. MaxUserId
    RoleNames,
    UserNames,
    Keys,         \* registered permission keys
    Patches,      \* the permission patches requests carry
    Requests,     \* slots for requests in flight
    Kinds,        \* the kinds of request that are made
    ForeignKeys,  \* whether the database enforces users.role_id
    SuperId,      \* SUPERADMIN_ROLE_ID
    SuperName,    \* SUPERADMIN_ROLE_NAME
    DefaultId,    \* DEFAULT_SIGNUP_ROLE_ID
    DefaultName,  \* DEFAULT_SIGNUP_ROLE_NAME
    DefaultPerms, \* the permissions signup gives that role
    None

RoleIds == 1 .. MaxRoleId
UserIds == 1 .. MaxUserId
Perms == UNION {[S -> BOOLEAN] : S \in SUBSET Keys}

VARIABLES
    roles,  \* roles[i]: the row of role i, None if there is none
    users,  \* users[u]: the row of user u
    req     \* req[r]: the request in slot r

vars == <<roles, users, req>>

(***************************************************************************)
(* Rows and requests.                                                      *)
(***************************************************************************)
RoleRow == [name : RoleNames, perms : Perms]
UserRow == [name : UserNames, role : RoleIds, perms : Perms]

ASSUME RbacAssumption ==
    /\ MaxRoleId \in Nat
    /\ MaxUserId \in Nat
    /\ Patches \subseteq Perms
    /\ ForeignKeys \in BOOLEAN
    /\ {SuperId, DefaultId} \subseteq RoleIds /\ SuperId # DefaultId
    /\ {SuperName, DefaultName} \subseteq RoleNames /\ SuperName # DefaultName
    /\ DefaultPerms \in Perms
    /\ None \notin RoleIds \union UserIds \union RoleNames \union UserNames
    /\ None \notin RoleRow \union UserRow

NoPerms == [k \in {} |-> TRUE]

\* The seeded SuperAdmin has every registered permission.
SuperRow == [name |-> SuperName, perms |-> [k \in Keys |-> TRUE]]
DefaultRow == [name |-> DefaultName, perms |-> DefaultPerms]

Merge(current, patch) ==
    [k \in DOMAIN current \union DOMAIN patch |->
        IF k \in DOMAIN patch THEN patch[k] ELSE current[k]]

IsSuperAdmin(i, row) == i = SuperId \/ row.name = SuperName

\* The SQLite rowid of an insert: one more than the greatest in the table, so
\* the id of a deleted last row is given again.
IsNextId(T, i) ==
    /\ \A j \in DOMAIN T : j >= i => T[j] = None
    /\ i > 1 => T[i - 1] # None

Named(T, n) == {i \in DOMAIN T : T[i] # None /\ T[i].name = n}
Holders(U, i) == {u \in UserIds : U[u] # None /\ U[u].role = i}

\* The rows _get_exact_default_signup_role selects.
DefaultMatches(R) ==
    {i \in RoleIds : R[i] # None /\ (i = DefaultId \/ R[i].name = DefaultName)}

RoleOps == {"updateRole", "deleteRole", "patchRole", "append"}
UserOps == {"updateUser", "setPassword", "deleteUser", "patchUser"}
Ops == RoleOps \union UserOps \union
       {"createRole", "createUser", "signup", "resetRoles", "resetUsers"}

Idle == [op |-> None, pc |-> "idle", id |-> None, name |-> None, role |-> None,
         patch |-> NoPerms, copy |-> None, touched |-> FALSE, code |-> 0]

PC == {"idle", "count", "children", "role", "commit", "answered"}
Codes == {0, 200, 201, 204, 403, 404, 409, 500}

Request ==
    [op : Ops \union {None}, pc : PC, id : RoleIds \union UserIds \union {None},
     name : RoleNames \union UserNames \union {None},
     role : RoleIds \union {None}, patch : Perms,
     copy : RoleRow \union UserRow \union {None},
     touched : BOOLEAN, code : Codes]

TypeOK ==
    /\ roles \in [RoleIds -> RoleRow \union {None}]
    /\ users \in [UserIds -> UserRow \union {None}]
    /\ req \in [Requests -> Request]

(***************************************************************************)
(* The database has been seeded: the SuperAdmin and the signup role exist, *)
(* and the signup role may have been used or patched before.               *)
(***************************************************************************)
Init ==
    /\ roles = [i \in RoleIds |-> CASE i = SuperId   -> SuperRow
                                    [] i = DefaultId -> DefaultRow
                                    [] OTHER         -> None]
    /\ users = [u \in UserIds |-> None]
    /\ req = [r \in Requests |-> Idle]

(***************************************************************************)
(* A request's stake: the part of the tables its outcome rests on.  While  *)
(* it is in flight, `touched` notes that another commit changed it.        *)
(***************************************************************************)
Stake(q, R, U) ==
    [role     |-> IF q.op \in RoleOps THEN R[q.id] ELSE None,
     user     |-> IF q.op \in UserOps THEN U[q.id] ELSE None,
     holders  |-> IF q.op = "deleteRole" THEN Holders(U, q.id) ELSE {},
     assigned |-> q.role # None /\ R[q.role] # None,
     default  |-> IF q.op = "signup"
                  THEN {<<i, R[i].name>> : i \in DefaultMatches(R)} ELSE {}]

InFlight(q) == q.pc \notin {"idle", "answered"}

At(r, op, pc) == req[r].op = op /\ req[r].pc = pc

Ask(op) == [Idle EXCEPT !.op = op]

Enter(r, q) == req[r].pc = "idle" /\ q.op \in Kinds

Paused(q, pc, copy) == [q EXCEPT !.pc = pc, !.copy = copy]

Await(r, q, pc, copy) ==
    /\ req' = [req EXCEPT ![r] = Paused(q, pc, copy)]
    /\ UNCHANGED <<roles, users>>

Answered(q, code) ==
    [q EXCEPT !.pc = "answered", !.code = code, !.copy = None]

Answer(r, q, code) ==
    /\ req' = [req EXCEPT ![r] = Answered(q, code)]
    /\ UNCHANGED <<roles, users>>

Commit(r, q, code, R, U) ==
    /\ roles' = R
    /\ users' = U
    /\ req' = [s \in Requests |->
                 IF s = r THEN Answered(q, code)
                 ELSE IF InFlight(req[s])
                        /\ Stake(req[s], R, U) # Stake(req[s], roles, users)
                 THEN [req[s] EXCEPT !.touched = TRUE]
                 ELSE req[s]]

(***************************************************************************)
(* Roles.                                                                  *)
(***************************************************************************)
CreateRole(r) == \E n \in RoleNames :
    LET q == [Ask("createRole") EXCEPT !.name = n]
    IN  /\ Enter(r, q)
        /\ \/ /\ Named(roles, n) # {}
              /\ Answer(r, q, 409)
           \/ /\ Named(roles, n) = {}
              /\ \E i \in RoleIds :
                    /\ IsNextId(roles, i)
                    /\ Commit(r, q, 201, [roles EXCEPT
                           ![i] = [name |-> n, perms |-> NoPerms]], users)

\* A bug in its place: no guard.
FindAnyRole(r, q, i, pc) ==
    /\ Enter(r, q)
    /\ IF roles[i] = None THEN Answer(r, q, 404) ELSE Await(r, q, pc, roles[i])

\* The common start of the handlers that must not touch the SuperAdmin.
FindRole(r, q, i, pc) ==
    /\ Enter(r, q)
    /\ \/ roles[i] = None /\ Answer(r, q, 404)
       \/ /\ roles[i] # None
          /\ IF IsSuperAdmin(i, roles[i]) THEN Answer(r, q, 403)
             ELSE Await(r, q, pc, roles[i])

\* A name of None leaves the name alone: the request retitles the role.
UpdateRole(r) == \E i \in RoleIds, n \in RoleNames \union {None} :
    FindRole(r, [Ask("updateRole") EXCEPT !.id = i, !.name = n], i, "commit")

\* An UPDATE that matches no row is an error nobody translates.  Titles are
\* not modelled: without a new name it is open whether one is sent.
UpdateRoleCommit(r) ==
    LET q == req[r]
        renamed == q.name \notin {None, q.copy.name}
    IN  /\ At(r, "updateRole", "commit")
        /\ \/ ~renamed /\ Answer(r, q, 200)
           \/ roles[q.id] = None /\ Answer(r, q, 500)
           \/ /\ renamed /\ roles[q.id] # None
              /\ IF Named(roles, q.name) \ {q.id} # {} THEN Answer(r, q, 409)
                 ELSE Commit(r, q, 200, [roles EXCEPT ![q.id].name = q.name], users)

DeleteRole(r) == \E i \in RoleIds :
    FindRole(r, [Ask("deleteRole") EXCEPT !.id = i], i, "count")

CountUsers(r) ==
    LET q == req[r]
    IN  /\ At(r, "deleteRole", "count")
        /\ IF Holders(users, q.id) # {} THEN Answer(r, q, 409)
           ELSE Await(r, q, "children", q.copy)

\* The flush loads the users of the role and sets their role_id to NULL,
\* which the column refuses: not a foreign-key violation, so not translated.
LoadChildren(r) ==
    LET q == req[r]
    IN  /\ At(r, "deleteRole", "children")
        /\ IF Holders(users, q.id) # {} THEN Answer(r, q, 500)
           ELSE Await(r, q, "commit", q.copy)

\* Deleting a row that is gone is only a warning.
DeleteRoleCommit(r) ==
    LET q == req[r]
    IN  /\ At(r, "deleteRole", "commit")
        /\ IF ForeignKeys /\ Holders(users, q.id) # {} THEN Answer(r, q, 409)
           ELSE Commit(r, q, 204, [roles EXCEPT ![q.id] = None], users)

PatchRole(r) == \E i \in RoleIds, p \in Patches :
    FindRole(r, [Ask("patchRole") EXCEPT !.id = i, !.patch = p], i, "commit")

\* The role registry: found by name, the SuperAdmin's too, and refused if it
\* has one of the keys.
Append(r) == \E n \in RoleNames, p \in Patches :
    LET q == [Ask("append") EXCEPT !.name = n, !.patch = p]
    IN  /\ Enter(r, q)
        /\ \/ Named(roles, n) = {} /\ Answer(r, q, 404)
           \/ \E i \in Named(roles, n) :
                IF DOMAIN p \intersect DOMAIN roles[i].perms # {}
                THEN Answer(r, [q EXCEPT !.id = i], 409)
                ELSE Await(r, [q EXCEPT !.id = i], "commit", roles[i])

\* A bug in WriteRolePerms: the patch replaces the permissions.
WriteRolePermsUnmerged(r) ==
    LET q == req[r]
    IN  /\ At(r, "patchRole", "commit") \/ At(r, "append", "commit")
        /\ IF roles[q.id] = None THEN Answer(r, q, 500)
           ELSE Commit(r, q, 200, [roles EXCEPT ![q.id].perms = q.patch], users)

\* Both write the whole column, merged from the copy; if the merge changes
\* nothing, nothing is sent.
WriteRolePerms(r) ==
    LET q == req[r]
        merged == Merge(q.copy.perms, q.patch)
    IN  /\ At(r, "patchRole", "commit") \/ At(r, "append", "commit")
        /\ IF merged = q.copy.perms THEN Answer(r, q, 200)
           ELSE IF roles[q.id] = None THEN Answer(r, q, 500)
           ELSE Commit(r, q, 200, [roles EXCEPT ![q.id].perms = merged], users)

\* A bug in its place: the SuperAdmin is reset with the others.
EveryRole(R) == {i \in RoleIds : R[i] # None}

Resettable(R) == {i \in RoleIds : R[i] # None /\ ~IsSuperAdmin(i, R[i])}

ResetRoles(r) ==
    LET q == Ask("resetRoles")
    IN  /\ Enter(r, q)
        /\ IF Resettable(roles) = {} THEN Answer(r, q, 200)
           ELSE Await(r, q, "commit", None)

ResetRolesCommit(r) ==
    /\ At(r, "resetRoles", "commit")
    /\ Commit(r, req[r], 200,
              [i \in RoleIds |->
                  IF i \in Resettable(roles)
                  THEN [roles[i] EXCEPT !.perms = NoPerms] ELSE roles[i]], users)

(***************************************************************************)
(* Users.  The foreign key is checked when the row is written, after the   *)
(* unique name.                                                            *)
(***************************************************************************)
\* A bug in its place: nobody looks.
NeverMissing(i) == FALSE

RoleMissing(i) == ForeignKeys /\ roles[i] = None

InsertUser(r, q, R, code) == \E u \in UserIds :
    /\ IsNextId(users, u)
    /\ Commit(r, q, code, R, [users EXCEPT
           ![u] = [name |-> q.name, role |-> q.role, perms |-> NoPerms]])

CreateUser(r) == \E n \in UserNames, i \in RoleIds :
    LET q == [Ask("createUser") EXCEPT !.name = n, !.role = i]
    IN  /\ Enter(r, q)
        /\ IF roles[i] = None THEN Answer(r, q, 404)
           ELSE Await(r, q, "commit", None)

CreateUserCommit(r) ==
    LET q == req[r]
        taken == Named(users, q.name) # {}
    IN  /\ At(r, "createUser", "commit")
        /\ \/ taken /\ Answer(r, q, 409)
           \/ ~taken /\ RoleMissing(q.role) /\ Answer(r, q, 404)
           \/ ~taken /\ ~RoleMissing(q.role) /\ InsertUser(r, q, roles, 201)

FindUser(r, q, u, pc) ==
    /\ Enter(r, q)
    /\ IF users[u] = None THEN Answer(r, q, 404) ELSE Await(r, q, pc, users[u])

UpdateUser(r) ==
    \E u \in UserIds, n \in UserNames \union {None}, i \in RoleIds \union {None} :
        /\ n # None \/ i # None
        /\ FindUser(r, [Ask("updateUser") EXCEPT !.id = u, !.name = n, !.role = i],
                    u, IF i = None THEN "commit" ELSE "role")

Renamed(q) == q.name \notin {None, q.copy.name}
Moved(q) == q.role \notin {None, q.copy.role}

\* A bug in its place: the role of a renamed user is forgotten.
UpdatedName(q, row) ==
    [row EXCEPT !.name = IF Renamed(q) THEN q.name ELSE @,
                !.role = IF Moved(q) /\ ~Renamed(q) THEN q.role ELSE @]

Updated(q, row) ==
    [row EXCEPT !.name = IF Renamed(q) THEN q.name ELSE @,
                !.role = IF Moved(q) THEN q.role ELSE @]

\* The select of the role first flushes a changed name, and outside the try:
\* a name that is taken is then nobody's to translate.  Having written, the
\* session keeps other writers out until it commits.
CheckRole(r) ==
    LET q == req[r]
    IN  /\ At(r, "updateUser", "role")
        /\ \/ /\ ~Renamed(q)
              /\ IF roles[q.role] = None THEN Answer(r, q, 404)
                 ELSE Await(r, q, "commit", q.copy)
           \/ /\ Renamed(q)
              /\ IF users[q.id] = None \/ Named(users, q.name) \ {q.id} # {}
                 THEN Answer(r, q, 500)
                 ELSE IF roles[q.role] = None THEN Answer(r, q, 404)
                 ELSE Commit(r, q, 200, roles,
                             [users EXCEPT ![q.id] = Updated(q, @)])

UpdateUserCommit(r) ==
    LET q == req[r]
    IN  /\ At(r, "updateUser", "commit")
        /\ IF ~Renamed(q) /\ ~Moved(q) THEN Answer(r, q, 200)
           ELSE IF users[q.id] = None THEN Answer(r, q, 500)
           ELSE IF Renamed(q) /\ Named(users, q.name) \ {q.id} # {}
                THEN Answer(r, q, 409)
           ELSE IF Moved(q) /\ RoleMissing(q.role) THEN Answer(r, q, 404)
           ELSE Commit(r, q, 200, roles, [users EXCEPT ![q.id] = Updated(q, @)])

\* Passwords are not modelled; a new hash always differs, so the UPDATE is sent.
SetPassword(r) == \E u \in UserIds :
    FindUser(r, [Ask("setPassword") EXCEPT !.id = u], u, "commit")

SetPasswordCommit(r) ==
    /\ At(r, "setPassword", "commit")
    /\ Answer(r, req[r], IF users[req[r].id] = None THEN 500 ELSE 200)

DeleteUser(r) == \E u \in UserIds :
    FindUser(r, [Ask("deleteUser") EXCEPT !.id = u], u, "commit")

DeleteUserCommit(r) ==
    /\ At(r, "deleteUser", "commit")
    /\ Commit(r, req[r], 204, roles, [users EXCEPT ![req[r].id] = None])

PatchUser(r) == \E u \in UserIds, p \in Patches :
    FindUser(r, [Ask("patchUser") EXCEPT !.id = u, !.patch = p], u, "commit")

WriteUserPerms(r) ==
    LET q == req[r]
        merged == Merge(q.copy.perms, q.patch)
    IN  /\ At(r, "patchUser", "commit")
        /\ IF merged = q.copy.perms THEN Answer(r, q, 200)
           ELSE IF users[q.id] = None THEN Answer(r, q, 500)
           ELSE Commit(r, q, 200, roles, [users EXCEPT ![q.id].perms = merged])

ResetUsers(r) ==
    LET q == Ask("resetUsers")
    IN  /\ Enter(r, q)
        /\ IF \A u \in UserIds : users[u] = None THEN Answer(r, q, 200)
           ELSE Await(r, q, "commit", None)

ResetUsersCommit(r) ==
    /\ At(r, "resetUsers", "commit")
    /\ Commit(r, req[r], 200, roles,
              [u \in UserIds |-> IF users[u] = None THEN None
                                 ELSE [users[u] EXCEPT !.perms = NoPerms]])

(***************************************************************************)
(* Signup: the role it gives exists under its id and name, or does not     *)
(* exist and is created, or it has drifted and the request fails.          *)
(***************************************************************************)
IsDefault(R) == R[DefaultId] # None /\ R[DefaultId].name = DefaultName

Signup(r) == \E n \in UserNames :
    LET q == [Ask("signup") EXCEPT !.name = n, !.role = DefaultId]
    IN  /\ Enter(r, q)
        /\ IF IsDefault(roles) THEN Await(r, q, "commit", roles[DefaultId])
           ELSE IF DefaultMatches(roles) = {} THEN Await(r, q, "commit", None)
           ELSE Answer(r, q, 500)

\* The flush of the new role is outside the try, and create_user translates
\* the unique name only.
SignupCommit(r) ==
    LET q == req[r]
        missing == q.copy = None
        R == IF missing THEN [roles EXCEPT ![DefaultId] = DefaultRow] ELSE roles
    IN  /\ At(r, "signup", "commit")
        /\ IF missing /\ DefaultMatches(roles) # {} THEN Answer(r, q, 500)
           ELSE IF Named(users, q.name) # {} THEN Answer(r, q, 409)
           ELSE IF ~missing /\ RoleMissing(DefaultId) THEN Answer(r, q, 500)
           ELSE InsertUser(r, q, R, 201)

(***************************************************************************)
(* A request leaves when it is answered, or dies before it commits: its    *)
(* client went away, its worker or its connection did.                     *)
(***************************************************************************)
Leave(r) ==
    /\ req[r].pc # "idle"
    /\ req' = [req EXCEPT ![r] = Idle]
    /\ UNCHANGED <<roles, users>>

RoleStep(r) ==
    \/ CreateRole(r) \/ UpdateRole(r) \/ UpdateRoleCommit(r)
    \/ DeleteRole(r) \/ CountUsers(r) \/ LoadChildren(r) \/ DeleteRoleCommit(r)
    \/ PatchRole(r) \/ Append(r) \/ WriteRolePerms(r)
    \/ ResetRoles(r) \/ ResetRolesCommit(r)

UserStep(r) ==
    \/ CreateUser(r) \/ CreateUserCommit(r)
    \/ UpdateUser(r) \/ CheckRole(r) \/ UpdateUserCommit(r)
    \/ SetPassword(r) \/ SetPasswordCommit(r)
    \/ DeleteUser(r) \/ DeleteUserCommit(r)
    \/ PatchUser(r) \/ WriteUserPerms(r)
    \/ ResetUsers(r) \/ ResetUsersCommit(r)
    \/ Signup(r) \/ SignupCommit(r)

Next == \E r \in Requests : RoleStep(r) \/ UserStep(r) \/ Leave(r)

Spec == Init /\ [][Next]_vars

(***************************************************************************)
(* What a request promises when it runs alone: the outcomes it may have,   *)
(* done at one stroke on tables R and U.                                   *)
(***************************************************************************)
Outcome(code, R, U) == [code |-> code, roles |-> R, users |-> U]

Inserted(R, U, q) ==
    {Outcome(201, R, [U EXCEPT ![u] = [name |-> q.name, role |-> q.role,
                                       perms |-> NoPerms]])
        : u \in {v \in UserIds : IsNextId(U, v)}}

Patched(row, patch) == [row EXCEPT !.perms = Merge(@, patch)]

Reassigned(row, name, role) ==
    [row EXCEPT !.name = IF name = None THEN @ ELSE name,
                !.role = IF role = None THEN @ ELSE role]

\* Requests for a role that exists and may be changed, or for a user that exists.
RoleDone(q, R, U) ==
    LET Put(code, row) == {Outcome(code, [R EXCEPT ![q.id] = row], U)}
    IN  CASE q.op = "updateRole" ->
               IF q.name = None THEN {Outcome(200, R, U)}
               ELSE IF Named(R, q.name) \ {q.id} # {} THEN {Outcome(409, R, U)}
               ELSE Put(200, [R[q.id] EXCEPT !.name = q.name])
          [] q.op = "deleteRole" ->
               IF Holders(U, q.id) # {} THEN {Outcome(409, R, U)} ELSE Put(204, None)
          [] q.op = "patchRole" -> Put(200, Patched(R[q.id], q.patch))

UserDone(q, R, U) ==
    LET Put(code, row) == {Outcome(code, R, [U EXCEPT ![q.id] = row])}
    IN  CASE q.op = "updateUser" ->
               IF q.role # None /\ R[q.role] = None THEN {Outcome(404, R, U)}
               ELSE IF Named(U, q.name) \ {q.id} # {} THEN {Outcome(409, R, U)}
               ELSE Put(200, Reassigned(U[q.id], q.name, q.role))
          [] q.op = "setPassword" -> {Outcome(200, R, U)}
          [] q.op = "deleteUser" -> Put(204, None)
          [] q.op = "patchUser" -> Put(200, Patched(U[q.id], q.patch))

PromisedRole(q, R, U) ==
    LET Same(code) == {Outcome(code, R, U)}
    IN  CASE q.op = "createRole" ->
               IF Named(R, q.name) # {} THEN Same(409)
               ELSE {Outcome(201, [R EXCEPT ![i] = [name |-> q.name,
                                                    perms |-> NoPerms]], U)
                       : i \in {j \in RoleIds : IsNextId(R, j)}}
          [] q.op = "append" ->
               IF Named(R, q.name) = {} THEN Same(404)
               ELSE {IF DOMAIN q.patch \intersect DOMAIN R[i].perms # {}
                     THEN Outcome(409, R, U)
                     ELSE Outcome(200, [R EXCEPT ![i] = Patched(@, q.patch)], U)
                       : i \in Named(R, q.name)}
          [] q.op = "resetRoles" ->
               {Outcome(200, [i \in RoleIds |->
                                 IF i \in Resettable(R)
                                 THEN [R[i] EXCEPT !.perms = NoPerms] ELSE R[i]], U)}
          [] OTHER ->
               IF R[q.id] = None THEN Same(404)
               ELSE IF IsSuperAdmin(q.id, R[q.id]) THEN Same(403)
               ELSE RoleDone(q, R, U)

PromisedUser(q, R, U) ==
    LET Same(code) == {Outcome(code, R, U)}
    IN  CASE q.op = "createUser" ->
               IF R[q.role] = None THEN Same(404)
               ELSE IF Named(U, q.name) # {} THEN Same(409)
               ELSE Inserted(R, U, q)
          [] q.op = "signup" ->
               IF ~IsDefault(R) /\ DefaultMatches(R) # {} THEN Same(500)
               ELSE IF Named(U, q.name) # {} THEN Same(409)
               ELSE IF IsDefault(R) THEN Inserted(R, U, q)
               ELSE Inserted([R EXCEPT ![DefaultId] = DefaultRow], U, q)
          [] q.op = "resetUsers" ->
               {Outcome(200, R, [u \in UserIds |->
                                    IF U[u] = None THEN None
                                    ELSE [U[u] EXCEPT !.perms = NoPerms]])}
          [] OTHER -> IF U[q.id] = None THEN Same(404) ELSE UserDone(q, R, U)

Promised(q, R, U) ==
    IF q.op \in RoleOps \union {"createRole", "resetRoles"}
    THEN PromisedRole(q, R, U) ELSE PromisedUser(q, R, U)

\* The one promise broken without a race: a new name that is taken, sent
\* together with a role, is flushed where nobody translates the conflict.
FlushConflict(q) ==
    /\ q.op = "updateUser" /\ q.pc = "role"
    /\ Renamed(q) /\ Named(users, q.name) \ {q.id} # {}

(***************************************************************************)
(* Properties.                                                             *)
(***************************************************************************)

\* A request whose stake no other commit touched is answered, and changes the
\* tables, as if it had run at one stroke when it was answered: selecting
\* first and writing later, whole columns at that, shows in races for the same
\* rows only (crud.py; the exception is crud.py:260-266).
UnracedIsAtomic ==
    [][\A r \in Requests :
          /\ req[r].pc # "answered" /\ req'[r].pc = "answered"
          /\ ~req'[r].touched
          => \/ Outcome(req'[r].code, roles', users')
                    \in Promised(req'[r], roles, users)
             \/ FlushConflict(req[r])]_vars

\* The SuperAdmin role keeps its id, its name and every permission, whatever
\* requests run and race: the guard looks at an earlier read, and the role
\* registry has no guard but the keys the role already has (crud.py:51, 192,
\* 333-344).
SuperAdminIntact == roles[SuperId] = SuperRow

\* A user's role exists, however creations, moves and deletions interleave
\* (crud.py:148-169, 226-247, 263-276): so long as the database enforces the
\* foreign key.
UsersHaveRoles == \A u \in UserIds :
    users[u] # None => roles[users[u].role] # None

\* The unique columns, and what a request in flight has found out.
Unique(T) == \A i, j \in DOMAIN T :
    T[i] # None /\ T[j] # None /\ T[i].name = T[j].name => i = j

UniqueNames == Unique(roles) /\ Unique(users)

RequestOK(q) ==
    /\ q.op \in {"updateRole", "deleteRole", "patchRole"} /\ InFlight(q) =>
          q.id \in RoleIds \ {SuperId} /\ q.copy \in RoleRow
    /\ q.op = "updateRole" /\ InFlight(q) => q.name \in RoleNames \union {None}
    /\ q.op = "append" /\ InFlight(q) =>
          /\ q.id \in RoleIds /\ q.copy \in RoleRow
          /\ q.id = SuperId => q.copy = SuperRow /\ q.patch = NoPerms
    /\ q.op \in UserOps /\ InFlight(q) => q.id \in UserIds /\ q.copy \in UserRow
    /\ q.op = "updateUser" /\ InFlight(q) =>
          /\ q.name \in UserNames \union {None}
          /\ q.pc = "role" => q.role \in RoleIds
    /\ q.op \in {"createUser", "signup"} /\ InFlight(q) =>
          q.name \in UserNames /\ q.role \in RoleIds
    /\ q.op = "signup" /\ InFlight(q) => q.role = DefaultId

IInv ==
    /\ TypeOK
    /\ UniqueNames
    /\ SuperAdminIntact
    /\ ForeignKeys => UsersHaveRoles
    /\ \A r \in Requests : RequestOK(req[r])
=============================================================================
