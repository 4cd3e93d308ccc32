--------------------------- MODULE RbacStore_proofs ---------------------------
(***************************************************************************)
(* Proofs about RbacStore.                                                 *)
(***************************************************************************)
EXTENDS RbacStore, TLAPS

(***************************************************************************)
(* Permissions.                                                            *)
(***************************************************************************)
\* The empty permission map is one.
LEMMA NoPermsType == NoPerms \in Perms
<1>1. NoPerms \in [{} -> BOOLEAN]
  BY DEF NoPerms
<1> QED
  BY <1>1 DEF Perms

\* A permission map is a Boolean function on some of the keys.
LEMMA PermsElim ==
  ASSUME NEW p \in Perms
  PROVE  DOMAIN p \subseteq Keys /\ p \in [DOMAIN p -> BOOLEAN]
  BY DEF Perms

\* Merging two permission maps gives one (_merge_permission_patch).
LEMMA MergeType ==
  ASSUME NEW a \in Perms, NEW b \in Perms
  PROVE  Merge(a, b) \in Perms
<1> DEFINE S == DOMAIN a \union DOMAIN b
<1>1. S \in SUBSET Keys
  BY PermsElim
<1>2. \A k \in DOMAIN a : a[k] \in BOOLEAN
  BY PermsElim
<1>3. \A k \in DOMAIN b : b[k] \in BOOLEAN
  BY PermsElim
<1>4. Merge(a, b) \in [S -> BOOLEAN]
  BY <1>2, <1>3, Zenon DEF Merge
<1> QED
  BY <1>1, <1>4 DEF Perms

\* Merging nothing changes nothing.
LEMMA MergeNothing ==
  ASSUME NEW a \in Perms
  PROVE  Merge(a, NoPerms) = a
<1>1. a \in [DOMAIN a -> BOOLEAN]
  BY PermsElim
<1>2. DOMAIN NoPerms = {}
  BY DEF NoPerms
<1> QED
  BY <1>1, <1>2 DEF Merge

\* A permission map with no key in common with the SuperAdmin's is empty.
LEMMA NothingNewForSuperAdmin ==
  ASSUME NEW p \in Perms, DOMAIN p \intersect DOMAIN SuperRow.perms = {}
  PROVE  p = NoPerms
<1>1. DOMAIN SuperRow.perms = Keys
  BY DEF SuperRow
<1>2. DOMAIN p = {} /\ p \in [{} -> BOOLEAN]
  BY <1>1, PermsElim
<1> QED
  BY <1>2 DEF NoPerms

(***************************************************************************)
(* The three ways a step ends: what each needs to keep the invariant.      *)
(***************************************************************************)
LEMMA AnsweredOK ==
  ASSUME NEW q \in Request, NEW code \in Codes
  PROVE  Answered(q, code) \in Request /\ RequestOK(Answered(q, code))
  BY DEF Answered, Request, RequestOK, InFlight, PC

LEMMA AnswerKeepsIInv ==
  ASSUME IInv, NEW r \in Requests, NEW q \in Request, NEW code \in Codes,
         Answer(r, q, code)
  PROVE  IInv'
<1>1. Answered(q, code) \in Request /\ RequestOK(Answered(q, code))
  BY AnsweredOK
<1>2. UNCHANGED <<roles, users>> /\ req' = [req EXCEPT ![r] = Answered(q, code)]
  BY DEF Answer
<1>3. TypeOK'
  BY <1>1, <1>2 DEF IInv, TypeOK
<1>4. \A s \in Requests : RequestOK(req[s])'
  BY <1>1, <1>2 DEF IInv, TypeOK
<1>5. UniqueNames' /\ SuperAdminIntact' /\ (ForeignKeys => UsersHaveRoles')
  BY <1>2 DEF IInv, UniqueNames, SuperAdminIntact, UsersHaveRoles
<1> QED
  BY <1>3, <1>4, <1>5 DEF IInv

\* A request that waits: what must hold of it.
LEMMA AwaitKeepsIInv ==
  ASSUME IInv, NEW r \in Requests, NEW q \in Request, NEW pc \in PC,
         NEW copy \in RoleRow \union UserRow \union {None},
         RequestOK(Paused(q, pc, copy)),
         Await(r, q, pc, copy)
  PROVE  IInv'
<1> DEFINE w == Paused(q, pc, copy)
<1>1. w \in Request
  BY DEF Request, Paused
<1>2. UNCHANGED <<roles, users>> /\ req' = [req EXCEPT ![r] = w]
  BY DEF Await
<1>3. TypeOK'
  BY <1>1, <1>2 DEF IInv, TypeOK
<1>4. \A s \in Requests : RequestOK(req[s])'
  BY <1>2 DEF IInv, TypeOK
<1>5. UniqueNames' /\ SuperAdminIntact' /\ (ForeignKeys => UsersHaveRoles')
  BY <1>2 DEF IInv, UniqueNames, SuperAdminIntact, UsersHaveRoles
<1> QED
  BY <1>3, <1>4, <1>5 DEF IInv

\* A race noted in a request changes nothing the invariant says of it.
LEMMA TouchedOK ==
  ASSUME NEW q \in Request, RequestOK(q)
  PROVE  /\ [q EXCEPT !.touched = TRUE] \in Request
         /\ RequestOK([q EXCEPT !.touched = TRUE])
<1> DEFINE w == [q EXCEPT !.touched = TRUE]
<1>1. w \in Request
  BY DEF Request
<1>2. /\ w.op = q.op /\ w.pc = q.pc /\ w.id = q.id /\ w.name = q.name
      /\ w.role = q.role /\ w.patch = q.patch /\ w.copy = q.copy
  BY DEF Request
<1>3. RequestOK(w)
  BY <1>2, Zenon DEF RequestOK, InFlight
<1> QED
  BY <1>1, <1>3

LEMMA CommitKeepsIInv ==
  ASSUME IInv, NEW r \in Requests, NEW q \in Request, NEW code \in Codes,
         NEW R \in [RoleIds -> RoleRow \union {None}],
         NEW U \in [UserIds -> UserRow \union {None}],
         Commit(r, q, code, R, U),
         UniqueNames', SuperAdminIntact', ForeignKeys => UsersHaveRoles'
  PROVE  IInv'
<1>1. Answered(q, code) \in Request /\ RequestOK(Answered(q, code))
  BY AnsweredOK
<1>2. roles' = R /\ users' = U
  BY DEF Commit
<1>3. req' \in [Requests -> Request] /\ \A s \in Requests : RequestOK(req'[s])
  <2>1. ASSUME NEW s \in Requests
        PROVE  /\ req[s] \in Request /\ RequestOK(req[s])
               /\ [req[s] EXCEPT !.touched = TRUE] \in Request
               /\ RequestOK([req[s] EXCEPT !.touched = TRUE])
    BY TouchedOK DEF IInv, TypeOK
  <2>2. req' = [s \in Requests |->
                 IF s = r THEN Answered(q, code)
                 ELSE IF InFlight(req[s])
                        /\ Stake(req[s], R, U) # Stake(req[s], roles, users)
                 THEN [req[s] EXCEPT !.touched = TRUE]
                 ELSE req[s]]
    BY DEF Commit
  <2>3. ASSUME NEW s \in Requests
        PROVE  req'[s] \in {Answered(q, code), req[s],
                            [req[s] EXCEPT !.touched = TRUE]}
    BY <2>2, Zenon
  <2> QED
    BY <1>1, <2>1, <2>2, <2>3, Zenon
<1>4. TypeOK'
  BY <1>2, <1>3 DEF TypeOK
<1> QED
  BY <1>3, <1>4 DEF IInv

(***************************************************************************)
(* The tables: what a write needs to keep their invariants.                *)
(***************************************************************************)
LEMMA PutRole ==
  ASSUME IInv, NEW i \in RoleIds, i # SuperId, NEW row \in RoleRow,
         Named(roles, row.name) \ {i} = {},
         roles' = [roles EXCEPT ![i] = row]
  PROVE  /\ roles' \in [RoleIds -> RoleRow \union {None}]
         /\ Unique(roles') /\ SuperAdminIntact'
         /\ \A j \in RoleIds : roles[j] # None => roles'[j] # None
  BY RbacAssumption DEF IInv, TypeOK, UniqueNames, Unique, Named, SuperAdminIntact

LEMMA PutUser ==
  ASSUME IInv, NEW u \in UserIds, NEW row \in UserRow,
         Named(users, row.name) \ {u} = {},
         users' = [users EXCEPT ![u] = row],
         \A j \in RoleIds : roles[j] # None => roles'[j] # None,
         ForeignKeys => roles'[row.role] # None
  PROVE  /\ users' \in [UserIds -> UserRow \union {None}]
         /\ Unique(users') /\ (ForeignKeys => UsersHaveRoles')
<1>1. users' \in [UserIds -> UserRow \union {None}] /\ Unique(users')
  BY DEF IInv, TypeOK, UniqueNames, Unique, Named
<1>2. ASSUME ForeignKeys, NEW v \in UserIds, users'[v] # None
      PROVE  roles'[users'[v].role] # None
  <2>1. CASE v = u
    BY <1>2, <2>1 DEF IInv, TypeOK
  <2>2. CASE v # u
    <3>1. users'[v] = users[v] /\ users[v] \in UserRow
      BY <1>2, <2>2 DEF IInv, TypeOK
    <3> QED
      BY <1>2, <3>1 DEF IInv, UsersHaveRoles, UserRow
  <2> QED
    BY <2>1, <2>2
<1> QED
  BY <1>1, <1>2 DEF UsersHaveRoles

\* Where users stay as they are and no role goes, every user keeps its role.
LEMMA RolesStay ==
  ASSUME IInv, UNCHANGED users,
         \A j \in RoleIds : roles[j] # None => roles'[j] # None
  PROVE  Unique(users') /\ (ForeignKeys => UsersHaveRoles')
<1>1. ASSUME NEW u \in UserIds, users[u] # None PROVE users[u].role \in RoleIds
  BY <1>1 DEF IInv, TypeOK, UserRow
<1> QED
  BY <1>1 DEF IInv, UniqueNames, UsersHaveRoles

(***************************************************************************)
(* Roles.                                                                  *)
(***************************************************************************)
LEMMA AskType ==
  ASSUME NEW op \in Ops
  PROVE  Ask(op) \in Request /\ Ask(op).op = op
  BY ZenonT(40), NoPermsType DEF Ask, Idle, Request, PC, Codes

LEMMA SuperRowType == SuperRow \in RoleRow /\ SuperRow # None
<1>1. [k \in Keys |-> TRUE] \in Perms
  <2>1. [k \in Keys |-> TRUE] \in [Keys -> BOOLEAN]
    OBVIOUS
  <2> QED
    BY <2>1 DEF Perms
<1>2. SuperRow \in RoleRow
  BY <1>1, RbacAssumption DEF SuperRow, RoleRow
<1> QED
  BY <1>2, RbacAssumption

LEMMA CreateRoleKeepsIInv ==
  ASSUME IInv, NEW r \in Requests, CreateRole(r)
  PROVE  IInv'
<1> DEFINE ask(n) == [Ask("createRole") EXCEPT !.name = n]
           row(n) == [name |-> n, perms |-> NoPerms]
           put(n, i) == [roles EXCEPT ![i] = row(n)]
<1>1. PICK n \in RoleNames :
         \/ Answer(r, ask(n), 409)
         \/ /\ Named(roles, n) = {}
            /\ \E i \in RoleIds : /\ IsNextId(roles, i)
                                 /\ Commit(r, ask(n), 201, put(n, i), users)
  BY DEF CreateRole
<1>2. ask(n) \in Request /\ ask(n).op = "createRole"
  BY AskType DEF Request, Ops
<1>3. row(n) \in RoleRow /\ row(n).name = n
  BY NoPermsType DEF RoleRow
<1>4. ASSUME NEW i \in RoleIds, Commit(r, ask(n), 201, put(n, i), users)
      PROVE  roles' = [roles EXCEPT ![i] = row(n)] /\ users' = users
  BY <1>4 DEF Commit
<1> HIDE DEF ask, row
<1>5. CASE Answer(r, ask(n), 409)
  BY <1>2, <1>5, AnswerKeepsIInv DEF Codes
<1>6. ASSUME Named(roles, n) = {}, NEW i \in RoleIds, IsNextId(roles, i),
             Commit(r, ask(n), 201, put(n, i), users)
      PROVE  IInv'
  <2>1. roles' = [roles EXCEPT ![i] = row(n)] /\ users' = users
    BY <1>4, <1>6
  <2>2. i # SuperId
    BY <1>6, SuperRowType, RbacAssumption
       DEF IsNextId, IInv, TypeOK, SuperAdminIntact, RoleIds
  <2>3. /\ roles' \in [RoleIds -> RoleRow \union {None}]
        /\ Unique(roles') /\ SuperAdminIntact'
        /\ \A j \in RoleIds : roles[j] # None => roles'[j] # None
    BY <1>3, <1>6, <2>1, <2>2, PutRole
  <2>4. UniqueNames' /\ (ForeignKeys => UsersHaveRoles')
    BY <2>1, <2>3, RolesStay DEF UniqueNames
  <2>5. users \in [UserIds -> UserRow \union {None}]
    BY DEF IInv, TypeOK
  <2>6. put(n, i) \in [RoleIds -> RoleRow \union {None}]
    BY <2>1, <2>3
  <2> HIDE DEF put
  <2> QED
    BY <1>2, <1>6, <2>3, <2>4, <2>5, <2>6, CommitKeepsIInv DEF Codes
<1> QED
  BY <1>1, <1>5, <1>6

LEMMA WaitFields ==
  ASSUME NEW q \in Request, NEW pc, NEW copy,
         NEW w, w = Paused(q, pc, copy)
  PROVE  /\ w.op = q.op /\ w.pc = pc /\ w.id = q.id /\ w.name = q.name
         /\ w.role = q.role /\ w.patch = q.patch /\ w.copy = copy
  BY DEF Request, Paused

LEMMA FindRoleKeepsIInv ==
  ASSUME IInv, NEW r \in Requests, NEW q \in Request, NEW i \in RoleIds,
         q.id = i, q.op \in {"updateRole", "deleteRole", "patchRole"},
         q.op = "updateRole" => q.name \in RoleNames \union {None},
         NEW pc \in PC, FindRole(r, q, i, pc)
  PROVE  IInv'
<1>1. CASE Answer(r, q, 404)
  BY <1>1, AnswerKeepsIInv DEF Codes
<1>2. CASE Answer(r, q, 403)
  BY <1>2, AnswerKeepsIInv DEF Codes
<1>3. CASE roles[i] # None /\ ~IsSuperAdmin(i, roles[i]) /\ Await(r, q, pc, roles[i])
  <2>1. roles[i] \in RoleRow /\ i # SuperId
    BY <1>3 DEF IInv, TypeOK, IsSuperAdmin
  <2> DEFINE w == Paused(q, pc, roles[i])
  <2>2. /\ w.op = q.op /\ w.id = i /\ w.name = q.name /\ w.copy = roles[i]
    BY WaitFields
  <2>3. RequestOK(w)
    <3> HIDE DEF w
    <3> QED
      BY <2>1, <2>2 DEF RequestOK, UserOps
  <2> QED
    BY <1>3, <2>1, <2>3, AwaitKeepsIInv
<1> QED
  BY <1>1, <1>2, <1>3 DEF FindRole

LEMMA UpdateRoleKeepsIInv ==
  ASSUME IInv, NEW r \in Requests, UpdateRole(r)
  PROVE  IInv'
<1> DEFINE ask(i, n) == [Ask("updateRole") EXCEPT !.id = i, !.name = n]
<1>1. PICK i \in RoleIds, n \in RoleNames \union {None} :
         FindRole(r, ask(i, n), i, "commit")
  BY DEF UpdateRole
<1>2. /\ ask(i, n) \in Request /\ ask(i, n).op = "updateRole"
      /\ ask(i, n).id = i /\ ask(i, n).name = n
  BY ZenonT(40), NoPermsType DEF Ask, Idle, Request, Ops, RoleOps, PC, Codes
<1> HIDE DEF ask
<1> QED
  BY <1>1, <1>2, FindRoleKeepsIInv DEF PC

LEMMA DeleteRoleKeepsIInv ==
  ASSUME IInv, NEW r \in Requests, DeleteRole(r)
  PROVE  IInv'
<1> DEFINE ask(i) == [Ask("deleteRole") EXCEPT !.id = i]
<1>1. PICK i \in RoleIds : FindRole(r, ask(i), i, "count")
  BY DEF DeleteRole
<1>2. ask(i) \in Request /\ ask(i).op = "deleteRole" /\ ask(i).id = i
  BY AskType DEF Request, Ops, RoleOps
<1> HIDE DEF ask
<1> QED
  BY <1>1, <1>2, FindRoleKeepsIInv DEF PC

LEMMA PatchRoleKeepsIInv ==
  ASSUME IInv, NEW r \in Requests, PatchRole(r)
  PROVE  IInv'
<1> DEFINE ask(i, p) == [Ask("patchRole") EXCEPT !.id = i, !.patch = p]
<1>1. PICK i \in RoleIds, p \in Patches : FindRole(r, ask(i, p), i, "commit")
  BY DEF PatchRole
<1>2. ask(i, p) \in Request /\ ask(i, p).op = "patchRole" /\ ask(i, p).id = i
  BY ZenonT(40), NoPermsType, RbacAssumption DEF Ask, Idle, Request, Ops, RoleOps, PC, Codes
<1> HIDE DEF ask
<1> QED
  BY <1>1, <1>2, FindRoleKeepsIInv DEF PC

\* What the invariant says of a request in a slot.
LEMMA Waiting ==
  ASSUME IInv, NEW r \in Requests
  PROVE  req[r] \in Request /\ RequestOK(req[r])
  BY DEF IInv, TypeOK, RequestOK

LEMMA UpdateRoleCommitKeepsIInv ==
  ASSUME IInv, NEW r \in Requests, UpdateRoleCommit(r)
  PROVE  IInv'
<1> DEFINE q == req[r]
           row == [roles[q.id] EXCEPT !.name = q.name]
           R == [roles EXCEPT ![q.id].name = q.name]
<1>1. q \in Request
  BY Waiting
<1>2. /\ q.id \in RoleIds \ {SuperId} /\ q.copy \in RoleRow
      /\ q.name \in RoleNames \union {None}
  BY Waiting DEF UpdateRoleCommit, At, RequestOK, InFlight
<1>3. CASE Answer(r, q, 200) \/ Answer(r, q, 500) \/ Answer(r, q, 409)
  BY <1>1, <1>3, AnswerKeepsIInv DEF Codes
<1>4. CASE /\ q.name \notin {None, q.copy.name} /\ roles[q.id] # None
           /\ Named(roles, q.name) \ {q.id} = {}
           /\ Commit(r, q, 200, R, users)
  <2>1. row \in RoleRow /\ row.name = q.name
    BY <1>2, <1>4 DEF IInv, TypeOK, RoleRow
  <2>2. roles' = [roles EXCEPT ![q.id] = row] /\ users' = users
    BY <1>4 DEF Commit
  <2>3. /\ roles' \in [RoleIds -> RoleRow \union {None}]
        /\ Unique(roles') /\ SuperAdminIntact'
        /\ \A j \in RoleIds : roles[j] # None => roles'[j] # None
    <3> HIDE DEF row
    <3> QED
      BY <1>2, <1>4, <2>1, <2>2, PutRole
  <2>4. UniqueNames' /\ (ForeignKeys => UsersHaveRoles')
    BY <2>2, <2>3, RolesStay DEF UniqueNames
  <2>5. users \in [UserIds -> UserRow \union {None}]
    BY DEF IInv, TypeOK
  <2>6. R = roles'
    BY <1>4 DEF Commit
  <2> HIDE DEF R
  <2> QED
    BY <1>1, <1>4, <2>3, <2>4, <2>5, <2>6, CommitKeepsIInv DEF Codes
<1> QED
  BY <1>3, <1>4 DEF UpdateRoleCommit

LEMMA PutRoleKeepsIInv ==
  ASSUME IInv, NEW r \in Requests, NEW q \in Request, NEW code \in Codes,
         NEW i \in RoleIds, i # SuperId, NEW row \in RoleRow,
         Named(roles, row.name) \ {i} = {},
         NEW R, R = [roles EXCEPT ![i] = row],
         Commit(r, q, code, R, users)
  PROVE  IInv'
<1>1. roles' = [roles EXCEPT ![i] = row] /\ users' = users /\ roles' = R
  BY DEF Commit
<1>2. /\ roles' \in [RoleIds -> RoleRow \union {None}]
      /\ Unique(roles') /\ SuperAdminIntact'
      /\ \A j \in RoleIds : roles[j] # None => roles'[j] # None
  BY <1>1, PutRole
<1>3. UniqueNames' /\ (ForeignKeys => UsersHaveRoles')
  BY <1>1, <1>2, RolesStay DEF UniqueNames
<1>4. users \in [UserIds -> UserRow \union {None}]
  BY DEF IInv, TypeOK
<1> QED
  BY <1>1, <1>2, <1>3, <1>4, CommitKeepsIInv

LEMMA CountUsersKeepsIInv ==
  ASSUME IInv, NEW r \in Requests, CountUsers(r) \/ LoadChildren(r)
  PROVE  IInv'
<1> DEFINE q == req[r]
<1>1. q \in Request /\ RequestOK(q) /\ q.op = "deleteRole" /\ InFlight(q)
  BY Waiting DEF CountUsers, LoadChildren, At, InFlight
<1>2. q.id \in RoleIds \ {SuperId} /\ q.copy \in RoleRow
  BY <1>1 DEF RequestOK
<1>3. CASE Answer(r, q, 409) \/ Answer(r, q, 500)
  BY <1>1, <1>3, AnswerKeepsIInv DEF Codes
<1>4. ASSUME NEW pc \in PC, Await(r, q, pc, q.copy)
      PROVE  IInv'
  <2> DEFINE w == Paused(q, pc, q.copy)
  <2>1. w.op = q.op /\ w.id = q.id /\ w.copy = q.copy
    BY <1>1, WaitFields
  <2>2. RequestOK(w)
    <3> HIDE DEF w, q
    <3> QED
      BY <1>1, <1>2, <2>1 DEF RequestOK, UserOps
  <2> QED
    BY <1>1, <1>2, <1>4, <2>2, AwaitKeepsIInv
<1> QED
  BY <1>3, <1>4 DEF CountUsers, LoadChildren, PC

LEMMA DeleteRoleCommitKeepsIInv ==
  ASSUME IInv, NEW r \in Requests, DeleteRoleCommit(r)
  PROVE  IInv'
<1> DEFINE q == req[r]
           R == [roles EXCEPT ![q.id] = None]
<1>1. q \in Request /\ q.op = "deleteRole" /\ q.id \in RoleIds \ {SuperId}
  BY Waiting DEF DeleteRoleCommit, At, RequestOK, InFlight
<1>2. CASE Answer(r, q, 409)
  BY <1>1, <1>2, AnswerKeepsIInv DEF Codes
<1>3. CASE (~ForeignKeys \/ Holders(users, q.id) = {}) /\ Commit(r, q, 204, R, users)
  <2>1. roles' = R /\ users' = users
    BY <1>3 DEF Commit
  <2>2. R \in [RoleIds -> RoleRow \union {None}] /\ SuperAdminIntact' /\ UniqueNames'
    BY <1>1, <2>1 DEF IInv, TypeOK, SuperAdminIntact, UniqueNames, Unique
  <2>3. ForeignKeys => UsersHaveRoles'
    <3>1. ASSUME ForeignKeys, NEW u \in UserIds, users[u] # None
          PROVE  roles'[users[u].role] # None
      <4>1. users[u].role # q.id
        BY <1>3, <3>1 DEF Holders
      <4>2. users[u].role \in RoleIds
        BY <3>1 DEF IInv, TypeOK, UserRow
      <4> QED
        BY <2>1, <3>1, <4>1, <4>2 DEF IInv, UsersHaveRoles, TypeOK
    <3> QED
      BY <2>1, <3>1 DEF UsersHaveRoles
  <2>4. users \in [UserIds -> UserRow \union {None}]
    BY DEF IInv, TypeOK
  <2> HIDE DEF R
  <2> QED
    BY <1>1, <1>3, <2>2, <2>3, <2>4, CommitKeepsIInv DEF Codes
<1> QED
  BY <1>2, <1>3 DEF DeleteRoleCommit

LEMMA AppendKeepsIInv ==
  ASSUME IInv, NEW r \in Requests, Append(r)
  PROVE  IInv'
<1> DEFINE ask(n, p) == [Ask("append") EXCEPT !.name = n, !.patch = p]
           asked(n, p, i) == [ask(n, p) EXCEPT !.id = i]
<1>1. PICK n \in RoleNames, p \in Patches :
         \/ Answer(r, ask(n, p), 404)
         \/ \E i \in Named(roles, n) :
               IF DOMAIN p \intersect DOMAIN roles[i].perms # {}
               THEN Answer(r, asked(n, p, i), 409)
               ELSE Await(r, asked(n, p, i), "commit", roles[i])
  BY DEF Append
<1>2. /\ p \in Perms
      /\ ask(n, p) \in Request /\ ask(n, p).op = "append" /\ ask(n, p).patch = p
  BY ZenonT(40), NoPermsType, RbacAssumption DEF Ask, Idle, Request, Ops, RoleOps, PC, Codes
<1>3. ASSUME NEW i \in RoleIds
      PROVE  /\ asked(n, p, i) \in Request /\ asked(n, p, i).op = "append"
             /\ asked(n, p, i).id = i /\ asked(n, p, i).patch = p
  <2> HIDE DEF ask
  <2> QED
    BY <1>2 DEF Request
<1> HIDE DEF ask, asked
<1>4. CASE Answer(r, ask(n, p), 404)
  BY <1>2, <1>4, AnswerKeepsIInv DEF Codes
<1>5. ASSUME NEW i \in Named(roles, n), Answer(r, asked(n, p, i), 409)
      PROVE  IInv'
  <2>1. i \in RoleIds
    BY DEF Named, IInv, TypeOK
  <2> QED
    BY <1>3, <1>5, <2>1, AnswerKeepsIInv DEF Codes
<1>6. ASSUME NEW i \in Named(roles, n),
             DOMAIN p \intersect DOMAIN roles[i].perms = {},
             Await(r, asked(n, p, i), "commit", roles[i])
      PROVE  IInv'
  <2>1. i \in RoleIds /\ roles[i] \in RoleRow
    BY DEF Named, IInv, TypeOK
  <2>2. i = SuperId => roles[i] = SuperRow /\ p = NoPerms
    BY <1>2, <1>6, NothingNewForSuperAdmin DEF IInv, SuperAdminIntact
  <2> DEFINE w == Paused(asked(n, p, i), "commit", roles[i])
  <2>3. w.op = "append" /\ w.id = i /\ w.copy = roles[i] /\ w.patch = p
    BY <1>3, <2>1, WaitFields
  <2>4. RequestOK(w)
    <3> HIDE DEF w
    <3> QED
      BY <2>1, <2>2, <2>3 DEF RequestOK, UserOps
  <2> QED
    BY <1>3, <1>6, <2>1, <2>4, AwaitKeepsIInv DEF PC
<1> QED
  BY <1>1, <1>4, <1>5, <1>6

LEMMA WriteRolePermsKeepsIInv ==
  ASSUME IInv, NEW r \in Requests, WriteRolePerms(r)
  PROVE  IInv'
<1> DEFINE q == req[r]
           merged == Merge(q.copy.perms, q.patch)
           row == [roles[q.id] EXCEPT !.perms = merged]
           R == [roles EXCEPT ![q.id].perms = merged]
<1>1. /\ q \in Request /\ RequestOK(q) /\ InFlight(q)
      /\ q.op \in {"patchRole", "append"}
  BY Waiting DEF WriteRolePerms, At, InFlight
<1>2. q.id \in RoleIds /\ q.copy \in RoleRow /\ q.patch \in Perms
  BY <1>1 DEF RequestOK, Request
<1>3. q.copy.perms \in Perms /\ merged \in Perms
  BY <1>2, MergeType DEF RoleRow
<1>4. CASE Answer(r, q, 200) \/ Answer(r, q, 500)
  BY <1>1, <1>4, AnswerKeepsIInv DEF Codes
<1>5. CASE merged # q.copy.perms /\ roles[q.id] # None /\ Commit(r, q, 200, R, users)
  <2>1. q.id # SuperId
    BY <1>1, <1>3, <1>5, MergeNothing DEF RequestOK
  <2>2. roles[q.id] \in RoleRow /\ row \in RoleRow /\ row.name = roles[q.id].name
    <3> HIDE DEF merged
    <3> QED
      BY <1>2, <1>3, <1>5 DEF IInv, TypeOK, RoleRow
  <2>3. Named(roles, row.name) \ {q.id} = {}
    <3> HIDE DEF row
    <3> QED
      BY <1>2, <1>5, <2>2 DEF Named, IInv, TypeOK, UniqueNames, Unique
  <2>4. R = [roles EXCEPT ![q.id] = row]
    <3> HIDE DEF merged, q
    <3> QED
      BY Zenon
  <2>5. Commit(r, q, 200, R, users) /\ 200 \in Codes
    BY <1>1, <1>5 DEF Codes
  <2> HIDE DEF R, row, merged, q
  <2> QED
    BY <1>1, <1>2, <2>1, <2>2, <2>3, <2>4, <2>5, PutRoleKeepsIInv
<1> QED
  BY <1>4, <1>5 DEF WriteRolePerms

LEMMA ResetRolesKeepsIInv ==
  ASSUME IInv, NEW r \in Requests, ResetRoles(r)
  PROVE  IInv'
<1> DEFINE q == Ask("resetRoles")
           w == Paused(q, "commit", None)
<1>1. q \in Request /\ q.op = "resetRoles"
  BY AskType DEF Ops
<1>2. CASE Answer(r, q, 200)
  BY <1>1, <1>2, AnswerKeepsIInv DEF Codes
<1>3. CASE Await(r, q, "commit", None)
  <2>1. w.op = "resetRoles"
    BY <1>1, WaitFields
  <2>2. RequestOK(w)
    <3> HIDE DEF w
    <3> QED
      BY <2>1 DEF RequestOK, UserOps
  <2> QED
    BY <1>1, <1>3, <2>2, AwaitKeepsIInv DEF PC
<1> QED
  BY <1>2, <1>3 DEF ResetRoles

LEMMA ResetRolesCommitKeepsIInv ==
  ASSUME IInv, NEW r \in Requests, ResetRolesCommit(r)
  PROVE  IInv'
<1> DEFINE q == req[r]
           R == [i \in RoleIds |-> IF i \in Resettable(roles)
                                  THEN [roles[i] EXCEPT !.perms = NoPerms]
                                  ELSE roles[i]]
<1>1. q \in Request /\ q.op = "resetRoles" /\ Commit(r, q, 200, R, users)
  BY Waiting DEF ResetRolesCommit, At
<1>2. roles' = R /\ users' = users
  BY <1>1 DEF Commit
<1>3. ASSUME NEW i \in RoleIds
      PROVE  /\ R[i] \in RoleRow \union {None}
             /\ R[i] # None <=> roles[i] # None
             /\ R[i] # None => R[i].name = roles[i].name
             /\ i = SuperId => R[i] = roles[i]
  <2>1. CASE i \in Resettable(roles)
    <3>1. roles[i] # None /\ roles[i] \in RoleRow /\ i # SuperId
      BY <2>1 DEF Resettable, IInv, TypeOK, IsSuperAdmin
    <3>2. [roles[i] EXCEPT !.perms = NoPerms] \in RoleRow
      BY <3>1, NoPermsType DEF RoleRow
    <3> QED
      BY <2>1, <3>1, <3>2, RbacAssumption DEF RoleRow
  <2>2. CASE i \notin Resettable(roles)
    BY <2>2 DEF IInv, TypeOK
  <2> QED
    BY <2>1, <2>2
<1>4. R \in [RoleIds -> RoleRow \union {None}]
  BY <1>3
<1>5. SuperAdminIntact'
  BY <1>2, <1>3, RbacAssumption DEF IInv, SuperAdminIntact
<1>6. \A i \in RoleIds : roles[i] # None => roles'[i] # None
  BY <1>2, <1>3
<1> HIDE DEF R
<1>7. UniqueNames' /\ (ForeignKeys => UsersHaveRoles')
  <2>1. Unique(roles')
    BY <1>2, <1>3, <1>4 DEF IInv, TypeOK, UniqueNames, Unique
  <2> QED
    BY <1>2, <1>6, <2>1, RolesStay DEF UniqueNames
<1>8. users \in [UserIds -> UserRow \union {None}]
  BY DEF IInv, TypeOK
<1> QED
  BY <1>1, <1>4, <1>5, <1>7, <1>8, CommitKeepsIInv DEF Codes

(***************************************************************************)
(* Users.                                                                  *)
(***************************************************************************)
LEMMA PutUserKeepsIInv ==
  ASSUME IInv, NEW r \in Requests, NEW q \in Request, NEW code \in Codes,
         NEW R \in [RoleIds -> RoleRow \union {None}],
         Unique(R), R[SuperId] = SuperRow,
         \A j \in RoleIds : roles[j] # None => R[j] # None,
         NEW u \in UserIds, NEW row \in UserRow,
         Named(users, row.name) \ {u} = {},
         ForeignKeys => R[row.role] # None,
         NEW U, U = [users EXCEPT ![u] = row],
         Commit(r, q, code, R, U)
  PROVE  IInv'
<1>1. users' = [users EXCEPT ![u] = row] /\ roles' = R /\ users' = U
  BY DEF Commit
<1>2. /\ users' \in [UserIds -> UserRow \union {None}]
      /\ Unique(users') /\ (ForeignKeys => UsersHaveRoles')
  BY <1>1, PutUser
<1>3. UniqueNames' /\ SuperAdminIntact'
  BY <1>1, <1>2 DEF UniqueNames, SuperAdminIntact
<1> QED
  BY <1>1, <1>2, <1>3, CommitKeepsIInv

\* The roles as they are meet what PutUserKeepsIInv asks of R.
LEMMA RolesNow ==
  ASSUME IInv
  PROVE  /\ roles \in [RoleIds -> RoleRow \union {None}]
         /\ Unique(roles) /\ roles[SuperId] = SuperRow
  BY DEF IInv, TypeOK, UniqueNames, SuperAdminIntact

LEMMA InsertUserKeepsIInv ==
  ASSUME IInv, NEW r \in Requests, NEW q \in Request, NEW code \in Codes,
         q.name \in UserNames, q.role \in RoleIds, Named(users, q.name) = {},
         NEW R \in [RoleIds -> RoleRow \union {None}],
         Unique(R), R[SuperId] = SuperRow,
         \A j \in RoleIds : roles[j] # None => R[j] # None,
         ForeignKeys => R[q.role] # None,
         InsertUser(r, q, R, code)
  PROVE  IInv'
<1> DEFINE row == [name |-> q.name, role |-> q.role, perms |-> NoPerms]
           put(u) == [users EXCEPT ![u] = row]
<1>1. PICK u \in UserIds : Commit(r, q, code, R, put(u))
  BY DEF InsertUser
<1>2. row \in UserRow /\ row.name = q.name /\ row.role = q.role
  BY NoPermsType DEF UserRow
<1> HIDE DEF row
<1> QED
  BY <1>1, <1>2, PutUserKeepsIInv

LEMMA CreateUserKeepsIInv ==
  ASSUME IInv, NEW r \in Requests, CreateUser(r)
  PROVE  IInv'
<1> DEFINE ask(n, i) == [Ask("createUser") EXCEPT !.name = n, !.role = i]
           w(n, i) == Paused(ask(n, i), "commit", None)
<1>1. PICK n \in UserNames, i \in RoleIds :
         Answer(r, ask(n, i), 404) \/ Await(r, ask(n, i), "commit", None)
  BY DEF CreateUser
<1>2. /\ ask(n, i) \in Request /\ ask(n, i).op = "createUser"
      /\ ask(n, i).name = n /\ ask(n, i).role = i
  BY ZenonT(40), NoPermsType DEF Ask, Idle, Request, Ops, PC, Codes
<1> HIDE DEF ask
<1>3. CASE Answer(r, ask(n, i), 404)
  BY <1>2, <1>3, AnswerKeepsIInv DEF Codes
<1>4. CASE Await(r, ask(n, i), "commit", None)
  <2>1. w(n, i).op = "createUser" /\ w(n, i).name = n /\ w(n, i).role = i
    BY <1>2, WaitFields
  <2>2. RequestOK(w(n, i))
    <3> HIDE DEF w
    <3> QED
      BY <2>1 DEF RequestOK, UserOps
  <2> QED
    BY <1>2, <1>4, <2>2, AwaitKeepsIInv DEF PC
<1> QED
  BY <1>1, <1>3, <1>4

LEMMA CreateUserCommitKeepsIInv ==
  ASSUME IInv, NEW r \in Requests, CreateUserCommit(r)
  PROVE  IInv'
<1> DEFINE q == req[r]
<1>1. q \in Request /\ q.op = "createUser" /\ q.name \in UserNames /\ q.role \in RoleIds
  BY Waiting DEF CreateUserCommit, At, RequestOK, InFlight
<1>2. CASE Answer(r, q, 409) \/ Answer(r, q, 404)
  BY <1>1, <1>2, AnswerKeepsIInv DEF Codes
<1>3. CASE Named(users, q.name) = {} /\ ~RoleMissing(q.role) /\ InsertUser(r, q, roles, 201)
  BY <1>1, <1>3, RolesNow, InsertUserKeepsIInv DEF RoleMissing, Codes
<1> QED
  BY <1>2, <1>3 DEF CreateUserCommit

LEMMA FindUserKeepsIInv ==
  ASSUME IInv, NEW r \in Requests, NEW q \in Request, NEW u \in UserIds,
         q.id = u, q.op \in UserOps, NEW pc \in PC,
         q.op = "updateUser" =>
            q.name \in UserNames \union {None} /\ (pc = "role" => q.role \in RoleIds),
         FindUser(r, q, u, pc)
  PROVE  IInv'
<1>1. CASE Answer(r, q, 404)
  BY <1>1, AnswerKeepsIInv DEF Codes, UserOps
<1>2. CASE users[u] # None /\ Await(r, q, pc, users[u])
  <2>1. users[u] \in UserRow
    BY <1>2 DEF IInv, TypeOK
  <2> DEFINE w == Paused(q, pc, users[u])
  <2>2. /\ w.op = q.op /\ w.pc = pc /\ w.id = u /\ w.name = q.name
        /\ w.role = q.role /\ w.copy = users[u]
    BY WaitFields
  <2>3. RequestOK(w)
    <3> HIDE DEF w
    <3> QED
      BY <2>1, <2>2 DEF RequestOK, UserOps
  <2> QED
    BY <1>2, <2>1, <2>3, AwaitKeepsIInv
<1> QED
  BY <1>1, <1>2 DEF FindUser

LEMMA UpdateUserKeepsIInv ==
  ASSUME IInv, NEW r \in Requests, UpdateUser(r)
  PROVE  IInv'
<1> DEFINE ask(u, n, i) ==
             [Ask("updateUser") EXCEPT !.id = u, !.name = n, !.role = i]
<1>1. PICK u \in UserIds, n \in UserNames \union {None}, i \in RoleIds \union {None} :
         FindUser(r, ask(u, n, i), u, IF i = None THEN "commit" ELSE "role")
  BY DEF UpdateUser
<1>2. /\ ask(u, n, i) \in Request /\ ask(u, n, i).op = "updateUser"
      /\ ask(u, n, i).id = u /\ ask(u, n, i).name = n /\ ask(u, n, i).role = i
  <2> DEFINE a1 == [Ask("updateUser") EXCEPT !.id = u]
             a2 == [a1 EXCEPT !.name = n]
  <2>1. a1 \in Request /\ a1.op = "updateUser" /\ a1.id = u
    BY ZenonT(40), NoPermsType DEF Ask, Idle, Request, Ops, UserOps, PC, Codes
  <2>2. a2 \in Request /\ a2.op = "updateUser" /\ a2.id = u /\ a2.name = n
    <3> HIDE DEF a1
    <3> QED
      BY <2>1 DEF Request
  <2>3. ask(u, n, i) = [a2 EXCEPT !.role = i]
    BY Zenon
  <2> HIDE DEF a2, ask
  <2> QED
    BY <2>2, <2>3 DEF Request
<1> HIDE DEF ask
<1>3. CASE i = None
  BY <1>1, <1>2, <1>3, FindUserKeepsIInv DEF PC, UserOps
<1>4. CASE i # None
  BY <1>1, <1>2, <1>4, FindUserKeepsIInv DEF PC, UserOps
<1> QED
  BY <1>3, <1>4

LEMMA UserReadsKeepIInv ==
  ASSUME IInv, NEW r \in Requests, SetPassword(r) \/ DeleteUser(r) \/ PatchUser(r)
  PROVE  IInv'
<1> DEFINE ask(op, u) == [Ask(op) EXCEPT !.id = u]
           askPatch(u, p) == [Ask("patchUser") EXCEPT !.id = u, !.patch = p]
<1>1. ASSUME NEW u \in UserIds, NEW op \in {"setPassword", "deleteUser"},
             FindUser(r, ask(op, u), u, "commit")
      PROVE  IInv'
  <2>1. ask(op, u) \in Request /\ ask(op, u).op = op /\ ask(op, u).id = u
    BY ZenonT(40), NoPermsType DEF Ask, Idle, Request, Ops, UserOps, PC, Codes
  <2> HIDE DEF ask
  <2> QED
    BY <1>1, <2>1, FindUserKeepsIInv DEF PC, UserOps
<1>2. ASSUME NEW u \in UserIds, NEW p \in Patches,
             FindUser(r, askPatch(u, p), u, "commit")
      PROVE  IInv'
  <2>1. /\ askPatch(u, p) \in Request /\ askPatch(u, p).op = "patchUser"
        /\ askPatch(u, p).id = u
    BY ZenonT(40), NoPermsType, RbacAssumption DEF Ask, Idle, Request, Ops, UserOps, PC, Codes
  <2> HIDE DEF askPatch
  <2> QED
    BY <1>2, <2>1, FindUserKeepsIInv DEF PC, UserOps
<1> QED
  BY <1>1, <1>2 DEF SetPassword, DeleteUser, PatchUser

\* A write of one user that leaves the roles alone.
LEMMA WriteUserKeepsIInv ==
  ASSUME IInv, NEW r \in Requests, NEW q \in Request,
         NEW u \in UserIds, NEW row \in UserRow,
         Named(users, row.name) \ {u} = {},
         ForeignKeys => roles[row.role] # None,
         NEW U, U = [users EXCEPT ![u] = row],
         Commit(r, q, 200, roles, U)
  PROVE  IInv'
<1>1. /\ roles \in [RoleIds -> RoleRow \union {None}]
      /\ Unique(roles) /\ roles[SuperId] = SuperRow
      /\ \A j \in RoleIds : roles[j] # None => roles[j] # None
  BY RolesNow
<1>2. 200 \in Codes
  BY DEF Codes
<1> QED
  BY <1>1, <1>2, PutUserKeepsIInv

\* The row an update writes keeps its type; its name is new or its own.
LEMMA UpdatedType ==
  ASSUME IInv, NEW q \in Request, q.id \in UserIds, users[q.id] # None,
         q.name \in UserNames \union {None}
  PROVE  /\ Updated(q, users[q.id]) \in UserRow
         /\ Updated(q, users[q.id]).name =
               (IF Renamed(q) THEN q.name ELSE users[q.id].name)
         /\ Updated(q, users[q.id]).role =
               (IF Moved(q) THEN q.role ELSE users[q.id].role)
<1>1. users[q.id] \in UserRow /\ q.role \in RoleIds \union {None}
  BY DEF IInv, TypeOK, Request
<1> QED
  BY <1>1 DEF Updated, UserRow, Renamed, Moved

LEMMA UpdateKeepsIInv ==
  ASSUME IInv, NEW r \in Requests, NEW q \in Request, q.op = "updateUser",
         q.id \in UserIds, users[q.id] # None, q.name \in UserNames \union {None},
         Renamed(q) => Named(users, q.name) \ {q.id} = {},
         Moved(q) => ~RoleMissing(q.role),
         NEW U, U = [users EXCEPT ![q.id] = Updated(q, users[q.id])],
         Commit(r, q, 200, roles, U)
  PROVE  IInv'
<1> DEFINE row == Updated(q, users[q.id])
<1>1. /\ row \in UserRow
      /\ row.name = (IF Renamed(q) THEN q.name ELSE users[q.id].name)
      /\ row.role = (IF Moved(q) THEN q.role ELSE users[q.id].role)
  BY UpdatedType
<1> HIDE DEF row
<1>2. Named(users, row.name) \ {q.id} = {}
  BY <1>1 DEF IInv, TypeOK, UniqueNames, Unique, Named
<1>3. ForeignKeys => roles[row.role] # None
  <2>1. CASE Moved(q)
    BY <1>1, <2>1 DEF RoleMissing
  <2>2. CASE ~Moved(q)
    BY <1>1, <2>2 DEF IInv, UsersHaveRoles
  <2> QED
    BY <2>1, <2>2
<1>4. U = [users EXCEPT ![q.id] = row]
  BY DEF row
<1>5. row \in UserRow
  BY <1>1
<1> QED
  BY ZenonT(40), <1>2, <1>3, <1>4, <1>5, WriteUserKeepsIInv

LEMMA CheckRoleKeepsIInv ==
  ASSUME IInv, NEW r \in Requests, CheckRole(r)
  PROVE  IInv'
<1> DEFINE q == req[r]
           U == [users EXCEPT ![q.id] = Updated(q, users[q.id])]
<1>1. /\ q \in Request /\ RequestOK(q) /\ q.op = "updateUser" /\ q.pc = "role"
      /\ q.id \in UserIds /\ q.copy \in UserRow
      /\ q.name \in UserNames \union {None} /\ q.role \in RoleIds
  BY Waiting DEF CheckRole, At, RequestOK, InFlight, UserOps
<1>2. CASE Answer(r, q, 404) \/ Answer(r, q, 500)
  BY <1>1, <1>2, AnswerKeepsIInv DEF Codes
<1>3. CASE Await(r, q, "commit", q.copy)
  <2> DEFINE w == Paused(q, "commit", q.copy)
  <2>1. /\ w.op = q.op /\ w.pc = "commit" /\ w.id = q.id /\ w.name = q.name
        /\ w.copy = q.copy
    BY <1>1, WaitFields
  <2>2. RequestOK(w)
    <3> HIDE DEF w, q
    <3> QED
      BY <1>1, <2>1 DEF RequestOK, UserOps
  <2> QED
    BY <1>1, <1>3, <2>2, AwaitKeepsIInv DEF PC
<1>4. CASE /\ Renamed(q) /\ users[q.id] # None
           /\ Named(users, q.name) \ {q.id} = {} /\ roles[q.role] # None
           /\ Commit(r, q, 200, roles, U)
  <2> HIDE DEF q, U
  <2>1. U = [users EXCEPT ![q.id] = Updated(q, users[q.id])]
    BY DEF U
  <2>2. Moved(q) => ~RoleMissing(q.role)
    BY <1>4 DEF RoleMissing
  <2> QED
    BY <1>1, <1>4, <2>1, <2>2, UpdateKeepsIInv
<1> QED
  BY <1>2, <1>3, <1>4 DEF CheckRole

LEMMA UpdateUserCommitKeepsIInv ==
  ASSUME IInv, NEW r \in Requests, UpdateUserCommit(r)
  PROVE  IInv'
<1> DEFINE q == req[r]
           U == [users EXCEPT ![q.id] = Updated(q, users[q.id])]
<1>1. /\ q \in Request /\ q.op = "updateUser" /\ q.id \in UserIds
      /\ q.name \in UserNames \union {None}
  BY Waiting DEF UpdateUserCommit, At, RequestOK, InFlight, UserOps
<1>2. CASE \E code \in {200, 500, 409, 404} : Answer(r, q, code)
  BY <1>1, <1>2, AnswerKeepsIInv DEF Codes
<1>3. CASE /\ users[q.id] # None
           /\ Renamed(q) => Named(users, q.name) \ {q.id} = {}
           /\ Moved(q) => ~RoleMissing(q.role)
           /\ Commit(r, q, 200, roles, U)
  <2> HIDE DEF q, U
  <2>1. U = [users EXCEPT ![q.id] = Updated(q, users[q.id])]
    BY DEF U
  <2> QED
    BY <1>1, <1>3, <2>1, UpdateKeepsIInv
<1> QED
  BY <1>2, <1>3 DEF UpdateUserCommit

LEMMA SetPasswordCommitKeepsIInv ==
  ASSUME IInv, NEW r \in Requests, SetPasswordCommit(r)
  PROVE  IInv'
<1>1. req[r] \in Request /\ req[r].op = "setPassword"
  BY Waiting DEF SetPasswordCommit, At
<1> QED
  BY <1>1, AnswerKeepsIInv DEF SetPasswordCommit, Codes

LEMMA DeleteUserCommitKeepsIInv ==
  ASSUME IInv, NEW r \in Requests, DeleteUserCommit(r)
  PROVE  IInv'
<1> DEFINE q == req[r]
           U == [users EXCEPT ![q.id] = None]
<1>1. /\ q \in Request /\ q.op = "deleteUser" /\ q.id \in UserIds
      /\ Commit(r, q, 204, roles, U)
  BY Waiting DEF DeleteUserCommit, At, RequestOK, InFlight, UserOps
<1>2. roles' = roles /\ users' = U
  BY <1>1 DEF Commit
<1>3. /\ U \in [UserIds -> UserRow \union {None}]
      /\ UniqueNames' /\ SuperAdminIntact' /\ (ForeignKeys => UsersHaveRoles')
  BY <1>1, <1>2 DEF IInv, TypeOK, UniqueNames, Unique, SuperAdminIntact, UsersHaveRoles
<1> HIDE DEF U
<1> QED
  BY <1>1, <1>3, RolesNow, CommitKeepsIInv DEF Codes

LEMMA WriteUserPermsKeepsIInv ==
  ASSUME IInv, NEW r \in Requests, WriteUserPerms(r)
  PROVE  IInv'
<1> DEFINE q == req[r]
           merged == Merge(q.copy.perms, q.patch)
           row == [users[q.id] EXCEPT !.perms = merged]
           U == [users EXCEPT ![q.id].perms = merged]
<1>1. /\ q \in Request /\ q.op = "patchUser" /\ q.id \in UserIds
      /\ q.copy \in UserRow /\ q.patch \in Perms
  BY Waiting DEF WriteUserPerms, At, RequestOK, InFlight, UserOps, Request
<1>2. merged \in Perms
  BY <1>1, MergeType DEF UserRow
<1>3. CASE Answer(r, q, 200) \/ Answer(r, q, 500)
  BY <1>1, <1>3, AnswerKeepsIInv DEF Codes
<1>4. CASE users[q.id] # None /\ Commit(r, q, 200, roles, U)
  <2>1. /\ row \in UserRow /\ row.name = users[q.id].name
        /\ row.role = users[q.id].role
    <3> HIDE DEF merged
    <3> QED
      BY <1>1, <1>2, <1>4 DEF IInv, TypeOK, UserRow
  <2>2. Named(users, row.name) \ {q.id} = {} /\ (ForeignKeys => roles[row.role] # None)
    <3> HIDE DEF row
    <3> QED
      BY <1>1, <1>4, <2>1 DEF Named, IInv, TypeOK, UniqueNames, Unique, UsersHaveRoles
  <2>3. U = [users EXCEPT ![q.id] = row]
    <3> HIDE DEF merged, q
    <3> QED
      BY Zenon
  <2>4. Commit(r, q, 200, roles, U)
    BY <1>4
  <2> HIDE DEF U, row, merged, q
  <2> QED
    BY <1>1, <2>1, <2>2, <2>3, <2>4, WriteUserKeepsIInv
<1> QED
  BY <1>3, <1>4 DEF WriteUserPerms

LEMMA ResetUsersKeepsIInv ==
  ASSUME IInv, NEW r \in Requests, ResetUsers(r)
  PROVE  IInv'
<1> DEFINE q == Ask("resetUsers")
           w == Paused(q, "commit", None)
<1>1. q \in Request /\ q.op = "resetUsers"
  BY AskType DEF Ops
<1>2. CASE Answer(r, q, 200)
  BY <1>1, <1>2, AnswerKeepsIInv DEF Codes
<1>3. CASE Await(r, q, "commit", None)
  <2>1. w.op = "resetUsers"
    BY <1>1, WaitFields
  <2>2. RequestOK(w)
    <3> HIDE DEF w
    <3> QED
      BY <2>1 DEF RequestOK, UserOps
  <2> QED
    BY <1>1, <1>3, <2>2, AwaitKeepsIInv DEF PC
<1> QED
  BY <1>2, <1>3 DEF ResetUsers

LEMMA ResetUsersCommitKeepsIInv ==
  ASSUME IInv, NEW r \in Requests, ResetUsersCommit(r)
  PROVE  IInv'
<1> DEFINE q == req[r]
           U == [u \in UserIds |-> IF users[u] = None THEN None
                                  ELSE [users[u] EXCEPT !.perms = NoPerms]]
<1>1. q \in Request /\ q.op = "resetUsers" /\ Commit(r, q, 200, roles, U)
  BY Waiting DEF ResetUsersCommit, At
<1>2. roles' = roles /\ users' = U
  BY <1>1 DEF Commit
<1>3. ASSUME NEW u \in UserIds
      PROVE  /\ U[u] \in UserRow \union {None}
             /\ U[u] # None => /\ users[u] # None /\ U[u].name = users[u].name
                               /\ U[u].role = users[u].role
  <2>1. CASE users[u] # None
    <3>1. [users[u] EXCEPT !.perms = NoPerms] \in UserRow
      BY <2>1, NoPermsType DEF UserRow, IInv, TypeOK
    <3> QED
      BY <2>1, <3>1 DEF UserRow, IInv, TypeOK
  <2>2. CASE users[u] = None
    BY <2>2
  <2> QED
    BY <2>1, <2>2
<1>4. U \in [UserIds -> UserRow \union {None}]
  BY <1>3
<1> HIDE DEF U
<1>5. UniqueNames' /\ SuperAdminIntact' /\ (ForeignKeys => UsersHaveRoles')
  BY <1>2, <1>3, <1>4 DEF IInv, TypeOK, UniqueNames, Unique, SuperAdminIntact, UsersHaveRoles
<1> QED
  BY <1>1, <1>4, <1>5, RolesNow, CommitKeepsIInv DEF Codes

(***************************************************************************)
(* Signup, and leaving.                                                    *)
(***************************************************************************)
LEMMA SignupKeepsIInv ==
  ASSUME IInv, NEW r \in Requests, Signup(r)
  PROVE  IInv'
<1>1. PICK n \in UserNames :
        LET q == [Ask("signup") EXCEPT !.name = n, !.role = DefaultId]
        IN  \/ Await(r, q, "commit", roles[DefaultId])
            \/ Await(r, q, "commit", None)
            \/ Answer(r, q, 500)
  BY DEF Signup
<1> DEFINE q == [Ask("signup") EXCEPT !.name = n, !.role = DefaultId]
<1>2. /\ q \in Request /\ q.op = "signup" /\ q.name = n /\ q.role = DefaultId
      /\ n \in UserNames /\ DefaultId \in RoleIds
  BY ZenonT(40), NoPermsType, RbacAssumption DEF Ask, Idle, Request, Ops, PC, Codes
<1>3. Await(r, q, "commit", roles[DefaultId]) \/ Await(r, q, "commit", None)
        \/ Answer(r, q, 500)
  BY <1>1
<1> HIDE DEF q
<1>4. ASSUME NEW copy \in RoleRow \union {None}, Await(r, q, "commit", copy)
      PROVE  IInv'
  <2> DEFINE w == Paused(q, "commit", copy)
  <2>1. w.op = "signup" /\ w.name = n /\ w.role = DefaultId
    BY <1>2, WaitFields
  <2>2. RequestOK(w)
    <3> HIDE DEF w
    <3> QED
      BY <1>2, <2>1 DEF RequestOK, UserOps
  <2> QED
    BY <1>2, <1>4, <2>2, AwaitKeepsIInv DEF PC
<1>5. CASE Answer(r, q, 500)
  BY <1>2, <1>5, AnswerKeepsIInv DEF Codes
<1>6. roles[DefaultId] \in RoleRow \union {None}
  BY <1>2 DEF IInv, TypeOK
<1> QED
  BY <1>3, <1>4, <1>5, <1>6

LEMMA SignupCommitKeepsIInv ==
  ASSUME IInv, NEW r \in Requests, SignupCommit(r)
  PROVE  IInv'
<1> DEFINE q == req[r]
           missing == q.copy = None
           R == IF missing THEN [roles EXCEPT ![DefaultId] = DefaultRow] ELSE roles
<1>1. /\ q \in Request /\ q.op = "signup" /\ q.role = DefaultId
      /\ q.name \in UserNames /\ DefaultId \in RoleIds
  BY Waiting, RbacAssumption DEF SignupCommit, At, RequestOK, InFlight
<1>2. CASE Answer(r, q, 500) \/ Answer(r, q, 409)
  BY <1>1, <1>2, AnswerKeepsIInv DEF Codes
<1>3. CASE /\ missing => DefaultMatches(roles) = {}
           /\ Named(users, q.name) = {}
           /\ missing \/ ~RoleMissing(DefaultId)
           /\ InsertUser(r, q, R, 201)
  <2>1. DefaultRow \in RoleRow /\ DefaultRow # None /\ DefaultRow.name = DefaultName
    BY RbacAssumption DEF DefaultRow, RoleRow
  <2>2. CASE missing
    <3>1. \A i \in RoleIds : roles[i] # None => i # DefaultId /\ roles[i].name # DefaultName
      BY <1>3, <2>2 DEF DefaultMatches
    <3>2. R = [roles EXCEPT ![DefaultId] = DefaultRow]
      BY <2>2
    <3> HIDE DEF R, q
    <3>3. R \in [RoleIds -> RoleRow \union {None}]
      BY <1>1, <2>1, <3>2 DEF IInv, TypeOK
    <3>4. Unique(R)
      BY <1>1, <2>1, <3>1, <3>2 DEF IInv, TypeOK, UniqueNames, Unique
    <3>5. R[SuperId] = SuperRow
      BY <3>2, RbacAssumption DEF IInv, TypeOK, SuperAdminIntact
    <3>6. /\ \A j \in RoleIds : roles[j] # None => R[j] # None
          /\ R[DefaultId] # None
      BY <1>1, <2>1, <3>2 DEF IInv, TypeOK
    <3> QED
      BY <1>1, <1>3, <3>3, <3>4, <3>5, <3>6, InsertUserKeepsIInv DEF Codes
  <2>3. CASE ~missing
    <3>1. R = roles /\ (ForeignKeys => roles[q.role] # None)
      BY <1>1, <1>3, <2>3 DEF RoleMissing
    <3> HIDE DEF R, q
    <3> QED
      BY <1>1, <1>3, <3>1, RolesNow, InsertUserKeepsIInv DEF Codes
  <2> QED
    BY <2>2, <2>3
<1> QED
  BY <1>2, <1>3 DEF SignupCommit

LEMMA LeaveKeepsIInv ==
  ASSUME IInv, NEW r \in Requests, Leave(r)
  PROVE  IInv'
<1>1. Idle \in Request /\ RequestOK(Idle)
  BY NoPermsType, RbacAssumption
  DEF Idle, Request, PC, Codes, RequestOK, UserOps, InFlight
<1> QED
  BY <1>1 DEF Leave, IInv, TypeOK, UniqueNames, Unique, SuperAdminIntact, UsersHaveRoles

(***************************************************************************)
(* The theorems.                                                           *)
(***************************************************************************)
LEMMA InitIInv == Init => IInv
<1> SUFFICES ASSUME Init PROVE IInv
  OBVIOUS
<1>1. Idle \in Request /\ RequestOK(Idle)
  BY NoPermsType, RbacAssumption
  DEF Idle, Request, PC, Codes, RequestOK, UserOps, InFlight
<1>2. DefaultRow \in RoleRow /\ SuperRow \in RoleRow
  BY RbacAssumption, SuperRowType DEF DefaultRow, RoleRow
<1>3. TypeOK
  BY <1>1, <1>2 DEF Init, TypeOK
<1>4. UniqueNames /\ SuperAdminIntact /\ UsersHaveRoles
  BY RbacAssumption
  DEF Init, UniqueNames, Unique, SuperAdminIntact, UsersHaveRoles, SuperRow, DefaultRow
<1> QED
  BY <1>1, <1>3, <1>4 DEF Init, IInv

LEMMA RoleStepKeepsIInv ==
  ASSUME IInv, NEW r \in Requests, RoleStep(r)
  PROVE  IInv'
BY CreateRoleKeepsIInv, UpdateRoleKeepsIInv, UpdateRoleCommitKeepsIInv,
   DeleteRoleKeepsIInv, CountUsersKeepsIInv, DeleteRoleCommitKeepsIInv,
   PatchRoleKeepsIInv, AppendKeepsIInv, WriteRolePermsKeepsIInv,
   ResetRolesKeepsIInv, ResetRolesCommitKeepsIInv
DEF RoleStep

LEMMA UserStepKeepsIInv ==
  ASSUME IInv, NEW r \in Requests, UserStep(r)
  PROVE  IInv'
BY CreateUserKeepsIInv, CreateUserCommitKeepsIInv, UpdateUserKeepsIInv,
   CheckRoleKeepsIInv, UpdateUserCommitKeepsIInv, UserReadsKeepIInv,
   SetPasswordCommitKeepsIInv, DeleteUserCommitKeepsIInv,
   WriteUserPermsKeepsIInv, ResetUsersKeepsIInv, ResetUsersCommitKeepsIInv,
   SignupKeepsIInv, SignupCommitKeepsIInv
DEF UserStep

\* The invariant the other theorems rest on: types, unique names, the intact
\* SuperAdmin, the foreign key if it is enforced, and what every request in
\* flight found out before it paused (crud.py, all handlers).
THEOREM StoreInvariant == Spec => []IInv
<1>1. IInv /\ [Next]_vars => IInv'
  <2> SUFFICES ASSUME IInv, [Next]_vars PROVE IInv'
    OBVIOUS
  <2>1. CASE UNCHANGED vars
    BY <2>1 DEF vars, IInv, TypeOK, UniqueNames, Unique, SuperAdminIntact, UsersHaveRoles
  <2>2. ASSUME NEW r \in Requests, RoleStep(r) \/ UserStep(r) \/ Leave(r)
        PROVE  IInv'
    BY <2>2, RoleStepKeepsIInv, UserStepKeepsIInv, LeaveKeepsIInv
  <2> QED
    BY <2>1, <2>2 DEF Next
<1> QED
  BY <1>1, InitIInv, PTL DEF Spec

\* No sequence and no race of requests, the unguarded registry's appends
\* included, changes the SuperAdmin role's id, name or permissions
\* (crud.py:51, 192, 333-344).
THEOREM SuperAdminStaysIntact == Spec => []SuperAdminIntact
<1>1. IInv => SuperAdminIntact
  BY DEF IInv
<1> QED
  BY <1>1, StoreInvariant, PTL

\* Where the database enforces the foreign key, no user is left without a
\* role, whichever of creation, move, signup and deletion comes first
\* (crud.py:148-169, 226-247, 263-276).
THEOREM UsersKeepTheirRoles == ASSUME ForeignKeys PROVE Spec => []UsersHaveRoles
<1>1. IInv => UsersHaveRoles
  BY DEF IInv
<1> QED
  BY <1>1, StoreInvariant, PTL
=============================================================================
