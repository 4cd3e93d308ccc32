------------------------- MODULE RbacAtomicity_proofs -------------------------
(***************************************************************************)
(* Proof that a request whose stake nobody touched is answered as if it    *)
(* had run at one stroke (RbacStore!UnracedIsAtomic).                      *)
(***************************************************************************)
EXTENDS RbacStore_proofs

(***************************************************************************)
(* What a request in flight found out before it paused, as it stands now   *)
(* if no other commit touched its stake.                                   *)
(***************************************************************************)
FoundRole(q, R, U) ==
    /\ R[q.id] = q.copy
    /\ q.op = "append" =>
          /\ q.copy.name = q.name
          /\ DOMAIN q.patch \intersect DOMAIN q.copy.perms = {}
    /\ q.op # "append" => ~IsSuperAdmin(q.id, q.copy)
    /\ q.op = "deleteRole" /\ q.pc \in {"children", "commit"} =>
          Holders(U, q.id) = {}

FoundUser(q, R, U) ==
    /\ U[q.id] = q.copy
    /\ q.op = "updateUser" /\ q.pc = "commit" /\ q.role # None => R[q.role] # None

FoundDefault(q, R) ==
    IF q.copy = None THEN DefaultMatches(R) = {} ELSE IsDefault(R)

Found(q, R, U) ==
    /\ q.op \in RoleOps => FoundRole(q, R, U)
    /\ q.op \in UserOps => FoundUser(q, R, U)
    /\ q.op = "createUser" => R[q.role] # None
    /\ q.op = "signup" => FoundDefault(q, R)

FoundStands ==
    \A r \in Requests :
        InFlight(req[r]) /\ ~req[r].touched => Found(req[r], roles, users)

\* What the property says of one request.
AsPromised(r) ==
    /\ req[r].pc # "answered" /\ req'[r].pc = "answered"
    /\ ~req'[r].touched
    => \/ Outcome(req'[r].code, roles', users') \in Promised(req'[r], roles, users)
       \/ FlushConflict(req[r])

\* What the proof shows of every step.
AtomicStep == FoundStands' /\ \A s \in Requests : AsPromised(s)

(***************************************************************************)
(* The stake covers what was found out.                                    *)
(***************************************************************************)
\* A stake that is the same before and after says that the default signup role
\* is.
LEMMA DefaultStake ==
  ASSUME NEW R, NEW Q,
         {<<i, Q[i].name>> : i \in DefaultMatches(Q)}
            = {<<i, R[i].name>> : i \in DefaultMatches(R)}
  PROVE  /\ DefaultMatches(R) = {} => DefaultMatches(Q) = {}
         /\ IsDefault(R) => IsDefault(Q)
<1> DEFINE Seen(T) == {<<i, T[i].name>> : i \in DefaultMatches(T)}
<1>1. Seen(Q) = Seen(R)
  OBVIOUS
<1>2. ASSUME DefaultMatches(R) = {} PROVE DefaultMatches(Q) = {}
  BY <1>1, <1>2
<1>3. ASSUME IsDefault(R) PROVE IsDefault(Q)
  <2>1. <<DefaultId, DefaultName>> \in Seen(R)
    BY <1>3, RbacAssumption DEF IsDefault, DefaultMatches
  <2>2. PICK i \in DefaultMatches(Q) : <<DefaultId, DefaultName>> = <<i, Q[i].name>>
    BY <1>1, <2>1
  <2> QED
    BY <2>2 DEF IsDefault, DefaultMatches
<1> QED
  BY <1>2, <1>3

\* While its stake is the same, what a request found out stands.
LEMMA StakeKeepsFound ==
  ASSUME NEW q \in Request, RequestOK(q), InFlight(q),
         NEW R, NEW U, NEW Q, NEW V,
         Found(q, R, U), Stake(q, Q, V) = Stake(q, R, U)
  PROVE  Found(q, Q, V)
<1>1. q.op \in RoleOps => Q[q.id] = R[q.id]
  BY DEF Stake
<1>2. q.op = "deleteRole" => Holders(V, q.id) = Holders(U, q.id)
  BY DEF Stake
<1>3. q.op \in UserOps => V[q.id] = U[q.id]
  BY DEF Stake
<1>4. q.role # None /\ R[q.role] # None => Q[q.role] # None
  BY DEF Stake
<1>5. q.op = "signup" =>
        {<<i, Q[i].name>> : i \in DefaultMatches(Q)}
           = {<<i, R[i].name>> : i \in DefaultMatches(R)}
  BY DEF Stake
<1>6. q.op \in RoleOps => FoundRole(q, Q, V)
  BY <1>1, <1>2 DEF Found, FoundRole, RoleOps
<1>7. q.op \in UserOps => FoundUser(q, Q, V)
  BY <1>3, <1>4 DEF Found, FoundUser
<1>8. q.op = "createUser" => Q[q.role] # None
  BY <1>4, RbacAssumption DEF Found, RequestOK
<1>9. q.op = "signup" => FoundDefault(q, Q)
  BY <1>5, DefaultStake DEF Found, FoundDefault
<1> QED
  BY <1>6, <1>7, <1>8, <1>9 DEF Found

(***************************************************************************)
(* The three ways a step ends, again.                                      *)
(***************************************************************************)
LEMMA AnsweredFields ==
  ASSUME NEW q \in Request, NEW code, NEW w, w = Answered(q, code)
  PROVE  /\ w.op = q.op /\ w.id = q.id /\ w.name = q.name /\ w.role = q.role
         /\ w.patch = q.patch /\ w.touched = q.touched
         /\ w.pc = "answered" /\ w.code = code
  BY DEF Request, Answered

LEMMA AnswerStep ==
  ASSUME IInv, FoundStands, NEW r \in Requests, NEW q \in Request, NEW code,
         Answer(r, q, code),
         ~q.touched =>
            \/ Outcome(code, roles, users) \in Promised(Answered(q, code), roles, users)
            \/ FlushConflict(req[r])
  PROVE  AtomicStep
<1> DEFINE w == Answered(q, code)
<1>1. w.touched = q.touched /\ w.pc = "answered" /\ w.code = code
  BY AnsweredFields
<1>2. /\ roles' = roles /\ users' = users /\ req'[r] = w
      /\ \A s \in Requests \ {r} : req'[s] = req[s]
  BY DEF Answer, IInv, TypeOK
<1>3. ~q.touched =>
         Outcome(code, roles, users) \in Promised(w, roles, users) \/ FlushConflict(req[r])
  OBVIOUS
<1> HIDE DEF w
<1>4. ASSUME NEW s \in Requests, InFlight(req'[s]), ~req'[s].touched
      PROVE  Found(req'[s], roles', users')
  BY <1>1, <1>2, <1>4 DEF FoundStands, InFlight
<1>5. AsPromised(r)
  BY <1>1, <1>2, <1>3 DEF AsPromised
<1>6. \A s \in Requests \ {r} : AsPromised(s)
  BY <1>2 DEF AsPromised
<1>7. FoundStands'
  BY <1>4 DEF FoundStands
<1> QED
  BY <1>5, <1>6, <1>7 DEF AtomicStep

LEMMA AwaitStep ==
  ASSUME IInv, FoundStands, NEW r \in Requests, NEW q \in Request,
         NEW pc, pc # "answered", NEW copy, Await(r, q, pc, copy),
         ~q.touched => Found(Paused(q, pc, copy), roles, users)
  PROVE  AtomicStep
<1> DEFINE w == Paused(q, pc, copy)
<1>1. w.touched = q.touched /\ w.pc = pc
  BY DEF Request, Paused
<1>2. /\ roles' = roles /\ users' = users /\ req'[r] = w
      /\ \A s \in Requests \ {r} : req'[s] = req[s]
  BY DEF Await, IInv, TypeOK
<1>3. ~q.touched => Found(w, roles, users)
  OBVIOUS
<1> HIDE DEF w
<1>4. ASSUME NEW s \in Requests, InFlight(req'[s]), ~req'[s].touched
      PROVE  Found(req'[s], roles', users')
  BY <1>1, <1>2, <1>3, <1>4 DEF FoundStands
<1>5. \A s \in Requests : AsPromised(s)
  BY <1>1, <1>2 DEF AsPromised
<1>6. FoundStands'
  BY <1>4 DEF FoundStands
<1> QED
  BY <1>5, <1>6 DEF AtomicStep

LEMMA CommitStep ==
  ASSUME IInv, FoundStands, NEW r \in Requests, NEW q \in Request, NEW code,
         NEW R, NEW U, Commit(r, q, code, R, U),
         ~q.touched => Outcome(code, R, U) \in Promised(Answered(q, code), roles, users)
  PROVE  AtomicStep
<1> DEFINE w == Answered(q, code)
           moved(s) == InFlight(req[s])
                         /\ Stake(req[s], R, U) # Stake(req[s], roles, users)
           seen(s) == [req[s] EXCEPT !.touched = TRUE]
<1>1. w.touched = q.touched /\ w.pc = "answered" /\ w.code = code
  BY AnsweredFields
<1>2. /\ roles' = R /\ users' = U /\ req'[r] = w
      /\ \A s \in Requests \ {r} : req'[s] = IF moved(s) THEN seen(s) ELSE req[s]
  BY DEF Commit
<1>3. \A s \in Requests : seen(s).pc = req[s].pc /\ seen(s).touched = TRUE
  BY DEF IInv, TypeOK, Request
<1>4. ~q.touched => Outcome(code, R, U) \in Promised(w, roles, users)
  OBVIOUS
<1> HIDE DEF w, seen
<1>5. ASSUME NEW s \in Requests, InFlight(req'[s]), ~req'[s].touched
      PROVE  Found(req'[s], roles', users')
  <2>1. s # r
    BY <1>1, <1>2, <1>5 DEF InFlight
  <2>2. ~moved(s) /\ req'[s] = req[s]
    BY <1>2, <1>3, <1>5, <2>1
  <2>3. InFlight(req[s]) /\ ~req[s].touched
    BY <1>5, <2>2
  <2>4. Stake(req[s], R, U) = Stake(req[s], roles, users)
    BY <2>2, <2>3
  <2>5. Found(req[s], roles, users)
    BY <2>3 DEF FoundStands
  <2>6. Found(req[s], R, U)
    BY <2>3, <2>4, <2>5, Waiting, StakeKeepsFound
  <2> QED
    BY <1>2, <2>2, <2>6
<1>6. AsPromised(r)
  BY <1>1, <1>2, <1>4 DEF AsPromised
<1>7. \A s \in Requests \ {r} : AsPromised(s)
  BY <1>2, <1>3 DEF AsPromised
<1>8. FoundStands'
  BY <1>5 DEF FoundStands
<1> QED
  BY <1>6, <1>7, <1>8 DEF AtomicStep

(***************************************************************************)
(* Roles.                                                                  *)
(***************************************************************************)
\* What an untouched request still knows.
LEMMA StillFound ==
  ASSUME FoundStands, NEW r \in Requests, InFlight(req[r]), ~req[r].touched
  PROVE  Found(req[r], roles, users)
  BY DEF FoundStands

LEMMA PromisedTarget ==
  ASSUME NEW q, q.op \in {"updateRole", "deleteRole", "patchRole"}, NEW R, NEW U
  PROVE  Promised(q, R, U) =
           IF R[q.id] = None THEN {Outcome(404, R, U)}
           ELSE IF IsSuperAdmin(q.id, R[q.id]) THEN {Outcome(403, R, U)}
           ELSE RoleDone(q, R, U)
  BY DEF Promised, PromisedRole, RoleOps

\* What a request for a role that may be changed promises.
LEMMA PromisedUpdateRole ==
  ASSUME NEW R, NEW U, NEW i, NEW n, R[i] # None, ~IsSuperAdmin(i, R[i]),
         NEW q, q.op = "updateRole", q.id = i, q.name = n
  PROVE  /\ n = None => Outcome(200, R, U) \in Promised(q, R, U)
         /\ n # None /\ Named(R, n) \ {i} # {} =>
               Outcome(409, R, U) \in Promised(q, R, U)
         /\ n # None /\ Named(R, n) \ {i} = {} =>
               Outcome(200, [R EXCEPT ![i] = [R[i] EXCEPT !.name = n]], U)
                  \in Promised(q, R, U)
<1>1. Promised(q, R, U) = RoleDone(q, R, U)
  BY PromisedTarget
<1>2. n = None => Outcome(200, R, U) \in RoleDone(q, R, U)
  BY DEF RoleDone
<1>3. n # None /\ Named(R, n) \ {i} # {} => Outcome(409, R, U) \in RoleDone(q, R, U)
  BY DEF RoleDone
<1>4. n # None /\ Named(R, n) \ {i} = {} =>
        Outcome(200, [R EXCEPT ![i] = [R[i] EXCEPT !.name = n]], U)
           \in RoleDone(q, R, U)
  BY DEF RoleDone
<1> QED
  BY <1>1, <1>2, <1>3, <1>4

LEMMA PromisedDeleteRole ==
  ASSUME NEW R, NEW U, NEW i, R[i] # None, ~IsSuperAdmin(i, R[i]),
         NEW q, q.op = "deleteRole", q.id = i
  PROVE  /\ Holders(U, i) # {} => Outcome(409, R, U) \in Promised(q, R, U)
         /\ Holders(U, i) = {} =>
               Outcome(204, [R EXCEPT ![i] = None], U) \in Promised(q, R, U)
<1>1. Promised(q, R, U) = RoleDone(q, R, U)
  BY PromisedTarget
<1>2. Holders(U, i) # {} => Outcome(409, R, U) \in RoleDone(q, R, U)
  BY DEF RoleDone
<1>3. Holders(U, i) = {} => Outcome(204, [R EXCEPT ![i] = None], U) \in RoleDone(q, R, U)
  BY DEF RoleDone
<1> QED
  BY <1>1, <1>2, <1>3

LEMMA PromisedPatchRole ==
  ASSUME NEW R, NEW U, NEW i, NEW p, R[i] # None, ~IsSuperAdmin(i, R[i]),
         NEW q, q.op = "patchRole", q.id = i, q.patch = p
  PROVE  Outcome(200, [R EXCEPT ![i] = Patched(R[i], p)], U) \in Promised(q, R, U)
<1>1. Promised(q, R, U) = RoleDone(q, R, U)
  BY PromisedTarget
<1>2. RoleDone(q, R, U) = {Outcome(200, [R EXCEPT ![i] = Patched(R[i], p)], U)}
  BY DEF RoleDone
<1> QED
  BY <1>1, <1>2

LEMMA PromisedCreateRole ==
  ASSUME NEW q, q.op = "createRole", NEW R, NEW U
  PROVE  /\ Named(R, q.name) # {} => Promised(q, R, U) = {Outcome(409, R, U)}
         /\ Named(R, q.name) = {} =>
               \A i \in RoleIds : IsNextId(R, i) =>
                  Outcome(201, [R EXCEPT ![i] = [name |-> q.name,
                                                 perms |-> NoPerms]], U)
                     \in Promised(q, R, U)
<1>1. Promised(q, R, U) = PromisedRole(q, R, U)
  BY DEF Promised
<1>2. Named(R, q.name) # {} => PromisedRole(q, R, U) = {Outcome(409, R, U)}
  BY DEF PromisedRole
<1>3. ASSUME Named(R, q.name) = {}, NEW i \in RoleIds, IsNextId(R, i)
      PROVE  Outcome(201, [R EXCEPT ![i] = [name |-> q.name,
                                            perms |-> NoPerms]], U)
                \in PromisedRole(q, R, U)
  BY <1>3 DEF PromisedRole
<1> QED
  BY <1>1, <1>2, <1>3

LEMMA CreateRoleStep ==
  ASSUME IInv, FoundStands, NEW r \in Requests, CreateRole(r)
  PROVE  AtomicStep
<1> DEFINE ask(n) == [Ask("createRole") EXCEPT !.name = n]
           put(n, i) == [roles EXCEPT ![i] = [name |-> n, perms |-> NoPerms]]
<1>1. PICK n \in RoleNames :
         \/ Named(roles, n) # {} /\ Answer(r, ask(n), 409)
         \/ /\ Named(roles, n) = {}
            /\ \E i \in RoleIds : /\ IsNextId(roles, i)
                                 /\ Commit(r, ask(n), 201, put(n, i), users)
  BY DEF CreateRole
<1>2. ask(n) \in Request /\ ask(n).op = "createRole" /\ ask(n).name = n
  BY ZenonT(40), NoPermsType DEF Ask, Idle, Request, Ops, PC, Codes
<1> HIDE DEF ask
<1> DEFINE w(code) == Answered(ask(n), code)
<1>3. \A code : w(code).op = "createRole" /\ w(code).name = n
  BY <1>2, AnsweredFields
<1> HIDE DEF w
<1>4. CASE Named(roles, n) # {} /\ Answer(r, ask(n), 409)
  <2>1. Outcome(409, roles, users) \in Promised(w(409), roles, users)
    BY <1>3, <1>4, PromisedCreateRole
  <2> QED
    BY <1>2, <1>4, <2>1, AnswerStep DEF w
<1>5. ASSUME Named(roles, n) = {}, NEW i \in RoleIds, IsNextId(roles, i),
             Commit(r, ask(n), 201, put(n, i), users)
      PROVE  AtomicStep
  <2>1. Outcome(201, put(n, i), users) \in Promised(w(201), roles, users)
    BY <1>3, <1>5, PromisedCreateRole
  <2> HIDE DEF put
  <2> QED
    BY <1>2, <1>5, <2>1, CommitStep DEF w
<1> QED
  BY <1>1, <1>4, <1>5

LEMMA FindRoleStep ==
  ASSUME IInv, FoundStands, NEW r \in Requests, NEW q \in Request,
         NEW i \in RoleIds, q.id = i,
         q.op \in {"updateRole", "deleteRole", "patchRole"},
         NEW pc \in {"commit", "count"}, pc = "commit" => q.op # "deleteRole",
         FindRole(r, q, i, pc)
  PROVE  AtomicStep
<1> DEFINE w(code) == Answered(q, code)
<1>1. \A code : w(code).op = q.op /\ w(code).id = i
  BY AnsweredFields
<1>2. \A code : Promised(w(code), roles, users) =
           IF roles[i] = None THEN {Outcome(404, roles, users)}
           ELSE IF IsSuperAdmin(i, roles[i]) THEN {Outcome(403, roles, users)}
           ELSE RoleDone(w(code), roles, users)
  <2> HIDE DEF w
  <2> QED
    BY <1>1, PromisedTarget
<1>3. CASE roles[i] = None /\ Answer(r, q, 404)
  BY <1>2, <1>3, AnswerStep
<1>4. CASE roles[i] # None /\ IsSuperAdmin(i, roles[i]) /\ Answer(r, q, 403)
  BY <1>2, <1>4, AnswerStep
<1>5. CASE roles[i] # None /\ ~IsSuperAdmin(i, roles[i]) /\ Await(r, q, pc, roles[i])
  <2> DEFINE v == Paused(q, pc, roles[i])
  <2>1. v.op = q.op /\ v.pc = pc /\ v.id = i /\ v.copy = roles[i]
    BY WaitFields
  <2>2. Found(v, roles, users)
    <3> HIDE DEF v
    <3> QED
      BY <1>5, <2>1 DEF Found, FoundRole, UserOps
  <2> QED
    BY <1>5, <2>2, AwaitStep
<1> QED
  BY <1>3, <1>4, <1>5 DEF FindRole

LEMMA UpdateRoleStep ==
  ASSUME IInv, FoundStands, NEW r \in Requests, UpdateRole(r)
  PROVE  AtomicStep
<1> DEFINE ask(i, n) == [Ask("updateRole") EXCEPT !.id = i, !.name = n]
<1>1. PICK i \in RoleIds, n \in RoleNames \union {None} :
         FindRole(r, ask(i, n), i, "commit")
  BY DEF UpdateRole
<1>2. ask(i, n) \in Request /\ ask(i, n).op = "updateRole" /\ ask(i, n).id = i
  BY ZenonT(40), NoPermsType DEF Ask, Idle, Request, Ops, RoleOps, PC, Codes
<1> HIDE DEF ask
<1> QED
  BY <1>1, <1>2, FindRoleStep

LEMMA DeleteRoleStep ==
  ASSUME IInv, FoundStands, NEW r \in Requests, DeleteRole(r)
  PROVE  AtomicStep
<1> DEFINE ask(i) == [Ask("deleteRole") EXCEPT !.id = i]
<1>1. PICK i \in RoleIds : FindRole(r, ask(i), i, "count")
  BY DEF DeleteRole
<1>2. ask(i) \in Request /\ ask(i).op = "deleteRole" /\ ask(i).id = i
  BY AskType DEF Request, Ops, RoleOps
<1> HIDE DEF ask
<1> QED
  BY <1>1, <1>2, FindRoleStep

LEMMA PatchRoleStep ==
  ASSUME IInv, FoundStands, NEW r \in Requests, PatchRole(r)
  PROVE  AtomicStep
<1> DEFINE ask(i, p) == [Ask("patchRole") EXCEPT !.id = i, !.patch = p]
<1>1. PICK i \in RoleIds, p \in Patches : FindRole(r, ask(i, p), i, "commit")
  BY DEF PatchRole
<1>2. ask(i, p) \in Request /\ ask(i, p).op = "patchRole" /\ ask(i, p).id = i
  BY ZenonT(40), NoPermsType, RbacAssumption DEF Ask, Idle, Request, Ops, RoleOps, PC, Codes
<1> HIDE DEF ask
<1> QED
  BY <1>1, <1>2, FindRoleStep

LEMMA UpdateRoleCommitStep ==
  ASSUME IInv, FoundStands, NEW r \in Requests, UpdateRoleCommit(r)
  PROVE  AtomicStep
<1> DEFINE q == req[r]
           row == [roles[q.id] EXCEPT !.name = q.name]
           put == [roles EXCEPT ![q.id] = row]
           w(code) == Answered(q, code)
<1>1. /\ q \in Request /\ q.op = "updateRole" /\ InFlight(q)
      /\ q.id \in RoleIds \ {SuperId} /\ q.copy \in RoleRow
      /\ q.name \in RoleNames \union {None}
  BY Waiting DEF UpdateRoleCommit, At, RequestOK, InFlight
<1>2. ~q.touched => roles[q.id] = q.copy /\ ~IsSuperAdmin(q.id, q.copy)
  BY <1>1, StillFound DEF Found, FoundRole, RoleOps
<1>3. \A code : w(code).op = "updateRole" /\ w(code).id = q.id /\ w(code).name = q.name
  BY <1>1, AnsweredFields
<1>4. q.copy # None
  BY <1>1, RbacAssumption
<1>5. ASSUME ~q.touched, NEW code
      PROVE  /\ q.name = None =>
                   Outcome(200, roles, users) \in Promised(w(code), roles, users)
             /\ q.name # None /\ Named(roles, q.name) \ {q.id} # {} =>
                   Outcome(409, roles, users) \in Promised(w(code), roles, users)
             /\ q.name # None /\ Named(roles, q.name) \ {q.id} = {} =>
                   Outcome(200, put, users) \in Promised(w(code), roles, users)
  <2>1. /\ roles[q.id] # None /\ ~IsSuperAdmin(q.id, roles[q.id])
        /\ w(code).op = "updateRole" /\ w(code).id = q.id /\ w(code).name = q.name
    BY <1>2, <1>3, <1>4, <1>5
  <2> HIDE DEF w, q
  <2> QED
    BY <2>1, PromisedUpdateRole
<1> HIDE DEF w
<1>6. CASE q.name \in {None, q.copy.name} /\ Answer(r, q, 200)
  <2>1. ASSUME ~q.touched, q.name # None
        PROVE  Named(roles, q.name) \ {q.id} = {} /\ put = roles
    <3>1. roles[q.id] = q.copy /\ q.name = q.copy.name
      BY <1>2, <1>6, <2>1
    <3>2. Named(roles, q.name) \ {q.id} = {}
      BY <1>1, <1>4, <3>1 DEF IInv, TypeOK, UniqueNames, Unique, Named
    <3>3. row = roles[q.id]
      BY <1>1, <3>1 DEF RoleRow
    <3> HIDE DEF row
    <3> QED
      BY <1>1, <3>2, <3>3 DEF IInv, TypeOK
  <2> HIDE DEF put
  <2>2. ~q.touched => Outcome(200, roles, users) \in Promised(w(200), roles, users)
    BY <1>5, <2>1
  <2>3. q \in Request /\ Answer(r, q, 200)
    BY <1>1, <1>6
  <2> HIDE DEF q
  <2> QED
    BY <2>2, <2>3, AnswerStep DEF w
<1>7. CASE roles[q.id] = None /\ Answer(r, q, 500)
  <2>1. q.touched
    BY <1>2, <1>4, <1>7 DEF IInv, TypeOK, Request
  <2> QED
    BY <1>1, <1>7, <2>1, AnswerStep
<1>8. CASE /\ q.name # None /\ Named(roles, q.name) \ {q.id} # {}
           /\ Answer(r, q, 409)
  <2>1. ~q.touched => Outcome(409, roles, users) \in Promised(w(409), roles, users)
    BY <1>5, <1>8
  <2> QED
    BY <1>1, <1>8, <2>1, AnswerStep DEF w
<1>9. CASE /\ q.name # None /\ Named(roles, q.name) \ {q.id} = {}
           /\ Commit(r, q, 200, [roles EXCEPT ![q.id].name = q.name], users)
  <2>1. put = [roles EXCEPT ![q.id].name = q.name]
    BY Zenon
  <2> HIDE DEF put
  <2>2. ~q.touched => Outcome(200, put, users) \in Promised(w(200), roles, users)
    BY <1>5, <1>9
  <2>3. Commit(r, q, 200, put, users)
    BY <1>9, <2>1
  <2> QED
    BY <1>1, <2>2, <2>3, CommitStep DEF w
<1> QED
  BY <1>6, <1>7, <1>8, <1>9 DEF UpdateRoleCommit

LEMMA CountUsersStep ==
  ASSUME IInv, FoundStands, NEW r \in Requests, CountUsers(r) \/ LoadChildren(r)
  PROVE  AtomicStep
<1> DEFINE q == req[r]
           w == Answered(q, 409)
<1>1. /\ q \in Request /\ RequestOK(q) /\ q.op = "deleteRole" /\ InFlight(q)
      /\ q.pc \in {"count", "children"}
  BY Waiting DEF CountUsers, LoadChildren, At, InFlight
<1>2. q.copy # None
  BY <1>1, RbacAssumption DEF RequestOK
<1>3. ~q.touched => /\ roles[q.id] = q.copy /\ ~IsSuperAdmin(q.id, q.copy)
                    /\ q.pc = "children" => Holders(users, q.id) = {}
  BY <1>1, StillFound DEF Found, FoundRole, RoleOps
<1>4. w.op = "deleteRole" /\ w.id = q.id
  BY <1>1, AnsweredFields
<1>5. CASE Holders(users, q.id) # {} /\ Answer(r, q, 409)
  <2>1. ~q.touched => Outcome(409, roles, users) \in Promised(w, roles, users)
    <3> HIDE DEF w, q
    <3> QED
      BY ZenonT(40), <1>2, <1>3, <1>4, <1>5, PromisedDeleteRole
  <2> QED
    BY <1>1, <1>5, <2>1, AnswerStep
<1>6. CASE q.pc = "children" /\ Holders(users, q.id) # {} /\ Answer(r, q, 500)
  BY <1>1, <1>3, <1>6, AnswerStep
<1>7. ASSUME NEW pc \in {"children", "commit"}, Holders(users, q.id) = {},
             Await(r, q, pc, q.copy)
      PROVE  AtomicStep
  <2> DEFINE v == Paused(q, pc, q.copy)
  <2>1. v.op = "deleteRole" /\ v.pc = pc /\ v.id = q.id /\ v.copy = q.copy
    BY <1>1, WaitFields
  <2>2. ~q.touched => Found(v, roles, users)
    <3> HIDE DEF v
    <3> QED
      BY <1>3, <1>7, <2>1 DEF Found, FoundRole, UserOps
  <2> QED
    BY <1>1, <1>7, <2>2, AwaitStep
<1> QED
  BY <1>5, <1>6, <1>7 DEF CountUsers, LoadChildren, At

LEMMA DeleteRoleCommitStep ==
  ASSUME IInv, FoundStands, NEW r \in Requests, DeleteRoleCommit(r)
  PROVE  AtomicStep
<1> DEFINE q == req[r]
           R == [roles EXCEPT ![q.id] = None]
           w == Answered(q, 204)
<1>1. /\ q \in Request /\ RequestOK(q) /\ q.op = "deleteRole" /\ InFlight(q)
      /\ q.pc = "commit"
  BY Waiting DEF DeleteRoleCommit, At, InFlight
<1>2. q.copy # None
  BY <1>1, RbacAssumption DEF RequestOK
<1>3. ~q.touched => /\ roles[q.id] = q.copy /\ ~IsSuperAdmin(q.id, q.copy)
                    /\ Holders(users, q.id) = {}
  BY <1>1, StillFound DEF Found, FoundRole, RoleOps
<1>4. w.op = "deleteRole" /\ w.id = q.id
  BY <1>1, AnsweredFields
<1>5. CASE Holders(users, q.id) # {} /\ Answer(r, q, 409)
  BY <1>1, <1>3, <1>5, AnswerStep
<1>6. CASE Commit(r, q, 204, R, users)
  <2>1. ~q.touched => Outcome(204, R, users) \in Promised(w, roles, users)
    <3> HIDE DEF w, q
    <3> QED
      BY <1>2, <1>3, <1>4, PromisedDeleteRole
  <2> HIDE DEF R
  <2> QED
    BY <1>1, <1>6, <2>1, CommitStep
<1> QED
  BY <1>5, <1>6 DEF DeleteRoleCommit

LEMMA PromisedAppend ==
  ASSUME NEW R, NEW U, NEW n, NEW p, NEW q, q.op = "append", q.name = n, q.patch = p
  PROVE  /\ Named(R, n) = {} => Outcome(404, R, U) \in Promised(q, R, U)
         /\ \A i \in Named(R, n) :
               DOMAIN p \intersect DOMAIN R[i].perms # {} =>
                  Outcome(409, R, U) \in Promised(q, R, U)
         /\ \A i \in Named(R, n) :
               DOMAIN p \intersect DOMAIN R[i].perms = {} =>
                  Outcome(200, [R EXCEPT ![i] = Patched(R[i], p)], U)
                     \in Promised(q, R, U)
<1>1. Promised(q, R, U) = PromisedRole(q, R, U)
  BY DEF Promised, RoleOps
<1>2. Named(R, n) = {} => Outcome(404, R, U) \in PromisedRole(q, R, U)
  BY DEF PromisedRole
<1>3. ASSUME NEW i \in Named(R, n), DOMAIN p \intersect DOMAIN R[i].perms # {}
      PROVE  Outcome(409, R, U) \in PromisedRole(q, R, U)
  BY <1>3 DEF PromisedRole
<1>4. ASSUME NEW i \in Named(R, n), DOMAIN p \intersect DOMAIN R[i].perms = {}
      PROVE  Outcome(200, [R EXCEPT ![i] = Patched(R[i], p)], U)
                \in PromisedRole(q, R, U)
  BY <1>4 DEF PromisedRole
<1> QED
  BY <1>1, <1>2, <1>3, <1>4

LEMMA AppendStep ==
  ASSUME IInv, FoundStands, NEW r \in Requests, Append(r)
  PROVE  AtomicStep
<1> DEFINE ask(n, p) == [Ask("append") EXCEPT !.name = n, !.patch = p]
           asked(n, p, i) == [ask(n, p) EXCEPT !.id = i]
<1>1. PICK n \in RoleNames, p \in Patches :
         \/ Named(roles, n) = {} /\ Answer(r, ask(n, p), 404)
         \/ \E i \in Named(roles, n) :
               IF DOMAIN p \intersect DOMAIN roles[i].perms # {}
               THEN Answer(r, asked(n, p, i), 409)
               ELSE Await(r, asked(n, p, i), "commit", roles[i])
  BY DEF Append
<1>2. /\ ask(n, p) \in Request /\ ask(n, p).op = "append"
      /\ ask(n, p).name = n /\ ask(n, p).patch = p
  BY ZenonT(40), NoPermsType, RbacAssumption DEF Ask, Idle, Request, Ops, RoleOps, PC, Codes
<1>3. ASSUME NEW i \in Named(roles, n)
      PROVE  /\ asked(n, p, i) \in Request /\ asked(n, p, i).op = "append"
             /\ asked(n, p, i).id = i /\ asked(n, p, i).name = n
             /\ asked(n, p, i).patch = p
  <2>1. i \in RoleIds
    BY DEF Named, IInv, TypeOK
  <2> HIDE DEF ask
  <2> QED
    BY <1>2, <2>1 DEF Request
<1> HIDE DEF ask, asked
<1>4. CASE Named(roles, n) = {} /\ Answer(r, ask(n, p), 404)
  <2> DEFINE w == Answered(ask(n, p), 404)
  <2>1. w.op = "append" /\ w.name = n
    BY <1>2, AnsweredFields
  <2>2. Outcome(404, roles, users) \in Promised(w, roles, users)
    <3> HIDE DEF w
    <3> QED
      BY <1>4, <2>1, PromisedAppend
  <2> QED
    BY <1>2, <1>4, <2>2, AnswerStep
<1>5. ASSUME NEW i \in Named(roles, n),
             DOMAIN p \intersect DOMAIN roles[i].perms # {},
             Answer(r, asked(n, p, i), 409)
      PROVE  AtomicStep
  <2> DEFINE w == Answered(asked(n, p, i), 409)
  <2>1. w.op = "append" /\ w.name = n /\ w.patch = p
    BY <1>3, AnsweredFields
  <2>2. Outcome(409, roles, users) \in Promised(w, roles, users)
    <3> HIDE DEF w
    <3> QED
      BY <1>5, <2>1, PromisedAppend
  <2> QED
    BY <1>3, <1>5, <2>2, AnswerStep
<1>6. ASSUME NEW i \in Named(roles, n),
             DOMAIN p \intersect DOMAIN roles[i].perms = {},
             Await(r, asked(n, p, i), "commit", roles[i])
      PROVE  AtomicStep
  <2> DEFINE v == Paused(asked(n, p, i), "commit", roles[i])
  <2>1. /\ v.op = "append" /\ v.pc = "commit" /\ v.id = i /\ v.name = n
        /\ v.patch = p /\ v.copy = roles[i]
    BY <1>3, WaitFields
  <2>2. Found(v, roles, users)
    <3> HIDE DEF v
    <3>1. roles[i].name = n
      BY DEF Named
    <3> QED
      BY <1>6, <2>1, <3>1 DEF Found, FoundRole, UserOps
  <2> QED
    BY <1>3, <1>6, <2>2, AwaitStep
<1> QED
  BY <1>1, <1>4, <1>5, <1>6

\* What patching a role that has the request's copy promises, for either
\* handler.
LEMMA PromisedPatch ==
  ASSUME NEW q \in Request, q.op \in {"patchRole", "append"},
         NEW i \in RoleIds, q.id = i, roles[i] = q.copy, q.copy \in RoleRow,
         FoundRole(q, roles, users), IInv, NEW code, NEW w, w = Answered(q, code)
  PROVE  Outcome(200, [roles EXCEPT ![i] = Patched(roles[i], q.patch)], users)
            \in Promised(w, roles, users)
<1>1. w.op = q.op /\ w.id = i /\ w.name = q.name /\ w.patch = q.patch
  BY AnsweredFields
<1>2. q.copy # None
  BY RbacAssumption
<1>3. CASE q.op = "patchRole"
  BY SMTT(30), <1>1, <1>2, <1>3, PromisedPatchRole DEF FoundRole
<1>4. CASE q.op = "append"
  <2>1. i \in Named(roles, w.name) /\ DOMAIN w.patch \intersect DOMAIN roles[i].perms = {}
    BY <1>1, <1>2, <1>4 DEF FoundRole, Named, IInv, TypeOK
  <2> QED
    BY <1>1, <1>4, <2>1, PromisedAppend
<1> QED
  BY <1>3, <1>4

LEMMA WriteRolePermsStep ==
  ASSUME IInv, FoundStands, NEW r \in Requests, WriteRolePerms(r)
  PROVE  AtomicStep
<1> DEFINE q == req[r]
           merged == Merge(q.copy.perms, q.patch)
           put == [roles EXCEPT ![q.id] = Patched(roles[q.id], q.patch)]
           w == Answered(q, 200)
<1>1. /\ q \in Request /\ RequestOK(q) /\ InFlight(q)
      /\ q.op \in {"patchRole", "append"}
  BY Waiting DEF WriteRolePerms, At, InFlight
<1>2. q.id \in RoleIds /\ q.copy \in RoleRow /\ q.copy # None
  BY <1>1, RbacAssumption DEF RequestOK
<1>3. ~q.touched => FoundRole(q, roles, users)
  BY <1>1, StillFound DEF Found, RoleOps
<1>4. ~q.touched => roles[q.id] = q.copy
  BY <1>3 DEF FoundRole
<1>5. ~q.touched => Outcome(200, put, users) \in Promised(w, roles, users)
  <2> HIDE DEF w, q
  <2> QED
    BY <1>1, <1>2, <1>3, <1>4, PromisedPatch DEF w
<1>6. CASE merged = q.copy.perms /\ Answer(r, q, 200)
  <2>1. ASSUME ~q.touched PROVE put = roles
    <3>1. Patched(roles[q.id], q.patch) = roles[q.id]
      BY <1>2, <1>4, <1>6, <2>1 DEF Patched, RoleRow
    <3> QED
      BY <1>2, <3>1 DEF IInv, TypeOK
  <2>2. ~q.touched => Outcome(200, roles, users) \in Promised(w, roles, users)
    BY <1>5, <2>1
  <2> QED
    BY <1>1, <1>6, <2>2, AnswerStep
<1>7. CASE roles[q.id] = None /\ Answer(r, q, 500)
  <2>1. q.touched
    BY <1>2, <1>4, <1>7, <1>1 DEF Request
  <2> QED
    BY <1>1, <1>7, <2>1, AnswerStep
<1>8. CASE Commit(r, q, 200, [roles EXCEPT ![q.id].perms = merged], users)
  <2>1. ASSUME ~q.touched PROVE put = [roles EXCEPT ![q.id].perms = merged]
    <3>1. roles[q.id] = q.copy
      BY <1>4, <2>1
    <3>2. Patched(roles[q.id], q.patch) = [roles[q.id] EXCEPT !.perms = merged]
      BY <3>1 DEF Patched
    <3> QED
      BY <3>2, Zenon
  <2> DEFINE R == [roles EXCEPT ![q.id].perms = merged]
  <2>2. ~q.touched => put = R
    BY <2>1
  <2>3. Commit(r, q, 200, R, users)
    BY <1>8
  <2> HIDE DEF put, R
  <2>4. ~q.touched => Outcome(200, R, users) \in Promised(w, roles, users)
    BY <1>5, <2>2
  <2> QED
    BY <1>1, <2>3, <2>4, CommitStep
<1> QED
  BY <1>6, <1>7, <1>8 DEF WriteRolePerms

LEMMA PromisedResetRoles ==
  ASSUME NEW q, q.op = "resetRoles", NEW R, NEW U
  PROVE  Outcome(200, [i \in RoleIds |->
                         IF i \in Resettable(R)
                         THEN [R[i] EXCEPT !.perms = NoPerms] ELSE R[i]], U)
            \in Promised(q, R, U)
<1>1. Promised(q, R, U) = PromisedRole(q, R, U)
  BY DEF Promised
<1> QED
  BY <1>1 DEF PromisedRole

LEMMA ResetRolesStep ==
  ASSUME IInv, FoundStands, NEW r \in Requests, ResetRoles(r)
  PROVE  AtomicStep
<1> DEFINE q == Ask("resetRoles")
           w == Answered(q, 200)
           v == Paused(q, "commit", None)
<1>1. q \in Request /\ q.op = "resetRoles"
  BY AskType DEF Ops
<1> HIDE DEF q
<1>2. CASE Resettable(roles) = {} /\ Answer(r, q, 200)
  <2>1. w.op = "resetRoles"
    BY <1>1, AnsweredFields
  <2> HIDE DEF w
  <2>2. [i \in RoleIds |-> IF i \in Resettable(roles)
                           THEN [roles[i] EXCEPT !.perms = NoPerms] ELSE roles[i]]
          = roles
    BY <1>2 DEF IInv, TypeOK
  <2>3. Outcome(200, roles, users) \in Promised(w, roles, users)
    BY <2>1, <2>2, PromisedResetRoles
  <2> QED
    BY <1>1, <1>2, <2>3, AnswerStep DEF w
<1>3. CASE Await(r, q, "commit", None)
  <2>1. v.op = "resetRoles"
    BY <1>1, WaitFields
  <2> HIDE DEF v
  <2>2. Found(v, roles, users)
    BY <2>1 DEF Found, RoleOps, UserOps
  <2> QED
    BY <1>1, <1>3, <2>2, AwaitStep DEF v
<1> QED
  BY <1>2, <1>3 DEF ResetRoles, q

LEMMA ResetRolesCommitStep ==
  ASSUME IInv, FoundStands, NEW r \in Requests, ResetRolesCommit(r)
  PROVE  AtomicStep
<1> DEFINE q == req[r]
           w == Answered(q, 200)
           R == [i \in RoleIds |-> IF i \in Resettable(roles)
                                  THEN [roles[i] EXCEPT !.perms = NoPerms]
                                  ELSE roles[i]]
<1>1. q \in Request /\ q.op = "resetRoles" /\ Commit(r, q, 200, R, users)
  BY Waiting DEF ResetRolesCommit, At
<1>2. w.op = "resetRoles"
  BY <1>1, AnsweredFields
<1> HIDE DEF w
<1>3. Outcome(200, R, users) \in Promised(w, roles, users)
  BY <1>2, PromisedResetRoles
<1> HIDE DEF R
<1> QED
  BY <1>1, <1>3, CommitStep DEF w

(***************************************************************************)
(* Users.                                                                  *)
(***************************************************************************)
\* The row an insert writes.
NewUser(n, i) == [name |-> n, role |-> i, perms |-> NoPerms]

LEMMA InsertedHas ==
  ASSUME NEW R, NEW U, NEW n, NEW i, NEW q, q.name = n, q.role = i,
         NEW u \in UserIds, IsNextId(U, u)
  PROVE  Outcome(201, R, [U EXCEPT ![u] = NewUser(n, i)]) \in Inserted(R, U, q)
  BY DEF Inserted, NewUser

LEMMA PromisedCreateUser ==
  ASSUME NEW R, NEW U, NEW n, NEW i, NEW q, q.op = "createUser", q.name = n, q.role = i
  PROVE  /\ R[i] = None => Outcome(404, R, U) \in Promised(q, R, U)
         /\ R[i] # None /\ Named(U, n) # {} => Outcome(409, R, U) \in Promised(q, R, U)
         /\ R[i] # None /\ Named(U, n) = {} =>
               \A u \in UserIds : IsNextId(U, u) =>
                  Outcome(201, R, [U EXCEPT ![u] = NewUser(n, i)]) \in Promised(q, R, U)
<1>1. Promised(q, R, U) = PromisedUser(q, R, U)
  BY DEF Promised, RoleOps
<1>2. R[i] = None => Outcome(404, R, U) \in PromisedUser(q, R, U)
  BY DEF PromisedUser
<1>3. R[i] # None /\ Named(U, n) # {} => Outcome(409, R, U) \in PromisedUser(q, R, U)
  BY DEF PromisedUser
<1>4. R[i] # None /\ Named(U, n) = {} => PromisedUser(q, R, U) = Inserted(R, U, q)
  BY DEF PromisedUser
<1>5. ASSUME R[i] # None, Named(U, n) = {}, NEW u \in UserIds, IsNextId(U, u)
      PROVE  Outcome(201, R, [U EXCEPT ![u] = NewUser(n, i)]) \in PromisedUser(q, R, U)
  <2>1. Outcome(201, R, [U EXCEPT ![u] = NewUser(n, i)]) \in Inserted(R, U, q)
    BY <1>5, InsertedHas
  <2> QED
    BY <1>4, <1>5, <2>1
<1> QED
  BY <1>1, <1>2, <1>3, <1>5

LEMMA CreateUserStep ==
  ASSUME IInv, FoundStands, NEW r \in Requests, CreateUser(r)
  PROVE  AtomicStep
<1> DEFINE ask(n, i) == [Ask("createUser") EXCEPT !.name = n, !.role = i]
<1>1. PICK n \in UserNames, i \in RoleIds :
         \/ roles[i] = None /\ Answer(r, ask(n, i), 404)
         \/ roles[i] # None /\ Await(r, ask(n, i), "commit", None)
  BY DEF CreateUser
<1>2. /\ ask(n, i) \in Request /\ ask(n, i).op = "createUser"
      /\ ask(n, i).name = n /\ ask(n, i).role = i
  BY ZenonT(40), NoPermsType DEF Ask, Idle, Request, Ops, PC, Codes
<1> HIDE DEF ask
<1>3. CASE roles[i] = None /\ Answer(r, ask(n, i), 404)
  <2> DEFINE w == Answered(ask(n, i), 404)
  <2>1. w.op = "createUser" /\ w.name = n /\ w.role = i
    BY <1>2, AnsweredFields
  <2>2. Outcome(404, roles, users) \in Promised(w, roles, users)
    <3> HIDE DEF w
    <3> QED
      BY <1>3, <2>1, PromisedCreateUser
  <2> QED
    BY <1>2, <1>3, <2>2, AnswerStep
<1>4. CASE roles[i] # None /\ Await(r, ask(n, i), "commit", None)
  <2> DEFINE v == Paused(ask(n, i), "commit", None)
  <2>1. v.op = "createUser" /\ v.role = i
    BY <1>2, WaitFields
  <2>2. Found(v, roles, users)
    <3> HIDE DEF v
    <3> QED
      BY <1>4, <2>1 DEF Found, RoleOps, UserOps
  <2> QED
    BY <1>2, <1>4, <2>2, AwaitStep
<1> QED
  BY <1>1, <1>3, <1>4

LEMMA CreateUserCommitStep ==
  ASSUME IInv, FoundStands, NEW r \in Requests, CreateUserCommit(r)
  PROVE  AtomicStep
<1> DEFINE q == req[r]
           w(code) == Answered(q, code)
           put(u) == [users EXCEPT ![u] = NewUser(q.name, q.role)]
<1>1. q \in Request /\ q.op = "createUser" /\ InFlight(q)
  BY Waiting DEF CreateUserCommit, At, InFlight
<1>2. ~q.touched => roles[q.role] # None
  BY <1>1, StillFound DEF Found
<1>3. \A code : /\ w(code).op = "createUser" /\ w(code).name = q.name
                /\ w(code).role = q.role
  BY <1>1, AnsweredFields
<1> HIDE DEF w
<1>4. CASE Named(users, q.name) # {} /\ Answer(r, q, 409)
  <2>1. ~q.touched => Outcome(409, roles, users) \in Promised(w(409), roles, users)
    BY <1>2, <1>3, <1>4, PromisedCreateUser
  <2> QED
    BY <1>1, <1>4, <2>1, AnswerStep DEF w
<1>5. CASE RoleMissing(q.role) /\ Answer(r, q, 404)
  <2>1. q.touched
    BY <1>1, <1>2, <1>5 DEF RoleMissing, Request
  <2> QED
    BY <1>1, <1>5, <2>1, AnswerStep
<1>6. ASSUME Named(users, q.name) = {}, NEW u \in UserIds, IsNextId(users, u),
             Commit(r, q, 201, roles, put(u))
      PROVE  AtomicStep
  <2>1. ~q.touched => Outcome(201, roles, put(u)) \in Promised(w(201), roles, users)
    BY <1>2, <1>3, <1>6, PromisedCreateUser
  <2> HIDE DEF put
  <2> QED
    BY <1>1, <1>6, <2>1, CommitStep DEF w
<1> QED
  BY <1>4, <1>5, <1>6 DEF CreateUserCommit, InsertUser, NewUser

LEMMA PromisedMissingUser ==
  ASSUME NEW R, NEW U, NEW u, U[u] = None, NEW q, q.op \in UserOps, q.id = u
  PROVE  Outcome(404, R, U) \in Promised(q, R, U)
  BY DEF Promised, PromisedUser, UserOps, RoleOps

LEMMA PromisedTargetUser ==
  ASSUME NEW R, NEW U, NEW u, U[u] # None, NEW q, q.op \in UserOps, q.id = u
  PROVE  Promised(q, R, U) = UserDone(q, R, U)
  BY DEF Promised, PromisedUser, UserOps, RoleOps

LEMMA FindUserStep ==
  ASSUME IInv, FoundStands, NEW r \in Requests, NEW q \in Request,
         NEW u \in UserIds, q.id = u, q.op \in UserOps,
         NEW pc \in {"role", "commit"},
         q.op = "updateUser" /\ pc = "commit" => q.role = None,
         FindUser(r, q, u, pc)
  PROVE  AtomicStep
<1>1. CASE users[u] = None /\ Answer(r, q, 404)
  <2> DEFINE w == Answered(q, 404)
  <2>1. w.op = q.op /\ w.id = u
    BY AnsweredFields
  <2>2. Outcome(404, roles, users) \in Promised(w, roles, users)
    <3> HIDE DEF w
    <3> QED
      BY <1>1, <2>1, PromisedMissingUser
  <2> QED
    BY <1>1, <2>2, AnswerStep
<1>2. CASE users[u] # None /\ Await(r, q, pc, users[u])
  <2> DEFINE v == Paused(q, pc, users[u])
  <2>1. /\ v.op = q.op /\ v.pc = pc /\ v.id = u /\ v.copy = users[u]
        /\ v.role = q.role
    BY WaitFields
  <2>2. Found(v, roles, users)
    <3> HIDE DEF v
    <3> QED
      BY <1>2, <2>1 DEF Found, FoundUser, RoleOps, UserOps
  <2> QED
    BY <1>2, <2>2, AwaitStep
<1> QED
  BY <1>1, <1>2 DEF FindUser

LEMMA UpdateUserStep ==
  ASSUME IInv, FoundStands, NEW r \in Requests, UpdateUser(r)
  PROVE  AtomicStep
<1> DEFINE ask(u, n, i) ==
             [Ask("updateUser") EXCEPT !.id = u, !.name = n, !.role = i]
<1>1. PICK u \in UserIds, n \in UserNames \union {None}, i \in RoleIds \union {None} :
         FindUser(r, ask(u, n, i), u, IF i = None THEN "commit" ELSE "role")
  BY DEF UpdateUser
<1>2. /\ ask(u, n, i) \in Request /\ ask(u, n, i).op = "updateUser"
      /\ ask(u, n, i).id = u /\ ask(u, n, i).role = i
  <2> DEFINE a1 == [Ask("updateUser") EXCEPT !.id = u]
             a2 == [a1 EXCEPT !.name = n]
  <2>1. a1 \in Request /\ a1.op = "updateUser" /\ a1.id = u
    BY ZenonT(40), NoPermsType DEF Ask, Idle, Request, Ops, UserOps, PC, Codes
  <2>2. a2 \in Request /\ a2.op = "updateUser" /\ a2.id = u
    <3> HIDE DEF a1
    <3> QED
      BY <2>1 DEF Request
  <2>3. ask(u, n, i) = [a2 EXCEPT !.role = i]
    BY Zenon
  <2> HIDE DEF a2, ask
  <2> QED
    BY <2>2, <2>3 DEF Request
<1> HIDE DEF ask
<1>3. "updateUser" \in UserOps
  BY DEF UserOps
<1>4. CASE i = None
  BY <1>1, <1>2, <1>3, <1>4, FindUserStep
<1>5. CASE i # None
  BY <1>1, <1>2, <1>3, <1>5, FindUserStep
<1> QED
  BY <1>4, <1>5

LEMMA UserReadsStep ==
  ASSUME IInv, FoundStands, NEW r \in Requests,
         SetPassword(r) \/ DeleteUser(r) \/ PatchUser(r)
  PROVE  AtomicStep
<1> DEFINE ask(op, u) == [Ask(op) EXCEPT !.id = u]
           askPatch(u, p) == [Ask("patchUser") EXCEPT !.id = u, !.patch = p]
<1>1. ASSUME NEW u \in UserIds, NEW op \in {"setPassword", "deleteUser"},
             FindUser(r, ask(op, u), u, "commit")
      PROVE  AtomicStep
  <2>1. ask(op, u) \in Request /\ ask(op, u).op = op /\ ask(op, u).id = u
    BY ZenonT(40), NoPermsType DEF Ask, Idle, Request, Ops, UserOps, PC, Codes
  <2> HIDE DEF ask
  <2> QED
    BY <1>1, <2>1, FindUserStep DEF UserOps
<1>2. ASSUME NEW u \in UserIds, NEW p \in Patches,
             FindUser(r, askPatch(u, p), u, "commit")
      PROVE  AtomicStep
  <2>1. /\ askPatch(u, p) \in Request /\ askPatch(u, p).op = "patchUser"
        /\ askPatch(u, p).id = u
    BY ZenonT(40), NoPermsType, RbacAssumption DEF Ask, Idle, Request, Ops, UserOps, PC, Codes
  <2> HIDE DEF askPatch
  <2> QED
    BY <1>2, <2>1, FindUserStep DEF UserOps
<1> QED
  BY <1>1, <1>2 DEF SetPassword, DeleteUser, PatchUser

LEMMA PromisedRoleMissing ==
  ASSUME NEW R, NEW U, NEW u, NEW i, U[u] # None, i # None, R[i] = None,
         NEW q, q.op = "updateUser", q.id = u, q.role = i
  PROVE  Outcome(404, R, U) \in Promised(q, R, U)
<1>1. Promised(q, R, U) = UserDone(q, R, U)
  BY PromisedTargetUser DEF UserOps
<1>2. Outcome(404, R, U) \in UserDone(q, R, U)
  BY DEF UserDone
<1> QED
  BY <1>1, <1>2

LEMMA PromisedUpdateUser ==
  ASSUME NEW R, NEW U, NEW u, NEW n, NEW i, U[u] # None, ~(i # None /\ R[i] = None),
         NEW q, q.op = "updateUser", q.id = u, q.name = n, q.role = i
  PROVE  /\ Named(U, n) \ {u} # {} => Outcome(409, R, U) \in Promised(q, R, U)
         /\ Named(U, n) \ {u} = {} =>
               Outcome(200, R, [U EXCEPT ![u] = Reassigned(U[u], n, i)])
                  \in Promised(q, R, U)
<1>1. Promised(q, R, U) = UserDone(q, R, U)
  BY PromisedTargetUser DEF UserOps
<1>2. Named(U, n) \ {u} # {} => Outcome(409, R, U) \in UserDone(q, R, U)
  BY DEF UserDone
<1>3. Named(U, n) \ {u} = {} =>
        Outcome(200, R, [U EXCEPT ![u] = Reassigned(U[u], n, i)]) \in UserDone(q, R, U)
  BY ZenonT(40) DEF UserDone
<1> QED
  BY <1>1, <1>2, <1>3

\* The row an update writes is the one it promises, while the user is as the
\* request read it; a name that is not new is nobody else's.
LEMMA UpdatedIsPromised ==
  ASSUME IInv, NEW q \in Request, q.id \in UserIds, q.copy \in UserRow,
         q.name \in UserNames \union {None}, users[q.id] = q.copy
  PROVE  /\ Updated(q, users[q.id]) = Reassigned(users[q.id], q.name, q.role)
         /\ ~Renamed(q) => Named(users, q.name) \ {q.id} = {}
         /\ ~Renamed(q) /\ ~Moved(q) =>
               [users EXCEPT ![q.id] = Reassigned(users[q.id], q.name, q.role)] = users
<1> DEFINE name == IF q.name = None THEN q.copy.name ELSE q.name
           role == IF q.role = None THEN q.copy.role ELSE q.role
<1>1. Updated(q, q.copy) = Reassigned(q.copy, q.name, q.role)
  <2>1. (IF Renamed(q) THEN q.name ELSE q.copy.name) = name
    BY DEF Renamed
  <2>2. (IF Moved(q) THEN q.role ELSE q.copy.role) = role
    BY DEF Moved
  <2>3. Updated(q, q.copy) = [q.copy EXCEPT !.name = name, !.role = role]
    BY <2>1, <2>2 DEF Updated, UserRow
  <2>4. Reassigned(q.copy, q.name, q.role) = [q.copy EXCEPT !.name = name, !.role = role]
    BY DEF Reassigned, UserRow
  <2> QED
    BY <2>3, <2>4
<1>2. ASSUME ~Renamed(q) PROVE Named(users, q.name) \ {q.id} = {}
  <2>1. CASE q.name = None
    BY <2>1, RbacAssumption DEF Named, IInv, TypeOK, UserRow
  <2>2. CASE q.name = q.copy.name
    BY <2>2, RbacAssumption DEF Named, IInv, TypeOK, UniqueNames, Unique
  <2> QED
    BY <1>2, <2>1, <2>2 DEF Renamed
<1>3. ASSUME ~Renamed(q), ~Moved(q)
      PROVE  [users EXCEPT ![q.id] = Reassigned(users[q.id], q.name, q.role)] = users
  <2>1. Reassigned(q.copy, q.name, q.role) = q.copy
    BY <1>3 DEF Reassigned, Renamed, Moved, UserRow
  <2> QED
    BY <2>1 DEF IInv, TypeOK
<1> QED
  BY <1>1, <1>2, <1>3

LEMMA CheckRoleStep ==
  ASSUME IInv, FoundStands, NEW r \in Requests, CheckRole(r)
  PROVE  AtomicStep
<1> DEFINE q == req[r]
           w(code) == Answered(q, code)
           put == [users EXCEPT ![q.id] = Reassigned(users[q.id], q.name, q.role)]
           U == [users EXCEPT ![q.id] = Updated(q, users[q.id])]
<1>1. /\ q \in Request /\ q.op = "updateUser" /\ q.pc = "role" /\ InFlight(q)
      /\ q.id \in UserIds /\ q.copy \in UserRow
      /\ q.name \in UserNames \union {None} /\ q.role \in RoleIds
  BY Waiting DEF CheckRole, At, RequestOK, InFlight, UserOps
<1>2. q.role # None /\ q.copy # None
  BY <1>1, RbacAssumption
<1>3. ~q.touched => users[q.id] = q.copy
  BY <1>1, StillFound DEF Found, FoundUser, UserOps
<1>4. \A code : /\ w(code).op = "updateUser" /\ w(code).id = q.id
                /\ w(code).name = q.name /\ w(code).role = q.role
  BY <1>1, AnsweredFields
<1> HIDE DEF w
<1>5. CASE roles[q.role] = None /\ Answer(r, q, 404)
  <2>1. ~q.touched => Outcome(404, roles, users) \in Promised(w(404), roles, users)
    <3>1. /\ w(404).op = "updateUser" /\ w(404).id = q.id
          /\ w(404).name = q.name /\ w(404).role = q.role
      BY <1>4
    <3>2. ~q.touched => users[q.id] # None
      BY <1>2, <1>3
    <3> HIDE DEF q
    <3> QED
      BY <1>2, <1>5, <3>1, <3>2, PromisedRoleMissing
  <2> QED
    BY <1>1, <1>5, <2>1, AnswerStep DEF w
<1>6. CASE roles[q.role] # None /\ Await(r, q, "commit", q.copy)
  <2> DEFINE v == Paused(q, "commit", q.copy)
  <2>1. /\ v.op = "updateUser" /\ v.pc = "commit" /\ v.id = q.id
        /\ v.copy = q.copy /\ v.role = q.role
    BY <1>1, WaitFields
  <2>2. ~q.touched => Found(v, roles, users)
    <3> HIDE DEF v, q
    <3> QED
      BY <1>3, <1>6, <2>1 DEF Found, FoundUser, RoleOps, UserOps
  <2> QED
    BY <1>1, <1>6, <2>2, AwaitStep
<1>7. CASE /\ Renamed(q) /\ Answer(r, q, 500)
           /\ users[q.id] = None \/ Named(users, q.name) \ {q.id} # {}
  <2>1. ~q.touched => FlushConflict(q)
    BY <1>1, <1>2, <1>3, <1>7 DEF FlushConflict
  <2> QED
    BY <1>1, <1>7, <2>1, AnswerStep
<1>8. CASE /\ Named(users, q.name) \ {q.id} = {} /\ roles[q.role] # None
           /\ Commit(r, q, 200, roles, U)
  <2>1. ~q.touched => put = U
    BY <1>1, <1>3, UpdatedIsPromised
  <2> HIDE DEF U
  <2>2. ~q.touched => Outcome(200, roles, put) \in Promised(w(200), roles, users)
    <3> HIDE DEF q
    <3> QED
      BY <1>2, <1>3, <1>4, <1>8, PromisedUpdateUser
  <2> HIDE DEF put
  <2>3. ~q.touched => Outcome(200, roles, U) \in Promised(w(200), roles, users)
    BY <2>1, <2>2
  <2> QED
    BY <1>1, <1>8, <2>3, CommitStep DEF w
<1> QED
  BY <1>5, <1>6, <1>7, <1>8 DEF CheckRole

LEMMA UpdateUserCommitStep ==
  ASSUME IInv, FoundStands, NEW r \in Requests, UpdateUserCommit(r)
  PROVE  AtomicStep
<1> DEFINE q == req[r]
           w(code) == Answered(q, code)
           put == [users EXCEPT ![q.id] = Reassigned(users[q.id], q.name, q.role)]
           U == [users EXCEPT ![q.id] = Updated(q, users[q.id])]
<1>1. /\ q \in Request /\ q.op = "updateUser" /\ q.pc = "commit" /\ InFlight(q)
      /\ q.id \in UserIds /\ q.copy \in UserRow
      /\ q.name \in UserNames \union {None}
  BY Waiting DEF UpdateUserCommit, At, RequestOK, InFlight, UserOps
<1>2. q.copy # None
  BY <1>1, RbacAssumption
<1>3. ~q.touched => /\ users[q.id] = q.copy /\ users[q.id] # None
                    /\ ~(q.role # None /\ roles[q.role] = None)
  BY <1>1, <1>2, StillFound DEF Found, FoundUser, UserOps
<1>4. \A code : /\ w(code).op = "updateUser" /\ w(code).id = q.id
                /\ w(code).name = q.name /\ w(code).role = q.role
  BY <1>1, AnsweredFields
<1> HIDE DEF w
<1>5. ASSUME ~q.touched, NEW code
      PROVE  /\ Named(users, q.name) \ {q.id} # {} =>
                   Outcome(409, roles, users) \in Promised(w(code), roles, users)
             /\ Named(users, q.name) \ {q.id} = {} =>
                   Outcome(200, roles, put) \in Promised(w(code), roles, users)
  <2>1. /\ w(code).op = "updateUser" /\ w(code).id = q.id
        /\ w(code).name = q.name /\ w(code).role = q.role
    BY <1>4
  <2>2. users[q.id] # None /\ ~(q.role # None /\ roles[q.role] = None)
    BY <1>3, <1>5
  <2> HIDE DEF q
  <2> QED
    BY ZenonT(40), <2>1, <2>2, PromisedUpdateUser
<1>6. ~q.touched => /\ put = U
                    /\ ~Renamed(q) => Named(users, q.name) \ {q.id} = {}
                    /\ ~Renamed(q) /\ ~Moved(q) => put = users
  BY <1>1, <1>3, UpdatedIsPromised
<1> HIDE DEF put, U
<1>7. CASE ~Renamed(q) /\ ~Moved(q) /\ Answer(r, q, 200)
  <2>1. ~q.touched => Outcome(200, roles, users) \in Promised(w(200), roles, users)
    BY <1>5, <1>6, <1>7
  <2> QED
    BY <1>1, <1>7, <2>1, AnswerStep DEF w
<1>8. CASE users[q.id] = None /\ Answer(r, q, 500)
  <2>1. q.touched
    BY <1>1, <1>3, <1>8 DEF Request
  <2> QED
    BY <1>1, <1>8, <2>1, AnswerStep
<1>9. CASE Named(users, q.name) \ {q.id} # {} /\ Answer(r, q, 409)
  <2>1. ~q.touched => Outcome(409, roles, users) \in Promised(w(409), roles, users)
    BY <1>5, <1>9
  <2> QED
    BY <1>1, <1>9, <2>1, AnswerStep DEF w
<1>10. CASE Moved(q) /\ RoleMissing(q.role) /\ Answer(r, q, 404)
  <2>1. q.touched
    BY <1>1, <1>3, <1>10 DEF Moved, RoleMissing, Request
  <2> QED
    BY <1>1, <1>10, <2>1, AnswerStep
<1>11. CASE /\ ~(Renamed(q) /\ Named(users, q.name) \ {q.id} # {})
            /\ Commit(r, q, 200, roles, U)
  <2>1. ~q.touched => Outcome(200, roles, U) \in Promised(w(200), roles, users)
    BY <1>5, <1>6, <1>11
  <2> QED
    BY <1>1, <1>11, <2>1, CommitStep DEF w
<1> QED
  BY <1>7, <1>8, <1>9, <1>10, <1>11 DEF UpdateUserCommit, U

LEMMA PromisedWriteUser ==
  ASSUME NEW R, NEW U, NEW u, NEW p, U[u] # None,
         NEW q, q.op \in UserOps, q.id = u, q.patch = p
  PROVE  /\ q.op = "setPassword" => Outcome(200, R, U) \in Promised(q, R, U)
         /\ q.op = "deleteUser" =>
               Outcome(204, R, [U EXCEPT ![u] = None]) \in Promised(q, R, U)
         /\ q.op = "patchUser" =>
               Outcome(200, R, [U EXCEPT ![u] = Patched(U[u], p)]) \in Promised(q, R, U)
<1>1. Promised(q, R, U) = UserDone(q, R, U)
  BY PromisedTargetUser
<1>2. q.op = "setPassword" => Outcome(200, R, U) \in UserDone(q, R, U)
  BY DEF UserDone
<1>3. q.op = "deleteUser" => Outcome(204, R, [U EXCEPT ![u] = None]) \in UserDone(q, R, U)
  BY DEF UserDone
<1>4. q.op = "patchUser" =>
        Outcome(200, R, [U EXCEPT ![u] = Patched(U[u], p)]) \in UserDone(q, R, U)
  BY DEF UserDone
<1> QED
  BY <1>1, <1>2, <1>3, <1>4

LEMMA SetPasswordCommitStep ==
  ASSUME IInv, FoundStands, NEW r \in Requests, SetPasswordCommit(r)
  PROVE  AtomicStep
<1> DEFINE q == req[r]
           w == Answered(q, 200)
<1>1. /\ q \in Request /\ q.op = "setPassword" /\ q.op \in UserOps /\ InFlight(q)
      /\ q.copy \in UserRow
  BY Waiting DEF SetPasswordCommit, At, RequestOK, InFlight, UserOps
<1>2. ~q.touched => users[q.id] # None
  BY <1>1, StillFound, RbacAssumption DEF Found, FoundUser
<1>3. w.op = "setPassword" /\ w.op \in UserOps /\ w.id = q.id
  BY <1>1, AnsweredFields
<1>4. CASE users[q.id] = None /\ Answer(r, q, 500)
  BY <1>1, <1>2, <1>4, AnswerStep
<1>5. CASE Answer(r, q, 200)
  <2>1. ~q.touched => Outcome(200, roles, users) \in Promised(w, roles, users)
    <3> HIDE DEF q, w
    <3> QED
      BY ZenonT(40), <1>2, <1>3, PromisedWriteUser
  <2> QED
    BY <1>1, <1>5, <2>1, AnswerStep
<1> QED
  BY <1>4, <1>5 DEF SetPasswordCommit

LEMMA DeleteUserCommitStep ==
  ASSUME IInv, FoundStands, NEW r \in Requests, DeleteUserCommit(r)
  PROVE  AtomicStep
<1> DEFINE q == req[r]
           w == Answered(q, 204)
           U == [users EXCEPT ![q.id] = None]
<1>1. /\ q \in Request /\ q.op = "deleteUser" /\ q.op \in UserOps /\ InFlight(q)
      /\ q.copy \in UserRow /\ Commit(r, q, 204, roles, U)
  BY Waiting DEF DeleteUserCommit, At, RequestOK, InFlight, UserOps
<1>2. ~q.touched => users[q.id] # None
  BY <1>1, StillFound, RbacAssumption DEF Found, FoundUser
<1>3. w.op = "deleteUser" /\ w.op \in UserOps /\ w.id = q.id
  BY <1>1, AnsweredFields
<1>4. ~q.touched => Outcome(204, roles, U) \in Promised(w, roles, users)
  <2> HIDE DEF q, w
  <2> QED
    BY <1>2, <1>3, PromisedWriteUser
<1> HIDE DEF U
<1> QED
  BY <1>1, <1>4, CommitStep

LEMMA WriteUserPermsStep ==
  ASSUME IInv, FoundStands, NEW r \in Requests, WriteUserPerms(r)
  PROVE  AtomicStep
<1> DEFINE q == req[r]
           w == Answered(q, 200)
           merged == Merge(q.copy.perms, q.patch)
           put == [users EXCEPT ![q.id] = Patched(users[q.id], q.patch)]
           U == [users EXCEPT ![q.id].perms = merged]
<1>1. /\ q \in Request /\ q.op = "patchUser" /\ q.op \in UserOps /\ InFlight(q)
      /\ q.id \in UserIds /\ q.copy \in UserRow
  BY Waiting DEF WriteUserPerms, At, RequestOK, InFlight, UserOps
<1>2. ~q.touched => users[q.id] = q.copy /\ users[q.id] # None
  BY <1>1, StillFound, RbacAssumption DEF Found, FoundUser
<1>3. w.op = "patchUser" /\ w.op \in UserOps /\ w.id = q.id /\ w.patch = q.patch
  BY <1>1, AnsweredFields
<1>4. ~q.touched => Outcome(200, roles, put) \in Promised(w, roles, users)
  <2> HIDE DEF q, w
  <2> QED
    BY ZenonT(40), <1>2, <1>3, PromisedWriteUser
<1>5. CASE merged = q.copy.perms /\ Answer(r, q, 200)
  <2>1. ASSUME ~q.touched PROVE put = users
    <3>1. Patched(users[q.id], q.patch) = users[q.id]
      BY <1>1, <1>2, <1>5, <2>1 DEF Patched, UserRow
    <3> QED
      BY <1>1, <3>1 DEF IInv, TypeOK
  <2>2. ~q.touched => Outcome(200, roles, users) \in Promised(w, roles, users)
    BY <1>4, <2>1
  <2> QED
    BY <1>1, <1>5, <2>2, AnswerStep
<1>6. CASE users[q.id] = None /\ Answer(r, q, 500)
  BY <1>1, <1>2, <1>6, AnswerStep
<1>7. CASE Commit(r, q, 200, roles, U)
  <2>1. ASSUME ~q.touched PROVE put = U
    <3>1. Patched(users[q.id], q.patch) = [users[q.id] EXCEPT !.perms = merged]
      BY <1>2, <2>1 DEF Patched
    <3> QED
      BY <3>1, Zenon
  <2>2. ~q.touched => put = U
    BY <2>1
  <2> HIDE DEF put, U
  <2>3. ~q.touched => Outcome(200, roles, U) \in Promised(w, roles, users)
    BY <1>4, <2>2
  <2> QED
    BY <1>1, <1>7, <2>3, CommitStep
<1> QED
  BY <1>5, <1>6, <1>7 DEF WriteUserPerms

LEMMA PromisedResetUsers ==
  ASSUME NEW q, q.op = "resetUsers", NEW R, NEW U
  PROVE  Outcome(200, R, [u \in UserIds |->
                            IF U[u] = None THEN None
                            ELSE [U[u] EXCEPT !.perms = NoPerms]])
            \in Promised(q, R, U)
<1>1. Promised(q, R, U) = PromisedUser(q, R, U)
  BY DEF Promised, RoleOps
<1> QED
  BY <1>1 DEF PromisedUser

LEMMA ResetUsersStep ==
  ASSUME IInv, FoundStands, NEW r \in Requests, ResetUsers(r)
  PROVE  AtomicStep
<1> DEFINE q == Ask("resetUsers")
           w == Answered(q, 200)
           v == Paused(q, "commit", None)
<1>1. q \in Request /\ q.op = "resetUsers"
  BY AskType DEF Ops
<1> HIDE DEF q
<1>2. CASE (\A u \in UserIds : users[u] = None) /\ Answer(r, q, 200)
  <2>1. w.op = "resetUsers"
    BY <1>1, AnsweredFields
  <2> HIDE DEF w
  <2>2. [u \in UserIds |-> IF users[u] = None THEN None
                           ELSE [users[u] EXCEPT !.perms = NoPerms]] = users
    BY <1>2 DEF IInv, TypeOK
  <2>3. Outcome(200, roles, users) \in Promised(w, roles, users)
    BY <2>1, <2>2, PromisedResetUsers
  <2> QED
    BY <1>1, <1>2, <2>3, AnswerStep DEF w
<1>3. CASE Await(r, q, "commit", None)
  <2>1. v.op = "resetUsers"
    BY <1>1, WaitFields
  <2> HIDE DEF v
  <2>2. Found(v, roles, users)
    BY <2>1 DEF Found, RoleOps, UserOps
  <2> QED
    BY <1>1, <1>3, <2>2, AwaitStep DEF v
<1> QED
  BY <1>2, <1>3 DEF ResetUsers, q

LEMMA ResetUsersCommitStep ==
  ASSUME IInv, FoundStands, NEW r \in Requests, ResetUsersCommit(r)
  PROVE  AtomicStep
<1> DEFINE q == req[r]
           w == Answered(q, 200)
           U == [u \in UserIds |-> IF users[u] = None THEN None
                                  ELSE [users[u] EXCEPT !.perms = NoPerms]]
<1>1. q \in Request /\ q.op = "resetUsers" /\ Commit(r, q, 200, roles, U)
  BY Waiting DEF ResetUsersCommit, At
<1>2. w.op = "resetUsers"
  BY <1>1, AnsweredFields
<1> HIDE DEF w
<1>3. Outcome(200, roles, U) \in Promised(w, roles, users)
  BY <1>2, PromisedResetUsers
<1> HIDE DEF U
<1> QED
  BY <1>1, <1>3, CommitStep DEF w

(***************************************************************************)
(* Signup, and leaving.                                                    *)
(***************************************************************************)
LEMMA PromisedSignup ==
  ASSUME NEW R, NEW U, NEW n, NEW i,
         NEW q, q.op = "signup", q.name = n, q.role = i
  PROVE  /\ ~IsDefault(R) /\ DefaultMatches(R) # {} =>
               Outcome(500, R, U) \in Promised(q, R, U)
         /\ (IsDefault(R) \/ DefaultMatches(R) = {}) /\ Named(U, n) # {} =>
               Outcome(409, R, U) \in Promised(q, R, U)
<1>1. Promised(q, R, U) = PromisedUser(q, R, U)
  BY DEF Promised, RoleOps
<1>2. ~IsDefault(R) /\ DefaultMatches(R) # {} =>
        Outcome(500, R, U) \in PromisedUser(q, R, U)
  BY DEF PromisedUser
<1>3. (IsDefault(R) \/ DefaultMatches(R) = {}) /\ Named(U, n) # {} =>
        Outcome(409, R, U) \in PromisedUser(q, R, U)
  BY DEF PromisedUser
<1> QED
  BY <1>1, <1>2, <1>3

LEMMA PromisedNewUser ==
  ASSUME NEW R, NEW U, NEW n, NEW i, NEW u \in UserIds, IsNextId(U, u),
         Named(U, n) = {}, IsDefault(R) \/ DefaultMatches(R) = {},
         NEW Q, Q = IF IsDefault(R) THEN R ELSE [R EXCEPT ![DefaultId] = DefaultRow],
         NEW q, q.op = "signup", q.name = n, q.role = i
  PROVE  Outcome(201, Q, [U EXCEPT ![u] = NewUser(n, i)]) \in Promised(q, R, U)
<1>1. Promised(q, R, U) = PromisedUser(q, R, U)
  BY DEF Promised, RoleOps
<1>2. CASE IsDefault(R)
  <2>1. PromisedUser(q, R, U) = Inserted(R, U, q)
    BY <1>2 DEF PromisedUser
  <2> QED
    BY <1>1, <1>2, <2>1, InsertedHas
<1>3. CASE ~IsDefault(R)
  <2>1. PromisedUser(q, R, U) = Inserted([R EXCEPT ![DefaultId] = DefaultRow], U, q)
    BY <1>3 DEF PromisedUser
  <2>2. PromisedUser(q, R, U) = Inserted(Q, U, q)
    BY <1>3, <2>1
  <2> QED
    BY <1>1, <2>2, InsertedHas
<1> QED
  BY <1>2, <1>3

LEMMA SignupStep ==
  ASSUME IInv, FoundStands, NEW r \in Requests, Signup(r)
  PROVE  AtomicStep
<1> DEFINE ask(n) == [Ask("signup") EXCEPT !.name = n, !.role = DefaultId]
<1>1. PICK n \in UserNames :
         \/ IsDefault(roles) /\ Await(r, ask(n), "commit", roles[DefaultId])
         \/ DefaultMatches(roles) = {} /\ Await(r, ask(n), "commit", None)
         \/ /\ ~IsDefault(roles) /\ DefaultMatches(roles) # {}
            /\ Answer(r, ask(n), 500)
  BY DEF Signup
<1>2. /\ ask(n) \in Request /\ ask(n).op = "signup" /\ ask(n).name = n
      /\ ask(n).role = DefaultId
  BY ZenonT(40), NoPermsType, RbacAssumption DEF Ask, Idle, Request, Ops, PC, Codes
<1> HIDE DEF ask
<1>3. ASSUME NEW copy, IF copy = None THEN DefaultMatches(roles) = {}
                       ELSE IsDefault(roles),
             Await(r, ask(n), "commit", copy)
      PROVE  AtomicStep
  <2> DEFINE v == Paused(ask(n), "commit", copy)
  <2>1. v.op = "signup" /\ v.copy = copy
    BY <1>2, WaitFields
  <2>2. Found(v, roles, users)
    <3> HIDE DEF v
    <3> QED
      BY <1>3, <2>1 DEF Found, FoundDefault, RoleOps, UserOps
  <2> QED
    BY <1>2, <1>3, <2>2, AwaitStep
<1>4. CASE /\ ~IsDefault(roles) /\ DefaultMatches(roles) # {}
           /\ Answer(r, ask(n), 500)
  <2> DEFINE w == Answered(ask(n), 500)
  <2>1. w.op = "signup"
    BY <1>2, AnsweredFields
  <2>2. Outcome(500, roles, users) \in Promised(w, roles, users)
    <3> HIDE DEF w
    <3> QED
      BY <1>4, <2>1, PromisedSignup
  <2> QED
    BY <1>2, <1>4, <2>2, AnswerStep
<1>5. IsDefault(roles) => roles[DefaultId] # None
  BY DEF IsDefault
<1> QED
  BY <1>1, <1>3, <1>4, <1>5

LEMMA SignupCommitStep ==
  ASSUME IInv, FoundStands, NEW r \in Requests, SignupCommit(r)
  PROVE  AtomicStep
<1> DEFINE q == req[r]
           missing == q.copy = None
           R == IF missing THEN [roles EXCEPT ![DefaultId] = DefaultRow] ELSE roles
           w(code) == Answered(q, code)
           put(u) == [users EXCEPT ![u] = NewUser(q.name, q.role)]
<1>1. q \in Request /\ q.op = "signup" /\ InFlight(q)
  BY Waiting DEF SignupCommit, At, InFlight
<1>2. ~q.touched => IF missing THEN DefaultMatches(roles) = {} ELSE IsDefault(roles)
  BY <1>1, StillFound DEF Found, FoundDefault
<1>3. \A code : /\ w(code).op = "signup" /\ w(code).name = q.name
                /\ w(code).role = q.role
  BY <1>1, AnsweredFields
<1>4. DefaultMatches(roles) = {} => ~IsDefault(roles)
  BY RbacAssumption DEF IsDefault, DefaultMatches
<1> HIDE DEF w
<1>5. CASE missing /\ DefaultMatches(roles) # {} /\ Answer(r, q, 500)
  BY <1>1, <1>2, <1>5, AnswerStep
<1>6. CASE Named(users, q.name) # {} /\ Answer(r, q, 409)
  <2>1. ~q.touched => Outcome(409, roles, users) \in Promised(w(409), roles, users)
    BY <1>2, <1>3, <1>6, PromisedSignup
  <2> QED
    BY <1>1, <1>6, <2>1, AnswerStep DEF w
<1>7. CASE ~missing /\ RoleMissing(DefaultId) /\ Answer(r, q, 500)
  <2>1. q.touched
    BY <1>1, <1>2, <1>7 DEF RoleMissing, IsDefault, Request
  <2> QED
    BY <1>1, <1>7, <2>1, AnswerStep
<1>8. ASSUME Named(users, q.name) = {}, NEW u \in UserIds, IsNextId(users, u),
             Commit(r, q, 201, R, put(u))
      PROVE  AtomicStep
  <2>1. ASSUME ~q.touched
        PROVE  /\ IsDefault(roles) \/ DefaultMatches(roles) = {}
               /\ R = IF IsDefault(roles) THEN roles
                      ELSE [roles EXCEPT ![DefaultId] = DefaultRow]
    BY <1>2, <1>4, <2>1
  <2> HIDE DEF R, q
  <2>2. w(201).op = "signup" /\ w(201).name = q.name /\ w(201).role = q.role
    BY <1>3
  <2>3. ASSUME ~q.touched
        PROVE  Outcome(201, R, put(u)) \in Promised(w(201), roles, users)
    BY ZenonT(40), <1>8, <2>1, <2>2, <2>3, PromisedNewUser
  <2> HIDE DEF put
  <2> QED
    BY <1>1, <1>8, <2>3, CommitStep DEF w
<1>9. CASE Named(users, q.name) = {} /\ InsertUser(r, q, R, 201)
  <2> HIDE DEF R
  <2> QED
    BY <1>8, <1>9 DEF InsertUser, NewUser
<1> QED
  BY <1>5, <1>6, <1>7, <1>9 DEF SignupCommit

LEMMA LeaveStep ==
  ASSUME IInv, FoundStands, NEW r \in Requests, Leave(r)
  PROVE  AtomicStep
<1>1. Idle.pc = "idle"
  BY DEF Idle
<1>2. /\ UNCHANGED <<roles, users>> /\ req'[r].pc = "idle"
      /\ \A s \in Requests \ {r} : req'[s] = req[s]
  BY <1>1 DEF Leave, IInv, TypeOK
<1> QED
  BY <1>2 DEF AtomicStep, FoundStands, AsPromised, InFlight

(***************************************************************************)
(* The theorem.                                                            *)
(***************************************************************************)
LEMMA StepIsAtomic ==
  ASSUME IInv, FoundStands, [Next]_vars
  PROVE  AtomicStep
<1>1. CASE UNCHANGED vars
  BY <1>1 DEF vars, AtomicStep, FoundStands, AsPromised
<1>2. ASSUME NEW r \in Requests, RoleStep(r)
      PROVE  AtomicStep
  BY <1>2, CreateRoleStep, UpdateRoleStep, UpdateRoleCommitStep, DeleteRoleStep,
     CountUsersStep, DeleteRoleCommitStep, PatchRoleStep, AppendStep,
     WriteRolePermsStep, ResetRolesStep, ResetRolesCommitStep
  DEF RoleStep
<1>3. ASSUME NEW r \in Requests, UserStep(r)
      PROVE  AtomicStep
  BY <1>3, CreateUserStep, CreateUserCommitStep, UpdateUserStep, CheckRoleStep,
     UpdateUserCommitStep, UserReadsStep, SetPasswordCommitStep,
     DeleteUserCommitStep, WriteUserPermsStep, ResetUsersStep,
     ResetUsersCommitStep, SignupStep, SignupCommitStep
  DEF UserStep
<1> QED
  BY <1>1, <1>2, <1>3, LeaveStep DEF Next

LEMMA InitFoundStands == Init => FoundStands
  BY DEF Init, FoundStands, InFlight, Idle

\* A request whose stake no other commit touched is answered, and changes the
\* tables, as if it had run at one stroke when it was answered; the one
\* exception is the flush of a taken name outside the try (crud.py, all
\* handlers; crud.py:260-266).
THEOREM UnracedRequestsAreAtomic == Spec => UnracedIsAtomic
<1> DEFINE Step == \A r \in Requests :
                      /\ req[r].pc # "answered" /\ req'[r].pc = "answered"
                      /\ ~req'[r].touched
                      => \/ Outcome(req'[r].code, roles', users')
                                \in Promised(req'[r], roles, users)
                         \/ FlushConflict(req[r])
<1>1. IInv /\ FoundStands /\ [Next]_vars => FoundStands'
  BY StepIsAtomic DEF AtomicStep
<1>2. IInv /\ FoundStands /\ [Next]_vars => [Step]_vars
  BY StepIsAtomic DEF AtomicStep, AsPromised
<1>3. Spec => []FoundStands
  BY <1>1, StoreInvariant, InitFoundStands, PTL DEF Spec
<1>4. Spec => [][Step]_vars
  BY <1>2, <1>3, StoreInvariant, PTL DEF Spec
<1> QED
  BY <1>4 DEF UnracedIsAtomic
=============================================================================
