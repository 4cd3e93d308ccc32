------------------------------- MODULE Startup -------------------------------
(***************************************************************************)
(* What happens before a process serves: the schema, the default roles,    *)
(* the translations and the first superuser (src/startup, src/user_role/   *)
(* bootstrap.py, src/i18n/bootstrap.py, src/utils/super_user.py), in       *)
(* several processes that start against one database while others serve    *)
(* the requests that change the same rows.                                 *)
(*                                                                         *)
(* A native process seeds in its lifespan and migrates when a table is     *)
(* missing.  A container migrates and seeds in its prestart script; its    *)
(* worker then looks for the superuser only.  On SQLite, the default, a    *)
(* select takes no lock, a transaction that has written excludes the other *)
(* writers until it ends, and a migration commits statement by statement.  *)
(* A start that fails ends its process.  Requests are one step each:       *)
(* module RbacStore has their interleavings.                               *)
(***************************************************************************)
EXTENDS Integers, FiniteSets

CONSTANTS
    Processes,
    Natives,    \* the processes with STARTUP_DB_BOOTSTRAP_ENABLED
    FixedNames, \* the names of DEFAULT_ROLES that have an id there
    FixedId,    \* FixedId[n]: that id
    AutoName,   \* the name with no id of its own, PLUGIN
    OtherNames, \* names requests give to roles
    SuperName,  \* SUPERADMIN_ROLE_NAME
    SignupName, \* DEFAULT_SIGNUP_ROLE_NAME
    Keys,       \* permission keys
    Defaults,   \* Defaults[n]: the keys the role n has a default for
    Recent,     \* keys and names that an older release need not have
    Users,
    Boot,       \* BOOTSTRAP_SUPERUSER_USERNAME
    MaxFixed,   \* the greatest fixed id
    MaxChanges, \* bound: requests that change something
    MaxCrashes, \* bound: crashes
    None

DefaultNames == FixedNames \union {AutoName}
Names == DefaultNames \union OtherNames

ASSUME StartupAssumption ==
    /\ Natives \subseteq Processes
    /\ MaxFixed \in Nat /\ MaxChanges \in Nat /\ MaxCrashes \in Nat
    /\ FixedId \in [FixedNames -> 1 .. MaxFixed]
    /\ \A m, n \in FixedNames : FixedId[m] = FixedId[n] => m = n
    /\ AutoName \notin FixedNames
    /\ {SuperName, SignupName} \subseteq FixedNames /\ SuperName # SignupName
    /\ Defaults \in [DefaultNames -> SUBSET Keys]
    /\ SuperName \notin Recent
    /\ Boot \in Users /\ Boot \notin DefaultNames

\* Every change adds a row or makes the next start add one, at most.
Ids == 1 .. MaxFixed + 1 + MaxChanges

Row == [name : Names, perms : [Keys -> {"unset", "default", "decided"}]]

ASSUME NoneAssumption == None \notin Row \union Names

VARIABLES
    schema,     \* the tables: none, a part, all but the stamp of the revision, head
    roles,      \* roles[i]: the row of role i, None if there is none
    translated, \* every registered translation is in its table
    users,      \* users[u]: none, plain, or super: one with the SuperAdmin role
    run,        \* run[p]: what p executes
    pc,
    seen,       \* seen[p]: the default-role candidates the seeding of p selected
    changes,    \* bounds
    crashes,
    gone        \* history: what requests took away since p selected it

vars == <<schema, roles, translated, users, run, pc, seen, changes, crashes, gone>>
dbVars == <<schema, roles, translated, users>>
countVars == <<changes, crashes>>

NoRoles == [i \in Ids |-> None]
Migrating == {"migrate", "create", "finish", "stamp"}
Seeding == {"roles", "flush", "titles", "insertTitles"}
Seeded == {"super", "name", "insert", "serving"}

TypeOK ==
    /\ schema \in {"none", "part", "unstamped", "head"}
    /\ roles \in [Ids -> Row \union {None}]
    /\ translated \in BOOLEAN
    /\ users \in [Users -> {"none", "plain", "super"}]
    /\ run \in [Processes -> {"native", "prestart", "worker"}]
    /\ pc \in [Processes -> {"down"} \union Migrating \union Seeding \union Seeded]
    /\ seen \in [Processes -> [Ids -> Row \union {None}]]
    /\ changes \in 0 .. MaxChanges
    /\ crashes \in 0 .. MaxCrashes
    /\ gone \in [Processes -> SUBSET (DefaultNames \union {Boot})]

Named(T, n) == {i \in Ids : T[i] # None /\ T[i].name = n}
Used(T) == {i \in Ids : T[i] # None}

\* get_default_role_permissions.
Fresh(n) == [name |-> n,
             perms |-> [k \in Keys |-> IF k \in Defaults[n] THEN "default" ELSE "unset"]]

\* What a release without the keys and names R has seeded: the fixed ids, and
\* the next one for the name without.
OldRow(n, R) == [name |-> n,
                 perms |-> [k \in Keys |-> IF k \in Defaults[n] \ R THEN "default"
                                           ELSE "unset"]]
OldId(n) == IF n = AutoName THEN MaxFixed + 1 ELSE FixedId[n]
OldRoles(R) == [i \in Ids |->
    IF \E n \in DefaultNames \ R : OldId(n) = i
    THEN OldRow(CHOOSE n \in DefaultNames \ R : OldId(n) = i, R)
    ELSE None]

\* An empty database, or that of an older release, whose translations may be
\* all that it lacks.
Init ==
    /\ \/ schema = "none" /\ roles = NoRoles /\ translated = FALSE
       \/ schema = "head" /\ roles = OldRoles(Recent) /\ translated = FALSE
       \/ schema = "head" /\ roles = OldRoles({}) /\ translated \in BOOLEAN
    /\ users = [u \in Users |-> "none"]
    /\ run = [p \in Processes |-> IF p \in Natives THEN "native" ELSE "prestart"]
    /\ pc = [p \in Processes |-> "down"]
    /\ seen = [p \in Processes |-> NoRoles]
    /\ changes = 0
    /\ crashes = 0
    /\ gone = [p \in Processes |-> {}]
-----------------------------------------------------------------------------
Goto(p, l) == pc' = [pc EXCEPT ![p] = l]

\* What a process that ends leaves: nothing in memory.
Forget(p) ==
    /\ run' = [run EXCEPT ![p] = IF p \in Natives THEN "native" ELSE "prestart"]
    /\ seen' = [seen EXCEPT ![p] = NoRoles]

\* The start raises: the process ends, its transaction is rolled back.
Fail(p) ==
    /\ Goto(p, "down")
    /\ Forget(p)
    /\ UNCHANGED <<dbVars, countVars, gone>>

\* The first statement of lifespan or of container_prestart._run.
Start(p) ==
    /\ pc[p] = "down"
    /\ Goto(p, IF p \in Natives THEN "roles" ELSE "migrate")
    /\ UNCHANGED <<dbVars, run, seen, countVars, gone>>
-----------------------------------------------------------------------------
(***************************************************************************)
(* run_startup_alembic_upgrade.                                            *)
(***************************************************************************)
HasTables == schema \in {"unstamped", "head"}

\* Alembic reads the revision: with no stamp it will create every table.
ReadRevision(p) ==
    /\ pc[p] = "migrate"
    /\ Goto(p, IF schema = "head" THEN "roles" ELSE "create")
    /\ UNCHANGED <<dbVars, run, seen, countVars, gone>>

\* A bug: a table that exists is waited for.
NothingExists(p) == FALSE

\* A bug: a migration that meets a table is begun again.
MigrateAgain(p) ==
    /\ pc[p] = "create" /\ schema # "none"
    /\ Goto(p, "migrate")
    /\ UNCHANGED <<dbVars, run, seen, countVars, gone>>

\* The first CREATE TABLE, which fails if another process was faster or a
\* crash has left the table behind.
CreateTable(p) ==
    /\ pc[p] = "create"
    /\ schema = "none"
    /\ schema' = "part"
    /\ Goto(p, "finish")
    /\ UNCHANGED <<roles, translated, users, run, seen, countVars, gone>>

TableExists(p) == pc[p] = "create" /\ schema # "none" /\ Fail(p)

CreateOthers(p) ==
    /\ pc[p] = "finish"
    /\ schema' = "unstamped"
    /\ Goto(p, "stamp")
    /\ UNCHANGED <<roles, translated, users, run, seen, countVars, gone>>

StampRevision(p) ==
    /\ pc[p] = "stamp"
    /\ schema' = "head"
    /\ Goto(p, "roles")
    /\ UNCHANGED <<roles, translated, users, run, seen, countVars, gone>>
-----------------------------------------------------------------------------
(***************************************************************************)
(* run_bootstrap_seeding: seed_roles_if_missing, then the translations, in *)
(* one transaction.                                                        *)
(***************************************************************************)
\* A bug: a default role that is missing is taken for a drift.
MissingIsDrift(T, n) == n \in FixedNames /\ Named(T, n) # {FixedId[n]}

\* _resolve_default_role_match: the id and the name are one row's, or nobody's.
Drifted(T, n) ==
    /\ n \in FixedNames
    /\ Named(T, n) # {FixedId[n]}
    /\ Named(T, n) # {} \/ T[FixedId[n]] # None

Drift(T) == \E n \in DefaultNames : Drifted(T, n)

\* The select of the default-role candidates meets a missing table: lifespan
\* migrates, then tries again.
MissingSchema(p) ==
    /\ pc[p] = "roles"
    /\ ~HasTables
    /\ Goto(p, "migrate")
    /\ UNCHANGED <<dbVars, run, seen, countVars, gone>>

DriftDetected(p) == pc[p] = "roles" /\ HasTables /\ Drift(roles) /\ Fail(p)

SelectRoles(p) ==
    /\ pc[p] = "roles"
    /\ HasTables
    /\ ~Drift(roles)
    /\ seen' = [seen EXCEPT ![p] =
                   [i \in Ids |-> IF roles[i] # None /\ roles[i].name \in DefaultNames
                                  THEN roles[i] ELSE None]]
    /\ gone' = [gone EXCEPT ![p] = {}]
    /\ Goto(p, "flush")
    /\ UNCHANGED <<dbVars, run, countVars>>

\* A bug: a role whose id is None is taken for present.
MissingFixedNames(T) == {n \in FixedNames : Named(T, n) = {}}

MissingNames(T) == {n \in DefaultNames : Named(T, n) = {}}

\* A bug: a key that is not granted by default is given its default again.
FillAlways(row) ==
    [row EXCEPT !.perms =
        [k \in Keys |-> IF k \in Defaults[row.name] THEN "default" ELSE row.perms[k]]]

\* init_role_permissions_if_missing: the default of a key the row lacks.
Fill(row) ==
    [row EXCEPT !.perms =
        [k \in Keys |-> IF k \in Defaults[row.name] /\ row.perms[k] = "unset"
                        THEN "default" ELSE row.perms[k]]]

ToFill(T) == {i \in Used(T) : Fill(T[i]) # T[i]}

\* A bug: the name of the role without an id is not unique in the table.
ConflictOfFixed(S) ==
    \/ \E n \in MissingNames(S) \intersect FixedNames : Named(roles, n) # {}
    \/ \E n \in MissingNames(S) \intersect FixedNames : roles[FixedId[n]] # None
    \/ \E i \in ToFill(S) : roles[i] = None

\* The flush of an insert or update decided on the selected rows S meets the
\* rows of now: a name or id that is taken, a row that is no more.
Conflict(S) ==
    \/ \E n \in MissingNames(S) : Named(roles, n) # {}
    \/ \E n \in MissingNames(S) \intersect FixedNames : roles[FixedId[n]] # None
    \/ \E i \in ToFill(S) : roles[i] = None

NextIds(T) == {i \in Ids : \A j \in Used(T) : j < i}
IsNextId(T, i) == i \in NextIds(T) /\ \A j \in NextIds(T) : i <= j

\* The rows after the flush: the updates write the whole JSON of the selected
\* rows, the inserts with a fixed id come before the one with the next id.
Updated(S) ==
    [i \in Ids |-> IF i \in ToFill(S) THEN [roles[i] EXCEPT !.perms = Fill(S[i]).perms]
                   ELSE roles[i]]

WithFixed(T, M) ==
    [i \in Ids |-> IF \E n \in M \intersect FixedNames : FixedId[n] = i
                   THEN Fresh(CHOOSE n \in M \intersect FixedNames : FixedId[n] = i)
                   ELSE T[i]]

\* The select of the translations flushes the roles.  From that write to the
\* commit the seeding is alone: the translations are inserted too.
SeedRoles(p) ==
    LET S == seen[p]
        M == MissingNames(S)
        T == WithFixed(Updated(S), M)
    IN
    /\ pc[p] = "flush"
    /\ M # {} \/ ToFill(S) # {}
    /\ ~Conflict(S)
    /\ IF AutoName \in M
       THEN \E i \in Ids : IsNextId(T, i) /\ roles' = [T EXCEPT ![i] = Fresh(AutoName)]
       ELSE roles' = T
    /\ translated' = TRUE
    /\ Goto(p, "super")
    /\ seen' = [seen EXCEPT ![p] = NoRoles]
    /\ UNCHANGED <<schema, users, run, countVars, gone>>

SeedConflicts(p) == pc[p] = "flush" /\ Conflict(seen[p]) /\ Fail(p)

\* Nothing to write: the transaction holds no lock yet.
RolesInPlace(p) ==
    /\ pc[p] = "flush"
    /\ MissingNames(seen[p]) = {} /\ ToFill(seen[p]) = {}
    /\ Goto(p, "titles")
    /\ seen' = [seen EXCEPT ![p] = NoRoles]
    /\ UNCHANGED <<dbVars, run, countVars, gone>>

SelectTitles(p) ==
    /\ pc[p] = "titles"
    /\ Goto(p, IF translated THEN "super" ELSE "insertTitles")
    /\ UNCHANGED <<dbVars, run, seen, countVars, gone>>

InsertTitles(p) ==
    /\ pc[p] = "insertTitles"
    /\ ~translated
    /\ translated' = TRUE
    /\ Goto(p, "super")
    /\ UNCHANGED <<schema, roles, users, run, seen, countVars, gone>>

TitleConflicts(p) == pc[p] = "insertTitles" /\ translated /\ Fail(p)
-----------------------------------------------------------------------------
(***************************************************************************)
(* ensure_super_user_with_credentials.  The prestart script ends with it   *)
(* and gives way to the worker, whose lifespan does it again.  The role it *)
(* asks for first is one no request deletes (SuperRoleStays).              *)
(***************************************************************************)
IsReady(p) ==
    IF run[p] = "prestart"
    THEN run' = [run EXCEPT ![p] = "worker"] /\ Goto(p, "super")
    ELSE Goto(p, "serving") /\ UNCHANGED run

SelectSuper(p) ==
    /\ pc[p] = "super"
    /\ IF \E u \in Users : users[u] = "super" THEN IsReady(p)
       ELSE Goto(p, "name") /\ UNCHANGED run
    /\ gone' = [gone EXCEPT ![p] = @ \ {Boot}]
    /\ UNCHANGED <<dbVars, seen, countVars>>

\* A bug: the ValueError of a name that is taken ends the start.
SelectNameRaises(p) ==
    /\ pc[p] = "name"
    /\ IF users[Boot] # "none" THEN Goto(p, "down") /\ Forget(p)
       ELSE Goto(p, "insert") /\ UNCHANGED <<run, seen>>
    /\ UNCHANGED <<dbVars, countVars, gone>>

\* A name that is taken raises a ValueError, which the start swallows.
SelectName(p) ==
    /\ pc[p] = "name"
    /\ IF users[Boot] # "none" THEN IsReady(p)
       ELSE Goto(p, "insert") /\ UNCHANGED run
    /\ UNCHANGED <<dbVars, seen, countVars, gone>>

InsertSuper(p) ==
    /\ pc[p] = "insert"
    /\ users[Boot] = "none"
    /\ users' = [users EXCEPT ![Boot] = "super"]
    /\ IsReady(p)
    /\ UNCHANGED <<schema, roles, translated, seen, countVars, gone>>

\* Another start or a request was faster: an IntegrityError, which is not swallowed.
SuperConflicts(p) == pc[p] = "insert" /\ users[Boot] # "none" /\ Fail(p)

\* A process dies or is stopped, in whatever it does.
Crash(p) ==
    /\ pc[p] # "down"
    /\ crashes < MaxCrashes
    /\ crashes' = crashes + 1
    /\ Goto(p, "down")
    /\ Forget(p)
    /\ UNCHANGED <<dbVars, changes, gone>>
-----------------------------------------------------------------------------
(***************************************************************************)
(* The requests that change what a start looks at.                         *)
(***************************************************************************)
Change ==
    /\ \E p \in Processes : pc[p] = "serving"
    /\ changes < MaxChanges
    /\ changes' = changes + 1
    /\ UNCHANGED <<schema, translated, run, pc, seen, crashes>>

TakeAway(x) ==
    gone' = [p \in Processes |-> gone[p] \union ({x} \intersect (DefaultNames \union {Boot}))]

\* A bug: the guard of the immutable role is left out.
NobodyIsSuperAdmin(i) == FALSE

IsSuperAdmin(i) == i = FixedId[SuperName] \/ roles[i].name = SuperName

RenameRole(i, n) ==
    /\ Change
    /\ roles[i] # None /\ ~IsSuperAdmin(i)
    /\ Named(roles, n) = {}
    /\ roles' = [roles EXCEPT ![i].name = n]
    /\ TakeAway(roles[i].name)
    /\ UNCHANGED users

\* Its users, if it has any, keep a role from being deleted.
DeleteRole(i) ==
    /\ Change
    /\ roles[i] # None /\ ~IsSuperAdmin(i)
    /\ roles' = [roles EXCEPT ![i] = None]
    /\ TakeAway(roles[i].name)
    /\ UNCHANGED users

CreateRole(i, n) ==
    /\ Change
    /\ IsNextId(roles, i)
    /\ Named(roles, n) = {}
    /\ roles' = [roles EXCEPT ![i] = [name |-> n, perms |-> [k \in Keys |-> "unset"]]]
    /\ UNCHANGED <<users, gone>>

PatchRole(i, k) ==
    /\ Change
    /\ roles[i] # None /\ ~IsSuperAdmin(i)
    /\ roles[i].perms[k] # "decided"
    /\ roles' = [roles EXCEPT ![i].perms[k] = "decided"]
    /\ UNCHANGED <<users, gone>>

ResetRoles ==
    /\ Change
    /\ roles' = [i \in Ids |->
                    IF roles[i] = None \/ IsSuperAdmin(i) THEN roles[i]
                    ELSE [roles[i] EXCEPT !.perms = [k \in Keys |-> "unset"]]]
    /\ UNCHANGED <<users, gone>>

\* A signup creates the default signup role if it finds neither id nor name.
Signup(u) ==
    /\ Change
    /\ ~Drifted(roles, SignupName)
    /\ users[u] = "none"
    /\ users' = [users EXCEPT ![u] = "plain"]
    /\ roles' = IF Named(roles, SignupName) = {}
                THEN [roles EXCEPT ![FixedId[SignupName]] = Fresh(SignupName)]
                ELSE roles
    /\ UNCHANGED gone

\* The admin's user endpoints, which may give any role to anybody.
ChangeUser(u, s) ==
    /\ Change
    /\ users[u] # s
    /\ users' = [users EXCEPT ![u] = s]
    /\ TakeAway(Boot)
    /\ UNCHANGED roles
-----------------------------------------------------------------------------
Migrate(p) ==
    \/ ReadRevision(p) \/ CreateTable(p) \/ TableExists(p)
    \/ CreateOthers(p) \/ StampRevision(p)
Seed(p) ==
    \/ MissingSchema(p) \/ DriftDetected(p) \/ SelectRoles(p) \/ SeedRoles(p)
    \/ SeedConflicts(p) \/ RolesInPlace(p) \/ SelectTitles(p) \/ InsertTitles(p)
    \/ TitleConflicts(p)
MakeSuper(p) ==
    \/ SelectSuper(p) \/ SelectName(p) \/ InsertSuper(p) \/ SuperConflicts(p)

Step(p) == Start(p) \/ Migrate(p) \/ Seed(p) \/ MakeSuper(p)

Requests ==
    \/ \E i \in Ids, n \in Names : RenameRole(i, n) \/ CreateRole(i, n)
    \/ \E i \in Ids : DeleteRole(i)
    \/ \E i \in Ids, k \in Keys : PatchRole(i, k)
    \/ ResetRoles
    \/ \E u \in Users : Signup(u)
    \/ \E u \in Users, s \in {"none", "plain", "super"} : ChangeUser(u, s)

Next == (\E p \in Processes : Step(p) \/ Crash(p)) \/ Requests

\* A start goes on, and a process that is down is started again
\* (docker-compose.yml: restart: unless-stopped).
StartGoesOn(p) == WF_vars(Step(p))

Fairness == \A p \in Processes : StartGoesOn(p)

Spec == Init /\ [][Next]_vars /\ Fairness
-----------------------------------------------------------------------------
(***************************************************************************)
(* Properties.                                                             *)
(***************************************************************************)
\* Names are unique, the SuperAdmin's name and id stay together, and no
\* request or start takes them away.
RolesOK ==
    /\ \A i, j \in Used(roles) : roles[i].name = roles[j].name => i = j
    /\ Named(roles, SuperName) \subseteq {FixedId[SuperName]}
    /\ roles[FixedId[SuperName]] # None => roles[FixedId[SuperName]].name = SuperName

SuperRoleStays ==
    \A p \in Processes :
        pc[p] \in {"titles", "insertTitles"} \union Seeded => roles[FixedId[SuperName]] # None

\* There are tables before there are rows.
SchemaOK ==
    /\ ~HasTables => roles = NoRoles /\ ~translated
    /\ \A p \in Processes :
          /\ pc[p] = "finish" => schema = "part"
          /\ pc[p] = "stamp" => schema = "unstamped"
          /\ pc[p] = "roles" /\ run[p] = "prestart" => HasTables
          /\ pc[p] \in (Seeding \ {"roles"}) \union Seeded => HasTables
          /\ run[p] = "worker" => pc[p] \in Seeded
          /\ run[p] = "native" <=> p \in Natives
    /\ \A p, q \in Processes :
          pc[p] \in {"finish", "stamp"} /\ pc[q] \in {"finish", "stamp"} => p = q

\* What has been selected has no drift in it, and its names are there still,
\* unless requests have taken them away.
SeenOK ==
    \A p \in Processes :
        /\ \A i \in Used(seen[p]) : seen[p][i].name \in DefaultNames
        /\ seen[p][FixedId[SuperName]] # None => roles[FixedId[SuperName]] # None
        /\ pc[p] = "flush" =>
              /\ ~Drift(seen[p])
              /\ \A n \in DefaultNames \ gone[p] :
                    Named(seen[p], n) # {} => Named(roles, n) # {}

IInv == TypeOK /\ RolesOK /\ SuperRoleStays /\ SchemaOK /\ SeenOK

\* startup/bootstrap.py:60-89, lifespan.py:43-59.  A process serves only after
\* every default role and translation is there, save for what requests have
\* taken away since it looked, and with a superuser or the bootstrap name taken.
ReadyMeansSeeded ==
    \A p \in Processes :
        /\ pc[p] \in {"titles", "insertTitles"} \union Seeded =>
              \A n \in DefaultNames \ gone[p] : Named(roles, n) # {}
        /\ pc[p] \in Seeded => translated
        /\ pc[p] = "serving" /\ Boot \notin gone[p] =>
              users[Boot] # "none" \/ \E u \in Users : users[u] = "super"

\* user_role/permission.py:174-187.  A start takes no decision back, except one
\* made between its select and its flush, in a row it had to complete.
SeedKeepsDecisions ==
    [][\A p \in Processes : pc[p] = "flush" =>
          \A i \in Used(roles), k \in Keys :
              /\ roles[i].perms[k] = "decided"
              /\ seen[p][i] = roles[i] \/ i \notin ToFill(seen[p])
              /\ pc'[p] # "flush"
              => roles'[i] # None /\ roles'[i].perms[k] = "decided"]_vars

\* startup/bootstrap.py:60-89.  Before the first request changes something, of
\* all starts that race and crash one writes the roles: what it writes lacks
\* nothing, and another start that selected before it finds its inserts refused.
Lacks(T) == MissingNames(T) # {} \/ ToFill(T) # {}

SeedOnce == [][changes' = 0 /\ roles' # roles => Lacks(roles) /\ ~Lacks(roles')]_vars

\* alembic.py, startup/bootstrap.py:60-89, super_user.py:224-250.  A start that
\* raises has lost a race, and what it was about is done or being done: another
\* one migrates or has migrated, if nobody crashed; and before the first request
\* changes something, the roles and translations, or the superuser, are there.
Settled == ~Lacks(roles) /\ translated

FailuresAreLostRaces ==
    [][\A p \in Processes : pc[p] # "down" /\ pc'[p] = "down" /\ crashes' = crashes =>
          /\ pc[p] = "create" /\ crashes = 0 =>
                schema = "head" \/ \E q \in Processes \ {p} : pc[q] \in {"finish", "stamp"}
          /\ pc[p] # "create" /\ changes = 0 =>
                Settled /\ (pc[p] = "insert" => users[Boot] = "super")]_vars

\* alembic.py, bootstrap.py and super_user.py under startup and utils.  A start
\* never hangs, whatever state it finds and whatever runs beside it: it serves
\* or it fails.
StartsEnd ==
    \A p \in Processes : pc[p] \notin {"down", "serving"} ~> pc[p] \in {"down", "serving"}

\* There is an answer to everything a start may find.
StartsCanGoOn == \A p \in Processes : pc[p] # "serving" => ENABLED <<Step(p)>>_vars

\* crud.py:134, lifespan.py:48-57, docker-compose.yml.  Whatever races the
\* starts lose, in the end every process serves, if the requests leave the
\* default roles their names and no crash has cut a migration in two.
Startable == schema \in {"none", "head"} /\ ~Drift(roles)

AllServe == <>[]Startable => \A p \in Processes : []<>(pc[p] = "serving")
=============================================================================
