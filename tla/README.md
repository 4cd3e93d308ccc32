# AraNES LMS core: formal models

TLA+ models of the stateful protocols of the AraNES LMS core, checked with TLC
and proved about with TLAPS. Paths are relative to the root of the repository;
`crud.py` without a directory is `src/user_role/crud.py`.

To check: `tlc -workers 2 -config <run>.cfg <MC module>.tla` for a run of the table
below, `tlapm <module>_proofs.tla` for the proofs.

## 1. The system and its parts

The core is an asyncio FastAPI application, usually several worker processes
over one SQL database (SQLite by default) and one optional Redis. A request is a
coroutine with a database session of its own; at every `await` other coroutines
of the same worker, and always those of other workers, run.

| Part | State it keeps | Operations | Talks to | Modelled |
|---|---|---|---|---|
| Token revocation (`src/auth/service.py`, `revocation.py`) | table of revoked jtis, a Redis entry per token, an LRU cache and a cleanup due time per worker | `is_token_revoked`, `revoke_token`, throttled cleanup | every protected endpoint calls the check; `/reset` revokes | `TokenRevocation`, `RevocationContract` |
| Redis cache service (`src/utils/cache.py`) | availability flag, client | get, set, delete, delete_many (errors swallowed), ping, heartbeat | used by revocation, RBAC and i18n caches, rate limiter | get/set/delete inside `TokenRevocation` and `ReadCache`; flag, ping and heartbeat in `RateLimiter` |
| RBAC store (`crud.py`, `models.py`) | tables `roles`, `users` | create, update, delete, permission patch, reset, registry append | endpoints, signup, seeding | `RbacStore` |
| RBAC endpoints and cache (`src/user_role/endpoints/*`, `cache.py`) | a Redis entry per role and user and one per list | cache-aside reads; writes that then drop or fill keys | RBAC store, Redis | `ReadCache`, `ReadContract` |
| i18n (`src/i18n/*`) | tables of small and large translations, Redis entries | get, list, upsert, seeding, language merge | database, Redis | cache and upserts in `ReadCache`; seeding in `Startup`; the merge is not |
| Signup and login (`src/auth/crud.py`, `endpoints/auth.py`) | rows of `users`, the default role | get-or-create role, insert user, login | RBAC store | signup in `RbacStore`, its missing invalidation in `ReadCache` |
| Permission registry and seeding (`src/user_role/permission.py`, `bootstrap.py`) | registered keys, default roles | drift check, seed, fill in missing keys, effective permissions | startup, every permission check | drift, seeding and filling in `Startup`; the permission decision is not |
| Startup and superuser (`src/startup/*`, `src/utils/super_user.py`) | app state, seeded rows | ping, heartbeat, migrate and retry, seed, superuser | database, Redis | `Startup`; the ping and heartbeat in `RateLimiter` |
| Rate limiter (`src/utils/rate_limit.py`) | one limiter per app and backend signature | build, get, try_acquire, fall back on errors | cache service's availability | `RateLimiter` |
| Plugins (`src/plugins/*`) | mapping rows, processes, cached gateway service list | upsert and delete mappings, start, stop, list | gateway over HTTP | `PluginManager`, `ServiceProcesses`; the list in `Gateway` |
| Gateway (`gateway_server/gateway.py`) | services, ports, child processes | discover, allocate, launch, proxy, shut down | plugins | `Gateway`, `ServiceProcesses` |
| In-process HTTP, profiler (`src/utils/*`) | a buffer of spans | dispatch, record | app | not modelled: development tools |
| Application wiring, health, errors, OpenAPI | none of its own | formatting; the pings of /health and /ready | all | the pings in `RateLimiter`; the rest is pure I/O |
| Configuration, database, runtime | engines, settings | parsing, construction | all | not modelled: no protocol |
| Logging, schemas, serializers | none | formatting, validation by a library | endpoints | not modelled |
| Migrations, demo services | the schema | schema scripts, examples | - | the migration in `Startup` |

What is hard here: state read before an await and used after it (revocation
check, cache fills, every read-modify-write of a JSON column); cache commands of
different requests in any order; a Redis that loses commands; a worker or client
that goes away between two steps; caches above caches whose times to live add
up; several workers starting at once. What makes each part correct:

- revocation: no false revocation, no lost row, a bound on how long a revoked
  token is still accepted;
- read cache: a bound on the age of an answer, agreement with the table when
  nothing overlaps or is lost;
- store: an unraced request is atomic, the SuperAdmin role is untouchable, names
  are unique, a user's role exists;
- startup: seeding is idempotent, concurrent starts end in one seeded state;
- rate limiter: a key is counted in one bucket as long as the backend stays the
  same, and the shared one comes back; plugins and gateway: one process per
  plugin, no orphan, no stale list served as new, and launches and calls end.

`PROJECT.json` lists the hazards at their lines with the properties aimed at
each. A hazard without a property is one whose bad outcome the code really has, or
that lies outside what is modelled; its note says which.

## 2. Modules

    RevocationContract   what the blocklist promises (abstract)
      ^ implemented by
    TokenRevocation      the check, /reset, three layers   MCTokenRevocation
    ReadContract         what the clients of a cache are told (abstract)
      ^ implemented by
    ReadCache            cache-aside reads and writes      MCReadCache
    RbacStore            sessions over roles and users     MCRbacStore
    RateLimiter          limiters, availability, restarts  MCRateLimiter
    Startup              migration, seeding, superuser     MCStartup
    Plugins              a host that runs plugins          MCPlugins
      = Gateway          lifespan, list of services
      + PluginManager    the manager's calls, the table
        both extend
    ServiceProcesses     processes and their ports
    <module>_proofs      the theorems of each
    RbacAtomicity_proofs those about requests nobody races with
    StartupServes_proofs those about where all starts end, and about ids

The MC modules only name the values the configurations need. Definitions keep
the names of the source where they can.

A definition whose comment begins "A bug" stands before the definition it
varies, and is used by nothing: put in its place it must make a run fail. They
show that each property can be broken by a plausible mistake in the code.

### TokenRevocation

One action per stretch between awaits. `is_token_revoked` is
`LocalHit`/`LocalMiss` (the worker's LRU cache), `RedisGet`/`RedisMiss`,
`RedisExpired`/`RedisAnswered` (the Redis entry, checked and copied), `DbSelect`,
`CacheVerdict`, `FindExpiredRow`/`DeleteExpiredRow`, `PublishVerdict`.
`revoke_token` is `Reset`, `StoreRevokedJti` (the transaction with the throttled
cleanup), `CacheRevocation`, `AnnounceRevocation`. `StoreFails`, `CheckFails`,
`RestartWorker` and `RedisForgets` are the failures; a Redis command may always
fail, as `set_json` and `get_json` swallow errors. `revokedAt` and `resetDone`
are history: no guard of the code's steps reads them.

Abstractions: a clock of whole seconds shared by workers and Redis (no skew); a
Redis command takes effect while its request waits, never after; the fallback
key `raw:` of a token that does not decode is left out, since no decodable token
consults it; on whole seconds the cut of a remaining time to an integer
(revocation.py:136) changes nothing; verify_token's other refusals do not concern the blocklist.

`RevocationContract` has no caches, table or workers: a `Commit` of a token and
`Answer`s that must be justified. `KeepsContract` is the refinement with
`verdict` mapped to the answers requests have been given.

### ReadCache

`Items` are role ids, user ids or translation keys, `Columns` what a row has.
A read is `GetHit`, or `GetMiss`, `Select`, and the commands; a write is `ReadRow`
(or `StartInsert`, `StartReset`), then a commit (`Modify`, `SetPassword`,
`Delete`, `UpsertInserts`, `Insert`, `Reset`, `WriteFails`), then the commands of
`Plan` one by one (`CacheCommand`, or `CacheCommandLost` if Redis refuses).
`Plan` is where the endpoints differ: which keys each drops and fills, in order.
`Modify` writes only columns that differ from the ones read, and what is cached
is the session's object (`expire_on_commit` is off, `runtime.py:35`), which may
mix columns of different times. `lastRow` and `calm` are history.

Abstractions: permission checks; entries of a shape this code never writes;
`Reset` resets every item, also the SuperAdmin the code leaves out (a superset);
any free id may be inserted (a superset of the database's choice).

`ReadContract` has no cache and no commands: a table that changes, and answers
whose every column the table had at most `Age` seconds before the request began
(lists: whose every row), and which say what the table says as long as nothing
has disturbed the family. `KeepsContract` is the refinement, with `Told` for the
answers and an `Age` of TTL + MaxLag - 1.

### RbacStore

One action per statement of a handler. On SQLite a select takes no lock and the
first write takes the write lock until the commit, so a handler runs at one
stroke from its first write on: select, (select,) write-and-commit. A session
keeps the object it read (`copy`) and sends the columns that differ from it; JSON
columns are sent whole. `LoadChildren` is the flush that loads the users of a role
being deleted; `CheckRole` is the select that flushes a new name before it.
Ids are one more than the greatest in the table, as SQLite's rowids are, so the
id of a deleted last row comes back. `ForeignKeys` says whether the database
enforces `users.role_id`. `Leave` takes an answered request away, or one that
dies before its commit: a session that is closed rolls back
(`src/database.py:132-142`).

`Commit` also notes in `touched` whether it changed what another request in
flight rests on (`Stake`); `Promised` says, in terms of the tables only, what a
request is to answer and do at one stroke. Together they state
`UnracedIsAtomic`.

Abstractions: titles and passwords (a request that only sets one is there, its
column is not), permission checks and the actor (an administrator who deletes
himself is refused before any statement), validation of patches (patches have
registered keys), "database is locked" failures (as a death before commit), and
the cache commands, which are ReadCache's.

### RateLimiter

A request is `UseLimiter`, or `StartBuild`, `LoadScript` and one of
`InstallRedisLimiter` and `InstallMemoryLimiter`; then `AcquireInMemory`, or
`RedisCounts` and `Admit`, `Limit` or, when the answer was lost (`LoseAnswer`),
`FailClosed`. A limiter is named by the request that built it, and a request
counts in the limiter it holds, which need not be the one installed by now. The
flag is written by `PingReturns` (of the lifespan, the heartbeat, /health and
/ready: a ping is answered at one moment and read at another), `FailClosed`,
`InstallMemoryLimiter` and `CommandFails`. `RedisTurns` takes Redis away and
brings it back; `Restart` takes a worker with its requests, its flag and its
limiter, and leaves what Redis has counted.

`recent` and `steady` are history: the requests let through and still in the
window, and those that came to a worker since its flag last changed or a
second builder began.

Abstractions: the window is a set of counted requests any of which may leave it
at any time, which covers every clock; the route scopes of a key are a constant
`Key`; the parts of a signature that never change while a process runs.

### Startup

One action per statement that other processes may come between. A migration
(`ReadRevision`, `CreateTable`, `CreateOthers`, `StampRevision`) commits statement
by statement on SQLite, so a crash can leave tables without the stamp. The
seeding is a select (`SelectRoles`, or `DriftDetected`), then its first write and
everything after it at one stroke (`SeedRoles`), since a writer excludes the other
writers until it commits; with no role to write, the translations are its first
write (`RolesInPlace`, `SelectTitles`, `InsertTitles`). The superuser is
`SelectSuper`, `SelectName`, `InsertSuper`. A constraint that is violated or a
table that exists makes the start raise (`...Conflicts`, `TableExists`): the
process ends, and is started again. `run` tells a native start from the prestart
script of a container and the worker it gives way to. Requests are one step
each; `RbacStore` has their interleavings. `gone` is history.

Abstractions: two revisions of the schema as one; busy timeouts (a statement
waits for the writer); the title keys filled into old rows, and translations
users add; the validation of credentials; the command line and the prompts;
`BOOTSTRAP_SUPERUSER_CREATE` is switched on.

### ServiceProcesses, Gateway, PluginManager, Plugins

`ServiceProcesses` is the host: handles of child processes, the port each was
given, and whether it has bound it yet. `FreePort` probes and releases; the
service binds some time after it was spawned (`Bind`), or finds the port taken
and exits (`PortTaken`); `Dies` is a crash, an obeyed signal, the kill ten seconds
later, or a port taken by a program that is not a service. A probe is answered
by whoever holds the port (`Answering`), which is what the code relies on.

`Gateway` is the lifespan (`Launch`, `ServiceReady`, `LaunchFails`, `Launched`,
`TerminateService`, `ServicesTerminated`). A launch ends badly in two ways: a
service that is not ready in time is caught, and the ones before it are shut down
(`LaunchFails`, gateway.py:437-447); a service that cannot even be spawned raises
outside that `try` and outside the one of the lifespan, and nobody shuts anything
down (`LaunchRaises`, 405-418). Then the server exits with its registry
(`ServerExits`), or the same process runs the lifespan again, which first shuts down
what it finds registered (`ClearsFirst`, the stage "clearing", 506-507). The rest is,
for one plugin, the list of services
the core fetches and caches (`GatewayAnswers`, `FetchFails`, `WriteList`).
`PluginManager` has the table with its endpoints and the calls of the manager:
`Enable` and `Disable` (`apply_mapping_state`), `BeginShutdown` (`startup` and
`shutdown`), then one action per await of theirs, and `StartRaises` for a startup whose spawn
raises. `Plugins` puts either of them on
a host, as docker-compose.yml and the flags do: not both. `hurried` (a process
spawned while another was starting), `raced` (a plugin two calls concerned at a
time), `overtaken` (a fetch that another one finished after it was answered) and
`left` (the services that a launch that raised has left running) are history.

Abstractions: `plugin_name` and `service_name` are one name; manifests are
constants; the OpenAPI documents and the bytes of proxied requests are left out;
expiry of the cached list is a choice; a process that is killed is dead within the
ten seconds its killer waits (terminate_process returns even if it is not,
gateway.py:475-478); an `apply_mapping_state` whose spawn raises has changed
nothing, and is not a step; a gateway that is killed takes its
children along, as its container does, and is not modelled. Nothing in
`src/` but tests calls the manager: its calls come in any order.

## 3. Runs

| Run | Expect | Properties | Instance |
|---|---|---|---|
| `revocation` | pass | IInv, StaleAnswerBounded, KeepsContract | 2 workers, 1 token, 2 requests |
| `revocation_expiry` | pass | RevocationDurable, NoFalseRevocation, StaleAnswerBounded | 1 worker, 2 tokens, LRU of 1 |
| `reset_effect` | violation | ResetTakesEffect | as `revocation` |
| `read_cache` | pass | IInv, StaleReadBounded, CalmInv, FreshWhenCalm | 1 item and its list, 2 requests, all writes but signup |
| `read_columns` | pass | ListRowsWereRows, KeepsContract | 2 columns, patches only |
| `signup_listing` | violation | FreshWhenCalm | 1 request at a time, signup among the writes |
| `rbac_roles` | pass | IInv, SuperAdminIntact, UnracedIsAtomic | 3 roles, 1 user, 2 requests, no foreign keys |
| `rbac_users` | pass | UsersHaveRoles, UnracedIsAtomic | 2 roles, 2 users, 2 requests, foreign keys |
| `rbac_orphans` | violation | UsersHaveRoles | as `rbac_users`, without foreign keys |
| `rate_limiter` | pass | IInv, SteadyLimit, SharedLimit, SharedLimitReturns, EveryRequestEnds, RequestsCanGoOn | 1 worker, 2 requests of one key, rate 1, two pingers |
| `startup` | pass | IInv, ReadyMeansSeeded, SeedKeepsDecisions, SeedOnce, FailuresAreLostRaces, StartsEnd, StartsCanGoOn, AllServe | a native process and a container, 3 default roles, 2 keys, 2 users, 2 changes, 1 crash |
| `plugins` | pass | IInv, StopsServices, RegistryIsNew, OrphansNeedRaces, PortsAreOwn, ListGoesForward, LaunchEnds, CallsEnd, EverybodyCanGoOn | 3 directories, two of one name, 5 handles, 2 starts, 2 fetches, 2 calls at a time |

Deadlock is checked in every run but `startup` and `plugins`. There the system
rests: every process serves and the bounded changes are used up, or the gateway
is down and nobody calls the manager any more. Requests, workers and the values
that the specification treats alike are symmetric in the runs of the first three
modules, which check no liveness property, so symmetry is sound; the runs of the
others use none.

### Bounds

- `MaxTime` stops the clock. In `read_cache` it is 3 with TTL 2 and MaxLag 1: an
  entry filled at the last moment of a slow request expires within the run, and
  `StaleReadBounded` fails if its bound is lowered by one. In `revocation` it is 4
  with LocalTTL 2 and MaxLag 1, which is Grace (3) and one more, with an expiry
  of 5 so that the token is still alive. In `revocation_expiry` one token
  expires within the run and the other does not, and an LRU of one entry drops the
  verdict of one for that of the other.
- `MaxLag` is the longest a request stays in flight. The bounds on staleness
  mention it, and must: nothing in the code limits the time between a select and
  the cache command that follows it.
- Two requests in flight: each race listed under "hazards" is one between two
  requests; further ones run before and after in the same slots. The theorems
  hold for any number.
- `MaxRoleId`, `MaxUserId`: with all ids taken an insert is not offered. Three
  roles are the SuperAdmin, the signup role and one that comes and goes. The
  signup role starts with two keys; the patch overrides one of them and must
  keep the other, and adds its key to roles that have none. `rbac_users` keeps
  one key, since user permissions are merged by the same operator.
- `Kinds` splits the operations over two runs of the store. Deletion and renaming
  of roles and creation of users are in both.

- `rate_limiter`: with a rate of one, two requests of one key are what it takes
  to exceed it, and two builders what it takes to lose a count; a second ping
  may return an old answer after the heartbeat's. The one worker meets its own
  earlier counts in Redis after a restart, as it would those of another. Restarts and turns of Redis
  are not bounded. The theorems have any number of workers, requests and keys.
- `startup`: two processes are enough for every race between two starts. Of the
  default roles there are the superadmin, the signup role and the one without an
  id of its own; one key and that role are new in this release, so the older
  database lacks one of each kind. Two changes make a rename or a deletion and
  what builds on it; one crash can cut a migration in two. The ids go as far as
  the highest fixed one, one more and one for each change, which is enough for every
  insert (`IdsSuffice`).
- `plugins`: with three directories, two of one name, a launch shadows a service
  and a failure has some before it to stop. The manager has its one directory: two calls for one
  plugin are the race, a third operation changes the mapping in between. Five
  handles are enough for the gateway: two that a launch that raised has left running,
  and three of the next. They are enough for every spawn of the manager: a call that
  may find none is not begun (`RoomFor`), and one that was begun finds one
  (`StartupsFindHandles`). Two starts of the gateway tell apart the lists of one
  start from those of another.

### What the passing runs show

- A revoked token is accepted only by requests that began at most
  MaxLag + 2 (LocalTTL - 1) seconds after the commit: the "clear" a slow check
  publishes lives for a time to live in Redis, and a worker that copies it at the
  last moment keeps the copy for another. A verdict the LRU limit drops is asked
  for again, and the bound stays (`revocation_expiry`). No cleanup loses a revocation, and nothing is called revoked that was not.
- No answer of a cached endpoint is older, column by column, than a time to live
  and the stay of one request, whatever commands are lost or reordered; rows of
  a list are never mixtures; and every write but signup names all the keys it
  changed. For a client this comes to `ReadContract`, which speaks of the table and
  the answers alone.
- A request to the store that nobody raced for the same rows does what it would
  at one stroke, with one exception that the property spells out
  (`FlushConflict`: a taken name sent together with a role is flushed outside the
  handler's `try` and answered 500 instead of 409, crud.py:260-266). Races for
  the same rows lose updates by design of whole-column writes; they never touch
  the SuperAdmin.

- A worker lets no more requests of a key through than the rate while its flag
  stays and no two requests build at once; no bucket ever holds more. Both
  conditions are needed: a change of the flag changes the bucket, and of two
  limiters built at once one is overwritten and its count lost. What Redis counts
  needs neither: of the requests let through by a count in Redis there are never
  more than the rate (`SharedLimit`), over all workers, limiters and restarts. Once Redis stays
  up the workers count in it again, since a limiter in memory always carries
  the mark of an unavailable Redis (`MemoryIsMarked`), and every request ends.
- A process serves only a database that has every default role and translation,
  and a superuser or somebody of that name; a seeding that races an
  administrator's patch keeps the decision unless it had to complete that very
  row. Before the first request changes something, one start seeds: what it
  writes lacks nothing, and a start that raises does so only after the roles and
  translations, or the superuser, are complete (`FailuresAreLostRaces`); a table
  that is in the way of a migration belongs to another one that is running or
  done, unless somebody crashed. Every start ends, serving or failed, and those
  that lost come up when they are started again.
- A gateway that stops, or gives up because a service is not ready in time, leaves
  no service running, but those another directory of the same plugin name has
  shadowed and those an earlier launch that raised has left running (`left`). A
  gateway that is started again in the same process shuts the latter down before it
  launches: nothing of an earlier start is registered, listed or proxied to
  (`RegistryIsNew`). A plugin of the
  manager has one process, which is registered or in the hands of a call, unless
  two calls concerned it at a time. Who answers on the port of a service is that
  service, unless two were starting at a time. A stopped service is not listed
  running again but by an overtaken answer. Launches and calls end.
- `RequestsCanGoOn`, `StartsCanGoOn` and `EverybodyCanGoOn`, which is `LaunchCanGoOn`
  and `CallsCanGoOn`: whatever a request, a start, a launch or a call finds, there is a step it can take, or the process it waits for can be killed. Nobody waits for anybody else. They are
  what the liveness theorems assume.

### Findings

- `reset_effect`: a check that read the table before the reset committed writes
  its "clear" over the "revoked" the reset put in the cache of its own worker.
  The release notes promise 401 after `/reset`; that is so after Grace only.
- `signup_listing`: signup inserts a user and drops no cache key, so the cached
  user list lacks it until it expires.
- `rbac_orphans`: with the default SQLite URL nothing switches foreign keys on;
  creating (or moving) a user races the deletion of its role, and the user is
  left with a role that does not exist, where the handler and its test expect
  "role not found".

Not a run of its own, seen while modelling: where a service cannot be spawned
(Popen raises for the shipped demo_node on a host without node, or no port is
left), the exception leaves `launch_services` and the lifespan outside both of
their `try`s (gateway.py:405-418, 508-518), the server exits, and the services
launched before run on with nobody to stop them, although
docs/plugin_manager_architecture.md:40 says that the gateway stops its services on
shutdown and gateway.py:445 that it shuts all down if one fails to start. This is
`LaunchRaises`, what it leaves is `left`, and `StopsServices` and `RegistryIsNew` say how
far the damage goes.

Likewise: where the deletion loses the race to
an insert that commits before its flush, the flush fails on `role_id` being
NOT NULL, which is not what crud.py:164 translates; the answer is 500 and not
the 409 of `tests/user_role/test_user_role_crud.py:181`. Nothing is lost, and
`LoadChildren` models it.

Other things seen while modelling, none of which contradicts a document:

- A limiter in Redis that was built while the flag was still cleared carries the
  mark "unavailable" (rate_limit.py:214). After a later outage its signature
  matches, so it is kept and refuses every request of its worker until a ping
  succeeds; README.md:261 and 361 describe a refusal per request, and a fallback
  to memory when a limiter is built, which does not happen then.
- Two directories of services with one plugin name: the gateway registers the
  second over the first, whose process it never terminates (gateway.py:391-435,
  the exception in `StopsServices`); the manager's startup inserts two rows of one
  name if there is none yet, which the database refuses (plugins/crud.py:60-76,
  `SyncFails`).
- `apply_mapping_state` drops whatever is registered once the process it
  terminated is gone, which may be a newer one (manager.py:211-213): one of the
  races that `OrphansNeedRaces` excepts.
- A default role that was renamed, which the API allows, makes later signups
  fail (crud.py:134) and the next start refuse with a drift error: the reason
  why `AllServe` assumes there is no drift in the end. It assumes as well that no
  crash has cut the migration in two, after which only a hand repairs the
  schema.

### Fairness

The specifications of the first three modules assume none: a client may go away
at any moment, the code retries nothing there, and nothing is claimed to happen
eventually. The others assume weak fairness of what goes on by itself:

- `RateLimiter`: the steps of a request (a Redis command returns or its socket
  times out), the return of a ping for the same reason, and the heartbeat, whose
  loop sleeps for a finite time and pings whatever became of the last
  (cache.py:154-172). Not of Redis, of clients or of health checks.
- `Startup`: the steps of a start, and the start itself: docker-compose.yml:3
  restarts what ends. Not of requests and not of crashes.
- `Plugins`: the lifespan of the gateway (`LifespanGoesOn`: a probe is answered or
  its deadline passes), the steps of each call (`CallGoesOn`), and for each of
  them that the process it waits for ends (`LifespanWaitEnds`, `CallWaitEnds`), as
  whoever waits kills it after ten seconds. No service has to bind its port or to
  crash by itself.

## 4. Theorems

| Module | Theorem | Says |
|---|---|---|
| TokenRevocation_proofs | TypeCorrect, InductiveInvariant | types; `IInv` is inductive |
| | RevocationIsDurable, RevocationIsHonest, StalenessIsBounded | the three safety properties |
| | RevocationKeepsContract | the protocol implements RevocationContract |
| ReadCache_proofs | InductiveInvariant, StalenessIsBounded, ListsHoldRows | `IInv` and the bounds on age |
| | CalmInvariant, CalmCacheIsFresh | without signup, a calm cache agrees with the table |
| | ReadsKeepContract | without signup, the endpoints and the cache implement ReadContract |
| RbacStore_proofs | StoreInvariant | `IInv` is inductive, with or without foreign keys |
| | SuperAdminStaysIntact | no request or race changes the SuperAdmin |
| | UsersKeepTheirRoles | with foreign keys, every user's role exists |
| RbacAtomicity_proofs | UnracedRequestsAreAtomic | a request nobody raced with runs as if at one stroke |
| RateLimiter_proofs | LimiterInvariant, RateIsKept | `IInv`; an undisturbed worker keeps the rate |
| | RateIsShared | all that Redis counted together keep the rate |
| | RequestsEnd | every request ends, if it can always go on |
| | LostPingsReturn, WoundedRequestsEnd | once Redis stays up, what can still clear a flag passes |
| | SafeWorkersCount | after that a worker comes to count in Redis and stays with it |
| | TheSharedLimitReturns | `SharedLimitReturns`, from the law `Together` |
| Startup_proofs | StartupInvariant | `IInv` is inductive |
| | WhoServesIsSeeded, DecisionsStay | what a process that serves finds; what a seeding keeps |
| | OneStartSeeds, FailedStartsLostRaces | one start seeds all there is to seed; who fails has lost to it |
| | StartsGetThrough | every start serves or fails, if it can always go on |
| StartupServes_proofs | StartsComeCloser | a process that does not serve comes down in rank |
| | EveryoneServes | `AllServe`, from the law `ServeDescends` |
| | IdsSuffice | whoever inserts a role finds the next id free |
| Plugins_proofs | PluginsInvariant | `IInv` of the host, the gateway, its lists and the manager |
| | ServicesAreStopped, RegistryStaysNew, NoOrphans, PortsBelong, ListsGoForward | the five safety properties |
| | CallsAdvance, AppliesEnd | with n steps ahead a call comes to have fewer; what an endpoint applies ends |
| | LaunchAdvances | with n steps ahead the lifespan of the gateway comes to have fewer |
| | AllCallsEnd, EveryLaunchEnds | `CallsEnd` and `LaunchEnds`, from the laws `CallDescends` and `LaunchDescends` |
| | StartupsFindHandles | a startup that has a plugin to start finds a handle for its process |

They hold for all values of the constants that satisfy the named ASSUMEs, which
TLC evaluates in every run.

The arguments. *Revocation*: none of the properties is inductive, since a "clear"
travels from the table over a request, Redis, another request and a worker's
cache. `IInv` dates it at each station (`RequestSound`, `RedisSound`,
`LocalSound`): from the commit of the revocation on, each kind of "clear" can be
late by so much. The refinement follows from `IInv` and one case per step.
*Read cache*: `IInv` says when the rows held by requests and entries were last
those of the table, by column for items and by row for lists; that an entry is
filled at most MaxLag after its rows were selected gives the bound. `CalmInv` is
the invariant of the calm: a request is alone, holds what the table has, and an
entry that disagrees with the table is among the keys it will still drop.
The refinement of `ReadContract` combines the two: `IInv` dates what is answered,
`CalmInv` says that it is current, and every other step leaves the answers alone.
It needs signup left out for the same reason as `CalmCacheIsFresh`: with it, a
listing in a calm lacks a user (`signup_listing`).
*Store*: `RequestOK` records what a paused request has found out. The SuperAdmin is
safe because a request past its guard has another id, which its write keeps to,
whoever has that id by then, and because the unguarded registry refuses patches
that touch a key the role has: the SuperAdmin has all, so what gets past is
empty. The foreign key needs the unique rows and that deletions look for
holders in the very step that commits. *Atomicity*: `UnracedIsAtomic` speaks of
steps and needs to know what a paused request may still rely on: `FoundStands`
says that all it has found out (its role or user is the copy it holds and is not
the SuperAdmin, nobody holds the role it deletes, the role it gives exists, the
signup role is there or is not) holds now, unless it is marked as touched. A
commit keeps this since the stake it compares covers what was found
(`StakeKeepsFound`); each operation's last step is then one of the outcomes it
promises.

*Rate limiter*: who has been let through is in the bucket of the limiter it
holds (`AdmittedOK`), and the undisturbed requests of a worker hold the bucket
of the installed limiter or are its one builder (`SteadyOK`); a bucket holds no
more than the rate, so they are no more. *Startup*: the names a process has
selected without drift are there at its flush, or a request has taken them away
(`SeenOK`); a flush that meets no conflict adds the names that were missing, at
free ids and above all others (`SeedRows`), which keeps names unique and the
SuperAdmin's name and id together. *Plugins*: a live service is shadowed, or
registered and on the list of a shutdown (`LookedAfter`), or was left by a launch
that raised and is not registered any more (`Orphan`); what is registered while the
gateway is down was left so, and past "clearing" none of it is (`GatewayOK`); a plugin with no race
is in one of the stages of the one call that concerns it (`SoleCallOK`), each of
which says where its process may be; two live processes have two ports, since a
port that is probed while nobody is starting is not held by anybody live
(`PortsApart`); once a list of this start says stopped the process is dead, and
nothing revives it (`ListsOK`).

*One start seeds*: until a request changes something, a row that a start has
selected is as it was or has got its defaults (`SeenStands`), so a flush that
meets no conflict fills in all there is. *Who fails has lost*: until then every
default role is where the code expects it (`InPlace`, the absence of drift), and
what a start has selected is the whole table, or somebody has seeded since
(`FreshStart`); of the table as it is no flush conflicts
(`CurrentHasNoConflict`). While nobody crashes, a schema in the making has its
maker (`MigrationsRun`).

*The shared rate*: a request let through holds a limiter whose bucket counts it, and
all limiters in Redis have one bucket per key (`AdmittedOK`), so what the bucket
holds bounds them all, whoever built what.

*Liveness*: each of these theorems has a rank that a step of its own actor lowers
and that no other step raises (`Ahead` of a request or a start, `Left` of a call,
`StepsAhead` of a gateway), and weak fairness of that actor. The finite number of
stages of a request, of a start and of `apply_mapping_state` is gone through one
by one. For a startup or a shutdown of the manager and for a launch the number of
stages depends on the number of mappings and directories; there `CallsAdvance` and
`LaunchAdvances` say that each stage is left for a later one.

*Counting in Redis again*: once Redis stays up and the workers run, only an answer
that was lost before can still clear a flag. A lost ping returns and is not lost
again, a request that lost Redis is denied; from then on (`Safe`) the next
answer to the heartbeat sets the flag, nothing clears it, and a limiter in memory
does not match its worker any more (`MemoryIsMarked`).

*Everybody serves*: the rank of a process that does not serve counts, in this
order, the requests and crashes that may still come, what the database lacks
(default roles, translations, the superuser) and the stages of the start. A start
that has to fail (`Doomed`) has selected before another one wrote, and counts as
further from its end than one that has yet to begin. Nobody raises the rank,
since a write that makes a start fail leaves the database lacking less.

*Bounds that do not bind*: the greatest role id, one higher while the role without
an id of its own is missing, is at most one above the highest fixed id and the
number of changes (`IdsOK`), as every change adds one role at the most, and a start inserts that
role only where it was missing. For handles, `RoomLeft`: there are as many that
nothing refers to as plugins that all startups may still start, since a call takes
one only for a plugin it then strikes off, or when there is one to spare.

Two things are hypotheses of these theorems. That an actor can go on (ENABLED of
its step) is one, `[]RequestsCanGoOn`, `[]HeartsCanGoOn`, `[]StartsCanGoOn`,
`[]CallsCanGoOn` and `[]LaunchCanGoOn`, since the prover knows nothing of ENABLED.
The second only repeats the guards of `Heartbeat` and `PingReturns` (a ping can be
sent if none is out, and return if one is); each of the others is an invariant, or
a part of one, that TLC checks in the run of its module, so the hypothesis is not empty there. The other is the induction that leads from each stage to the
last: a law of temporal logic for which the prover has no rule, stated for the
rank in question. `CallDescends`, `LaunchDescends` and `ServeDescends` say of a
number that comes to be lower from wherever it is that it comes to its end;
`Together` says of finitely many things each of which becomes so for good that
there is a moment from which all are (in a model with infinitely many requests it
is an assumption about them). They speak of the rank alone: what each step of
the code does to it is proved.

Only model-checked:

- the four invariants named above, and the laws, on the instances of the runs,
  where the properties that follow from them are checked as well;
- everything about the mutated definitions.

## 5. Plan

1. `TokenRevocation`, `RevocationContract`, `ReadCache`, `RbacStore` - done, with
   their theorems.
2. `RateLimiter`, `Startup`, `Gateway` and `PluginManager` - done, with their safety
   theorems and, as far as the prover goes, those on progress.
3. `ReadContract`, the second abstract specification - done, with its refinement.
4. The properties that only followed from the proved ones by an induction over
   time (`SharedLimitReturns`, `AllServe`, `CallsEnd`, `LaunchEnds`) - done, with that
   induction as a hypothesis.
   To prove next: `FailuresAreLostRaces` beyond the first change, with a history of
   what changed since a select; that the handles of the gateway suffice, given a
   bound on the shadowed services that earlier starts have left behind.
5. Pure algorithms as operators compared with reference definitions: effective
   permissions, the route scopes of the limiter, the merge of languages.

## 6. Not modelled

- The permission middleware (`src/user_role/middlewares.py`) decides from rows it
  has read and changes nothing; login and token signing likewise.
- What the gateway's proxy and the merged OpenAPI document carry, the parsing of
  plugin manifests, the in-process HTTP client and the profiler: data without a
  protocol.
- The merge of languages inside a translation, and the route scopes of a rate
  limit: pure functions of one request.
- Command line and prompts of `super_user.py`; configuration parsing; wiring,
  formatting of errors and documents, logging and validation schemas, which have
  no state of their own.
- Password hashing, JWT encoding, SQLAlchemy, Redis and asyncio are libraries; what
  the code relies on of them (what a flush sends, which errors are swallowed,
  when a key expires) is in the actions, and marked external where a definition
  stands for them alone.
