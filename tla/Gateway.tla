------------------------------- MODULE Gateway -------------------------------
(***************************************************************************)
(* The plugin gateway (gateway_server/gateway.py): its lifespan launches   *)
(* the services one after the other and terminates them in the end, or as  *)
(* soon as one is not ready in time.  If one cannot even be spawned, the   *)
(* exception ends the lifespan and those before it run on.  The core lists *)
(* the services through GET /services and a cache of its own (src/plugins/ *)
(* endpoints.py).                                                          *)
(***************************************************************************)
EXTENDS ServiceProcesses

CONSTANTS
    AutoStarts, \* the directories whose manifest does not say auto_start: false
    Watched,    \* the plugin whose entry in the lists is followed
    MaxStarts,  \* bound: starts of the gateway
    Fetches     \* slots, numbers, for requests of the core that are under way

ASSUME GatewayAssumption ==
    /\ AutoStarts \subseteq Dirs
    /\ Watched \in Names
    /\ MaxStarts \in Nat
    /\ Fetches \subseteq Nat

VARIABLES
    active,  \* ACTIVE_SERVICES: the process of each plugin
    gw,      \* where the gateway's lifespan is
    starts,  \* starts so far
    left,    \* history: the services a launch that raised has left running
    cache,   \* the list the core has cached, expired or not
    fetch    \* fetch[c]: the request in slot c

gatewayVars == <<active, gw, starts, left, cache, fetch>>
lifespanVars == <<active, gw, starts, left>>
listVars == <<cache, fetch>>

\* What a list says of the plugin, and the start of the gateway it was made in.
List == [start : 0 .. MaxStarts, status : {"absent", "running", "stopped"}]
EmptyList == [start |-> 0, status |-> "absent"]
Idle == [pc |-> "idle", list |-> EmptyList, overtaken |-> FALSE]

GatewayTypeOK ==
    /\ active \in [Names -> Pids \union {None}]
    /\ gw \in [pc : {"down", "clearing", "launching", "waiting", "serving", "terminating"},
               at : 1 .. MaxDir + 1, next : Nat, pid : Pids \union {None}, todo : SUBSET Pids]
    /\ starts \in 0 .. MaxStarts
    /\ left \subseteq Pids
    /\ cache \in List
    /\ fetch \in [Fetches -> [pc : {"idle", "answered"}, list : List,
                              overtaken : BOOLEAN]]

Down == [pc |-> "down", at |-> 1, next |-> 1, pid |-> None, todo |-> {}]

GatewayInit ==
    /\ active = [n \in Names |-> None]
    /\ gw = Down
    /\ starts = 0
    /\ left = {}
    /\ cache = EmptyList
    /\ fetch = [c \in Fetches |-> Idle]

Registered == {active[n] : n \in Names} \ {None}

IdleFetches == {c \in Fetches : fetch[c].pc = "idle"}

Unused == {i \in Pids : ~Live(i) /\ i \notin Registered}
-----------------------------------------------------------------------------
(***************************************************************************)
(* lifespan, launch_services, shutdown_services.                           *)
(***************************************************************************)
\* A bug: a start does not look at what the registry holds already.
StartsAtOnce == gw' = [gw EXCEPT !.pc = "launching"]

\* Services that an earlier lifespan has left in the registry are shut down first.
ClearsFirst ==
    gw' = IF Registered = {} THEN [gw EXCEPT !.pc = "launching"]
          ELSE [gw EXCEPT !.pc = "clearing", !.todo = Registered]

GatewayStarts ==
    /\ gw.pc = "down"
    /\ starts < MaxStarts
    /\ starts' = starts + 1
    /\ ClearsFirst
    /\ UNCHANGED <<hostVars, active, left, listVars>>

\* The next directory launch_services does not skip.
IsNextAuto(d) == d \in AutoStarts /\ d >= gw.at /\ \A e \in AutoStarts : e >= gw.at => d <= e

\* A service is registered under its plugin name before it is ready, over any
\* other of that name.
Launch(d) ==
    /\ gw.pc = "launching"
    /\ IsNextAuto(d)
    /\ \E i \in Lowest(Unused) :
         LET q == FreePort(gw.next) IN
         /\ Spawn(i, d, q)
         /\ active' = [active EXCEPT ![Name[d]] = i]
         /\ gw' = [gw EXCEPT !.pc = "waiting", !.at = d + 1, !.next = q + 1, !.pid = i]
         /\ left' = left \ {i}
    /\ UNCHANGED <<starts, listVars>>

\* No port is left or Popen finds no command: the exception leaves the lifespan
\* before its try, and nobody terminates what was launched before.
LaunchRaises(d) ==
    /\ gw.pc = "launching"
    /\ IsNextAuto(d)
    /\ gw' = Down
    /\ left' = left \union Registered
    /\ UNCHANGED <<hostVars, active, starts, listVars>>

\* The server ends when its lifespan does not start, and the registry with it,
\* unless the same process runs the lifespan again.
ServerExits ==
    /\ gw.pc = "down"
    /\ Registered # {}
    /\ active' = [n \in Names |-> None]
    /\ UNCHANGED <<hostVars, gw, starts, left, listVars>>

ServiceReady ==
    /\ gw.pc = "waiting"
    /\ Answers(gw.pid)
    /\ gw' = [gw EXCEPT !.pc = "launching", !.pid = None]
    /\ UNCHANGED <<hostVars, active, starts, left, listVars>>

\* list(registry.values()), then the first await.
Shutdown == gw' = [Down EXCEPT !.pc = "terminating", !.todo = Registered]

\* A bug: only the service that failed is terminated.
ShutdownOne == gw' = [Down EXCEPT !.pc = "terminating", !.todo = {gw.pid}]

\* What a launch does, if a service is not ready, with those launched before.
AfterFailure == Shutdown

LaunchFails ==
    /\ gw.pc = "waiting"
    /\ NotReadyInTime(gw.pid)
    /\ AfterFailure
    /\ UNCHANGED <<hostVars, active, starts, left, listVars>>

Launched ==
    /\ gw.pc = "launching"
    /\ \A d \in AutoStarts : d < gw.at
    /\ gw' = [gw EXCEPT !.pc = "serving"]
    /\ UNCHANGED <<hostVars, active, starts, left, listVars>>

GatewayStops ==
    /\ gw.pc = "serving"
    /\ Shutdown
    /\ UNCHANGED <<hostVars, active, starts, left, listVars>>

\* shutdown_services, of a start or in the end: one after the other.
Terminating == gw.pc \in {"clearing", "terminating"}

TerminateService(i) ==
    /\ Terminating
    /\ Gone(gw.pid)
    /\ i \in gw.todo
    /\ gw' = [gw EXCEPT !.pid = i, !.todo = @ \ {i}]
    /\ UNCHANGED <<hostVars, active, starts, left, listVars>>

\* terminate_process waits for the process, and kills it in the end.
GatewayWaits == Terminating /\ gw.pid \in Pids /\ Live(gw.pid)

GatewayKills == GatewayWaits /\ Dies(gw.pid)

ServicesTerminated ==
    /\ Terminating
    /\ Gone(gw.pid)
    /\ gw.todo = {}
    /\ gw' = [Down EXCEPT !.pc = IF gw.pc = "clearing" THEN "launching" ELSE "down"]
    /\ active' = [n \in Names |-> None]
    /\ left' = left \ Registered
    /\ UNCHANGED <<hostVars, starts, listVars>>
-----------------------------------------------------------------------------
(***************************************************************************)
(* GET /plugins and GET /plugins/{name} of the core, behind a gateway.     *)
(***************************************************************************)
\* list_services of the gateway.
ServiceList ==
    [start |-> starts,
     status |-> IF active[Watched] = None THEN "absent"
                ELSE IF Live(active[Watched]) THEN "running" ELSE "stopped"]

\* A bug: requests are answered while the services are launched.
AnswersEarly == gw.pc \in {"launching", "waiting", "serving"}

\* An ASGI server answers once the startup of the lifespan is complete.
Serves == gw.pc = "serving"

\* The cached list has expired, or the client wants a fresh one: the gateway
\* answers.  Until then the core repeats what it has cached.
GatewayAnswers(c) ==
    /\ c \in Lowest(IdleFetches)
    /\ Serves
    /\ fetch' = [fetch EXCEPT ![c].pc = "answered", ![c].list = ServiceList]
    /\ UNCHANGED <<hostVars, lifespanVars, cache>>

\* The gateway is not there or does not answer in time: the list is empty.
FetchFails(c) ==
    /\ c \in Lowest(IdleFetches)
    /\ fetch' = [fetch EXCEPT ![c].pc = "answered", ![c].list = EmptyList]
    /\ UNCHANGED <<hostVars, lifespanVars, cache>>

\* The answer becomes the cached list, whatever was cached meanwhile.
WriteList(c) ==
    /\ fetch[c].pc = "answered"
    /\ cache' = fetch[c].list
    /\ fetch' = [b \in Fetches |->
                    IF b = c THEN Idle
                    ELSE [fetch[b] EXCEPT !.overtaken = @ \/ fetch[b].pc = "answered"]]
    /\ UNCHANGED <<hostVars, lifespanVars>>
-----------------------------------------------------------------------------
Lifespan ==
    \/ \E d \in Dirs : Launch(d) \/ LaunchRaises(d)
    \/ ServiceReady
    \/ LaunchFails
    \/ Launched
    \/ \E i \in Pids : TerminateService(i)
    \/ ServicesTerminated

ListStep ==
    \E c \in Fetches : GatewayAnswers(c) \/ FetchFails(c) \/ WriteList(c)

GatewayNext == GatewayStarts \/ Lifespan \/ GatewayStops \/ ServerExits \/ ListStep
-----------------------------------------------------------------------------
\* A service directory is shadowed if a later one has the same plugin name.
Shadowed(d) == \E e \in AutoStarts : e > d /\ Name[e] = Name[d]

\* A live service that is not shadowed is registered, and while services are
\* terminated it is waited for or still in the list.
LookedAfter(i) ==
    /\ active[Name[proc[i].dir]] = i
    /\ proc[i].dir \in AutoStarts
    /\ gw.pc \in {"launching", "waiting"} => proc[i].dir < gw.at
    /\ Terminating => i \in gw.todo \union {gw.pid}

\* Or the server that started it has ended after a launch that raised.
Orphan(i) == i \in left \ Registered

GatewayOK ==
    /\ gw.pc = "waiting" => gw.pid \in Pids
    /\ gw.pc = "down" => Registered \subseteq left
    /\ gw.pc \notin {"down", "clearing"} => Registered \intersect left = {}
    /\ \A i \in Pids : Live(i) =>
          Shadowed(proc[i].dir) \/ Orphan(i) \/ LookedAfter(i)

\* A list that names the watched service is of a start that is through with its
\* launch; once one says stopped, no later list of that start says running.
Lists == {cache} \union {fetch[c].list : c \in Fetches}

ListsOK ==
    /\ \A l \in Lists :
          /\ l.start <= starts
          /\ l.start = starts /\ l.status # "absent" =>
                gw.pc \notin {"clearing", "launching", "waiting"}
          /\ l.start = starts /\ l.status = "stopped" /\ gw.pc = "serving" =>
                ServiceList.status # "running"
    /\ \A c \in Fetches :
          /\ fetch[c].pc = "answered" /\ ~fetch[c].overtaken
          /\ cache.status = "stopped" /\ fetch[c].list.start = cache.start
          => fetch[c].list.status # "running"

\* endpoints.py:90-148.  A service that was listed as stopped is not listed as
\* running again before the gateway is started anew, except by an answer that
\* another one has overtaken.
ListStepsForward ==
    cache.status = "stopped" /\ cache'.status = "running" /\ cache.start = cache'.start
    => \E c \in Fetches : fetch[c].pc = "answered" /\ fetch[c].overtaken
                           /\ cache' = fetch[c].list

ListGoesForward == [][ListStepsForward]_cache
=============================================================================
