------------------------------- MODULE Plugins -------------------------------
(***************************************************************************)
(* The two ways to run plugins (docs/plugin_manager_architecture.md): a    *)
(* gateway that starts the services and a core that lists them, or a core  *)
(* that starts them itself.  docker-compose.yml sets PLUGIN_GATEWAY_URL    *)
(* and switches the manager off: a host has one of the two.                *)
(***************************************************************************)
EXTENDS Gateway, PluginManager

VARIABLE deployment \* gateway or manager

vars == <<hostVars, gatewayVars, managerVars, deployment>>

Init ==
    /\ deployment \in {"gateway", "manager"}
    /\ HostInit
    /\ GatewayInit
    /\ ManagerInit
    /\ deployment = "gateway" => mapping = [n \in Names |-> "none"]

GatewaySteps ==
    GatewayNext /\ deployment = "gateway" /\ UNCHANGED <<managerVars, deployment>>

ManagerSteps ==
    ManagerNext /\ deployment = "manager" /\ UNCHANGED <<gatewayVars, deployment>>

ProcessSteps == HostNext /\ UNCHANGED <<gatewayVars, managerVars, deployment>>

Next == GatewaySteps \/ ManagerSteps \/ ProcessSteps

(***************************************************************************)
(* Coroutines go on: a probe is answered or its deadline passes, a fetch   *)
(* has a timeout, and a process that was signalled ends or is killed.      *)
(* No service has to bind its port, and nobody has to call the manager.    *)
(***************************************************************************)
LifespanStep == Lifespan /\ UNCHANGED <<managerVars, deployment>>
Step(c) == CallStep(c) /\ UNCHANGED <<gatewayVars, deployment>>
LifespanKills == GatewayKills /\ UNCHANGED <<gatewayVars, managerVars, deployment>>
StepKills(c) == CallKills(c) /\ UNCHANGED <<gatewayVars, managerVars, deployment>>

LifespanGoesOn == WF_vars(LifespanStep)
LifespanWaitEnds == WF_vars(LifespanKills)
CallGoesOn(c) == WF_vars(Step(c))
CallWaitEnds(c) == WF_vars(StepKills(c))

Fairness ==
    /\ LifespanGoesOn /\ LifespanWaitEnds
    /\ \A c \in Calls : CallGoesOn(c) /\ CallWaitEnds(c)

Spec == Init /\ [][Next]_vars /\ Fairness
-----------------------------------------------------------------------------
TypeOK ==
    /\ HostTypeOK
    /\ GatewayTypeOK
    /\ ManagerTypeOK
    /\ deployment \in {"gateway", "manager"}

IInv ==
    /\ TypeOK
    /\ PortsExclusive
    /\ PortsApart
    /\ deployment = "gateway" => GatewayOK /\ ListsOK
    /\ deployment = "manager" => ManagerOK

\* gateway.py:391-465 and 481-518.  After a stop, or a launch in which a service was
\* not ready in time, none of the services that start has launched is alive, save
\* the shadowed ones.  What is alive was left by a launch that raised.
StopsServices ==
    deployment = "gateway" /\ gw.pc = "down" =>
        \A i \in Pids : Live(i) => Shadowed(proc[i].dir) \/ i \in left

\* gateway.py:501-513.  While a gateway launches, serves or stops, no service is
\* registered, listed and proxied to that an earlier start has left behind.
RegistryIsNew ==
    gw.pc \notin {"down", "clearing"} => Registered \intersect left = {}

\* manager.py:198-231 and 66-106.  A live process of a plugin that no two calls
\* have concerned at a time is registered or in the hands of a call: it is the
\* only one of its plugin, and will be found when it has to be terminated.
OrphansNeedRaces ==
    deployment = "manager" => \A i \in Pids : Live(i) =>
        LET n == Name[proc[i].dir] IN
        n \notin raced =>
            /\ registry[n] = i \/ \E c \in Calls : Holds(c, i)
            /\ \A j \in Pids : Live(j) /\ Name[proc[j].dir] = n => j = i

\* gateway.py:216-228, 337-360 and 583-626.  Whoever answers for a registered
\* service is that service, unless one of the two was spawned while another was
\* starting: a port that is probed and released is not lost to a sequential start.
PortsAreOwn ==
    \A i \in Registered \union InRegistry : \A j \in Answering(i) :
        i = j \/ {i, j} \intersect hurried # {}

\* gateway.py:391-485.  A gateway that launches or stops gets through with it.
LaunchEnds ==
    gw.pc \notin {"serving", "down"} ~> gw.pc \in {"serving", "down"}

\* manager.py:66-231.  So does a call of the manager, whatever else is called.
CallsEnd == \A c \in Calls : call[c] # NoCall ~> call[c] = NoCall

\* What the gateway can do while it launches or stops, and a call all the time.
LaunchCanGoOn ==
    gw.pc \notin {"serving", "down"} =>
        IF GatewayWaits THEN ENABLED <<LifespanKills>>_vars ELSE ENABLED <<LifespanStep>>_vars

CallsCanGoOn ==
    \A c \in Calls : call[c] # NoCall =>
        IF CallWaits(c) THEN ENABLED <<StepKills(c)>>_vars ELSE ENABLED <<Step(c)>>_vars

\* gateway.py:391-485, manager.py:66-231.  Neither waits for the
\* other calls or for a service to come up: whatever they find, they can go on,
\* or the process they wait for can be killed.
EverybodyCanGoOn == LaunchCanGoOn /\ CallsCanGoOn
=============================================================================
