---------------------------- MODULE PluginManager ----------------------------
(***************************************************************************)
(* The plugin manager (src/plugins/manager.py), which looks after plugin   *)
(* processes inside the core, and the table of plugin mappings (src/       *)
(* plugins/crud.py and the endpoints that change it).  The endpoints write *)
(* the table only; the processes follow when somebody calls the manager.   *)
(* Its calls are coroutines: between their awaits other calls change the   *)
(* registry.                                                               *)
(***************************************************************************)
EXTENDS ServiceProcesses

CONSTANTS
    Installed, \* the directories of services under its PLUGINS_DIR
    Calls,     \* slots, numbers, for calls of the manager under way
    MaxOps     \* bound: calls and changes of the table in all

ASSUME ManagerAssumption ==
    /\ Installed \subseteq Dirs
    /\ MaxOps \in Nat
    /\ Calls \subseteq Nat

VARIABLES
    mapping,  \* mapping[n]: the row of plugin n: none, on (enabled) or off
    registry, \* PluginManager.registry
    call,     \* call[c]: the call in slot c
    ops,      \* calls and changes so far
    raced     \* history: plugins that two calls concerned at a time

managerVars == <<mapping, registry, call, ops, raced>>

NoCall == [kind |-> "none", pc |-> "idle", name |-> None, pid |-> None,
           todo |-> {}, names |-> {}, missing |-> {}, next |-> 1]

ManagerTypeOK ==
    /\ mapping \in [Names -> {"none", "on", "off"}]
    /\ registry \in [Names -> Pids \union {None}]
    /\ call \in [Calls ->
          [kind : {"none", "apply", "startup", "shutdown"},
           pc : {"idle", "terminating", "syncing", "inserting", "starting", "waiting",
                 "ready", "aborting", "disabling"},
           name : Names \union {None},
           pid : Pids \union {None},
           todo : SUBSET Pids,
           names : SUBSET Names,
           missing : SUBSET Names,
           next : Nat]]
    /\ ops \in 0 .. MaxOps
    /\ raced \subseteq Names

\* The table is kept from earlier runs.
ManagerInit ==
    /\ mapping \in [Names -> {"none", "on", "off"}]
    /\ registry = [n \in Names |-> None]
    /\ call = [c \in Calls |-> NoCall]
    /\ ops = 0
    /\ raced = {}

InRegistry == {registry[n] : n \in Names} \ {None}
InHand == UNION {{call[c].pid} \union call[c].todo : c \in Calls}

Free == {i \in Pids : ~Live(i) /\ i \notin InRegistry \union InHand}

\* next(... if service.name == ...), and the dict of the startup.
Found(n) == {d \in Installed : Name[d] = n}
FirstDir(n) == CHOOSE d \in Found(n) : \A e \in Found(n) : d <= e
LastDir(n) == CHOOSE d \in Found(n) : \A e \in Found(n) : d >= e
Discovered == {Name[d] : d \in Installed}

\* Bound: a call begins only if there are handles for all processes it and the
\* others may spawn.
ToStart == UNION {
    {c} \X (IF call[c].kind # "startup" THEN {}
            ELSE IF call[c].pc \in {"terminating", "syncing"} THEN Discovered
            ELSE call[c].names) : c \in Calls}
RoomFor(n) == Cardinality(Free) >= n + Cardinality(ToStart)

Operate == ops < MaxOps /\ ops' = ops + 1
-----------------------------------------------------------------------------
(***************************************************************************)
(* The table.                                                              *)
(***************************************************************************)
\* create_plugin_mapping, set_plugin_enabled and delete_plugin_mapping, each
\* with the commit of its endpoint.
CreateMapping(n, v) ==
    /\ mapping[n] = "none"
    /\ Operate
    /\ mapping' = [mapping EXCEPT ![n] = v]
    /\ UNCHANGED <<hostVars, registry, call, raced>>

SetEnabled(n, v) ==
    /\ mapping[n] \notin {"none", v}
    /\ Operate
    /\ mapping' = [mapping EXCEPT ![n] = v]
    /\ UNCHANGED <<hostVars, registry, call, raced>>

DeleteMapping(n) ==
    /\ mapping[n] # "none"
    /\ Operate
    /\ mapping' = [mapping EXCEPT ![n] = "none"]
    /\ UNCHANGED <<hostVars, registry, call, raced>>
-----------------------------------------------------------------------------
(***************************************************************************)
(* Calls.                                                                  *)
(***************************************************************************)
Concerns(c) ==
    IF call[c].kind = "apply" THEN {call[c].name}
    ELSE IF call[c].kind = "none" THEN {} ELSE Names

Begin(c, S, record) ==
    /\ c \in Lowest({b \in Calls : call[b] = NoCall})
    /\ Operate
    /\ call' = [call EXCEPT ![c] = record]
    /\ raced' = raced \union {n \in S : \E b \in Calls : n \in Concerns(b)}

Continue(c, record) ==
    /\ call' = [call EXCEPT ![c] = record]
    /\ UNCHANGED <<ops, raced>>

\* A bug: a process that is alive is not looked for.
NeverRuns(n) == FALSE

\* is_running.
IsRunning(n) == registry[n] # None /\ Live(registry[n])

\* apply_mapping_state of a mapping that is enabled.  One that runs is left; one
\* that cannot be spawned changes nothing.
Enable(c, n) ==
    /\ mapping[n] = "on"
    /\ n \in Discovered
    /\ ~IsRunning(n)
    /\ RoomFor(1)
    /\ \E i \in Lowest(Free) :
         /\ Spawn(i, FirstDir(n), FreePort(1))
         /\ Begin(c, {n}, [NoCall EXCEPT !.kind = "apply", !.pc = "waiting",
                                         !.name = n, !.pid = i])
    /\ UNCHANGED <<mapping, registry>>

\* ... and of one that is not: what is registered is terminated.
Disable(c, n) ==
    /\ mapping[n] = "off"
    /\ registry[n] # None
    /\ Begin(c, {n}, [NoCall EXCEPT !.kind = "apply", !.pc = "disabling",
                                    !.name = n, !.pid = registry[n]])
    /\ UNCHANGED <<hostVars, mapping, registry>>

\* Whatever is registered by now is dropped.
Disabled(c) ==
    /\ call[c].pc = "disabling"
    /\ Gone(call[c].pid)
    /\ registry' = [registry EXCEPT ![call[c].name] = None]
    /\ Continue(c, NoCall)
    /\ UNCHANGED <<hostVars, mapping>>

\* wait_for_service_ready returns.
Ready(c) ==
    /\ call[c].pc = "waiting"
    /\ Answers(call[c].pid)
    /\ Continue(c, [call[c] EXCEPT !.pc = "ready"])
    /\ UNCHANGED <<hostVars, mapping, registry>>

\* A bug: a service that is not ready in time is left to itself.
Abandon(c) == Continue(c, NoCall)

\* terminate_process; then the exception goes on.
Abort(c) ==
    Continue(c, [NoCall EXCEPT !.kind = call[c].kind, !.pc = "aborting",
                               !.name = call[c].name, !.pid = call[c].pid])

NotReady(c) ==
    /\ call[c].pc = "waiting"
    /\ NotReadyInTime(call[c].pid)
    /\ Abort(c)
    /\ UNCHANGED <<hostVars, mapping, registry>>

\* terminate_process waits for the process of the call, and kills it in the end.
CallWaits(c) ==
    /\ call[c].pc \in {"terminating", "aborting", "disabling"}
    /\ call[c].pid \in Pids
    /\ Live(call[c].pid)

CallKills(c) == CallWaits(c) /\ Dies(call[c].pid)

Aborted(c) ==
    /\ call[c].pc = "aborting"
    /\ Gone(call[c].pid)
    /\ Continue(c, NoCall)
    /\ UNCHANGED <<hostVars, mapping, registry>>

\* The OpenAPI document is fetched or not; the process is registered, over any
\* other.  A startup goes on with the next mapping.
Register(c) ==
    /\ call[c].pc = "ready"
    /\ registry' = [registry EXCEPT ![call[c].name] = call[c].pid]
    /\ Continue(c, IF call[c].kind = "apply" THEN NoCall
                   ELSE [call[c] EXCEPT !.pc = "starting", !.name = None, !.pid = None])
    /\ UNCHANGED <<hostVars, mapping>>

\* startup and shutdown: shutdown_services first.
BeginShutdown(c, kind) ==
    /\ kind = "startup" => RoomFor(Cardinality(Discovered))
    /\ Begin(c, Names, [NoCall EXCEPT !.kind = kind, !.pc = "terminating",
                                      !.todo = InRegistry])
    /\ UNCHANGED <<hostVars, mapping, registry>>

Terminate(c, i) ==
    /\ call[c].pc = "terminating"
    /\ Gone(call[c].pid)
    /\ i \in call[c].todo
    /\ Continue(c, [call[c] EXCEPT !.pid = i, !.todo = @ \ {i}])
    /\ UNCHANGED <<hostVars, mapping, registry>>

Terminated(c) ==
    /\ call[c].pc = "terminating"
    /\ Gone(call[c].pid)
    /\ call[c].todo = {}
    /\ registry' = [n \in Names |-> None]
    /\ Continue(c, IF call[c].kind = "shutdown" THEN NoCall
                   ELSE [call[c] EXCEPT !.pc = "syncing", !.pid = None])
    /\ UNCHANGED <<hostVars, mapping>>

\* sync_plugin_mappings: select.  The enabled rows of services, and those that
\* will be, are the plugins to start.
SelectMappings(c) ==
    LET new == {n \in Discovered : mapping[n] = "none"} IN
    /\ call[c].pc = "syncing"
    /\ Continue(c, [call[c] EXCEPT !.pc = IF new = {} THEN "starting" ELSE "inserting",
                                   !.names = {n \in Discovered : mapping[n] # "off"},
                                   !.missing = new])
    /\ UNCHANGED <<hostVars, mapping, registry>>

\* The flush inserts a row per service, so two of one name are in conflict, or
\* one with a row that was created meanwhile: the startup raises.
InsertsConflict(c) ==
    \E n \in call[c].missing : mapping[n] # "none" \/ Cardinality(Found(n)) > 1

InsertMappings(c) ==
    /\ call[c].pc = "inserting"
    /\ ~InsertsConflict(c)
    /\ mapping' = [n \in Names |-> IF n \in call[c].missing THEN "on" ELSE mapping[n]]
    /\ Continue(c, [call[c] EXCEPT !.pc = "starting", !.missing = {}])
    /\ UNCHANGED <<hostVars, registry>>

SyncFails(c) ==
    /\ call[c].pc = "inserting"
    /\ InsertsConflict(c)
    /\ Continue(c, NoCall)
    /\ UNCHANGED <<hostVars, mapping, registry>>

StartNext(c, n) ==
    /\ call[c].pc = "starting"
    /\ n \in call[c].names
    /\ \E i \in Lowest(Free) :
         LET q == FreePort(call[c].next) IN
         /\ Spawn(i, LastDir(n), q)
         /\ Continue(c, [call[c] EXCEPT !.pc = "waiting", !.name = n, !.pid = i,
                                        !.names = @ \ {n}, !.next = q + 1])
    /\ UNCHANGED <<mapping, registry>>

\* No port is left or Popen finds no command: the startup ends, and what it has
\* registered stays so.
StartRaises(c) ==
    /\ call[c].pc = "starting"
    /\ call[c].names # {}
    /\ Continue(c, NoCall)
    /\ UNCHANGED <<hostVars, mapping, registry>>

Started(c) ==
    /\ call[c].pc = "starting"
    /\ call[c].names = {}
    /\ Continue(c, NoCall)
    /\ UNCHANGED <<hostVars, mapping, registry>>
-----------------------------------------------------------------------------
CallStep(c) ==
    \/ Disabled(c) \/ Ready(c) \/ NotReady(c) \/ Aborted(c) \/ Register(c)
    \/ Terminated(c) \/ SelectMappings(c) \/ InsertMappings(c) \/ SyncFails(c)
    \/ StartRaises(c) \/ Started(c)
    \/ \E i \in Pids : Terminate(c, i)
    \/ \E n \in Names : StartNext(c, n)

NewCall(c) ==
    \/ \E n \in Names : Enable(c, n) \/ Disable(c, n)
    \/ \E kind \in {"startup", "shutdown"} : BeginShutdown(c, kind)

Table ==
    \/ \E n \in Names, v \in {"on", "off"} : CreateMapping(n, v) \/ SetEnabled(n, v)
    \/ \E n \in Names : DeleteMapping(n)

ManagerNext == Table \/ \E c \in Calls : NewCall(c) \/ CallStep(c)
-----------------------------------------------------------------------------
Holds(c, i) == call[c].pid = i \/ i \in call[c].todo

Alive(n) == {i \in Pids : Live(i) /\ Name[proc[i].dir] = n}

\* How far a call is with a plugin that concerns no other call.
CallOK(c) ==
    /\ call[c].kind = "none" <=> call[c] = NoCall
    /\ call[c].kind = "apply" =>
          call[c].pc \in {"waiting", "ready", "aborting", "disabling"} /\ call[c].names = {}
    /\ call[c].pc \in {"waiting", "ready", "aborting", "disabling"} =>
          call[c].name \in Names /\ call[c].pid \in Pids
    /\ call[c].pc \in {"terminating", "syncing", "inserting", "starting"} => call[c].name = None
    /\ call[c].pc = "disabling" => call[c].kind = "apply"
    /\ call[c].kind = "shutdown" => call[c].pc = "terminating"
    /\ call[c].names \subseteq Discovered
    /\ call[c].pc \in {"terminating", "syncing"} => call[c].names = {}

SoleCallOK(c, n) ==
    /\ call[c].pc = "terminating" => Alive(n) \subseteq {call[c].pid} \union call[c].todo
    /\ call[c].name = n => Alive(n) \subseteq {call[c].pid}
    /\ call[c].pc # "terminating" /\ call[c].name # n => Alive(n) \subseteq {registry[n]}
    /\ call[c].pc = "syncing" \/ n \in call[c].names => Alive(n) = {}

PluginOK(n) ==
    /\ \A i, j \in Alive(n) : i = j
    /\ \A b, c \in Calls : n \in Concerns(b) \intersect Concerns(c) => b = c
    /\ \A c \in Calls : n \in Concerns(c) => SoleCallOK(c, n)
    /\ (\A c \in Calls : n \notin Concerns(c)) => Alive(n) \subseteq {registry[n]}

ManagerOK ==
    /\ \A c \in Calls : CallOK(c)
    /\ \A n \in Names \ raced : PluginOK(n)
=============================================================================
