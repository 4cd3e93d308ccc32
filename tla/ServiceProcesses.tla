--------------------------- MODULE ServiceProcesses ---------------------------
(***************************************************************************)
(* The processes of plugin services on one host, and what the gateway      *)
(* (gateway_server/gateway.py) and the plugin manager (src/plugins/        *)
(* manager.py) share to look after them: finding a free port, spawning,    *)
(* probing, terminating.                                                   *)
(*                                                                         *)
(* A port is found free by binding and releasing it.  The service binds it *)
(* some time after it is spawned (run.sh may install packages first), so   *)
(* another process may have taken it by then; the service exits.  The      *)
(* probe is answered by whichever process holds the port.                  *)
(***************************************************************************)
EXTENDS Integers, FiniteSets

CONSTANTS
    MaxDir,     \* service directories are 1 .. MaxDir, in the order of their names
    Names,      \* plugin names
    Name,       \* Name[d]: the plugin name in the manifest of d, not unique
    MaxPid,     \* bound: processes at once, dead ones that are referred to too
    None

Dirs == 1 .. MaxDir
Pids == 1 .. MaxPid

ASSUME HostAssumption ==
    /\ MaxDir \in Nat /\ MaxPid \in Nat
    /\ Name \in [Dirs -> Names]
    /\ None \notin Names /\ None \notin Pids

VARIABLES
    proc,    \* proc[i]: the process with the handle i
    hurried  \* history: processes spawned while another was starting

hostVars == <<proc, hurried>>

Process == [dir : Dirs, port : Nat, st : {"starting", "up"}]
Exited == [dir |-> 0, port |-> 0, st |-> "exited"]

HostTypeOK ==
    /\ proc \in [Pids -> Process \union {Exited}]
    /\ hurried \subseteq Pids

HostInit ==
    /\ proc = [i \in Pids |-> Exited]
    /\ hurried = {}

\* process.poll() is None.
Live(i) == proc[i].st # "exited"
Up(i) == proc[i].st = "up"

Busy(q) == \E i \in Pids : Up(i) /\ proc[i].port = q

\* A bug: the first port is taken without a probe.
FirstPort(from) == from

\* allocate_free_port: the first port from the start on that can be bound.  One
\* of MaxPid + 1 ports is not held by a service.
FreePort(from) ==
    CHOOSE q \in from .. from + MaxPid : ~Busy(q) /\ \A p \in from .. q - 1 : Busy(p)

\* Handles are alike, and slots: a new process or request gets the lowest.
Lowest(S) == {i \in S : \A j \in S : i <= j}

\* Popen.
Spawn(i, d, q) ==
    /\ proc' = [proc EXCEPT ![i] = [dir |-> d, port |-> q, st |-> "starting"]]
    /\ hurried' = IF \E j \in Pids : proc[j].st = "starting"
                  THEN hurried \union {i} ELSE hurried

\* Who answers a request to the base_url of i, if i is found alive: proxy_request.
Answering(i) == {j \in Pids : Live(i) /\ Up(j) /\ proc[j].port = proc[i].port}

\* wait_for_service_ready: somebody does.
Answers(i) == Answering(i) # {}

\* A bug: the probe is repeated for ever.
NoDeadline == FALSE

\* The time a probe is repeated for may be over.
Deadline == TRUE

\* RuntimeError: i has exited, or it is too late.
NotReadyInTime(i) == Live(i) => Deadline

\* terminate_process(i) returns at once if i has exited.  Else it signals i and
\* waits; after ten seconds i is killed.
Gone(i) == i # None => ~Live(i)
-----------------------------------------------------------------------------
Exit(i) ==
    /\ proc' = [proc EXCEPT ![i] = Exited]
    /\ hurried' = hurried \ {i}

Bind(i) ==
    /\ proc[i].st = "starting"
    /\ ~Busy(proc[i].port)
    /\ proc' = [proc EXCEPT ![i].st = "up"]
    /\ UNCHANGED hurried

PortTaken(i) ==
    /\ proc[i].st = "starting"
    /\ Busy(proc[i].port)
    /\ Exit(i)

\* A service crashes, obeys the signal, or finds its port taken by a program that
\* is none of the services.
Dies(i) == Live(i) /\ Exit(i)

HostNext == \E i \in Pids : Bind(i) \/ PortTaken(i) \/ Dies(i)

\* No two processes hold one port.
PortsExclusive ==
    \A i, j \in Pids : Up(i) /\ Up(j) /\ proc[i].port = proc[j].port => i = j

\* No two are meant to, unless one was spawned while another was starting.
PortsApart ==
    \A i, j \in Pids :
        Live(i) /\ Live(j) /\ proc[i].port = proc[j].port
        => i = j \/ {i, j} \intersect hurried # {}
=============================================================================
