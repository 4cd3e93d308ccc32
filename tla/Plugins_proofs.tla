--------------------------- MODULE Plugins_proofs ---------------------------
(***************************************************************************)
(* Proofs about Plugins and the modules it is made of, for every number of *)
(* service directories, processes, calls and starts, and every assignment  *)
(* of names to directories.                                                *)
(***************************************************************************)
EXTENDS Plugins, FiniteSetTheorems, WellFoundedInduction, TLAPS

USE HostAssumption, GatewayAssumption, ManagerAssumption

-----------------------------------------------------------------------------
(***************************************************************************)
(* Least and greatest numbers, and what they choose.                       *)
(***************************************************************************)
LEMMA LeastNatural ==
    ASSUME NEW S \in SUBSET Nat, S # {}
    PROVE  \E m \in S : \A k \in S : m <= k
<1> DEFINE R == OpToRel(<, Nat)
<1>1. IsWellFoundedOn(R, Nat)
    BY NatLessThanWellFounded
<1>2. \A x, y \in Nat : <<y, x>> \in R <=> y < x
    BY DEF OpToRel
<1> HIDE DEF R
<1>3. PICK m \in S : \A k \in S : ~(<<k, m>> \in R)
    BY <1>1, WFMin
<1>4. ASSUME NEW k \in S
      PROVE  m <= k
    <2>1. k \in Nat /\ m \in Nat
        OBVIOUS
    <2>2. ~(k < m)
        BY <1>2, <1>3, <2>1
    <2>3. QED
        BY <2>1, <2>2
<1>5. QED
    BY <1>4

LEMMA GreatestUpTo ==
    ASSUME NEW n \in Nat, NEW S \in SUBSET (1 .. n), S # {}
    PROVE  \E m \in S : \A k \in S : m >= k
<1> DEFINE T == {n - k : k \in S}
<1>1. \A k \in S : k \in 1 .. n
    OBVIOUS
<1>2. T \in SUBSET Nat /\ T # {}
    <2>1. \A k \in S : n - k \in Nat
        BY <1>1
    <2>2. QED
        BY <2>1
<1>3. PICK t \in T : \A u \in T : t <= u
    BY <1>2, LeastNatural
<1>4. PICK m \in S : t = n - m
    OBVIOUS
<1>5. ASSUME NEW k \in S
      PROVE  m >= k
    <2>1. n - m <= n - k
        BY <1>3, <1>4
    <2>2. QED
        BY <1>1, <2>1
<1>6. QED
    BY <1>5

\* allocate_free_port finds a port that no service holds: there are fewer
\* services than ports it would try.
LEMMA FreePortIsFree ==
    ASSUME HostTypeOK, NEW from \in Nat
    PROVE  FreePort(from) \in Nat /\ ~Busy(FreePort(from))
<1> DEFINE tried == from .. from + MaxPid
           free == {q \in tried : ~Busy(q)}
           holder(q) == CHOOSE i \in Pids : Up(i) /\ proc[i].port = q
<1>1. free # {}
    <2> SUFFICES ASSUME free = {}
                 PROVE  FALSE
        OBVIOUS
    <2> DEFINE f == [q \in tried |-> holder(q)]
    <2>1. \A q \in tried : holder(q) \in Pids /\ proc[holder(q)].port = q
        BY DEF Busy
    <2>2. f \in [tried -> Pids]
        BY <2>1
    <2>3. /\ IsFiniteSet(tried) /\ Cardinality(tried) = MaxPid + 1
          /\ IsFiniteSet(Pids) /\ Cardinality(Pids) = MaxPid
        <3>1. /\ IsFiniteSet(tried)
              /\ Cardinality(tried) = IF from > from + MaxPid THEN 0 ELSE from + MaxPid - from + 1
            BY FS_Interval
        <3>2. /\ IsFiniteSet(1 .. MaxPid)
              /\ Cardinality(1 .. MaxPid) = IF 1 > MaxPid THEN 0 ELSE MaxPid - 1 + 1
            BY FS_Interval
        <3>3. QED
            BY <3>1, <3>2 DEF Pids
    <2>4. PICK x, y \in tried : x # y /\ f[x] = f[y]
        <3> HIDE DEF tried, f
        <3>1. Cardinality(Pids) < Cardinality(tried)
            BY <2>3
        <3>2. QED
            BY <2>2, <2>3, <3>1, FS_PigeonHole
    <2>5. QED
        BY <2>1, <2>4
<1>2. free \in SUBSET Nat
    OBVIOUS
<1>3. PICK m \in free : \A k \in free : m <= k
    BY <1>1, <1>2, LeastNatural
<1>4. m \in tried /\ ~Busy(m) /\ \A p \in from .. m - 1 : Busy(p)
    <2>1. ASSUME NEW p \in from .. m - 1, ~Busy(p)
          PROVE  FALSE
        <3>1. m \in tried
            OBVIOUS
        <3>2. p \in tried /\ p < m
            BY <3>1
        <3>3. p \in free
            BY <2>1, <3>2
        <3>4. m <= p /\ m \in Nat /\ p \in Nat
            BY <1>3, <3>1, <3>2, <3>3
        <3>5. QED
            BY <3>2, <3>4
    <2>2. QED
        BY <2>1
<1>5. FreePort(from) \in tried /\ ~Busy(FreePort(from))
    BY <1>4 DEF FreePort
<1>6. QED
    BY <1>5

\* The directory a plugin is started from is one of that name.
LEMMA FoundDirs ==
    ASSUME NEW n \in Discovered
    PROVE  /\ FirstDir(n) \in Dirs /\ Name[FirstDir(n)] = n
           /\ LastDir(n) \in Dirs /\ Name[LastDir(n)] = n
<1>1. Found(n) # {} /\ Found(n) \in SUBSET (1 .. MaxDir)
    BY DEF Found, Discovered, Dirs
<1>2. \E d \in Found(n) : \A e \in Found(n) : d <= e
    <2>1. Found(n) \in SUBSET Nat
        BY <1>1
    <2>2. QED
        BY <1>1, <2>1, LeastNatural
<1>3. \E d \in Found(n) : \A e \in Found(n) : d >= e
    BY <1>1, GreatestUpTo
<1>4. FirstDir(n) \in Found(n)
    BY <1>2 DEF FirstDir
<1>5. LastDir(n) \in Found(n)
    BY <1>3 DEF LastDir
<1>6. QED
    BY <1>4, <1>5 DEF Found

-----------------------------------------------------------------------------
(***************************************************************************)
(* The processes of a host.                                                *)
(***************************************************************************)
HostOK == HostTypeOK /\ PortsExclusive /\ PortsApart

LEMMA ProcessIsLive ==
    ASSUME HostTypeOK, NEW i \in Pids
    PROVE  /\ Live(i) <=> proc[i] \in Process
           /\ Live(i) <=> proc[i] # Exited
           /\ Live(i) => proc[i].dir \in Dirs /\ Name[proc[i].dir] \in Names
           /\ proc[i].st \in {"starting", "up", "exited"}
           /\ Up(i) => Live(i)
    BY DEF HostTypeOK, Live, Up, Process, Exited

\* A process that is spawned is new, and nobody holds its port.
LEMMA SpawnOK ==
    ASSUME HostOK, NEW i \in Pids, NEW d \in Dirs, NEW q \in Nat, ~Live(i), ~Busy(q),
           Spawn(i, d, q)
    PROVE  /\ HostOK'
           /\ \A j \in Pids : j # i => proc'[j] = proc[j]
           /\ proc'[i].dir = d /\ Live(i)'
<1>1. /\ proc' = [proc EXCEPT ![i] = [dir |-> d, port |-> q, st |-> "starting"]]
      /\ proc \in [Pids -> Process \union {Exited}]
      /\ hurried \subseteq Pids
    BY DEF Spawn, HostOK, HostTypeOK
<1>2. /\ proc'[i] = [dir |-> d, port |-> q, st |-> "starting"]
      /\ \A j \in Pids : j # i => proc'[j] = proc[j]
    BY <1>1
<1>3. HostTypeOK'
    BY <1>1 DEF Spawn, HostTypeOK, Process
<1>4. PortsExclusive'
    BY <1>2 DEF HostOK, PortsExclusive, Up
<1>5. PortsApart'
    <2> SUFFICES ASSUME NEW j \in Pids, j # i, Live(j), proc[j].port = q
                 PROVE  i \in hurried'
        BY <1>2 DEF HostOK, PortsApart, Live, Spawn
    <2>1. proc[j].st = "starting"
        BY ProcessIsLive DEF HostOK, Busy, Live, Up
    <2>2. QED
        BY <2>1 DEF Spawn
<1>6. QED
    BY <1>2, <1>3, <1>4, <1>5 DEF HostOK, Live

\* A step of a process starts none and keeps its directory.
LEMMA HostStepOK ==
    ASSUME HostOK, HostNext
    PROVE  /\ HostOK'
           /\ \A j \in Pids : Live(j)' => Live(j) /\ proc'[j].dir = proc[j].dir
<1>1. /\ proc \in [Pids -> Process \union {Exited}]
      /\ hurried \subseteq Pids
    BY DEF HostOK, HostTypeOK
<1>2. ASSUME NEW i \in Pids, Bind(i)
      PROVE  /\ HostOK'
             /\ \A j \in Pids : Live(j)' => Live(j) /\ proc'[j].dir = proc[j].dir
    <2>1. /\ proc[i] \in Process /\ proc[i].st = "starting" /\ ~Busy(proc[i].port)
          /\ proc' = [proc EXCEPT ![i].st = "up"] /\ hurried' = hurried
        BY <1>1, <1>2 DEF Bind, Exited
    <2>2. /\ proc'[i] = [proc[i] EXCEPT !.st = "up"] /\ proc'[i] \in Process
          /\ proc'[i].st = "up" /\ proc'[i].port = proc[i].port /\ proc'[i].dir = proc[i].dir
          /\ \A j \in Pids : j # i => proc'[j] = proc[j]
        BY <1>1, <2>1 DEF Process
    <2>3. HostTypeOK'
        BY <1>1, <2>1, <2>2 DEF HostTypeOK
    <2>4. PortsExclusive'
        BY <2>1, <2>2 DEF HostOK, PortsExclusive, Up, Busy
    <2>5. PortsApart'
        BY <2>1, <2>2 DEF HostOK, PortsApart, Live
    <2>6. QED
        BY <2>1, <2>2, <2>3, <2>4, <2>5 DEF HostOK, Live
<1>3. ASSUME NEW i \in Pids, Exit(i)
      PROVE  /\ HostOK'
             /\ \A j \in Pids : Live(j)' => Live(j) /\ proc'[j].dir = proc[j].dir
    <2>1. /\ proc'[i] = Exited /\ hurried' = hurried \ {i}
          /\ \A j \in Pids : j # i => proc'[j] = proc[j]
        BY <1>1, <1>3 DEF Exit
    <2>2. HostTypeOK'
        BY <1>1, <1>3, <2>1 DEF HostTypeOK, Exit
    <2>3. PortsExclusive'
        BY <2>1 DEF HostOK, PortsExclusive, Up, Exited
    <2>4. PortsApart'
        BY <2>1 DEF HostOK, PortsApart, Live, Exited
    <2>5. QED
        BY <2>1, <2>2, <2>3, <2>4 DEF HostOK, Live, Exited
<1>4. QED
    BY <1>2, <1>3 DEF HostNext, PortTaken, Dies

-----------------------------------------------------------------------------
(***************************************************************************)
(* The gateway.                                                            *)
(***************************************************************************)
LEMMA Chosen ==
    ASSUME NEW S, NEW i \in Lowest(S)
    PROVE  i \in S
    BY DEF Lowest

LEMMA RegisteredOnes ==
    ASSUME GatewayTypeOK
    PROVE  /\ Registered \subseteq Pids
           /\ \A n \in Names : active[n] # None => active[n] \in Registered
           /\ \A i \in Pids, n \in Names : active[n] = i => i \in Registered
    BY DEF GatewayTypeOK, Registered

LEMMA LaunchSpawns ==
    ASSUME HostOK, GatewayTypeOK, NEW d \in Dirs, Launch(d)
    PROVE  \E i \in Unused :
              /\ Spawn(i, d, FreePort(gw.next))
              /\ active' = [active EXCEPT ![Name[d]] = i]
              /\ gw' = [gw EXCEPT !.pc = "waiting", !.at = d + 1,
                                  !.next = FreePort(gw.next) + 1, !.pid = i]
              /\ left' = left \ {i}
              /\ HostOK'
              /\ \A j \in Pids : j # i => proc'[j] = proc[j]
              /\ proc'[i].dir = d /\ Live(i)'
<1>1. gw.next \in Nat
    BY DEF GatewayTypeOK
<1>2. FreePort(gw.next) \in Nat /\ ~Busy(FreePort(gw.next))
    BY <1>1, FreePortIsFree DEF HostOK
<1>3. PICK i \in Lowest(Unused) :
         /\ Spawn(i, d, FreePort(gw.next))
         /\ active' = [active EXCEPT ![Name[d]] = i]
         /\ gw' = [gw EXCEPT !.pc = "waiting", !.at = d + 1,
                             !.next = FreePort(gw.next) + 1, !.pid = i]
         /\ left' = left \ {i}
    BY DEF Launch
<1>4. i \in Unused /\ i \in Pids /\ ~Live(i)
    BY <1>3, Chosen DEF Unused
<1>5. QED
    BY <1>2, <1>3, <1>4, SpawnOK

LEMMA GatewayTyped ==
    ASSUME HostOK, GatewayTypeOK, GatewayNext
    PROVE  GatewayTypeOK'
<1> USE DEF GatewayTypeOK
<1> DEFINE GW == [pc : {"down", "clearing", "launching", "waiting", "serving", "terminating"},
                  at : 1 .. MaxDir + 1, next : Nat, pid : Pids \union {None},
                  todo : SUBSET Pids]
<1>1. gw \in GW /\ Registered \in SUBSET Pids
    BY RegisteredOnes
<1>2. Down \in GW
    <2>1. 1 \in 1 .. MaxDir + 1
        OBVIOUS
    <2>2. QED
        BY <2>1 DEF Down
<1>3. CASE GatewayStarts
    <2>1. gw' \in GW
        BY <1>1, <1>3 DEF GatewayStarts, ClearsFirst
    <2>2. QED
        BY <1>3, <2>1 DEF GatewayStarts, listVars
<1>4. ASSUME NEW d \in Dirs, Launch(d)
      PROVE  GatewayTypeOK'
    <2>1. PICK i \in Unused :
              /\ active' = [active EXCEPT ![Name[d]] = i]
              /\ gw' = [gw EXCEPT !.pc = "waiting", !.at = d + 1,
                                  !.next = FreePort(gw.next) + 1, !.pid = i]
              /\ left' = left \ {i}
        BY <1>4, LaunchSpawns
    <2>2. i \in Pids /\ Name[d] \in Names /\ d + 1 \in 1 .. MaxDir + 1
        BY DEF Unused, Dirs
    <2>3. FreePort(gw.next) + 1 \in Nat
        BY <1>1, FreePortIsFree DEF HostOK
    <2>4. gw' \in GW
        BY <1>1, <2>1, <2>2, <2>3
    <2>5. active' \in [Names -> Pids \union {None}] /\ left' \subseteq Pids
        BY <2>1, <2>2
    <2>6. UNCHANGED <<starts, cache, fetch>>
        BY <1>4 DEF Launch, listVars
    <2>7. QED
        BY <2>4, <2>5, <2>6
<1>5. ASSUME NEW d \in Dirs, LaunchRaises(d)
      PROVE  GatewayTypeOK'
    BY <1>1, <1>2, <1>5 DEF LaunchRaises, listVars
<1>6. CASE ServiceReady \/ Launched
    BY <1>6 DEF ServiceReady, Launched, listVars
<1>7. CASE LaunchFails \/ GatewayStops
    <2>1. Shutdown /\ UNCHANGED <<active, starts, left, cache, fetch>>
        BY <1>7 DEF LaunchFails, GatewayStops, AfterFailure, listVars
    <2>2. gw' \in GW
        BY <1>1, <1>2, <2>1 DEF Shutdown
    <2>3. QED
        BY <2>1, <2>2
<1>8. ASSUME NEW i \in Pids, TerminateService(i)
      PROVE  GatewayTypeOK'
    BY <1>8 DEF TerminateService, listVars
<1>9. CASE ServicesTerminated
    <2>1. gw' \in GW
        BY <1>2, <1>9 DEF ServicesTerminated
    <2>2. QED
        BY <1>9, <2>1 DEF ServicesTerminated, listVars
<1>10. CASE ServerExits
    BY <1>10 DEF ServerExits, listVars
<1>11. ASSUME NEW c \in Fetches, GatewayAnswers(c)
       PROVE  GatewayTypeOK'
    <2>1. ServiceList \in List
        BY DEF ServiceList, List
    <2>2. QED
        BY ZenonT(40), <1>11, <2>1 DEF GatewayAnswers, lifespanVars
<1>12. ASSUME NEW c \in Fetches, FetchFails(c)
       PROVE  GatewayTypeOK'
    <2>1. EmptyList \in List
        BY DEF EmptyList, List
    <2>2. QED
        BY ZenonT(40), <1>12, <2>1 DEF FetchFails, lifespanVars
<1>13. ASSUME NEW c \in Fetches, WriteList(c)
       PROVE  GatewayTypeOK'
    <2>1. Idle \in [pc : {"idle", "answered"}, list : List, overtaken : BOOLEAN]
        BY DEF Idle, EmptyList, List
    <2>2. QED
        BY <1>13, <2>1 DEF WriteList, lifespanVars
<1>14. QED
    BY <1>3, <1>4, <1>5, <1>6, <1>7, <1>8, <1>9, <1>10, <1>11, <1>12, <1>13
       DEF GatewayNext, Lifespan, ListStep

\* gateway.py:391-518.  A launch registers its process over a shadowed one at
\* most; a shutdown looks after every registered process until it is gone; a
\* launch that raises leaves its own, and the next start finds them registered
\* or the registry empty.
LEMMA GatewayStepOK ==
    ASSUME HostOK, GatewayTypeOK, GatewayOK, GatewayNext
    PROVE  GatewayOK'
<1> DEFINE Kept(i) == Shadowed(proc[i].dir) \/ Orphan(i) \/ LookedAfter(i)
           Books == /\ gw.pc = "waiting" => gw.pid \in Pids
                    /\ gw.pc = "down" => Registered \subseteq left
                    /\ gw.pc \notin {"down", "clearing"} => Registered \intersect left = {}
<1>1. /\ \A i \in Pids : Live(i) => Kept(i)
      /\ Books
    BY DEF GatewayOK
<1>2. /\ active \in [Names -> Pids \union {None}]
      /\ gw.at \in Int
      /\ \A d \in Dirs : d \in Int
      /\ gw = [pc |-> gw.pc, at |-> gw.at, next |-> gw.next, pid |-> gw.pid,
               todo |-> gw.todo]
      /\ gw.pc \in {"down", "clearing", "launching", "waiting", "serving", "terminating"}
    BY DEF GatewayTypeOK, Dirs
<1>3. SUFFICES Books' /\ \A i \in Pids : Live(i)' => Kept(i)'
    BY DEF GatewayOK
<1>4. CASE GatewayStarts
    <2>1. /\ UNCHANGED <<proc, active, left>>
          /\ \/ gw'.pc = "launching" /\ Registered = {}
             \/ gw'.pc = "clearing" /\ gw'.todo = Registered
        BY <1>2, <1>4 DEF GatewayStarts, ClearsFirst, hostVars
    <2>2. Registered' = Registered
        BY <2>1 DEF Registered
    <2>3. ASSUME NEW i \in Pids, Live(i)
          PROVE  Kept(i)'
        <3>1. CASE Shadowed(proc[i].dir) \/ Orphan(i)
            BY <2>1, <2>2, <3>1 DEF Orphan
        <3>2. CASE LookedAfter(i)
            <4>1. i \in Registered
                BY <2>3, <3>2, RegisteredOnes, ProcessIsLive DEF LookedAfter, HostOK
            <4>2. QED
                BY <2>1, <3>2, <4>1 DEF LookedAfter, Terminating
        <3>3. QED
            BY <1>1, <2>3, <3>1, <3>2
    <2>4. QED
        BY <2>1, <2>2, <2>3 DEF Live
<1>5. ASSUME NEW d \in Dirs, Launch(d)
      PROVE  Books' /\ \A i \in Pids : Live(i)' => Kept(i)'
    <2>1. PICK i \in Unused :
              /\ active' = [active EXCEPT ![Name[d]] = i]
              /\ gw' = [gw EXCEPT !.pc = "waiting", !.at = d + 1,
                                  !.next = FreePort(gw.next) + 1, !.pid = i]
              /\ left' = left \ {i}
              /\ \A j \in Pids : j # i => proc'[j] = proc[j]
              /\ proc'[i].dir = d
        BY <1>5, LaunchSpawns
    <2>2. /\ gw'.pc = "waiting" /\ gw'.pid = i /\ gw'.at = d + 1 /\ i \in Pids
          /\ Name[d] \in Names /\ active'[Name[d]] = i
          /\ \A n \in Names : n # Name[d] => active'[n] = active[n]
        BY <1>2, <2>1 DEF Unused
    <2>3. gw.pc = "launching" /\ IsNextAuto(d)
        BY <1>5 DEF Launch
    <2>4. LookedAfter(i)'
        <3>1. d \in AutoStarts /\ d < d + 1
            BY <1>2, <2>3 DEF IsNextAuto
        <3>2. QED
            BY <2>1, <2>2, <3>1 DEF LookedAfter, Terminating
    <2>5. Registered' \subseteq Registered \union {i}
        <3>1. \A n \in Names : active'[n] = i \/ active'[n] = active[n]
            BY <2>2
        <3>2. QED
            BY <3>1 DEF Registered
    <2>6. Books'
        BY <1>1, <2>1, <2>2, <2>3, <2>5
    <2>7. ASSUME NEW j \in Pids, j # i, Live(j)
          PROVE  Kept(j)'
        <3>1. proc[j].dir \in Dirs /\ Name[proc[j].dir] \in Names
            BY <2>7, ProcessIsLive DEF HostOK
        <3>2. CASE Shadowed(proc[j].dir) \/ Orphan(j)
            BY <2>1, <2>5, <2>7, <3>2 DEF Orphan
        <3>3. CASE ~Shadowed(proc[j].dir) /\ ~Orphan(j)
            <4>1. /\ active[Name[proc[j].dir]] = j /\ proc[j].dir \in AutoStarts
                  /\ proc[j].dir < gw.at
                BY <1>1, <2>3, <2>7, <3>3 DEF LookedAfter
            <4>2. proc[j].dir < d /\ d \in AutoStarts
                <5>1. d \in AutoStarts /\ d >= gw.at
                    BY <2>3 DEF IsNextAuto
                <5>2. proc[j].dir \in Int /\ d \in Int /\ gw.at \in Int
                    BY <1>2, <3>1
                <5>3. QED
                    BY <4>1, <5>1, <5>2
            <4>3. Name[proc[j].dir] # Name[d]
                <5>1. d > proc[j].dir
                    BY <1>2, <3>1, <4>2
                <5>2. QED
                    BY <3>3, <4>2, <5>1 DEF Shadowed
            <4>4. active'[Name[proc[j].dir]] = j /\ proc[j].dir < d + 1
                BY <1>2, <2>2, <3>1, <4>1, <4>2, <4>3
            <4>5. QED
                BY <2>1, <2>2, <2>7, <4>1, <4>4 DEF LookedAfter, Terminating
        <3>4. QED
            BY <3>2, <3>3
    <2>8. QED
        BY <2>1, <2>2, <2>4, <2>6, <2>7 DEF Live
<1>6. ASSUME NEW d \in Dirs, LaunchRaises(d)
      PROVE  Books' /\ \A i \in Pids : Live(i)' => Kept(i)'
    <2>1. /\ UNCHANGED <<proc, active>> /\ left' = left \union Registered
          /\ gw'.pc = "down"
        BY <1>6 DEF LaunchRaises, Down, hostVars
    <2>2. Registered' = Registered
        BY <2>1 DEF Registered
    <2>3. QED
        BY <1>1, <2>1, <2>2 DEF LookedAfter, Orphan, Terminating, Live
<1>7. CASE ServiceReady \/ Launched
    <2>1. /\ UNCHANGED <<proc, active, left>> /\ gw'.pc \in {"launching", "serving"}
          /\ gw'.at = gw.at /\ gw.pc \in {"launching", "waiting"}
        BY <1>2, <1>7 DEF ServiceReady, Launched, hostVars
    <2>2. QED
        BY <1>1, <2>1 DEF LookedAfter, Orphan, Terminating, Live, Registered
<1>8. CASE LaunchFails \/ GatewayStops
    <2>1. /\ UNCHANGED <<proc, active, left>> /\ gw.pc \in {"waiting", "serving"}
          /\ gw'.pc = "terminating" /\ gw'.todo = Registered
        BY <1>8 DEF LaunchFails, GatewayStops, AfterFailure, Shutdown, Down, hostVars
    <2>2. Registered' = Registered
        BY <2>1 DEF Registered
    <2>3. ASSUME NEW i \in Pids, Live(i)
          PROVE  Kept(i)'
        <3>1. CASE Shadowed(proc[i].dir) \/ Orphan(i)
            BY <2>1, <2>2, <3>1 DEF Orphan
        <3>2. CASE LookedAfter(i)
            <4>1. i \in Registered
                BY <2>3, <3>2, RegisteredOnes, ProcessIsLive DEF LookedAfter, HostOK
            <4>2. QED
                BY <2>1, <3>2, <4>1 DEF LookedAfter, Terminating
        <3>3. QED
            BY <1>1, <2>3, <3>1, <3>2
    <2>4. QED
        BY <1>1, <2>1, <2>2, <2>3 DEF Live
<1>9. ASSUME NEW i \in Pids, TerminateService(i)
      PROVE  Books' /\ \A j \in Pids : Live(j)' => Kept(j)'
    <2>1. /\ UNCHANGED <<proc, active, left>> /\ Terminating /\ gw'.pc = gw.pc
          /\ gw'.pid = i /\ gw'.todo = gw.todo \ {i} /\ Gone(gw.pid)
        BY <1>2, <1>9 DEF TerminateService, hostVars
    <2>2. Registered' = Registered
        BY <2>1 DEF Registered
    <2>3. ASSUME NEW j \in Pids, Live(j)
          PROVE  Kept(j)'
        <3>1. j # gw.pid
            BY <2>1, <2>3 DEF Gone
        <3>2. QED
            BY <1>1, <2>1, <2>2, <2>3, <3>1 DEF LookedAfter, Orphan, Terminating
    <2>4. QED
        BY <1>1, <2>1, <2>2, <2>3 DEF Live, Terminating
<1>10. CASE ServicesTerminated
    <2>1. /\ UNCHANGED proc /\ active' = [n \in Names |-> None]
          /\ gw'.pc \in {"down", "launching"} /\ left' = left \ Registered
          /\ Terminating /\ gw.todo = {} /\ Gone(gw.pid)
        BY <1>10 DEF ServicesTerminated, Down, hostVars
    <2>2. Registered' = {}
        BY <2>1 DEF Registered
    <2>3. ASSUME NEW j \in Pids, Live(j)
          PROVE  Kept(j)'
        <3>1. j # gw.pid
            BY <2>1, <2>3 DEF Gone
        <3>2. Shadowed(proc[j].dir) \/ Orphan(j)
            BY <1>1, <2>1, <2>3, <3>1 DEF LookedAfter
        <3>3. QED
            BY <2>1, <2>2, <3>2 DEF Orphan
    <2>4. QED
        BY <2>1, <2>2, <2>3 DEF Live
<1>11. CASE ServerExits
    <2>1. /\ UNCHANGED <<proc, gw, left>> /\ active' = [n \in Names |-> None]
          /\ gw.pc = "down"
        BY <1>11 DEF ServerExits, hostVars
    <2>2. Registered' = {}
        BY <2>1 DEF Registered
    <2>3. ASSUME NEW j \in Pids, Live(j)
          PROVE  Kept(j)'
        <3>1. CASE Shadowed(proc[j].dir) \/ Orphan(j)
            BY <2>1, <2>2, <3>1 DEF Orphan
        <3>2. CASE LookedAfter(j)
            <4>1. j \in Registered
                BY <2>3, <3>2, RegisteredOnes, ProcessIsLive DEF LookedAfter, HostOK
            <4>2. QED
                BY <1>1, <2>1, <2>2, <4>1 DEF Orphan
        <3>3. QED
            BY <1>1, <2>3, <3>1, <3>2
    <2>4. QED
        BY <2>1, <2>2, <2>3 DEF Live
<1>12. CASE ListStep
    <2>1. UNCHANGED <<proc, active, gw, left>>
        BY <1>12 DEF ListStep, GatewayAnswers, FetchFails, WriteList, hostVars, lifespanVars
    <2>2. QED
        BY <1>1, <2>1 DEF LookedAfter, Orphan, Terminating, Live, Registered
<1>13. QED
    BY <1>4, <1>5, <1>6, <1>7, <1>8, <1>9, <1>10, <1>11, <1>12 DEF GatewayNext, Lifespan

\* endpoints.py:90-148.  Within a start of the gateway the watched service is
\* never running after it was stopped, and lists are made of the start.
LEMMA ListsStepOK ==
    ASSUME HostOK, GatewayTypeOK, ListsOK, GatewayNext
    PROVE  ListsOK'
<1>1. /\ starts \in Nat
      /\ cache \in List /\ fetch \in [Fetches -> [pc : {"idle", "answered"}, list : List,
                                                  overtaken : BOOLEAN]]
      /\ EmptyList \in List /\ EmptyList.start = 0 /\ EmptyList.status = "absent"
      /\ \A l \in List : l.start \in Nat
      /\ gw.pc \in {"down", "clearing", "launching", "waiting", "serving", "terminating"}
    BY DEF GatewayTypeOK, List, EmptyList
<1>2. \A l \in Lists : l \in List
    BY <1>1 DEF Lists
<1> DEFINE Fits(l) == /\ l.start <= starts
                      /\ l.start = starts /\ l.status # "absent" =>
                            gw.pc \notin {"clearing", "launching", "waiting"}
                      /\ l.start = starts /\ l.status = "stopped" /\ gw.pc = "serving" =>
                            ServiceList.status # "running"
           Follows(c) == /\ fetch[c].pc = "answered" /\ ~fetch[c].overtaken
                         /\ cache.status = "stopped" /\ fetch[c].list.start = cache.start
                         => fetch[c].list.status # "running"
<1>3. /\ \A l \in Lists : Fits(l)
      /\ \A c \in Fetches : Follows(c)
    BY DEF ListsOK
<1>4. SUFFICES /\ \A l \in Lists' : Fits(l)'
               /\ \A c \in Fetches : Follows(c)'
    BY DEF ListsOK
<1> HIDE DEF Fits, Follows
<1>5. CASE UNCHANGED <<cache, fetch>>
    <2>1. Lists' = Lists /\ \A c \in Fetches : Follows(c)'
        BY <1>3, <1>5 DEF Lists, Follows
    <2>2. CASE GatewayStarts
        BY <1>1, <1>2, <1>3, <2>1, <2>2 DEF Fits, GatewayStarts
    <2>3. CASE Lifespan \/ GatewayStops \/ ServerExits
        <3> DEFINE Early == {"clearing", "launching", "waiting"}
        <3>1. starts' = starts
            BY <2>3 DEF Lifespan, GatewayStops, Launch, LaunchRaises, ServiceReady, LaunchFails,
                        Launched, TerminateService, ServicesTerminated, ServerExits
        <3>2. \/ gw.pc \in Early /\ gw'.pc \in Early
              \/ gw.pc = "launching" /\ gw'.pc = "serving"
              \/ gw'.pc \in {"terminating", "down"}
            <4>1. gw = [pc |-> gw.pc, at |-> gw.at, next |-> gw.next, pid |-> gw.pid,
                        todo |-> gw.todo]
                BY DEF GatewayTypeOK
            <4>2. CASE \E d \in Dirs : Launch(d)
                BY <4>1, <4>2 DEF Launch
            <4>3. CASE \E d \in Dirs : LaunchRaises(d)
                BY <4>3 DEF LaunchRaises, Down
            <4>4. CASE ServiceReady \/ Launched
                BY <4>1, <4>4 DEF ServiceReady, Launched
            <4>5. CASE LaunchFails \/ GatewayStops
                BY <4>5 DEF LaunchFails, GatewayStops, AfterFailure, Shutdown, Down
            <4>6. CASE \E i \in Pids : TerminateService(i)
                BY <4>1, <4>6 DEF TerminateService, Terminating
            <4>7. CASE ServicesTerminated
                BY <4>7 DEF ServicesTerminated, Down
            <4>8. CASE ServerExits
                BY <4>8 DEF ServerExits
            <4>9. QED
                BY <2>3, <4>2, <4>3, <4>4, <4>5, <4>6, <4>7, <4>8 DEF Lifespan
        <3>3. /\ gw'.pc = "serving" => gw.pc = "launching"
              /\ gw'.pc \in Early => gw.pc \in Early
            BY <3>2
        <3>4. ASSUME NEW l \in Lists
              PROVE  Fits(l)'
            BY <1>3, <3>1, <3>3 DEF Fits
        <3>5. QED
            BY <2>1, <3>4
    <2>4. CASE ListStep
        BY <1>3, <1>5, <2>1, <2>4 DEF ListStep, GatewayAnswers, FetchFails, WriteList,
              hostVars, lifespanVars, Fits, ServiceList, Live
    <2>5. QED
        BY <2>1, <2>2, <2>3, <2>4 DEF GatewayNext
<1>6. ASSUME NEW c \in Fetches, GatewayAnswers(c)
      PROVE  (\A l \in Lists' : Fits(l)') /\ \A b \in Fetches : Follows(b)'
    <2>1. /\ UNCHANGED <<proc, active, gw, starts, cache>> /\ gw.pc = "serving"
          /\ fetch'[c].list = ServiceList
          /\ \A b \in Fetches : b # c => fetch'[b] = fetch[b]
        BY <1>1, <1>6 DEF GatewayAnswers, Serves, hostVars, lifespanVars
    <2>2. \A l : Fits(l) => Fits(l)'
        BY <2>1 DEF Fits, ServiceList, Live
    <2>3. Fits(ServiceList)
        BY <1>1, <2>1 DEF Fits, ServiceList
    <2>4. \A l \in Lists' : l \in Lists \/ l = ServiceList
        BY <2>1 DEF Lists
    <2>5. Follows(c)'
        <3>1. cache.status = "stopped" /\ ServiceList.start = cache.start
              => ServiceList.status # "running"
            <4>1. Fits(cache) /\ ServiceList.start = starts
                BY <1>3 DEF Lists, ServiceList
            <4>2. QED
                BY <2>1, <4>1 DEF Fits
        <3>2. QED
            BY <2>1, <3>1 DEF Follows
    <2>6. \A b \in Fetches : b # c => Follows(b)'
        BY <1>3, <2>1 DEF Follows
    <2>7. QED
        BY <1>3, <2>2, <2>3, <2>4, <2>5, <2>6
<1>7. ASSUME NEW c \in Fetches, FetchFails(c)
      PROVE  (\A l \in Lists' : Fits(l)') /\ \A b \in Fetches : Follows(b)'
    <2>1. /\ UNCHANGED <<proc, active, gw, starts, cache>>
          /\ fetch'[c].list = EmptyList
          /\ \A b \in Fetches : b # c => fetch'[b] = fetch[b]
        BY <1>1, <1>7 DEF FetchFails, hostVars, lifespanVars
    <2>2. \A l : Fits(l) => Fits(l)'
        BY <2>1 DEF Fits, ServiceList, Live
    <2>3. Fits(EmptyList)
        BY <1>1 DEF Fits
    <2>4. \A l \in Lists' : l \in Lists \/ l = EmptyList
        BY <2>1 DEF Lists
    <2>5. Follows(c)'
        BY <1>1, <2>1 DEF Follows
    <2>6. \A b \in Fetches : b # c => Follows(b)'
        BY <1>3, <2>1 DEF Follows
    <2>7. QED
        BY <1>3, <2>2, <2>3, <2>4, <2>5, <2>6
<1>8. ASSUME NEW c \in Fetches, WriteList(c)
      PROVE  (\A l \in Lists' : Fits(l)') /\ \A b \in Fetches : Follows(b)'
    <2>1. /\ UNCHANGED <<proc, active, gw, starts>> /\ cache' = fetch[c].list
          /\ fetch'[c] = Idle
          /\ \A b \in Fetches : b # c =>
                fetch'[b] = [fetch[b] EXCEPT !.overtaken = @ \/ fetch[b].pc = "answered"]
        BY <1>1, <1>8 DEF WriteList, hostVars, lifespanVars
    <2>2. \A l : Fits(l) => Fits(l)'
        BY <2>1 DEF Fits, ServiceList, Live
    <2>3. Fits(EmptyList)
        BY <1>1 DEF Fits
    <2>4. \A b \in Fetches : b # c => /\ fetch'[b].list = fetch[b].list
                                      /\ fetch'[b].pc = "answered" => fetch'[b].overtaken
        <3>1. ASSUME NEW b \in Fetches, b # c
              PROVE  /\ fetch'[b].list = fetch[b].list /\ fetch'[b].pc = fetch[b].pc
                     /\ fetch'[b].pc = "answered" => fetch'[b].overtaken
            <4> DEFINE x == fetch[b].overtaken \/ fetch[b].pc = "answered"
            <4>1. fetch'[b] = [fetch[b] EXCEPT !.overtaken = x]
                BY <2>1, <3>1
            <4>2. fetch[b].pc = "answered" => x
                OBVIOUS
            <4>3. fetch[b] \in [pc : {"idle", "answered"}, list : List, overtaken : BOOLEAN]
                BY <1>1
            <4> HIDE DEF x
            <4>4. /\ fetch'[b].list = fetch[b].list /\ fetch'[b].pc = fetch[b].pc
                  /\ fetch'[b].overtaken = x
                BY <4>1, <4>3
            <4>5. QED
                BY <4>2, <4>4
        <3>2. QED
            BY <3>1, Zenon
    <2>5. \A l \in Lists' : l \in Lists \/ l = EmptyList
        BY <2>1, <2>4 DEF Lists, Idle
    <2>6. \A b \in Fetches : Follows(b)'
        BY <2>1, <2>4 DEF Follows, Idle
    <2>7. QED
        BY <1>3, <2>2, <2>3, <2>5, <2>6
<1>9. GatewayStarts \/ Lifespan \/ GatewayStops \/ ServerExits => UNCHANGED <<cache, fetch>>
    BY DEF GatewayStarts, Lifespan, GatewayStops, ServerExits, Launch, LaunchRaises,
           ServiceReady, LaunchFails, Launched, TerminateService, ServicesTerminated, listVars
<1>10. QED
    BY <1>5, <1>6, <1>7, <1>8, <1>9 DEF GatewayNext, ListStep

-----------------------------------------------------------------------------
(***************************************************************************)
(* The manager.                                                            *)
(***************************************************************************)
Call == [kind : {"none", "apply", "startup", "shutdown"},
         pc : {"idle", "terminating", "syncing", "inserting", "starting", "waiting",
               "ready", "aborting", "disabling"},
         name : Names \union {None}, pid : Pids \union {None}, todo : SUBSET Pids,
         names : SUBSET Names, missing : SUBSET Names, next : Nat]

LEMMA DiscoveredNames == Discovered \subseteq Names
    BY DEF Discovered

LEMMA NoCallIsCall ==
    /\ NoCall \in Call
    /\ NoCall.kind = "none" /\ NoCall.pc = "idle" /\ NoCall.name = None /\ NoCall.pid = None
    /\ NoCall.todo = {} /\ NoCall.names = {}
    BY DEF NoCall, Call

\* A call that begins is a new one.
LEMMA BeginIsNew ==
    ASSUME ManagerTypeOK, NEW c \in Calls, NEW S, NEW record, Begin(c, S, record)
    PROVE  /\ call[c] = NoCall /\ Concerns(c) = {}
           /\ call' = [call EXCEPT ![c] = record]
           /\ raced' = raced \union {n \in S : \E b \in Calls : n \in Concerns(b)}
           /\ ops < MaxOps /\ ops' = ops + 1
<1>1. c \in {b \in Calls : call[b] = NoCall}
    BY Chosen DEF Begin
<1>2. QED
    BY <1>1, NoCallIsCall DEF Begin, Concerns, Operate

LEMMA EnableSpawns ==
    ASSUME HostOK, ManagerTypeOK, NEW c \in Calls, NEW n \in Names, Enable(c, n)
    PROVE  \E i \in Free :
              /\ i \in Pids /\ ~Live(i)
              /\ Spawn(i, FirstDir(n), FreePort(1))
              /\ Begin(c, {n}, [NoCall EXCEPT !.kind = "apply", !.pc = "waiting",
                                              !.name = n, !.pid = i])
              /\ HostOK'
              /\ \A j \in Pids : j # i => proc'[j] = proc[j]
              /\ Name[proc'[i].dir] = n /\ Live(i)'
<1>1. FreePort(1) \in Nat /\ ~Busy(FreePort(1))
    BY FreePortIsFree DEF HostOK
<1>2. FirstDir(n) \in Dirs /\ Name[FirstDir(n)] = n
    BY FoundDirs DEF Enable
<1>3. PICK i \in Lowest(Free) :
         /\ Spawn(i, FirstDir(n), FreePort(1))
         /\ Begin(c, {n}, [NoCall EXCEPT !.kind = "apply", !.pc = "waiting",
                                         !.name = n, !.pid = i])
    BY DEF Enable
<1>4. i \in Free /\ i \in Pids /\ ~Live(i)
    BY <1>3, Chosen DEF Free
<1>5. QED
    BY <1>1, <1>2, <1>3, <1>4, SpawnOK

LEMMA StartNextSpawns ==
    ASSUME HostOK, ManagerTypeOK, NEW c \in Calls, NEW n \in Names, CallOK(c), StartNext(c, n)
    PROVE  /\ FreePort(call[c].next) \in Nat
           /\ \E i \in Free :
                 /\ i \in Pids /\ ~Live(i)
                 /\ Spawn(i, LastDir(n), FreePort(call[c].next))
                 /\ Continue(c, [call[c] EXCEPT !.pc = "waiting", !.name = n, !.pid = i,
                                    !.names = @ \ {n}, !.next = FreePort(call[c].next) + 1])
                 /\ HostOK'
                 /\ \A j \in Pids : j # i => proc'[j] = proc[j]
                 /\ Name[proc'[i].dir] = n /\ Live(i)'
<1>1. call[c].next \in Nat
    BY DEF ManagerTypeOK
<1>2. FreePort(call[c].next) \in Nat /\ ~Busy(FreePort(call[c].next))
    BY <1>1, FreePortIsFree DEF HostOK
<1>3. LastDir(n) \in Dirs /\ Name[LastDir(n)] = n
    BY FoundDirs DEF StartNext, CallOK
<1>4. PICK i \in Lowest(Free) :
         /\ Spawn(i, LastDir(n), FreePort(call[c].next))
         /\ Continue(c, [call[c] EXCEPT !.pc = "waiting", !.name = n, !.pid = i,
                            !.names = @ \ {n}, !.next = FreePort(call[c].next) + 1])
    BY DEF StartNext
<1>5. i \in Free /\ i \in Pids /\ ~Live(i)
    BY <1>4, Chosen DEF Free
<1>6. QED
    BY <1>2, <1>3, <1>4, <1>5, SpawnOK

\* A step of a call writes its record, and the registry or the table or neither.
LEMMA CallTyped ==
    ASSUME ManagerTypeOK, NEW c \in Calls, NEW record \in Call,
           call' = [call EXCEPT ![c] = record],
           mapping' \in [Names -> {"none", "on", "off"}],
           registry' \in [Names -> Pids \union {None}],
           ops' \in 0 .. MaxOps, raced' \subseteq Names
    PROVE  ManagerTypeOK'
    BY DEF ManagerTypeOK, Call

LEMMA ManagerTyped ==
    ASSUME HostOK, ManagerTypeOK, ManagerOK, ManagerNext
    PROVE  ManagerTypeOK'
<1>1. /\ mapping \in [Names -> {"none", "on", "off"}]
      /\ registry \in [Names -> Pids \union {None}]
      /\ call \in [Calls -> Call]
      /\ ops \in 0 .. MaxOps
      /\ raced \subseteq Names
      /\ \A c \in Calls : call[c] \in Call
    BY DEF ManagerTypeOK, Call
<1>2. CASE Table
    BY <1>1, <1>2 DEF Table, CreateMapping, SetEnabled, DeleteMapping, Operate, ManagerTypeOK
<1>3. ASSUME NEW c \in Calls, NEW n \in Names, Enable(c, n)
      PROVE  ManagerTypeOK'
    <2>1. PICK i \in Pids :
              Begin(c, {n}, [NoCall EXCEPT !.kind = "apply", !.pc = "waiting",
                                           !.name = n, !.pid = i])
        BY <1>3, EnableSpawns
    <2>2. [NoCall EXCEPT !.kind = "apply", !.pc = "waiting", !.name = n, !.pid = i] \in Call
        BY NoCallIsCall DEF Call
    <2>3. UNCHANGED <<mapping, registry>>
        BY <1>3 DEF Enable
    <2>4. QED
        BY <1>1, <2>1, <2>2, <2>3, BeginIsNew, CallTyped
<1>4. ASSUME NEW c \in Calls, NEW n \in Names, Disable(c, n)
      PROVE  ManagerTypeOK'
    <2>1. [NoCall EXCEPT !.kind = "apply", !.pc = "disabling", !.name = n,
                         !.pid = registry[n]] \in Call
        BY <1>1, NoCallIsCall DEF Call
    <2>2. QED
        BY <1>1, <1>4, <2>1, BeginIsNew, CallTyped DEF Disable
<1>5. ASSUME NEW c \in Calls, NEW kind \in {"startup", "shutdown"}, BeginShutdown(c, kind)
      PROVE  ManagerTypeOK'
    <2>1. InRegistry \in SUBSET Pids
        BY <1>1 DEF InRegistry
    <2>2. [NoCall EXCEPT !.kind = kind, !.pc = "terminating", !.todo = InRegistry] \in Call
        BY <2>1, NoCallIsCall DEF Call
    <2>3. QED
        BY <1>1, <1>5, <2>2, BeginIsNew, CallTyped DEF BeginShutdown
<1>6. ASSUME NEW c \in Calls, NEW record \in Call, Continue(c, record),
             mapping' \in [Names -> {"none", "on", "off"}],
             registry' \in [Names -> Pids \union {None}]
      PROVE  ManagerTypeOK'
    BY <1>1, <1>6, CallTyped DEF Continue
<1>7. ASSUME NEW c \in Calls, Disabled(c)
      PROVE  ManagerTypeOK'
    BY <1>1, <1>6, <1>7, NoCallIsCall DEF Disabled
<1>8. ASSUME NEW c \in Calls, Ready(c)
      PROVE  ManagerTypeOK'
    <2>1. [call[c] EXCEPT !.pc = "ready"] \in Call
        BY <1>1 DEF Call
    <2>2. QED
        BY <1>1, <1>6, <1>8, <2>1 DEF Ready
<1>9. ASSUME NEW c \in Calls, NotReady(c)
      PROVE  ManagerTypeOK'
    <2>1. [NoCall EXCEPT !.kind = call[c].kind, !.pc = "aborting",
                         !.name = call[c].name, !.pid = call[c].pid] \in Call
        BY <1>1, NoCallIsCall DEF Call
    <2>2. QED
        BY <1>1, <1>6, <1>9, <2>1 DEF NotReady, Abort
<1>10. ASSUME NEW c \in Calls, Aborted(c) \/ SyncFails(c) \/ StartRaises(c) \/ Started(c)
       PROVE  ManagerTypeOK'
    BY <1>1, <1>6, <1>10, NoCallIsCall DEF Aborted, SyncFails, StartRaises, Started
<1>11. ASSUME NEW c \in Calls, Register(c)
       PROVE  ManagerTypeOK'
    <2>1. [call[c] EXCEPT !.pc = "starting", !.name = None, !.pid = None] \in Call
        BY ZenonT(40), <1>1 DEF Call
    <2>2. call[c].pid \in Pids
        BY <1>11 DEF Register, ManagerOK, CallOK
    <2>3. QED
        BY <1>1, <1>6, <1>11, <2>1, <2>2, NoCallIsCall DEF Register
<1>12. ASSUME NEW c \in Calls, NEW i \in Pids, Terminate(c, i)
       PROVE  ManagerTypeOK'
    <2>1. [call[c] EXCEPT !.pid = i, !.todo = @ \ {i}] \in Call
        BY ZenonT(40), <1>1 DEF Call
    <2>2. QED
        BY <1>1, <1>6, <1>12, <2>1 DEF Terminate
<1>13. ASSUME NEW c \in Calls, Terminated(c)
       PROVE  ManagerTypeOK'
    <2>1. [call[c] EXCEPT !.pc = "syncing", !.pid = None] \in Call
        BY ZenonT(40), <1>1 DEF Call
    <2>2. QED
        BY <1>1, <1>6, <1>13, <2>1, NoCallIsCall DEF Terminated
<1>14. ASSUME NEW c \in Calls, SelectMappings(c)
       PROVE  ManagerTypeOK'
    <2> DEFINE new == {n \in Discovered : mapping[n] = "none"}
               on == {n \in Discovered : mapping[n] # "off"}
    <2>1. \A p \in {"starting", "inserting"} :
             [call[c] EXCEPT !.pc = p, !.names = on, !.missing = new] \in Call
        BY ZenonT(40), <1>1, DiscoveredNames DEF Call
    <2>2. PICK p \in {"starting", "inserting"} :
             Continue(c, [call[c] EXCEPT !.pc = p, !.names = on, !.missing = new])
        BY <1>14 DEF SelectMappings
    <2>3. UNCHANGED <<mapping, registry>>
        BY <1>14 DEF SelectMappings
    <2>4. QED
        BY <1>1, <1>6, <2>1, <2>2, <2>3
<1>15. ASSUME NEW c \in Calls, InsertMappings(c)
       PROVE  ManagerTypeOK'
    <2>1. [call[c] EXCEPT !.pc = "starting", !.missing = {}] \in Call
        BY ZenonT(40), <1>1 DEF Call
    <2>2. mapping' \in [Names -> {"none", "on", "off"}]
        BY <1>1, <1>15 DEF InsertMappings
    <2>3. QED
        BY <1>1, <1>6, <1>15, <2>1, <2>2 DEF InsertMappings
<1>16. ASSUME NEW c \in Calls, NEW n \in Names, StartNext(c, n)
       PROVE  ManagerTypeOK'
    <2>1. PICK i \in Pids :
             Continue(c, [call[c] EXCEPT !.pc = "waiting", !.name = n, !.pid = i,
                                !.names = @ \ {n}, !.next = FreePort(call[c].next) + 1])
        BY <1>16, StartNextSpawns DEF ManagerOK
    <2>2. FreePort(call[c].next) + 1 \in Nat
        <3>1. FreePort(call[c].next) \in Nat
            BY <1>16, StartNextSpawns DEF ManagerOK
        <3>2. QED
            BY <3>1
    <2>3. [call[c] EXCEPT !.pc = "waiting", !.name = n, !.pid = i,
                          !.names = @ \ {n}, !.next = FreePort(call[c].next) + 1] \in Call
        BY ZenonT(40), <1>1, <2>2 DEF Call
    <2>4. UNCHANGED <<mapping, registry>>
        BY <1>16 DEF StartNext
    <2>5. QED
        BY <1>1, <1>6, <2>1, <2>3, <2>4
<1>17. QED
    BY <1>2, <1>3, <1>4, <1>5, <1>7, <1>8, <1>9, <1>10, <1>11, <1>12, <1>13, <1>14, <1>15,
       <1>16 DEF ManagerNext, NewCall, CallStep

\* What a call looks like, from a step of it that goes on and the record it writes.
LEMMA CallsOK ==
    ASSUME ManagerTypeOK, \A b \in Calls : CallOK(b), NEW c \in Calls, NEW record,
           call' = [call EXCEPT ![c] = record], CallOK(c)'
    PROVE  /\ \A b \in Calls : CallOK(b)'
           /\ call'[c] = record
           /\ \A b \in Calls : b # c => call'[b] = call[b]
<1>1. call'[c] = record /\ \A b \in Calls : b # c => call'[b] = call[b]
    BY DEF ManagerTypeOK
<1>2. ASSUME NEW b \in Calls, b # c
      PROVE  CallOK(b)'
    BY <1>1, <1>2 DEF CallOK
<1>3. QED
    BY <1>1, <1>2

\* A step of one call, and a plugin that it does not concern, or of which it
\* takes care.
LEMMA ContinueKeeps ==
    ASSUME NEW n \in Names, PluginOK(n), NEW c \in Calls,
           \A b \in Calls : b # c => call'[b] = call[b],
           \A i, j \in Alive(n)' : i = j,
           n \in Concerns(c)' => n \in Concerns(c) /\ SoleCallOK(c, n)',
           n \in Concerns(c) /\ n \notin Concerns(c)' => Alive(n)' \subseteq {registry'[n]},
           n \notin Concerns(c) => registry'[n] = registry[n] /\ Alive(n)' = Alive(n)
    PROVE  PluginOK(n)'
<1>1. \A b \in Calls : b # c => Concerns(b)' = Concerns(b)
    BY DEF Concerns
<1>2. \A a, b \in Calls : n \in Concerns(a)' \intersect Concerns(b)' => a = b
    BY <1>1 DEF PluginOK
<1>3. ASSUME NEW b \in Calls, n \in Concerns(b)', b # c
      PROVE  SoleCallOK(b, n)'
    <2>1. n \in Concerns(b) /\ n \notin Concerns(c)
        BY <1>1, <1>3 DEF PluginOK
    <2>2. SoleCallOK(b, n) /\ registry'[n] = registry[n] /\ Alive(n)' = Alive(n)
        BY <2>1 DEF PluginOK
    <2>3. QED
        BY <1>3, <2>2 DEF SoleCallOK
<1>4. ASSUME \A b \in Calls : n \notin Concerns(b)'
      PROVE  Alive(n)' \subseteq {registry'[n]}
    <2>1. CASE n \in Concerns(c)
        BY <1>4, <2>1
    <2>2. CASE n \notin Concerns(c)
        <3>1. \A b \in Calls : n \notin Concerns(b)
            BY <1>1, <1>4, <2>2
        <3>2. QED
            BY <2>2, <3>1 DEF PluginOK
    <2>3. QED
        BY <2>1, <2>2
<1>5. QED
    BY <1>2, <1>3, <1>4 DEF PluginOK

\* A call begins, and a plugin that is not raced by it.
LEMMA BeginKeeps ==
    ASSUME ManagerTypeOK, NEW n \in Names, PluginOK(n), NEW c \in Calls, NEW S, NEW record,
           Begin(c, S, record), Concerns(c)' \subseteq S, n \notin raced',
           UNCHANGED registry,
           \A i, j \in Alive(n)' : i = j,
           n \in Concerns(c)' => (Alive(n) \subseteq {registry[n]} => SoleCallOK(c, n)'),
           n \notin Concerns(c)' => Alive(n)' = Alive(n)
    PROVE  PluginOK(n)'
<1>1. /\ Concerns(c) = {}
      /\ \A b \in Calls : b # c => call'[b] = call[b]
      /\ n \in S => \A b \in Calls : n \notin Concerns(b)
    BY BeginIsNew DEF ManagerTypeOK
<1>2. \A b \in Calls : b # c => Concerns(b)' = Concerns(b)
    BY <1>1 DEF Concerns
<1>3. CASE n \in Concerns(c)'
    <2>1. \A b \in Calls : n \notin Concerns(b)
        BY <1>1, <1>3
    <2>2. SoleCallOK(c, n)'
        BY <1>3, <2>1 DEF PluginOK
    <2>3. \A b \in Calls : n \in Concerns(b)' => b = c
        BY <1>2, <2>1
    <2>4. QED
        BY <1>3, <2>2, <2>3 DEF PluginOK
<1>4. CASE n \notin Concerns(c)'
    <2>1. \A b \in Calls : n \in Concerns(b)' <=> n \in Concerns(b)
        BY <1>1, <1>2, <1>4
    <2>2. \A b \in Calls : n \in Concerns(b)' => SoleCallOK(b, n)'
        <3> SUFFICES ASSUME NEW b \in Calls, n \in Concerns(b)'
                     PROVE  SoleCallOK(b, n)'
            OBVIOUS
        <3>1. SoleCallOK(b, n) /\ call'[b] = call[b]
            BY <1>1, <1>4, <2>1 DEF PluginOK
        <3>2. QED
            BY <1>4, <3>1 DEF SoleCallOK
    <2>3. (\A b \in Calls : n \notin Concerns(b)') => Alive(n)' \subseteq {registry'[n]}
        BY <1>4, <2>1 DEF PluginOK
    <2>4. QED
        BY <2>1, <2>2, <2>3 DEF PluginOK
<1>5. QED
    BY <1>3, <1>4

\* A process that is spawned for a plugin is one more of this plugin only.
LEMMA OneMore ==
    ASSUME HostOK, NEW i \in Pids, NEW m \in Names, ~Live(i), Live(i)',
           \A j \in Pids : j # i => proc'[j] = proc[j], Name[proc'[i].dir] = m
    PROVE  /\ Alive(m)' = Alive(m) \union {i}
           /\ \A n \in Names : n # m => Alive(n)' = Alive(n)
    BY DEF Alive, Live

\* What a terminated process leaves of a plugin.
LEMMA GoneIsNotAlive ==
    ASSUME NEW i, Gone(i), NEW n, NEW S, Alive(n) \subseteq {i} \union S
    PROVE  Alive(n) \subseteq S
    BY DEF Gone, Alive

LEMMA GoneLeavesNone ==
    ASSUME NEW i, Gone(i), NEW n, Alive(n) \subseteq {i}
    PROVE  Alive(n) = {}
    BY DEF Gone, Alive

LEMMA QuietStep ==
    ASSUME ManagerTypeOK, ManagerOK, NEW c \in Calls, NEW record,
           Continue(c, record), UNCHANGED hostVars, CallOK(c)',
           \A n \in Names : n \notin Concerns(c) => registry'[n] = registry[n],
           \A n \in Names : PluginOK(n) /\ n \in Concerns(c)' =>
                n \in Concerns(c) /\ SoleCallOK(c, n)',
           \A n \in Names : PluginOK(n) /\ n \in Concerns(c) /\ n \notin Concerns(c)' =>
                Alive(n) \subseteq {registry'[n]}
    PROVE  ManagerOK'
<1>1. call' = [call EXCEPT ![c] = record] /\ raced' = raced
    BY DEF Continue
<1>2. /\ \A b \in Calls : CallOK(b)'
      /\ \A b \in Calls : b # c => call'[b] = call[b]
    BY <1>1, CallsOK DEF ManagerOK
<1>3. \A n \in Names : Alive(n)' = Alive(n)
    BY DEF Alive, Live, hostVars
<1>4. ASSUME NEW n \in Names \ raced'
      PROVE  PluginOK(n)'
    <2>1. PluginOK(n)
        BY <1>1 DEF ManagerOK
    <2>2. \A i, j \in Alive(n)' : i = j
        BY <1>3, <2>1 DEF PluginOK
    <2>3. QED
        BY <1>2, <1>3, <2>1, <2>2, ContinueKeeps
<1>5. QED
    BY <1>2, <1>4 DEF ManagerOK

LEMMA CallStepOK ==
    ASSUME HostOK, ManagerTypeOK, ManagerOK, NEW c \in Calls, CallStep(c)
    PROVE  ManagerOK'
<1> DEFINE k == call[c]
<1>1. /\ k \in Call /\ CallOK(c)
      /\ k = [kind |-> k.kind, pc |-> k.pc, name |-> k.name, pid |-> k.pid, todo |-> k.todo,
              names |-> k.names, missing |-> k.missing, next |-> k.next]
      /\ call \in [Calls -> Call]
      /\ registry \in [Names -> Pids \union {None}]
    BY DEF ManagerTypeOK, ManagerOK, Call
<1>2. \A n \in Names : PluginOK(n) /\ n \in Concerns(c) => SoleCallOK(c, n)
    BY DEF PluginOK
<1>3. \A record : Continue(c, record) => call'[c] = record
    BY <1>1 DEF Continue
<1>4. /\ call'[c] = NoCall => CallOK(c)' /\ Concerns(c)' = {}
      /\ \A n \in Names : n # None
    BY NoCallIsCall DEF CallOK, Concerns
<1>5. CASE Disabled(c)
    <2>1. /\ Continue(c, NoCall) /\ UNCHANGED hostVars /\ Gone(k.pid)
          /\ k.kind = "apply" /\ k.name \in Names /\ k.pc = "disabling"
          /\ registry' = [registry EXCEPT ![k.name] = None]
        BY <1>1, <1>5 DEF Disabled, CallOK
    <2>2. Concerns(c) = {k.name}
        BY <2>1 DEF Concerns
    <2>3. ASSUME NEW n \in Names, PluginOK(n), n \in Concerns(c)
          PROVE  Alive(n) \subseteq {registry'[n]}
        <3>1. Alive(n) \subseteq {k.pid}
            BY <1>2, <2>2, <2>3 DEF SoleCallOK
        <3>2. Alive(n) = {}
            BY <2>1, <3>1, GoneLeavesNone
        <3>3. QED
            BY <3>2
    <2>4. \A n \in Names : n \notin Concerns(c) => registry'[n] = registry[n]
        BY <1>1, <2>1, <2>2
    <2>5. QED
        BY <1>3, <1>4, <2>1, <2>3, <2>4, QuietStep
<1>6. CASE Ready(c)
    <2>1. /\ Continue(c, [k EXCEPT !.pc = "ready"]) /\ UNCHANGED <<hostVars, registry>>
          /\ k.pc = "waiting"
        BY <1>6 DEF Ready
    <2>2. /\ call'[c].pc = "ready" /\ call'[c].kind = k.kind /\ call'[c].name = k.name
          /\ call'[c].pid = k.pid /\ call'[c].names = k.names /\ k.name \in Names
          /\ k.pid \in Pids
        BY <1>1, <1>3, <2>1 DEF CallOK
    <2>3. CallOK(c)' /\ Concerns(c)' = Concerns(c)
        BY <1>1, <2>1, <2>2, NoCallIsCall DEF CallOK, Concerns
    <2>4. \A n \in Names : Alive(n)' = Alive(n)
        BY <2>1 DEF Alive, Live, hostVars
    <2>5. ASSUME NEW n \in Names, PluginOK(n), n \in Concerns(c)
          PROVE  SoleCallOK(c, n)'
        BY <1>2, <2>1, <2>2, <2>4, <2>5 DEF SoleCallOK
    <2>6. QED
        BY <2>1, <2>3, <2>5, QuietStep
<1>7. CASE NotReady(c)
    <2>1. /\ Continue(c, [NoCall EXCEPT !.kind = k.kind, !.pc = "aborting",
                                        !.name = k.name, !.pid = k.pid])
          /\ UNCHANGED <<hostVars, registry>>
          /\ k.pc = "waiting"
        BY <1>7 DEF NotReady, Abort
    <2>2. /\ call'[c].pc = "aborting" /\ call'[c].kind = k.kind /\ call'[c].name = k.name
          /\ call'[c].pid = k.pid /\ call'[c].names = {} /\ k.name \in Names
          /\ k.pid \in Pids
        <3>1. call'[c] = [NoCall EXCEPT !.kind = k.kind, !.pc = "aborting",
                                        !.name = k.name, !.pid = k.pid]
            BY <1>3, <2>1
        <3>2. k.name \in Names /\ k.pid \in Pids
            BY <1>1, <2>1 DEF CallOK
        <3> HIDE DEF k
        <3>3. QED
            BY <3>1, <3>2 DEF NoCall
    <2>3. CallOK(c)' /\ Concerns(c)' = Concerns(c)
        BY <1>1, <2>1, <2>2, NoCallIsCall DEF CallOK, Concerns
    <2>4. \A n \in Names : Alive(n)' = Alive(n)
        BY <2>1 DEF Alive, Live, hostVars
    <2>5. ASSUME NEW n \in Names, PluginOK(n), n \in Concerns(c)
          PROVE  SoleCallOK(c, n)'
        BY <1>2, <2>1, <2>2, <2>4, <2>5 DEF SoleCallOK
    <2>6. QED
        BY <2>1, <2>3, <2>5, QuietStep
<1>8. CASE Aborted(c)
    <2>1. /\ Continue(c, NoCall) /\ UNCHANGED <<hostVars, registry>> /\ Gone(k.pid)
          /\ k.pc = "aborting"
        BY <1>8 DEF Aborted
    <2>2. ASSUME NEW n \in Names, PluginOK(n), n \in Concerns(c)
          PROVE  Alive(n) \subseteq {registry'[n]}
        <3>1. CASE k.name = n
            <4>1. Alive(n) \subseteq {k.pid}
                BY <1>2, <2>2, <3>1 DEF SoleCallOK
            <4>2. Alive(n) = {}
                BY <2>1, <4>1, GoneLeavesNone
            <4>3. QED
                BY <4>2
        <3>2. CASE k.name # n
            BY <1>2, <2>1, <2>2, <3>2 DEF SoleCallOK
        <3>3. QED
            BY <3>1, <3>2
    <2>3. QED
        BY <1>3, <1>4, <2>1, <2>2, QuietStep
<1>9. CASE Register(c)
    <2>1. /\ UNCHANGED hostVars /\ registry' = [registry EXCEPT ![k.name] = k.pid]
          /\ k.pc = "ready" /\ k.name \in Names
        BY <1>1, <1>9 DEF Register, CallOK
    <2>2. ASSUME NEW n \in Names, PluginOK(n), n \in Concerns(c)
          PROVE  Alive(n) \subseteq {registry'[n]}
        BY <1>1, <1>2, <2>1, <2>2 DEF SoleCallOK
    <2>3. \A n \in Names : n \notin Concerns(c) => registry'[n] = registry[n]
        <3>1. k.name \in Concerns(c)
            BY <1>1, <2>1 DEF Concerns, CallOK, NoCall
        <3>2. QED
            BY <1>1, <2>1, <3>1
    <2>4. CASE k.kind = "apply"
        <3>1. Continue(c, NoCall)
            BY <1>9, <2>4 DEF Register
        <3>2. QED
            BY <1>3, <1>4, <2>1, <2>2, <2>3, <3>1, QuietStep
    <2>5. CASE k.kind # "apply"
        <3>1. Continue(c, [k EXCEPT !.pc = "starting", !.name = None, !.pid = None])
            BY <1>9, <2>5 DEF Register
        <3>2. /\ call'[c].pc = "starting" /\ call'[c].kind = k.kind /\ call'[c].name = None
              /\ call'[c].names = k.names
            BY <1>1, <1>3, <3>1
        <3>3. CallOK(c)' /\ Concerns(c)' = Concerns(c)
            BY <1>1, <2>1, <2>5, <3>2, NoCallIsCall DEF CallOK, Concerns
        <3>4. \A n \in Names : Alive(n)' = Alive(n)
            BY <2>1 DEF Alive, Live, hostVars
        <3>5. ASSUME NEW n \in Names, PluginOK(n), n \in Concerns(c)
              PROVE  SoleCallOK(c, n)'
            BY <1>2, <1>4, <2>2, <3>2, <3>4, <3>5 DEF SoleCallOK
        <3>6. QED
            BY <2>1, <2>3, <3>1, <3>3, <3>5, QuietStep
    <2>6. QED
        BY <2>4, <2>5
<1>10. ASSUME NEW i \in Pids, Terminate(c, i)
       PROVE  ManagerOK'
    <2>1. /\ Continue(c, [k EXCEPT !.pid = i, !.todo = @ \ {i}])
          /\ UNCHANGED <<hostVars, registry>>
          /\ k.pc = "terminating" /\ Gone(k.pid)
        BY <1>10 DEF Terminate
    <2>2. /\ call'[c].pc = "terminating" /\ call'[c].kind = k.kind /\ call'[c].name = None
          /\ call'[c].names = {} /\ call'[c].pid = i /\ call'[c].todo = k.todo \ {i}
        BY <1>1, <1>3, <2>1 DEF CallOK
    <2>3. CallOK(c)' /\ Concerns(c)' = Concerns(c)
        BY <1>1, <2>1, <2>2, NoCallIsCall DEF CallOK, Concerns
    <2>4. \A n \in Names : Alive(n)' = Alive(n)
        BY <2>1 DEF Alive, Live, hostVars
    <2>5. ASSUME NEW n \in Names, PluginOK(n), n \in Concerns(c)
          PROVE  SoleCallOK(c, n)'
        <3>1. Alive(n) \subseteq {k.pid} \union k.todo
            BY <1>2, <2>1, <2>5 DEF SoleCallOK
        <3>2. Alive(n) \subseteq k.todo
            BY <2>1, <3>1, GoneIsNotAlive
        <3>3. QED
            BY <1>4, <2>2, <2>4, <3>2 DEF SoleCallOK
    <2>6. QED
        BY <2>1, <2>3, <2>5, QuietStep
<1>11. CASE Terminated(c)
    <2>1. /\ UNCHANGED hostVars /\ registry' = [n \in Names |-> None]
          /\ k.pc = "terminating" /\ Gone(k.pid) /\ k.todo = {}
        BY <1>11 DEF Terminated
    <2>2. ASSUME NEW n \in Names, PluginOK(n), n \in Concerns(c)
          PROVE  Alive(n) = {}
        <3>1. Alive(n) \subseteq {k.pid}
            BY <1>2, <2>1, <2>2 DEF SoleCallOK
        <3>2. Alive(n) = {}
            BY <2>1, <3>1, GoneLeavesNone
        <3>3. QED
            BY <3>2
    <2>3. Concerns(c) = Names
        BY <1>1, <2>1 DEF Concerns, CallOK, NoCall
    <2>4. CASE k.kind = "shutdown"
        <3>1. Continue(c, NoCall)
            BY <1>11, <2>4 DEF Terminated
        <3>2. QED
            BY <1>3, <1>4, <2>1, <2>2, <2>3, <3>1, QuietStep
    <2>5. CASE k.kind # "shutdown"
        <3>1. Continue(c, [k EXCEPT !.pc = "syncing", !.pid = None])
            BY <1>11, <2>5 DEF Terminated
        <3>2. /\ call'[c].pc = "syncing" /\ call'[c].kind = k.kind /\ call'[c].name = None
              /\ call'[c].names = {}
            BY <1>1, <1>3, <2>1, <3>1 DEF CallOK
        <3>3. CallOK(c)' /\ Concerns(c)' = Concerns(c)
            BY <1>1, <2>1, <2>5, <3>2, NoCallIsCall DEF CallOK, Concerns
        <3>4. \A n \in Names : Alive(n)' = Alive(n)
            BY <2>1 DEF Alive, Live, hostVars
        <3>5. ASSUME NEW n \in Names, PluginOK(n), n \in Concerns(c)
              PROVE  SoleCallOK(c, n)'
            BY <1>4, <2>2, <3>2, <3>4, <3>5 DEF SoleCallOK
        <3>6. QED
            BY <2>1, <2>3, <3>1, <3>3, <3>5, QuietStep
    <2>6. QED
        BY <2>4, <2>5
<1>12. CASE SelectMappings(c)
    <2> DEFINE new == {n \in Discovered : mapping[n] = "none"}
               on == {n \in Discovered : mapping[n] # "off"}
    <2>1. PICK p \in {"starting", "inserting"} :
             Continue(c, [k EXCEPT !.pc = p, !.names = on, !.missing = new])
        BY <1>12 DEF SelectMappings
    <2>2. UNCHANGED <<hostVars, registry>> /\ k.pc = "syncing"
        BY <1>12 DEF SelectMappings
    <2>3. /\ call'[c].pc \in {"starting", "inserting"} /\ call'[c].kind = k.kind
          /\ call'[c].name = None /\ call'[c].names = on
        <3> HIDE DEF on, new
        <3>1. QED
            BY ZenonT(40), <1>1, <1>3, <2>1, <2>2 DEF CallOK
    <2>4. CallOK(c)' /\ Concerns(c)' = Concerns(c)
        BY <1>1, <2>2, <2>3, NoCallIsCall DEF CallOK, Concerns
    <2>5. \A n \in Names : Alive(n)' = Alive(n)
        BY <2>2 DEF Alive, Live, hostVars
    <2>6. ASSUME NEW n \in Names, PluginOK(n), n \in Concerns(c)
          PROVE  SoleCallOK(c, n)'
        <3>1. Alive(n) = {}
            BY <1>2, <2>2, <2>6 DEF SoleCallOK
        <3>2. QED
            BY <1>4, <2>3, <2>5, <3>1 DEF SoleCallOK
    <2>7. QED
        BY <2>1, <2>2, <2>4, <2>6, QuietStep
<1>13. CASE InsertMappings(c)
    <2>1. /\ Continue(c, [k EXCEPT !.pc = "starting", !.missing = {}])
          /\ UNCHANGED <<hostVars, registry>> /\ k.pc = "inserting"
        BY <1>13 DEF InsertMappings
    <2>2. /\ call'[c].pc = "starting" /\ call'[c].kind = k.kind
          /\ call'[c].name = None /\ call'[c].names = k.names /\ k.name = None
        BY <1>1, <1>3, <2>1 DEF CallOK
    <2>3. CallOK(c)' /\ Concerns(c)' = Concerns(c)
        BY <1>1, <2>1, <2>2, NoCallIsCall DEF CallOK, Concerns
    <2>4. \A n \in Names : Alive(n)' = Alive(n)
        BY <2>1 DEF Alive, Live, hostVars
    <2>5. ASSUME NEW n \in Names, PluginOK(n), n \in Concerns(c)
          PROVE  SoleCallOK(c, n)'
        BY <1>2, <1>4, <2>1, <2>2, <2>4, <2>5 DEF SoleCallOK
    <2>6. QED
        BY <2>1, <2>3, <2>5, QuietStep
<1>14. CASE SyncFails(c) \/ StartRaises(c) \/ Started(c)
    <2>1. /\ Continue(c, NoCall) /\ UNCHANGED <<hostVars, registry>>
          /\ k.pc \in {"inserting", "starting"} /\ k.name = None
        BY <1>1, <1>14 DEF SyncFails, StartRaises, Started, CallOK
    <2>2. ASSUME NEW n \in Names, PluginOK(n), n \in Concerns(c)
          PROVE  Alive(n) \subseteq {registry'[n]}
        BY <1>2, <1>4, <2>1, <2>2 DEF SoleCallOK
    <2>3. QED
        BY <1>3, <1>4, <2>1, <2>2, QuietStep
<1>15. ASSUME NEW m \in Names, StartNext(c, m)
       PROVE  ManagerOK'
    <2>1. PICK i \in Pids :
             /\ ~Live(i)
             /\ Continue(c, [k EXCEPT !.pc = "waiting", !.name = m, !.pid = i,
                                !.names = @ \ {m}, !.next = FreePort(k.next) + 1])
             /\ HostOK'
             /\ \A j \in Pids : j # i => proc'[j] = proc[j]
             /\ Name[proc'[i].dir] = m /\ Live(i)'
        BY <1>1, <1>15, StartNextSpawns
    <2>2. k.pc = "starting" /\ m \in k.names /\ UNCHANGED registry /\ k.name = None
        BY <1>1, <1>15 DEF StartNext, CallOK
    <2>3. /\ call'[c].pc = "waiting" /\ call'[c].kind = k.kind /\ call'[c].name = m
          /\ call'[c].pid = i /\ call'[c].names = k.names \ {m}
        BY ZenonT(40), <1>1, <1>3, <2>1
    <2>4. CallOK(c)' /\ Concerns(c)' = Concerns(c) /\ Concerns(c) = Names
        BY <1>1, <2>2, <2>3, NoCallIsCall DEF CallOK, Concerns, NoCall
    <2>5. /\ Alive(m)' = Alive(m) \union {i}
          /\ \A n \in Names : n # m => Alive(n)' = Alive(n)
        BY <2>1, OneMore
    <2>6. /\ \A b \in Calls : CallOK(b)'
          /\ \A b \in Calls : b # c => call'[b] = call[b]
          /\ raced' = raced
        BY <2>1, <2>4, CallsOK DEF ManagerOK, Continue
    <2>7. ASSUME NEW n \in Names \ raced'
          PROVE  PluginOK(n)'
        <3>1. PluginOK(n) /\ SoleCallOK(c, n)
            BY <1>2, <2>4, <2>6 DEF ManagerOK
        <3>2. CASE n = m
            <4>1. Alive(n) = {} /\ Alive(n)' = {i}
                BY <2>2, <2>5, <3>1, <3>2 DEF SoleCallOK
            <4>2. SoleCallOK(c, n)' /\ \A i1, j1 \in Alive(n)' : i1 = j1
                BY <2>3, <3>2, <4>1 DEF SoleCallOK
            <4>3. QED
                BY <2>4, <2>6, <3>1, <4>2, ContinueKeeps
        <3>3. CASE n # m
            <4>1. Alive(n)' = Alive(n) /\ registry'[n] = registry[n]
                BY <2>2, <2>5, <3>3
            <4>2. SoleCallOK(c, n)' /\ \A i1, j1 \in Alive(n)' : i1 = j1
                BY <1>4, <2>2, <2>3, <3>1, <3>3, <4>1 DEF SoleCallOK, PluginOK
            <4>3. QED
                BY <2>4, <2>6, <3>1, <4>2, ContinueKeeps
        <3>4. QED
            BY <3>2, <3>3
    <2>8. QED
        BY <2>6, <2>7 DEF ManagerOK
<1>16. QED
    BY <1>5, <1>6, <1>7, <1>8, <1>9, <1>10, <1>11, <1>12, <1>13, <1>14, <1>15 DEF CallStep

LEMMA NewCallOK ==
    ASSUME HostOK, ManagerTypeOK, ManagerOK, NEW c \in Calls, NewCall(c)
    PROVE  ManagerOK'
<1>1. /\ registry \in [Names -> Pids \union {None}]
      /\ \A n \in Names : n # None
      /\ \A i \in Pids : i # None
    BY DEF ManagerTypeOK
<1>2. ASSUME NEW S, NEW record, Begin(c, S, record), CallOK(c)', Concerns(c)' \subseteq S,
             UNCHANGED registry,
             \A n \in Names : PluginOK(n) =>
                /\ n \in Concerns(c)' => (Alive(n) \subseteq {registry[n]} =>
                      SoleCallOK(c, n)' /\ \A i, j \in Alive(n)' : i = j)
                /\ n \notin Concerns(c)' => Alive(n)' = Alive(n)
      PROVE  ManagerOK'
    <2>1. call' = [call EXCEPT ![c] = record] /\ raced \subseteq raced'
        BY <1>2, BeginIsNew
    <2>2. \A b \in Calls : CallOK(b)'
        BY <1>2, <2>1, CallsOK DEF ManagerOK
    <2>3. ASSUME NEW n \in Names \ raced'
          PROVE  PluginOK(n)'
        <3>1. PluginOK(n)
            BY <2>1 DEF ManagerOK
        <3>2. n \in Concerns(c)' => Alive(n) \subseteq {registry[n]}
            <4>1. n \in Concerns(c)' => \A b \in Calls : n \notin Concerns(b)
                BY <1>2, BeginIsNew
            <4>2. QED
                BY <3>1, <4>1 DEF PluginOK
        <3>3. \A i, j \in Alive(n)' : i = j
            BY <1>2, <3>1, <3>2 DEF PluginOK
        <3>4. QED
            BY <1>2, <3>1, <3>2, <3>3, BeginKeeps
    <2>4. QED
        BY <2>2, <2>3 DEF ManagerOK
<1>3. ASSUME NEW m \in Names, Enable(c, m)
      PROVE  ManagerOK'
    <2>1. PICK i \in Pids :
             /\ ~Live(i)
             /\ Begin(c, {m}, [NoCall EXCEPT !.kind = "apply", !.pc = "waiting",
                                             !.name = m, !.pid = i])
             /\ \A j \in Pids : j # i => proc'[j] = proc[j]
             /\ Name[proc'[i].dir] = m /\ Live(i)'
        BY <1>3, EnableSpawns
    <2>2. ~IsRunning(m) /\ UNCHANGED registry
        BY <1>3 DEF Enable
    <2>3. /\ call'[c].kind = "apply" /\ call'[c].pc = "waiting" /\ call'[c].name = m
          /\ call'[c].pid = i /\ call'[c].names = {}
        <3> DEFINE record == [NoCall EXCEPT !.kind = "apply", !.pc = "waiting",
                                            !.name = m, !.pid = i]
        <3>1. call' = [call EXCEPT ![c] = record]
            BY <2>1, BeginIsNew
        <3>2. call'[c] = record
            BY <1>1, <3>1 DEF ManagerTypeOK
        <3>3. /\ record.kind = "apply" /\ record.pc = "waiting" /\ record.name = m
              /\ record.pid = i /\ record.names = {}
            BY DEF NoCall
        <3>4. QED
            BY <3>2, <3>3
    <2>4. CallOK(c)' /\ Concerns(c)' = {m}
        BY <2>3, NoCallIsCall DEF CallOK, Concerns
    <2>5. /\ Alive(m)' = Alive(m) \union {i}
          /\ \A n \in Names : n # m => Alive(n)' = Alive(n)
        BY <2>1, OneMore
    <2>6. ASSUME Alive(m) \subseteq {registry[m]}
          PROVE  SoleCallOK(c, m)' /\ \A i1, j1 \in Alive(m)' : i1 = j1
        <3>1. Alive(m) = {}
            BY <1>1, <2>2, <2>6 DEF IsRunning, Alive
        <3>2. Alive(m)' = {i}
            BY <2>5, <3>1
        <3>3. QED
            BY <2>3, <3>2 DEF SoleCallOK
    <2>7. QED
        BY <1>2, <2>1, <2>2, <2>4, <2>5, <2>6
<1>4. ASSUME NEW m \in Names, Disable(c, m)
      PROVE  ManagerOK'
    <2>1. /\ Begin(c, {m}, [NoCall EXCEPT !.kind = "apply", !.pc = "disabling",
                                          !.name = m, !.pid = registry[m]])
          /\ UNCHANGED <<hostVars, registry>> /\ registry[m] \in Pids
        BY <1>1, <1>4 DEF Disable
    <2>2. /\ call'[c].kind = "apply" /\ call'[c].pc = "disabling" /\ call'[c].name = m
          /\ call'[c].pid = registry[m] /\ call'[c].names = {}
        <3> DEFINE record == [NoCall EXCEPT !.kind = "apply", !.pc = "disabling",
                                            !.name = m, !.pid = registry[m]]
        <3>1. call' = [call EXCEPT ![c] = record]
            BY <2>1, BeginIsNew
        <3>2. call'[c] = record
            BY <1>1, <3>1 DEF ManagerTypeOK
        <3>3. /\ record.kind = "apply" /\ record.pc = "disabling" /\ record.name = m
              /\ record.pid = registry[m] /\ record.names = {}
            BY DEF NoCall
        <3>4. QED
            BY <3>2, <3>3
    <2>3. CallOK(c)' /\ Concerns(c)' = {m}
        BY <2>1, <2>2, NoCallIsCall DEF CallOK, Concerns
    <2>4. \A n \in Names : Alive(n)' = Alive(n)
        BY <2>1 DEF Alive, Live, hostVars
    <2>5. ASSUME Alive(m) \subseteq {registry[m]}
          PROVE  SoleCallOK(c, m)' /\ \A i1, j1 \in Alive(m)' : i1 = j1
        BY <2>2, <2>4, <2>5 DEF SoleCallOK
    <2>6. QED
        BY <1>2, <2>1, <2>3, <2>4, <2>5
<1>5. ASSUME NEW kind \in {"startup", "shutdown"}, BeginShutdown(c, kind)
      PROVE  ManagerOK'
    <2>1. /\ Begin(c, Names, [NoCall EXCEPT !.kind = kind, !.pc = "terminating",
                                            !.todo = InRegistry])
          /\ UNCHANGED <<hostVars, registry>>
        BY <1>5 DEF BeginShutdown
    <2>2. /\ call'[c].kind = kind /\ call'[c].pc = "terminating" /\ call'[c].name = None
          /\ call'[c].todo = InRegistry /\ call'[c].names = {}
        <3> DEFINE record == [NoCall EXCEPT !.kind = kind, !.pc = "terminating",
                                            !.todo = InRegistry]
        <3>1. call' = [call EXCEPT ![c] = record]
            BY <2>1, BeginIsNew
        <3>2. call'[c] = record
            BY <1>1, <3>1 DEF ManagerTypeOK
        <3>3. /\ record.kind = kind /\ record.pc = "terminating" /\ record.name = None
              /\ record.todo = InRegistry /\ record.names = {}
            BY DEF NoCall
        <3>4. QED
            BY <3>2, <3>3
    <2>3. CallOK(c)' /\ Concerns(c)' = Names
        BY <2>2, NoCallIsCall DEF CallOK, Concerns
    <2>4. \A n \in Names : Alive(n)' = Alive(n)
        BY <2>1 DEF Alive, Live, hostVars
    <2>5. ASSUME NEW n \in Names, Alive(n) \subseteq {registry[n]}
          PROVE  SoleCallOK(c, n)' /\ \A i1, j1 \in Alive(n)' : i1 = j1
        <3>1. Alive(n) \subseteq InRegistry
            BY <1>1, <2>5 DEF InRegistry, Alive
        <3>2. QED
            BY <1>1, <2>2, <2>4, <2>5, <3>1 DEF SoleCallOK
    <2>6. QED
        BY <1>2, <2>1, <2>3, <2>4, <2>5
<1>6. QED
    BY <1>3, <1>4, <1>5 DEF NewCall

\* manager.py:66-231.  Calls keep what they know of a plugin that no two concern.
LEMMA ManagerStepOK ==
    ASSUME HostOK, ManagerTypeOK, ManagerOK, ManagerNext
    PROVE  ManagerOK'
<1>1. CASE Table
    <2>1. UNCHANGED <<hostVars, registry, call, raced>>
        BY <1>1 DEF Table, CreateMapping, SetEnabled, DeleteMapping
    <2>2. QED
        BY <2>1 DEF ManagerOK, PluginOK, CallOK, SoleCallOK, Concerns, Alive, Live, hostVars
<1>2. QED
    BY <1>1, CallStepOK, NewCallOK DEF ManagerNext

\* A process that ends, or binds its port, leaves nothing to look after.
LEMMA ProcessesKeep ==
    ASSUME HostOK, HostNext
    PROVE  /\ UNCHANGED gatewayVars /\ GatewayOK => GatewayOK'
           /\ UNCHANGED gatewayVars /\ GatewayTypeOK /\ ListsOK => ListsOK'
           /\ UNCHANGED managerVars /\ ManagerOK => ManagerOK'
<1>1. \A j \in Pids : Live(j)' => Live(j) /\ proc'[j].dir = proc[j].dir
    BY HostStepOK
<1>2. ASSUME UNCHANGED gatewayVars, GatewayOK
      PROVE  GatewayOK'
    BY <1>1, <1>2 DEF gatewayVars, GatewayOK, LookedAfter, Orphan, Terminating, Registered
<1>3. ASSUME UNCHANGED gatewayVars, GatewayTypeOK, ListsOK
      PROVE  ListsOK'
    <2>1. active[Watched] # None => active[Watched] \in Pids
        BY <1>3 DEF GatewayTypeOK
    <2>2. ServiceList'.status = "running" => ServiceList.status = "running"
        BY <1>1, <1>3, <2>1 DEF ServiceList, gatewayVars
    <2>3. Lists' = Lists /\ UNCHANGED <<starts, gw, cache, fetch>>
        BY <1>3 DEF Lists, gatewayVars
    <2>4. QED
        BY <1>3, <2>2, <2>3 DEF ListsOK
<1>4. ASSUME UNCHANGED managerVars, ManagerOK
      PROVE  ManagerOK'
    <2>1. \A n \in Names : Alive(n)' \subseteq Alive(n)
        BY <1>1 DEF Alive
    <2>2. UNCHANGED <<registry, call, raced>>
        BY <1>4 DEF managerVars
    <2>3. \A c \in Calls : CallOK(c)' /\ Concerns(c)' = Concerns(c)
        BY <1>4, <2>2 DEF ManagerOK, CallOK, Concerns
    <2>4. ASSUME NEW n \in Names \ raced'
          PROVE  PluginOK(n)'
        <3>1. PluginOK(n)
            BY <1>4, <2>2 DEF ManagerOK
        <3>2. \A c \in Calls : SoleCallOK(c, n) => SoleCallOK(c, n)'
            BY <2>1, <2>2 DEF SoleCallOK
        <3>3. QED
            BY <2>1, <2>2, <2>3, <3>1, <3>2 DEF PluginOK
    <2>5. QED
        BY <2>3, <2>4 DEF ManagerOK
<1>5. QED
    BY <1>2, <1>3, <1>4

-----------------------------------------------------------------------------
(***************************************************************************)
(* The theorems.                                                           *)
(***************************************************************************)
LEMMA InitOK == Init => IInv
<1> SUFFICES ASSUME Init
             PROVE  IInv
    OBVIOUS
<1>1. /\ proc = [i \in Pids |-> Exited] /\ hurried = {}
      /\ active = [n \in Names |-> None] /\ gw = Down /\ starts = 0 /\ left = {}
      /\ cache = EmptyList
      /\ fetch = [c \in Fetches |-> Idle]
      /\ mapping \in [Names -> {"none", "on", "off"}]
      /\ registry = [n \in Names |-> None] /\ call = [c \in Calls |-> NoCall]
      /\ ops = 0 /\ raced = {} /\ deployment \in {"gateway", "manager"}
    BY DEF Init, HostInit, GatewayInit, ManagerInit
<1>2. \A i \in Pids : ~Live(i) /\ ~Up(i)
    BY <1>1 DEF Live, Up, Exited
<1>3. HostTypeOK /\ PortsExclusive /\ PortsApart
    BY <1>1, <1>2 DEF HostTypeOK, PortsExclusive, PortsApart
<1>4. GatewayTypeOK
    <2>1. EmptyList \in List /\ Idle \in [pc : {"idle", "answered"}, list : List,
                                          overtaken : BOOLEAN]
        BY DEF EmptyList, List, Idle
    <2>2. Down \in [pc : {"down", "clearing", "launching", "waiting", "serving",
                          "terminating"},
                    at : 1 .. MaxDir + 1, next : Nat, pid : Pids \union {None},
                    todo : SUBSET Pids]
        <3>1. 1 \in 1 .. MaxDir + 1
            OBVIOUS
        <3>2. QED
            BY <3>1 DEF Down
    <2>3. QED
        BY <1>1, <2>1, <2>2 DEF GatewayTypeOK
<1>5. ManagerTypeOK
    BY <1>1, NoCallIsCall DEF ManagerTypeOK, Call
<1>6. GatewayOK
    BY <1>1, <1>2 DEF GatewayOK, Down, Registered
<1>7. ListsOK
    BY <1>1 DEF ListsOK, Lists, EmptyList, Idle
<1>8. ManagerOK
    <2>1. \A c \in Calls : CallOK(c) /\ Concerns(c) = {}
        BY <1>1, NoCallIsCall DEF CallOK, Concerns
    <2>2. \A n \in Names : Alive(n) = {}
        BY <1>2 DEF Alive
    <2>3. QED
        BY <2>1, <2>2 DEF ManagerOK, PluginOK
<1>9. QED
    BY <1>1, <1>3, <1>4, <1>5, <1>6, <1>7, <1>8 DEF IInv, TypeOK

LEMMA StepOK == IInv /\ [Next]_vars => IInv'
<1> SUFFICES ASSUME IInv, [Next]_vars
             PROVE  IInv'
    OBVIOUS
<1>1. HostOK /\ GatewayTypeOK /\ ManagerTypeOK /\ deployment \in {"gateway", "manager"}
    BY DEF IInv, TypeOK, HostOK
<1>2. CASE GatewaySteps
    <2>1. GatewayNext /\ deployment = "gateway" /\ UNCHANGED <<managerVars, deployment>>
        BY <1>2 DEF GatewaySteps
    <2>2. GatewayTypeOK' /\ GatewayOK' /\ ListsOK'
        BY <1>1, <2>1, GatewayTyped, GatewayStepOK, ListsStepOK DEF IInv
    <2>3. HostOK'
        <3>1. CASE \E d \in Dirs : Launch(d)
            BY <1>1, <3>1, LaunchSpawns
        <3>2. CASE UNCHANGED hostVars
            BY <1>1, <3>2 DEF HostOK, HostTypeOK, PortsExclusive, PortsApart, Live, Up, hostVars
        <3>3. QED
            BY <2>1, <3>1, <3>2 DEF GatewayNext, GatewayStarts, Lifespan, LaunchRaises,
                  ServiceReady, LaunchFails, Launched, TerminateService, ServicesTerminated,
                  GatewayStops, ServerExits, ListStep, GatewayAnswers, FetchFails, WriteList
    <2>4. ManagerTypeOK'
        BY <1>1, <2>1 DEF ManagerTypeOK, managerVars
    <2>5. QED
        BY <2>1, <2>2, <2>3, <2>4 DEF IInv, TypeOK, HostOK
<1>3. CASE ManagerSteps
    <2>1. ManagerNext /\ deployment = "manager" /\ UNCHANGED <<gatewayVars, deployment>>
        BY <1>3 DEF ManagerSteps
    <2>2. ManagerOK
        BY <2>1 DEF IInv
    <2>3. ManagerTypeOK' /\ ManagerOK'
        BY <1>1, <2>1, <2>2, ManagerTyped, ManagerStepOK
    <2>4. HostOK'
        <3>1. ASSUME NEW c \in Calls, NEW n \in Names, Enable(c, n)
              PROVE  HostOK'
            BY <1>1, <3>1, EnableSpawns
        <3>2. ASSUME NEW c \in Calls, NEW n \in Names, StartNext(c, n)
              PROVE  HostOK'
            BY <1>1, <2>2, <3>2, StartNextSpawns DEF ManagerOK
        <3>3. CASE UNCHANGED hostVars
            BY <1>1, <3>3 DEF HostOK, HostTypeOK, PortsExclusive, PortsApart, Live, Up, hostVars
        <3>4. QED
            BY <2>1, <3>1, <3>2, <3>3 DEF ManagerNext, Table, CreateMapping, SetEnabled,
                  DeleteMapping, NewCall, Disable, BeginShutdown, CallStep, Disabled, Ready,
                  NotReady, Aborted, Register, Terminated, SelectMappings, InsertMappings,
                  SyncFails, StartRaises, Started, Terminate
    <2>5. GatewayTypeOK'
        BY <1>1, <2>1 DEF GatewayTypeOK, gatewayVars
    <2>6. QED
        BY <2>1, <2>3, <2>4, <2>5 DEF IInv, TypeOK, HostOK
<1>4. CASE ProcessSteps
    <2>1. HostNext /\ UNCHANGED <<gatewayVars, managerVars, deployment>>
        BY <1>4 DEF ProcessSteps
    <2>2. HostOK'
        BY <1>1, <2>1, HostStepOK
    <2>3. GatewayTypeOK' /\ ManagerTypeOK'
        BY <1>1, <2>1 DEF GatewayTypeOK, gatewayVars, ManagerTypeOK, managerVars
    <2>4. /\ deployment = "gateway" => GatewayOK' /\ ListsOK'
          /\ deployment = "manager" => ManagerOK'
        BY <1>1, <2>1, ProcessesKeep DEF IInv
    <2>5. QED
        BY <1>1, <2>1, <2>2, <2>3, <2>4 DEF IInv, TypeOK, HostOK
<1>5. CASE UNCHANGED vars
    <2>1. UNCHANGED <<hostVars, gatewayVars, managerVars, deployment>>
        BY <1>5 DEF vars
    <2>2. HostOK'
        BY <1>1, <2>1 DEF HostOK, HostTypeOK, PortsExclusive, PortsApart, Live, Up, hostVars
    <2>3. GatewayTypeOK' /\ ManagerTypeOK'
        BY <1>1, <2>1 DEF GatewayTypeOK, gatewayVars, ManagerTypeOK, managerVars
    <2>4. GatewayOK => GatewayOK'
        BY <2>1 DEF GatewayOK, LookedAfter, Orphan, Terminating, Registered, Live, hostVars,
              gatewayVars
    <2>5. ListsOK => ListsOK'
        BY <2>1 DEF ListsOK, Lists, ServiceList, Live, hostVars, gatewayVars
    <2>6. ManagerOK => ManagerOK'
        BY <2>1 DEF ManagerOK, PluginOK, CallOK, SoleCallOK, Concerns, Alive, Live, hostVars,
              managerVars
    <2>7. QED
        BY <1>1, <2>1, <2>2, <2>3, <2>4, <2>5, <2>6 DEF IInv, TypeOK, HostOK
<1>6. QED
    BY <1>2, <1>3, <1>4, <1>5 DEF Next

\* What holds in every state of a host with plugins: no two processes hold one
\* port, and whoever started a process knows of it, save for the services that
\* a gateway shadows, those a launch that raised has left behind, and the plugins
\* that two calls of a manager raced for.
THEOREM PluginsInvariant == Spec => []IInv
<1>1. QED
    BY InitOK, StepOK, PTL DEF Spec

\* gateway.py:391-465 and 481-518.  When the gateway is down, after a stop or a
\* launch in which a service was not ready in time, the services that are alive are
\* shadowed ones and those that a launch left which raised.
THEOREM ServicesAreStopped == Spec => []StopsServices
<1>1. IInv => StopsServices
    <2> SUFFICES ASSUME IInv, deployment = "gateway", gw.pc = "down", NEW i \in Pids, Live(i),
                        ~Shadowed(proc[i].dir)
                 PROVE  i \in left
        BY DEF StopsServices
    <2>1. Registered \subseteq left /\ (Orphan(i) \/ LookedAfter(i))
        BY DEF IInv, GatewayOK
    <2>2. CASE Orphan(i)
        BY <2>2 DEF Orphan
    <2>3. CASE LookedAfter(i)
        <3>1. active[Name[proc[i].dir]] = i /\ Name[proc[i].dir] \in Names
            BY <2>3, ProcessIsLive DEF IInv, TypeOK, LookedAfter
        <3>2. QED
            BY <2>1, <3>1, RegisteredOnes DEF IInv, TypeOK
    <2>4. QED
        BY <2>1, <2>2, <2>3
<1>2. QED
    BY <1>1, PluginsInvariant, PTL

\* manager.py:66-106 and 198-231.  A live process of a plugin that no two calls
\* have concerned at a time is known to the manager, and the only one.
THEOREM NoOrphans == Spec => []OrphansNeedRaces
<1>1. IInv => OrphansNeedRaces
    <2> SUFFICES ASSUME IInv, deployment = "manager", NEW i \in Pids, Live(i),
                        Name[proc[i].dir] \notin raced
                 PROVE  /\ \/ registry[Name[proc[i].dir]] = i
                           \/ \E c \in Calls : Holds(c, i)
                        /\ \A j \in Pids : Live(j) /\ Name[proc[j].dir] = Name[proc[i].dir]
                              => j = i
        BY DEF OrphansNeedRaces
    <2> DEFINE n == Name[proc[i].dir]
    <2>1. n \in Names /\ i \in Alive(n)
        BY ProcessIsLive DEF IInv, TypeOK, Alive
    <2>2. PluginOK(n)
        BY <2>1 DEF IInv, ManagerOK
    <2>3. \A j \in Pids : Live(j) /\ Name[proc[j].dir] = n => j = i
        BY <2>1, <2>2 DEF PluginOK, Alive
    <2>4. registry[n] = i \/ \E c \in Calls : Holds(c, i)
        <3>1. CASE \A c \in Calls : n \notin Concerns(c)
            BY <2>1, <2>2, <3>1 DEF PluginOK
        <3>2. ASSUME NEW c \in Calls, n \in Concerns(c)
              PROVE  registry[n] = i \/ Holds(c, i)
            BY <2>1, <2>2, <3>2 DEF PluginOK, SoleCallOK, Holds
        <3>3. QED
            BY <3>1, <3>2
    <2>5. QED
        BY <2>3, <2>4
<1>2. QED
    BY <1>1, PluginsInvariant, PTL

\* gateway.py:216-228, 337-360 and 583-626.  Whoever answers for a registered
\* service is that service, unless one of the two was spawned while another was
\* starting.
THEOREM PortsBelong == Spec => []PortsAreOwn
<1>1. IInv => PortsAreOwn
    <2> SUFFICES ASSUME IInv, NEW i \in Registered \union InRegistry, NEW j \in Answering(i)
                 PROVE  i = j \/ {i, j} \intersect hurried # {}
        BY DEF PortsAreOwn
    <2>1. i \in Pids /\ j \in Pids /\ Live(i) /\ Up(j) /\ proc[j].port = proc[i].port
        BY DEF IInv, TypeOK, GatewayTypeOK, ManagerTypeOK, Registered, InRegistry, Answering
    <2>2. QED
        BY <2>1, ProcessIsLive DEF IInv, TypeOK, PortsApart
<1>2. QED
    BY <1>1, PluginsInvariant, PTL

\* endpoints.py:90-148.  What the core lists of a service goes forward within a
\* start of the gateway, except by an answer that another one has overtaken.
THEOREM ListsGoForward == Spec => ListGoesForward
<1>1. ASSUME IInv, [Next]_vars, ~UNCHANGED cache,
             cache.status = "stopped", cache'.status = "running", cache.start = cache'.start
      PROVE  \E c \in Fetches : /\ fetch[c].pc = "answered" /\ fetch[c].overtaken
                                /\ cache' = fetch[c].list
    <2>1. PICK c \in Fetches : WriteList(c)
        BY <1>1 DEF Next, GatewaySteps, ManagerSteps, ProcessSteps, vars, gatewayVars,
              GatewayNext, GatewayStarts, GatewayStops, ServerExits, Lifespan, Launch,
              LaunchRaises, ServiceReady, LaunchFails, Launched, TerminateService,
              ServicesTerminated, ListStep, GatewayAnswers, FetchFails, lifespanVars, listVars
    <2>2. fetch[c].pc = "answered" /\ cache' = fetch[c].list
        BY <2>1 DEF WriteList
    <2>3. deployment = "gateway"
        BY <1>1 DEF Next, GatewaySteps, ManagerSteps, ProcessSteps, vars, gatewayVars
    <2>4. ListsOK
        BY <1>1, <2>3 DEF IInv
    <2>5. fetch[c].overtaken
        BY <1>1, <2>2, <2>4 DEF ListsOK
    <2>6. QED
        BY <2>2, <2>5
<1>2. IInv /\ [Next]_vars => [ListStepsForward]_cache
    BY <1>1 DEF ListStepsForward
<1>3. QED
    BY <1>2, PluginsInvariant, PTL DEF Spec, ListGoesForward

-----------------------------------------------------------------------------
(***************************************************************************)
(* Calls of the manager go on.  Each step brings a call further, and what  *)
(* runs beside it takes it nowhere back.  That a step can be taken at all  *)
(* is a hypothesis, since the prover knows nothing of ENABLED.             *)
(***************************************************************************)
\* A host has one of the two: what the other one would do is not under way.
Parted ==
    /\ \A c \in Calls : deployment = "gateway" => call[c] = NoCall
    /\ deployment = "manager" => gw.pc = "down"

LEMMA HostsAreParted == Spec => []Parted
<1>1. Init => Parted
    BY DEF Init, ManagerInit, GatewayInit, Down, Parted
<1>2. Parted /\ [Next]_vars => Parted'
    BY DEF Parted, Next, GatewaySteps, ManagerSteps, ProcessSteps, vars, managerVars, gatewayVars
<1>3. QED
    BY <1>1, <1>2, PTL DEF Spec

\* gateway.py:501-513.  While a gateway launches, serves or stops, nothing is
\* registered that an earlier start has left: what a start finds is shut down first.
THEOREM RegistryStaysNew == Spec => []RegistryIsNew
<1>1. IInv /\ Parted => RegistryIsNew
    BY DEF IInv, TypeOK, Parted, GatewayOK, RegistryIsNew
<1>2. QED
    BY <1>1, PluginsInvariant, HostsAreParted, PTL

Wait(c) == IF CallWaits(c) THEN 1 ELSE 0

\* How many steps a call has ahead of it, at most: a startup terminates what is
\* registered, one process after the other, then starts each plugin in three.
Left(c) ==
    LET n == Cardinality(call[c].names)
        all == Cardinality(Discovered)
    IN  IF call[c] = NoCall THEN 0
        ELSE IF call[c].pc = "terminating"
        THEN 6 + 3 * all + 2 * Cardinality(call[c].todo) + Wait(c)
        ELSE IF call[c].pc = "syncing" THEN 5 + 3 * all
        ELSE IF call[c].pc = "waiting" THEN 5 + 3 * n
        ELSE IF call[c].pc \in {"inserting", "ready"} THEN 4 + 3 * n
        ELSE IF call[c].pc = "starting" THEN 3 + 3 * n
        ELSE 1 + Wait(c)

LEMMA DiscoveredFinite ==
    /\ IsFiniteSet(Discovered) /\ Cardinality(Discovered) \in Nat
    /\ \A S \in SUBSET Discovered :
          /\ IsFiniteSet(S) /\ Cardinality(S) \in 0 .. Cardinality(Discovered)
          /\ \A n \in S : Cardinality(S \ {n}) = Cardinality(S) - 1 /\ Cardinality(S) >= 1
<1>1. IsFiniteSet(Installed)
    <2>1. IsFiniteSet(1 .. MaxDir)
        BY FS_Interval
    <2>2. QED
        BY <2>1, FS_Subset DEF Dirs
<1>2. [d \in Installed |-> Name[d]] \in Surjection(Installed, Discovered)
    BY DEF Surjection, Discovered
<1>3. IsFiniteSet(Discovered)
    BY <1>1, <1>2, FS_Surjection
<1>4. Cardinality(Discovered) \in Nat
    BY <1>3, FS_CardinalityType
<1>5. ASSUME NEW S \in SUBSET Discovered
      PROVE  /\ IsFiniteSet(S) /\ Cardinality(S) \in 0 .. Cardinality(Discovered)
             /\ \A n \in S : Cardinality(S \ {n}) = Cardinality(S) - 1 /\ Cardinality(S) >= 1
    <2>1. IsFiniteSet(S) /\ Cardinality(S) <= Cardinality(Discovered)
        BY <1>3, FS_Subset
    <2>2. Cardinality(S) \in Nat
        BY <2>1, FS_CardinalityType
    <2>3. ASSUME NEW n \in S
          PROVE  Cardinality(S \ {n}) = Cardinality(S) - 1 /\ Cardinality(S) >= 1
        <3>1. IsFiniteSet(S \ {n}) /\ Cardinality(S \ {n}) = Cardinality(S) - 1
            BY <2>1, FS_RemoveElement
        <3>2. Cardinality(S \ {n}) \in Nat
            BY <3>1, FS_CardinalityType
        <3>3. QED
            BY <2>2, <3>1, <3>2
    <2>4. QED
        BY <1>4, <2>1, <2>2, <2>3
<1>6. QED
    BY <1>3, <1>4, <1>5

LEMMA PidsFinite ==
    \A S \in SUBSET Pids :
        /\ IsFiniteSet(S) /\ Cardinality(S) \in 0 .. MaxPid
        /\ \A i \in S : Cardinality(S \ {i}) = Cardinality(S) - 1
<1>1. IsFiniteSet(Pids) /\ Cardinality(Pids) = MaxPid
    <2>1. /\ IsFiniteSet(1 .. MaxPid)
          /\ Cardinality(1 .. MaxPid) = IF 1 > MaxPid THEN 0 ELSE MaxPid - 1 + 1
        BY FS_Interval
    <2>2. QED
        BY <2>1 DEF Pids
<1>2. ASSUME NEW S \in SUBSET Pids
      PROVE  /\ IsFiniteSet(S) /\ Cardinality(S) \in 0 .. MaxPid
             /\ \A i \in S : Cardinality(S \ {i}) = Cardinality(S) - 1
    <2>1. IsFiniteSet(S) /\ Cardinality(S) <= MaxPid
        BY <1>1, FS_Subset
    <2>2. Cardinality(S) \in Nat
        BY <2>1, FS_CardinalityType
    <2>3. \A i \in S : Cardinality(S \ {i}) = Cardinality(S) - 1
        BY <2>1, FS_RemoveElement
    <2>4. QED
        BY <2>1, <2>2, <2>3
<1>3. QED
    BY <1>2

LEMMA LeftIsNat ==
    ASSUME TypeOK, NEW c \in Calls, CallOK(c)
    PROVE  /\ Left(c) \in Nat
           /\ Left(c) = 0 <=> call[c] = NoCall
<1>1. call[c].todo \in SUBSET Pids /\ call[c].names \in SUBSET Discovered
    BY DEF TypeOK, ManagerTypeOK, CallOK
<1>2. Cardinality(call[c].todo) \in Nat /\ Cardinality(call[c].names) \in Nat
      /\ Cardinality(Discovered) \in Nat
    BY <1>1, PidsFinite, DiscoveredFinite
<1>3. Wait(c) \in {0, 1}
    BY DEF Wait
<1>4. QED
    BY <1>2, <1>3 DEF Left

\* A step of a call goes on with its record.
LEMMA StepBringsFurther ==
    ASSUME IInv, NEW c \in Calls, CallStep(c), CallOK(c)
    PROVE  Left(c)' < Left(c)
<1> DEFINE q == call[c]
           all == Cardinality(Discovered)
           n == Cardinality(q.names)
<1> USE DEF IInv, TypeOK
<1>1. q \in Call /\ call \in [Calls -> Call]
    BY DEF ManagerTypeOK, Call
<1>2. q.todo \in SUBSET Pids /\ q.names \in SUBSET Discovered /\ q.pc # "idle"
    BY <1>1 DEF CallOK, Call, CallStep, Disabled, Ready, NotReady, Aborted, Register, Terminated,
       SelectMappings, InsertMappings, SyncFails, StartRaises, Started, Terminate, StartNext
<1>3. all \in Nat /\ n \in 0 .. all /\ Cardinality(q.todo) \in Nat
    BY <1>2, PidsFinite, DiscoveredFinite
<1>4. q # NoCall /\ NoCall.pc = "idle"
    BY <1>2, NoCallIsCall
<1>5. Wait(c) \in {0, 1} /\ Wait(c)' \in {0, 1}
    BY DEF Wait
<1>6. ASSUME NEW record, Continue(c, record)
      PROVE  call'[c] = record
    BY <1>1, <1>6 DEF Continue
<1>7. Left(c) >= 1
    BY <1>2, <1>3, <1>4, <1>5 DEF Left
<1>8. ASSUME Continue(c, NoCall)
      PROVE  Left(c)' < Left(c)
    <2>1. Left(c)' = 0
        BY <1>6, <1>8 DEF Left
    <2>2. QED
        BY <1>7, <2>1, LeftIsNat
<1>9. CASE Disabled(c) \/ Aborted(c) \/ SyncFails(c) \/ StartRaises(c) \/ Started(c)
    BY <1>8, <1>9 DEF Disabled, Aborted, SyncFails, StartRaises, Started
<1>10. CASE Ready(c)
    <2>1. call'[c] = [q EXCEPT !.pc = "ready"] /\ q.pc = "waiting"
        BY <1>6, <1>10 DEF Ready
    <2>2. call'[c].pc = "ready" /\ call'[c].names = q.names
        BY <1>1, <2>1 DEF Call
    <2>3. QED
        BY <1>3, <1>4, <2>1, <2>2 DEF Left
<1>11. CASE NotReady(c)
    <2>1. call'[c].pc = "aborting" /\ q.pc = "waiting"
        BY <1>6, <1>11, NoCallIsCall DEF NotReady, Abort, Call
    <2>2. Left(c)' <= 2
        BY <1>5, <2>1, NoCallIsCall DEF Left
    <2>3. Left(c) >= 5
        BY <1>3, <1>4, <2>1 DEF Left
    <2>4. Left(c)' \in Nat
        BY <1>5, <2>1, NoCallIsCall DEF Left
    <2>5. QED
        BY <2>2, <2>3, <2>4, LeftIsNat
<1>12. CASE Register(c)
    <2>1. q.pc = "ready"
        BY <1>12 DEF Register
    <2>2. CASE q.kind = "apply"
        BY <1>8, <1>12, <2>2 DEF Register
    <2>3. CASE q.kind # "apply"
        <3>1. call'[c] = [q EXCEPT !.pc = "starting", !.name = None, !.pid = None]
            BY <1>6, <1>12, <2>3 DEF Register
        <3>2. call'[c].pc = "starting" /\ call'[c].names = q.names
            BY <1>1, <3>1 DEF Call
        <3>3. QED
            BY <1>3, <1>4, <2>1, <3>2 DEF Left
    <2>4. QED
        BY <2>2, <2>3
<1>13. CASE Terminated(c)
    <2>1. q.pc = "terminating"
        BY <1>13 DEF Terminated
    <2>2. CASE q.kind = "shutdown"
        BY <1>8, <1>13, <2>2 DEF Terminated
    <2>3. CASE q.kind # "shutdown"
        <3>1. call'[c] = [q EXCEPT !.pc = "syncing", !.pid = None]
            BY <1>6, <1>13, <2>3 DEF Terminated
        <3>2. call'[c].pc = "syncing"
            BY <1>1, <3>1 DEF Call
        <3>3. QED
            BY <1>3, <1>4, <1>5, <2>1, <3>2 DEF Left
    <2>4. QED
        BY <2>2, <2>3
<1>14. CASE SelectMappings(c)
    <2> DEFINE to == {m \in Discovered : mapping[m] # "off"}
    <2>1. q.pc = "syncing" /\ call'[c].pc \in {"starting", "inserting"} /\ call'[c].names = to
        BY ZenonT(40), <1>1, <1>6, <1>14 DEF SelectMappings, Call
    <2>2. Cardinality(to) \in 0 .. all
        BY DiscoveredFinite
    <2> HIDE DEF to
    <2>3. QED
        BY <1>3, <1>4, <2>1, <2>2 DEF Left
<1>15. CASE InsertMappings(c)
    <2>1. call'[c] = [q EXCEPT !.pc = "starting", !.missing = {}] /\ q.pc = "inserting"
        BY <1>6, <1>15 DEF InsertMappings
    <2>2. call'[c].pc = "starting" /\ call'[c].names = q.names
        BY <1>1, <2>1 DEF Call
    <2>3. QED
        BY <1>3, <1>4, <2>1, <2>2 DEF Left
<1>16. ASSUME NEW i \in Pids, Terminate(c, i)
       PROVE  Left(c)' < Left(c)
    <2>1. call'[c] = [q EXCEPT !.pid = i, !.todo = @ \ {i}] /\ q.pc = "terminating"
          /\ i \in q.todo
        BY <1>6, <1>16 DEF Terminate
    <2>2. call'[c].pc = "terminating" /\ call'[c].todo = q.todo \ {i}
        BY <1>1, <2>1 DEF Call
    <2>3. Cardinality(call'[c].todo) = Cardinality(q.todo) - 1
        BY <1>2, <2>1, <2>2, PidsFinite
    <2>4. Wait(c) = 0
        BY <1>16 DEF Terminate, Wait, CallWaits, Gone, Live
    <2>5. QED
        BY <1>3, <1>4, <1>5, <2>1, <2>2, <2>3, <2>4 DEF Left
<1>17. ASSUME NEW m \in Names, StartNext(c, m)
       PROVE  Left(c)' < Left(c)
    <2>1. q.pc = "starting" /\ m \in q.names
        BY <1>17 DEF StartNext
    <2>2. PICK i, p : call'[c] = [q EXCEPT !.pc = "waiting", !.name = m, !.pid = i,
                                           !.names = @ \ {m}, !.next = p]
        BY <1>6, <1>17 DEF StartNext
    <2>3. call'[c].pc = "waiting" /\ call'[c].names = q.names \ {m}
        BY <1>1, <2>2 DEF Call
    <2>4. Cardinality(call'[c].names) = n - 1 /\ n >= 1
        BY <1>2, <2>1, <2>3, DiscoveredFinite
    <2>5. QED
        BY <1>3, <1>4, <2>1, <2>3, <2>4 DEF Left
<1>18. QED
    BY <1>9, <1>10, <1>11, <1>12, <1>13, <1>14, <1>15, <1>16, <1>17 DEF CallStep

LEMMA OnlyStartNextSpawns ==
    ASSUME NEW b \in Calls, CallStep(b)
    PROVE  UNCHANGED hostVars \/ \E n \in Names : StartNext(b, n)
<1>1. CASE Disabled(b) \/ Ready(b) \/ NotReady(b)
    BY <1>1 DEF Disabled, Ready, NotReady
<1>2. CASE Aborted(b) \/ Register(b) \/ StartRaises(b) \/ Started(b)
    BY <1>2 DEF Aborted, Register, StartRaises, Started
<1>3. CASE Terminated(b) \/ \E i \in Pids : Terminate(b, i)
    BY <1>3 DEF Terminated, Terminate
<1>4. CASE SelectMappings(b)
    BY <1>4 DEF SelectMappings
<1>5. CASE InsertMappings(b) \/ SyncFails(b)
    BY <1>5 DEF InsertMappings, SyncFails
<1>6. QED
    BY <1>1, <1>2, <1>3, <1>4, <1>5 DEF CallStep

\* A process that a call has in its hands is not started again.
LEMMA NotStartedAgain ==
    ASSUME IInv, ManagerSteps, NEW c \in Calls, NEW i \in Pids, i = call[c].pid, Live(i)'
    PROVE  Live(i)
<1> USE DEF IInv, TypeOK
<1>1. i \notin Free
    BY DEF Free, InHand
<1>2. HostOK /\ ManagerTypeOK /\ \A b \in Calls : CallOK(b)
    BY DEF HostOK, ManagerSteps, ManagerOK
<1>3. ASSUME proc'[i] = proc[i]
      PROVE  Live(i)
    BY <1>3 DEF Live
<1>4. CASE Table
    BY <1>3, <1>4 DEF Table, CreateMapping, SetEnabled, DeleteMapping, hostVars
<1>5. ASSUME NEW b \in Calls, CallStep(b)
      PROVE  Live(i)
    <2>1. ASSUME NEW n \in Names, StartNext(b, n)
          PROVE  Live(i)
        <3>1. HostOK /\ ManagerTypeOK /\ CallOK(b)
            BY <1>2
        <3>2. \E j \in Free : \A k \in Pids : k # j => proc'[k] = proc[k]
            <4> HIDE DEF IInv, TypeOK
            <4>1. QED
                BY <3>1, <2>1, StartNextSpawns, Zenon
        <3>3. QED
            BY <1>1, <1>3, <3>2
    <2>2. CASE UNCHANGED hostVars
        BY <1>3, <2>2 DEF hostVars
    <2>3. QED
        BY <1>5, <2>1, <2>2, OnlyStartNextSpawns
<1>6. ASSUME NEW b \in Calls, NewCall(b)
      PROVE  Live(i)
    <2>1. ASSUME NEW n \in Names, Enable(b, n)
          PROVE  Live(i)
        <3>1. PICK j \in Free : \A k \in Pids : k # j => proc'[k] = proc[k]
            BY <1>2, <2>1, EnableSpawns
        <3>2. QED
            BY <1>1, <1>3, <3>1
    <2>2. CASE UNCHANGED hostVars
        BY <1>3, <2>2 DEF hostVars
    <2>3. QED
        BY <1>6, <2>1, <2>2 DEF NewCall, Disable, BeginShutdown
<1>7. QED
    BY <1>4, <1>5, <1>6 DEF ManagerSteps, ManagerNext

LEMMA InHandIsOK ==
    ASSUME IInv, Parted, NEW c \in Calls, call[c] # NoCall
    PROVE  CallOK(c) /\ deployment = "manager"
<1>1. deployment = "manager"
    BY DEF Parted, IInv, TypeOK
<1>2. QED
    BY <1>1 DEF IInv, ManagerOK

\* A step brings the call further or leaves it where it is, waiting or not.
LEMMA NothingTakesBack ==
    ASSUME IInv, Parted, [Next]_vars, NEW c \in Calls, call[c] # NoCall
    PROVE  \/ Left(c)' < Left(c)
           \/ Left(c)' = Left(c) /\ (CallWaits(c)' <=> CallWaits(c))
<1> USE DEF IInv, TypeOK
<1>1. deployment = "manager" /\ CallOK(c)
    BY DEF Parted, ManagerOK
<1>2. Left(c) \in Nat /\ Cardinality(call[c].todo) \in Nat /\ Cardinality(Discovered) \in Nat
    BY <1>1, LeftIsNat, PidsFinite, DiscoveredFinite DEF ManagerTypeOK
<1>3. ASSUME call'[c] = call[c], call[c].pid \in Pids /\ Live(call[c].pid)' => Live(call[c].pid)
      PROVE  \/ Left(c)' < Left(c)
             \/ Left(c)' = Left(c) /\ (CallWaits(c)' <=> CallWaits(c))
    <2>1. CASE CallWaits(c)' <=> CallWaits(c)
        <3>1. Wait(c)' = Wait(c)
            BY <2>1 DEF Wait
        <3>2. QED
            BY <1>3, <2>1, <3>1 DEF Left
    <2>2. CASE ~(CallWaits(c)' <=> CallWaits(c))
        <3>1. CallWaits(c) /\ ~CallWaits(c)'
            BY <1>3, <2>2 DEF CallWaits
        <3>2. Wait(c) = 1 /\ Wait(c)' = 0
            BY <3>1 DEF Wait
        <3>3. call[c].pc \in {"terminating", "aborting", "disabling"}
            BY <3>1 DEF CallWaits
        <3>4. QED
            BY <1>2, <1>3, <3>2, <3>3 DEF Left
    <2>3. QED
        BY <2>1, <2>2
<1>4. CASE ManagerSteps
    <2>1. CASE CallStep(c)
        BY <1>1, <2>1, StepBringsFurther
    <2>2. CASE ~CallStep(c)
        <3>1. call'[c] = call[c]
            <4>1. CASE Table
                BY <4>1 DEF Table, CreateMapping, SetEnabled, DeleteMapping
            <4>2. ASSUME NEW b \in Calls, CallStep(b)
                  PROVE  call'[c] = call[c]
                <5>1. b # c
                    BY <2>2, <4>2
                <5>2. PICK record : Continue(b, record)
                    BY <4>2 DEF CallStep, Disabled, Ready, NotReady, Aborted, Register,
                       Terminated, SelectMappings, InsertMappings, SyncFails, StartRaises,
                       Started, Terminate, StartNext, Abort
                <5>3. QED
                    BY <5>1, <5>2 DEF Continue, ManagerTypeOK
            <4>3. ASSUME NEW b \in Calls, NewCall(b)
                  PROVE  call'[c] = call[c]
                <5>1. PICK S, record : Begin(b, S, record)
                    BY <4>3 DEF NewCall, Enable, Disable, BeginShutdown
                <5>2. call[b] = NoCall /\ call' = [call EXCEPT ![b] = record]
                    BY <5>1, BeginIsNew
                <5>3. QED
                    BY <5>2 DEF ManagerTypeOK
            <4>4. QED
                BY <1>4, <4>1, <4>2, <4>3 DEF ManagerSteps, ManagerNext
        <3>2. QED
            BY <1>3, <1>4, <3>1, NotStartedAgain
    <2>3. QED
        BY <2>1, <2>2
<1>5. CASE ProcessSteps
    <2>1. UNCHANGED call
        BY <1>5 DEF ProcessSteps, managerVars
    <2>2. \A j \in Pids : Live(j)' => Live(j)
        BY <1>5, HostStepOK DEF ProcessSteps, HostOK
    <2>3. QED
        BY <1>3, <2>1, <2>2
<1>6. CASE UNCHANGED vars
    BY <1>3, <1>6 DEF vars, managerVars, hostVars, Live
<1>7. QED
    BY <1>1, <1>4, <1>5, <1>6 DEF Next, GatewaySteps

\* manager.py:66-231.  Whatever else is called and whatever becomes of the
\* services, no call stays where it is: with n steps ahead of it, it comes to
\* have fewer.
THEOREM CallsAdvance ==
    ASSUME NEW c \in Calls, NEW n \in Nat \ {0}
    PROVE  Spec /\ []CallsCanGoOn => (Left(c) = n ~> Left(c) \in 0 .. n - 1)
<1> DEFINE A == Left(c) = n
           B == Left(c) \in 0 .. n - 1
           W == CallWaits(c)
<1>1. Spec => CallGoesOn(c) /\ CallWaitEnds(c)
    BY DEF Spec, Fairness
<1>2. IInv /\ Parted /\ A => call[c] # NoCall /\ CallOK(c)
    BY DEF IInv, TypeOK, ManagerOK, Parted, Left
<1>3. (IInv /\ Parted)' => (Left(c) \in Nat)'
    <2>1. IInv /\ Parted => Left(c) \in Nat
        <3>1. CASE call[c] = NoCall
            BY <3>1 DEF Left
        <3>2. CASE call[c] # NoCall
            BY <3>2, LeftIsNat DEF IInv, TypeOK, ManagerOK, Parted
        <3>3. QED
            BY <3>1, <3>2
    <2>2. QED
        BY <2>1, PTL
<1>4. IInv /\ Parted /\ CallsCanGoOn /\ A =>
         (W => ENABLED <<StepKills(c)>>_vars) /\ (~W => ENABLED <<Step(c)>>_vars)
    BY <1>2 DEF CallsCanGoOn
<1>5. IInv /\ Parted /\ (IInv /\ Parted)' /\ A /\ [Next]_vars => (A' /\ (W' <=> W)) \/ B'
    BY <1>2, <1>3, NothingTakesBack
<1>6. IInv /\ Parted /\ (IInv /\ Parted)' /\ A /\ W /\ <<StepKills(c)>>_vars => B'
    <2> SUFFICES ASSUME IInv, Parted, (IInv /\ Parted)', A, W, StepKills(c)
                 PROVE  B'
        OBVIOUS
    <2>1. UNCHANGED call /\ proc' = [proc EXCEPT ![call[c].pid] = Exited] /\ call[c].pid \in Pids
        BY DEF StepKills, CallKills, CallWaits, Dies, Exit, managerVars
    <2>2. ~CallWaits(c)'
        BY <2>1 DEF CallWaits, Live, Exited, IInv, TypeOK, HostTypeOK
    <2>3. Wait(c) = 1 /\ Wait(c)' = 0
        BY <2>2 DEF Wait
    <2>4. call[c].pc \in {"terminating", "aborting", "disabling"} /\ call[c] # NoCall
        BY <1>2 DEF CallWaits
    <2>5. Cardinality(call[c].todo) \in Nat /\ Cardinality(Discovered) \in Nat
        BY PidsFinite, DiscoveredFinite DEF IInv, TypeOK, ManagerTypeOK
    <2>6. Left(c)' = Left(c) - 1
        BY <2>1, <2>3, <2>4, <2>5 DEF Left
    <2>7. QED
        BY <2>6
<1>7. IInv /\ Parted /\ (IInv /\ Parted)' /\ A /\ ~W /\ <<Step(c)>>_vars => B'
    BY <1>2, <1>3, StepBringsFurther DEF Step
<1> HIDE DEF A, B, W
<1>8. Spec /\ []CallsCanGoOn => (A ~> B)
    BY <1>1, <1>4, <1>5, <1>6, <1>7, PluginsInvariant, HostsAreParted, PTL
       DEF Spec, CallGoesOn, CallWaitEnds
<1>9. QED
    BY <1>8 DEF A, B

\* From so far on a call ends.
EndsFrom(c, n) == Spec /\ []CallsCanGoOn => (Left(c) \in 0 .. n ~> call[c] = NoCall)

LEMMA OneStepMore ==
    ASSUME NEW c \in Calls, NEW n \in Nat \ {0}
    PROVE  EndsFrom(c, n - 1) => EndsFrom(c, n)
<1> DEFINE A == Left(c) = n
           B == Left(c) \in 0 .. n - 1
           C == Left(c) \in 0 .. n
           Z == call[c] = NoCall
           H == Spec /\ []CallsCanGoOn
<1>1. H => (A ~> B)
    BY CallsAdvance
<1>2. C => A \/ B
    OBVIOUS
<1> HIDE DEF A, B, C, Z, H
<1>3. (H => (B ~> Z)) => (H => (C ~> Z))
    BY <1>1, <1>2, PTL
<1>4. QED
    BY <1>3 DEF B, C, Z, H, EndsFrom

\* manager.py:66-106.  What an endpoint applies to one plugin ends, whatever the
\* service does and whatever else is called: it takes at most five stages.
THEOREM AppliesEnd ==
    ASSUME NEW c \in Calls
    PROVE  Spec /\ []CallsCanGoOn => (call[c].kind = "apply" ~> call[c] = NoCall)
<1>1. IInv /\ Parted => (call[c].kind = "apply" => Left(c) \in 0 .. 5)
    <2> SUFFICES ASSUME IInv, Parted, call[c].kind = "apply"
                 PROVE  Left(c) \in 0 .. 5
        OBVIOUS
    <2>1. call[c] # NoCall
        BY NoCallIsCall
    <2>2. CallOK(c)
        BY <2>1, InHandIsOK
    <2>3. call[c].names = {} /\ call[c].pc \in {"waiting", "ready", "aborting", "disabling"}
        BY <2>2 DEF CallOK
    <2>4. Wait(c) \in {0, 1}
        BY DEF Wait
    <2>5. Cardinality({}) = 0
        BY FS_EmptySet
    <2>6. QED
        BY <2>1, <2>3, <2>4, <2>5 DEF Left
<1>2. IInv /\ Parted => (Left(c) \in 0 .. 0 => call[c] = NoCall)
    BY InHandIsOK, LeftIsNat DEF IInv
<1>3. EndsFrom(c, 0)
    BY <1>2, PluginsInvariant, HostsAreParted, PTL DEF EndsFrom
<1>4. EndsFrom(c, 1)
    BY <1>3, OneStepMore
<1>5. EndsFrom(c, 2)
    BY <1>4, OneStepMore
<1>6. EndsFrom(c, 3)
    BY <1>5, OneStepMore
<1>7. EndsFrom(c, 4)
    BY <1>6, OneStepMore
<1>8. EndsFrom(c, 5)
    BY <1>7, OneStepMore
<1>9. QED
    BY <1>1, <1>8, PluginsInvariant, HostsAreParted, PTL DEF EndsFrom

(***************************************************************************)
(* The lifespan of the gateway goes on in the same way.                    *)
(***************************************************************************)
GatewayWait == IF GatewayWaits THEN 1 ELSE 0

\* How many steps the gateway has ahead of it, at most: two for each service that
\* a start finds, two for each directory, and two for each service if the launch
\* fails and all are terminated.
StepsAhead ==
    IF gw.pc = "clearing"
    THEN 2 * MaxPid + 4 + 2 * MaxDir + 2 * Cardinality(gw.todo) + GatewayWait
    ELSE IF gw.pc = "launching" THEN 2 * MaxPid + 3 + 2 * (MaxDir + 1 - gw.at)
    ELSE IF gw.pc = "waiting" THEN 2 * MaxPid + 4 + 2 * (MaxDir + 1 - gw.at)
    ELSE IF gw.pc = "terminating" THEN 1 + 2 * Cardinality(gw.todo) + GatewayWait
    ELSE 0

LEMMA AheadIsNat ==
    ASSUME TypeOK
    PROVE  /\ StepsAhead \in Nat
           /\ StepsAhead = 0 <=> gw.pc \in {"down", "serving"}
           /\ Cardinality(gw.todo) \in 0 .. MaxPid
           /\ gw.at \in 1 .. MaxDir + 1
<1>1. gw.todo \in SUBSET Pids /\ gw.at \in 1 .. MaxDir + 1
    BY DEF TypeOK, GatewayTypeOK
<1>2. Cardinality(gw.todo) \in 0 .. MaxPid
    BY <1>1, PidsFinite
<1>3. GatewayWait \in {0, 1}
    BY DEF GatewayWait
<1>4. gw.pc \in {"down", "clearing", "launching", "waiting", "serving", "terminating"}
    BY DEF TypeOK, GatewayTypeOK
<1>5. MaxDir \in Nat /\ MaxPid \in Nat
    BY HostAssumption
<1>6. QED
    BY <1>1, <1>2, <1>3, <1>4, <1>5 DEF StepsAhead

LEMMA LifespanBringsFurther ==
    ASSUME TypeOK, TypeOK', Lifespan
    PROVE  StepsAhead' < StepsAhead
<1>1. /\ Cardinality(gw.todo) \in 0 .. MaxPid /\ Cardinality(gw'.todo) \in 0 .. MaxPid
      /\ gw.at \in 1 .. MaxDir + 1 /\ gw'.at \in 1 .. MaxDir + 1
    <2>1. /\ gw.todo \in SUBSET Pids /\ gw.at \in 1 .. MaxDir + 1
          /\ gw'.todo \in SUBSET Pids /\ gw'.at \in 1 .. MaxDir + 1
        BY DEF TypeOK, GatewayTypeOK
    <2>2. QED
        BY <2>1, PidsFinite
<1>2. GatewayWait \in {0, 1} /\ GatewayWait' \in {0, 1}
    BY DEF GatewayWait
<1>3. MaxDir \in Nat /\ MaxPid \in Nat
    BY HostAssumption
<1>4. gw \in [pc : {"down", "clearing", "launching", "waiting", "serving", "terminating"},
              at : 1 .. MaxDir + 1, next : Nat, pid : Pids \union {None}, todo : SUBSET Pids]
    BY DEF TypeOK, GatewayTypeOK
<1>5. CASE \E d \in Dirs : Launch(d)
    <2>1. PICK d \in Dirs : Launch(d)
        BY <1>5
    <2>2. gw.pc = "launching" /\ d >= gw.at
        BY <2>1 DEF Launch, IsNextAuto
    <2>3. gw'.pc = "waiting" /\ gw'.at = d + 1
        BY <1>4, <2>1 DEF Launch
    <2>4. QED
        BY <1>1, <1>3, <2>2, <2>3 DEF StepsAhead, Dirs
<1>6. CASE ServiceReady
    <2>1. gw.pc = "waiting" /\ gw'.pc = "launching" /\ gw'.at = gw.at
        BY <1>4, <1>6 DEF ServiceReady
    <2>2. QED
        BY <1>1, <1>3, <2>1 DEF StepsAhead
<1>7. CASE LaunchFails
    <2>1. gw.pc = "waiting" /\ gw'.pc = "terminating" /\ gw'.pid = None
        BY <1>4, <1>7 DEF LaunchFails, AfterFailure, Shutdown, Down
    <2>2. QED
        BY <1>1, <1>2, <1>3, <2>1 DEF StepsAhead
<1>8. CASE Launched
    <2>1. gw.pc = "launching" /\ gw'.pc = "serving"
        BY <1>4, <1>8 DEF Launched
    <2>2. QED
        BY <1>1, <1>3, <2>1 DEF StepsAhead
<1>9. CASE \E i \in Pids : TerminateService(i)
    <2>1. PICK i \in Pids : TerminateService(i)
        BY <1>9
    <2>2. Terminating /\ gw'.pc = gw.pc /\ gw'.todo = gw.todo \ {i}
        BY <1>4, <2>1 DEF TerminateService
    <2>3. i \in gw.todo
        BY <2>1 DEF TerminateService
    <2>4. Cardinality(gw'.todo) = Cardinality(gw.todo) - 1
        BY <1>4, <2>2, <2>3, PidsFinite
    <2>5. QED
        BY <1>1, <1>2, <1>3, <2>2, <2>4 DEF StepsAhead, Terminating
<1>10. CASE ServicesTerminated
    <2>1. \/ gw.pc = "terminating" /\ gw'.pc = "down"
          \/ gw.pc = "clearing" /\ gw'.pc = "launching" /\ gw'.at = 1
        BY <1>10 DEF ServicesTerminated, Terminating, Down
    <2>2. QED
        BY <1>1, <1>2, <1>3, <2>1 DEF StepsAhead
<1>11. CASE \E d \in Dirs : LaunchRaises(d)
    <2>1. gw.pc = "launching" /\ gw'.pc = "down"
        BY <1>11 DEF LaunchRaises, Down
    <2>2. QED
        BY <1>1, <1>3, <2>1 DEF StepsAhead
<1>12. QED
    BY <1>5, <1>6, <1>7, <1>8, <1>9, <1>10, <1>11 DEF Lifespan

\* Only the launch itself starts a process while the gateway terminates others.
LEMMA NothingTakesGatewayBack ==
    ASSUME IInv, IInv', Parted, [Next]_vars, StepsAhead # 0
    PROVE  \/ StepsAhead' < StepsAhead
           \/ StepsAhead' = StepsAhead /\ (GatewayWaits' <=> GatewayWaits)
<1> USE DEF IInv
<1>1. StepsAhead \in Nat /\ gw.pc \in {"clearing", "launching", "waiting", "terminating"}
    BY AheadIsNat DEF TypeOK, GatewayTypeOK
<1>2. deployment = "gateway" /\ gw.pc # "down" /\ gw.pc # "serving"
    BY <1>1 DEF TypeOK, Parted
<1>3. Cardinality(gw.todo) \in Nat
    BY AheadIsNat
<1>4. ASSUME gw' = gw, \A j \in Pids : Live(j)' => Live(j)
      PROVE  \/ StepsAhead' < StepsAhead
             \/ StepsAhead' = StepsAhead /\ (GatewayWaits' <=> GatewayWaits)
    <2>1. CASE GatewayWaits' <=> GatewayWaits
        <3>1. GatewayWait' = GatewayWait
            BY <2>1 DEF GatewayWait
        <3>2. QED
            BY <1>4, <2>1, <3>1 DEF StepsAhead
    <2>2. CASE ~(GatewayWaits' <=> GatewayWaits)
        <3>1. GatewayWaits /\ ~GatewayWaits'
            BY <1>4, <2>2 DEF GatewayWaits, Terminating
        <3>2. GatewayWait = 1 /\ GatewayWait' = 0
            BY <3>1 DEF GatewayWait
        <3>3. Terminating
            BY <3>1 DEF GatewayWaits
        <3>4. QED
            BY <1>3, <1>4, <3>2, <3>3, HostAssumption DEF StepsAhead, Terminating
    <2>3. QED
        BY <2>1, <2>2
<1>5. ASSUME gw' = gw, UNCHANGED proc
      PROVE  \/ StepsAhead' < StepsAhead
             \/ StepsAhead' = StepsAhead /\ (GatewayWaits' <=> GatewayWaits)
    BY <1>4, <1>5 DEF Live
<1>6. CASE GatewaySteps
    <2>1. CASE Lifespan
        BY <2>1, LifespanBringsFurther
    <2>2. CASE GatewayStarts \/ GatewayStops \/ ServerExits
        BY <1>2, <2>2 DEF GatewayStarts, GatewayStops, ServerExits
    <2>3. CASE ListStep
        BY <1>5, <2>3 DEF ListStep, GatewayAnswers, FetchFails, WriteList, lifespanVars, hostVars
    <2>4. QED
        BY <1>6, <2>1, <2>2, <2>3 DEF GatewaySteps, GatewayNext
<1>7. CASE ManagerSteps
    BY <1>2, <1>7 DEF ManagerSteps
<1>8. CASE ProcessSteps
    <2>1. UNCHANGED gw
        BY <1>8 DEF ProcessSteps, gatewayVars
    <2>2. \A j \in Pids : Live(j)' => Live(j)
        BY <1>8, HostStepOK DEF ProcessSteps, HostOK, TypeOK
    <2>3. QED
        BY <1>4, <2>1, <2>2
<1>9. CASE UNCHANGED vars
    BY <1>5, <1>9 DEF vars, gatewayVars, hostVars
<1>10. QED
    BY <1>6, <1>7, <1>8, <1>9 DEF Next

\* gateway.py:391-485.  A gateway that launches or terminates services does not
\* stay where it is, whatever the services do: with n steps ahead of it, it comes
\* to have fewer.
THEOREM LaunchAdvances ==
    ASSUME NEW n \in Nat \ {0}
    PROVE  Spec /\ []LaunchCanGoOn => (StepsAhead = n ~> StepsAhead \in 0 .. n - 1)
<1> DEFINE A == StepsAhead = n
           B == StepsAhead \in 0 .. n - 1
           W == GatewayWaits
<1>1. Spec => LifespanGoesOn /\ LifespanWaitEnds
    BY DEF Spec, Fairness
<1>2. IInv /\ A => gw.pc \in {"clearing", "launching", "waiting", "terminating"}
    BY AheadIsNat DEF IInv, TypeOK, GatewayTypeOK
<1>3. IInv' => (StepsAhead \in Nat)'
    <2>1. IInv => StepsAhead \in Nat
        BY AheadIsNat DEF IInv
    <2>2. QED
        BY <2>1, PTL
<1>4. IInv /\ LaunchCanGoOn /\ A =>
         (W => ENABLED <<LifespanKills>>_vars) /\ (~W => ENABLED <<LifespanStep>>_vars)
    BY <1>2 DEF LaunchCanGoOn
<1>5. IInv /\ Parted /\ IInv' /\ A /\ [Next]_vars => (A' /\ (W' <=> W)) \/ B'
    BY <1>3, NothingTakesGatewayBack
<1>6. IInv /\ IInv' /\ A /\ W /\ <<LifespanKills>>_vars => B'
    <2> SUFFICES ASSUME IInv, IInv', A, W, LifespanKills
                 PROVE  B'
        OBVIOUS
    <2>1. UNCHANGED gw /\ proc' = [proc EXCEPT ![gw.pid] = Exited] /\ gw.pid \in Pids
        BY DEF LifespanKills, GatewayKills, GatewayWaits, Dies, Exit, gatewayVars
    <2>2. ~GatewayWaits'
        BY <2>1 DEF GatewayWaits, Live, Exited, IInv, TypeOK, HostTypeOK
    <2>3. GatewayWait = 1 /\ GatewayWait' = 0
        BY <2>2 DEF GatewayWait
    <2>4. Terminating
        BY DEF GatewayWaits
    <2>5. Cardinality(gw.todo) \in Nat
        BY AheadIsNat DEF IInv
    <2>6. StepsAhead' = StepsAhead - 1
        BY <2>1, <2>3, <2>4, <2>5, HostAssumption DEF StepsAhead, Terminating
    <2>7. QED
        BY <2>6
<1>7. IInv /\ IInv' /\ A /\ ~W /\ <<LifespanStep>>_vars => B'
    BY <1>3, LifespanBringsFurther DEF LifespanStep, IInv
<1> HIDE DEF A, B, W
<1>8. Spec /\ []LaunchCanGoOn => (A ~> B)
    BY <1>1, <1>4, <1>5, <1>6, <1>7, PluginsInvariant, HostsAreParted, PTL
       DEF Spec, LifespanGoesOn, LifespanWaitEnds
<1>9. QED
    BY <1>8 DEF A, B

(***************************************************************************)
(* From one stage to the next there is no end by itself: that a number     *)
(* which always comes to be lower comes to be zero is a law of temporal    *)
(* logic, whose induction the prover has no rule for.  It is stated for    *)
(* the two ranks.                                                          *)
(***************************************************************************)
CallDescends(c) ==
    (\A n \in Nat \ {0} : Left(c) = n ~> Left(c) \in 0 .. n - 1)
    => (Left(c) \in Nat ~> Left(c) = 0)

LaunchDescends ==
    (\A n \in Nat \ {0} : StepsAhead = n ~> StepsAhead \in 0 .. n - 1)
    => (StepsAhead \in Nat ~> StepsAhead = 0)

\* manager.py:66-231.  Every call of the manager comes to its end, however many
\* mappings it starts and whatever else is called.
THEOREM AllCallsEnd ==
    Spec /\ []CallsCanGoOn /\ (\A c \in Calls : CallDescends(c)) => CallsEnd
<1>1. ASSUME NEW c \in Calls
      PROVE  Spec /\ []CallsCanGoOn /\ CallDescends(c) => (call[c] # NoCall ~> call[c] = NoCall)
    <2>1. Spec /\ []CallsCanGoOn =>
              (\A n \in Nat \ {0} : Left(c) = n ~> Left(c) \in 0 .. n - 1)
        BY CallsAdvance
    <2>2. Spec /\ []CallsCanGoOn /\ CallDescends(c) => (Left(c) \in Nat ~> Left(c) = 0)
        BY <2>1 DEF CallDescends
    <2>3. IInv /\ Parted /\ call[c] # NoCall => Left(c) \in Nat
        BY InHandIsOK, LeftIsNat DEF IInv
    <2>4. IInv /\ Parted /\ Left(c) = 0 => call[c] = NoCall
        BY InHandIsOK, LeftIsNat DEF IInv
    <2>5. QED
        BY <2>2, <2>3, <2>4, PluginsInvariant, HostsAreParted, PTL
<1>2. QED
    BY <1>1 DEF CallsEnd

\* gateway.py:391-485.  A gateway that launches or stops its services gets through
\* with it, however many there are and whichever fail.
THEOREM EveryLaunchEnds == Spec /\ []LaunchCanGoOn /\ LaunchDescends => LaunchEnds
<1>1. Spec /\ []LaunchCanGoOn =>
          (\A n \in Nat \ {0} : StepsAhead = n ~> StepsAhead \in 0 .. n - 1)
    BY LaunchAdvances
<1>2. Spec /\ []LaunchCanGoOn /\ LaunchDescends => (StepsAhead \in Nat ~> StepsAhead = 0)
    BY <1>1 DEF LaunchDescends
<1>3. IInv => StepsAhead \in Nat /\ (StepsAhead = 0 => gw.pc \in {"serving", "down"})
    BY AheadIsNat DEF IInv
<1>4. QED
    BY <1>2, <1>3, PluginsInvariant, PTL DEF LaunchEnds
-----------------------------------------------------------------------------
(***************************************************************************)
(* Handles.  RoomFor asks for them when a call begins; what goes on        *)
(* meanwhile, other calls included, takes none that a startup will need.   *)
(***************************************************************************)
Wanted(c) ==
    IF call[c].kind # "startup" THEN {}
    ELSE IF call[c].pc \in {"terminating", "syncing"} THEN Discovered
    ELSE call[c].names

LEMMA ToStartIs == \A x : x \in ToStart <=> \E c \in Calls : \E n \in Wanted(c) : x = <<c, n>>
<1>1. ToStart = UNION {{c} \X Wanted(c) : c \in Calls}
    BY DEF ToStart, Wanted
<1>2. QED
    BY <1>1

Referred == InRegistry \union InHand

RoomLeft == IsFiniteSet(ToStart) /\ Cardinality(Free) >= Cardinality(ToStart)

LEMMA FreePids == Free \subseteq Pids
    BY DEF Free

\* Fewer to start, and none less free.
LEMMA RoomStays ==
    ASSUME RoomLeft, Free \subseteq Free', ToStart' \subseteq ToStart
    PROVE  RoomLeft'
<1>1. Free' \in SUBSET Pids /\ Free \in SUBSET Pids
    BY DEF Free
<1>2. /\ IsFiniteSet(ToStart) /\ IsFiniteSet(ToStart')
      /\ Cardinality(ToStart') <= Cardinality(ToStart)
    BY FS_Subset DEF RoomLeft
<1>3. IsFiniteSet(Free') /\ IsFiniteSet(Free)
    BY <1>1, PidsFinite
<1>4. Cardinality(Free) <= Cardinality(Free')
    BY <1>3, FS_Subset
<1>5. /\ Cardinality(Free) \in Nat /\ Cardinality(Free') \in Nat
      /\ Cardinality(ToStart) \in Nat /\ Cardinality(ToStart') \in Nat
    BY <1>2, <1>3, FS_CardinalityType
<1>6. Cardinality(Free') >= Cardinality(ToStart')
    BY <1>2, <1>4, <1>5 DEF RoomLeft
<1>7. QED
    BY <1>2, <1>6 DEF RoomLeft

\* One handle is taken, for a process that was to be started or one that there was
\* room for besides those.
LEMMA RoomForOne ==
    ASSUME RoomLeft, NEW i \in Free, NEW x,
           Free \ {i} \subseteq Free', ToStart' \subseteq ToStart,
           \/ x \in ToStart \ ToStart'
           \/ RoomFor(1)
    PROVE  RoomLeft'
<1>1. Free' \in SUBSET Pids /\ Free \in SUBSET Pids /\ Free \ {i} \in SUBSET Pids
    BY DEF Free
<1>2. IsFiniteSet(ToStart) /\ IsFiniteSet(ToStart')
    BY FS_Subset DEF RoomLeft
<1>3. IsFiniteSet(Free') /\ IsFiniteSet(Free) /\ Cardinality(Free \ {i}) = Cardinality(Free) - 1
    BY <1>1, PidsFinite
<1>4. Cardinality(Free) - 1 <= Cardinality(Free')
    BY <1>3, FS_Subset
<1>5. /\ Cardinality(Free) \in Nat /\ Cardinality(Free') \in Nat
      /\ Cardinality(ToStart) \in Nat /\ Cardinality(ToStart') \in Nat
    BY <1>2, <1>3, FS_CardinalityType
<1>6. Cardinality(ToStart') + 1 <= Cardinality(Free)
    <2>1. CASE x \in ToStart \ ToStart'
        <3>1. /\ IsFiniteSet(ToStart \ {x})
              /\ Cardinality(ToStart \ {x}) = Cardinality(ToStart) - 1
            BY <1>2, <2>1, FS_RemoveElement
        <3>2. Cardinality(ToStart') <= Cardinality(ToStart \ {x})
            BY <2>1, <3>1, FS_Subset
        <3>3. QED
            BY <1>5, <3>1, <3>2 DEF RoomLeft
    <2>2. CASE RoomFor(1)
        <3>1. Cardinality(ToStart') <= Cardinality(ToStart)
            BY <1>2, FS_Subset
        <3>2. QED
            BY <1>5, <2>2, <3>1 DEF RoomFor
    <2>3. QED
        BY <2>1, <2>2
<1>7. QED
    BY <1>2, <1>4, <1>5, <1>6 DEF RoomLeft

\* A startup begins.
LEMMA RoomForAll ==
    ASSUME RoomLeft, RoomFor(Cardinality(Discovered)), NEW c \in Calls,
           Free \subseteq Free', ToStart' \subseteq ToStart \union ({c} \X Discovered)
    PROVE  RoomLeft'
<1> DEFINE More == {c} \X Discovered
<1>1. IsFiniteSet(More) /\ Cardinality(More) = Cardinality(Discovered)
    <2> DEFINE f == [n \in Discovered |-> <<c, n>>]
    <2>1. f \in Bijection(Discovered, More)
        <3>1. f \in [Discovered -> More] /\ \A n \in Discovered : f[n] = <<c, n>>
            OBVIOUS
        <3>2. \A m, n \in Discovered : f[m] = f[n] => m = n
            BY <3>1
        <3>3. \A x \in More : \E n \in Discovered : f[n] = x
            BY <3>1
        <3> HIDE DEF f
        <3>4. QED
            BY <3>1, <3>2, <3>3 DEF Bijection, Injection, IsInjective, Surjection
    <2>2. ExistsBijection(Discovered, More)
        BY <2>1 DEF ExistsBijection
    <2>3. QED
        BY <2>2, DiscoveredFinite, FS_Bijection
<1>2. Free' \in SUBSET Pids /\ Free \in SUBSET Pids
    BY DEF Free
<1>3. IsFiniteSet(Free') /\ IsFiniteSet(Free) /\ Cardinality(Free) <= Cardinality(Free')
    BY <1>2, PidsFinite, FS_Subset
<1> HIDE DEF More
<1>4. /\ IsFiniteSet(ToStart \union More)
      /\ Cardinality(ToStart \union More) =
            Cardinality(ToStart) + Cardinality(More) - Cardinality(ToStart \intersect More)
    BY <1>1, FS_Union DEF RoomLeft
<1>5. IsFiniteSet(ToStart') /\ Cardinality(ToStart') <= Cardinality(ToStart \union More)
    BY <1>4, FS_Subset DEF More
<1>6. IsFiniteSet(ToStart) /\ IsFiniteSet(ToStart \intersect More)
    BY FS_Subset DEF RoomLeft
<1>7. /\ Cardinality(Free) \in Nat /\ Cardinality(Free') \in Nat
      /\ Cardinality(ToStart) \in Nat /\ Cardinality(ToStart') \in Nat
      /\ Cardinality(ToStart \intersect More) \in Nat /\ Cardinality(More) \in Nat
    BY <1>1, <1>3, <1>5, <1>6, FS_CardinalityType
<1>8. Cardinality(Free) >= Cardinality(More) + Cardinality(ToStart)
    BY <1>1 DEF RoomFor
<1>9. Cardinality(Free') >= Cardinality(ToStart')
    BY <1>3, <1>4, <1>5, <1>7, <1>8
<1>10. QED
    BY <1>5, <1>9 DEF RoomLeft

\* What is free stays free if nobody begins to refer to it and it is not started.
LEMMA FreeKept ==
    ASSUME NEW D, \A i \in Pids \ D : Live(i)' => Live(i),
           Referred' \intersect Pids \subseteq Referred \union D
    PROVE  Free \ D \subseteq Free'
    BY DEF Free, Referred

\* What a call refers to after its step: what it or the registry did, or D.
LEMMA ReferredAfter ==
    ASSUME ManagerTypeOK, NEW D, NEW c \in Calls, NEW record \in Call,
           call' = [call EXCEPT ![c] = record],
           {record.pid} \union record.todo \subseteq {None} \union Referred \union D,
           \A n \in Names : registry'[n] \in {None} \union Referred
    PROVE  Referred' \intersect Pids \subseteq Referred \union D
<1>1. ASSUME NEW b \in Calls
      PROVE  ({call[b].pid} \union call[b].todo)' \subseteq {None} \union Referred \union D
    <2>1. CASE b = c
        <3>1. call'[b] = record
            BY <2>1 DEF ManagerTypeOK
        <3>2. QED
            BY <3>1
    <2>2. CASE b # c
        <3>1. call'[b] = call[b]
            BY <2>2 DEF ManagerTypeOK
        <3>2. QED
            BY <3>1 DEF Referred, InHand
    <2>3. QED
        BY <2>1, <2>2
<1>2. InHand' \subseteq {None} \union Referred \union D
    BY <1>1 DEF InHand
<1>3. InRegistry' \subseteq Referred
    BY DEF InRegistry
<1>4. None \notin Pids
    OBVIOUS
<1>5. QED
    BY <1>2, <1>3, <1>4 DEF Referred

LEMMA WantedAfter ==
    ASSUME ManagerTypeOK, NEW c \in Calls, NEW record \in Call, NEW S,
           call' = [call EXCEPT ![c] = record],
           Wanted(c)' \subseteq S
    PROVE  /\ ToStart' \subseteq ToStart \union ({c} \X S)
           /\ S \subseteq Wanted(c) => ToStart' \subseteq ToStart
           /\ \A n : n \notin S => <<c, n>> \notin ToStart'
<1>1. \A x : x \in ToStart' <=> \E b \in Calls : \E n \in Wanted(b)' : x = <<b, n>>
    <2>1. ToStart' = UNION {{b} \X Wanted(b)' : b \in Calls}
        BY DEF ToStart, Wanted
    <2>2. QED
        BY <2>1
<1>2. ASSUME NEW b \in Calls, b # c
      PROVE  Wanted(b)' = Wanted(b)
    <2>1. call'[b] = call[b]
        BY <1>2 DEF ManagerTypeOK
    <2>2. QED
        BY <2>1 DEF Wanted
<1> HIDE DEF Wanted
<1>3. QED
    BY <1>1, <1>2, ToStartIs

\* A step of a call that starts nothing.
LEMMA QuietKeepsRoom ==
    ASSUME ManagerTypeOK, RoomLeft, UNCHANGED hostVars,
           NEW c \in Calls, NEW record \in Call,
           call' = [call EXCEPT ![c] = record],
           {record.pid} \union record.todo \subseteq {None} \union Referred,
           \A n \in Names : registry'[n] \in {None} \union Referred,
           Wanted(c)' \subseteq Wanted(c)
    PROVE  RoomLeft'
<1>1. Free \subseteq Free'
    <2>1. \A i \in Pids : Live(i)' => Live(i)
        BY DEF hostVars, Live
    <2>2. Referred' \intersect Pids \subseteq Referred
        BY ReferredAfter
    <2>3. Free \ {} \subseteq Free'
        BY <2>1, <2>2, FreeKept
    <2>4. QED
        BY <2>3
<1>2. ToStart' \subseteq ToStart
    BY WantedAfter
<1>3. QED
    BY <1>1, <1>2, RoomStays

LEMMA StepsKeepRoom ==
    ASSUME HostOK, ManagerTypeOK, ManagerOK, RoomLeft, NEW c \in Calls, CallStep(c)
    PROVE  RoomLeft'
<1>1. /\ call \in [Calls -> Call] /\ call[c] \in Call
      /\ registry \in [Names -> Pids \union {None}]
      /\ mapping \in [Names -> {"none", "on", "off"}]
    BY DEF ManagerTypeOK, Call
<1>2. CallOK(c)
    BY DEF ManagerOK
<1>3. /\ call[c].pid \in Referred /\ call[c].todo \subseteq Referred
      /\ \A n \in Names : registry[n] \in {None} \union Referred
    BY DEF Referred, InHand, InRegistry
<1>4. NoCall \in Call /\ NoCall.kind = "none" /\ NoCall.pid = None /\ NoCall.todo = {}
    BY NoCallIsCall
<1>5. ASSUME NEW record \in Call, call' = [call EXCEPT ![c] = record],
             record.kind = call[c].kind \/ record = NoCall,
             record.kind = "startup" =>
                \/ record.pc \in {"terminating", "syncing"}
                   /\ call[c].pc \in {"terminating", "syncing"}
                \/ /\ record.pc \notin {"terminating", "syncing"}
                   /\ record.names \subseteq Wanted(c)
      PROVE  Wanted(c)' \subseteq Wanted(c)
    <2>1. call'[c] = record
        BY <1>1, <1>5
    <2>2. QED
        BY <1>4, <1>5, <2>1 DEF Wanted
<1>6. CASE Disabled(c) \/ Aborted(c) \/ SyncFails(c) \/ StartRaises(c) \/ Started(c)
    <2>1. /\ call' = [call EXCEPT ![c] = NoCall] /\ UNCHANGED hostVars
          /\ \A n \in Names : registry'[n] \in {None, registry[n]}
        BY <1>1, <1>6 DEF Disabled, Aborted, SyncFails, StartRaises, Started, Continue
    <2>2. Wanted(c)' \subseteq Wanted(c)
        BY <1>4, <1>5, <2>1
    <2>3. QED
        BY <1>3, <1>4, <2>1, <2>2, QuietKeepsRoom
<1>7. CASE Ready(c)
    <2> DEFINE r == [call[c] EXCEPT !.pc = "ready"]
    <2>1. /\ call' = [call EXCEPT ![c] = r] /\ UNCHANGED <<hostVars, registry>>
          /\ call[c].pc = "waiting"
        BY <1>7 DEF Ready, Continue
    <2>2. /\ r \in Call /\ r.kind = call[c].kind /\ r.pc = "ready" /\ r.names = call[c].names
          /\ r.pid = call[c].pid /\ r.todo = call[c].todo
        BY <1>1 DEF Call
    <2>3. r.kind = "startup" => r.names \subseteq Wanted(c)
        BY <2>1, <2>2 DEF Wanted
    <2> HIDE DEF r
    <2>4. Wanted(c)' \subseteq Wanted(c)
        BY <1>5, <2>1, <2>2, <2>3
    <2>5. QED
        BY <1>3, <2>1, <2>2, <2>4, QuietKeepsRoom
<1>8. CASE NotReady(c)
    <2> DEFINE r == [NoCall EXCEPT !.kind = call[c].kind, !.pc = "aborting",
                                   !.name = call[c].name, !.pid = call[c].pid]
    <2>1. call' = [call EXCEPT ![c] = r] /\ UNCHANGED <<hostVars, registry>>
        BY <1>8 DEF NotReady, Abort, Continue
    <2>2. /\ r \in Call /\ r.kind = call[c].kind /\ r.pc = "aborting" /\ r.names = {}
          /\ r.pid = call[c].pid /\ r.todo = {}
        BY <1>1, <1>4 DEF Call, NoCall
    <2> HIDE DEF r
    <2>4. Wanted(c)' \subseteq Wanted(c)
        BY <1>5, <2>1, <2>2
    <2>5. QED
        BY <1>3, <2>1, <2>2, <2>4, QuietKeepsRoom
<1>9. CASE Register(c)
    <2> DEFINE r == IF call[c].kind = "apply" THEN NoCall
                    ELSE [call[c] EXCEPT !.pc = "starting", !.name = None, !.pid = None]
    <2>1. /\ call' = [call EXCEPT ![c] = r] /\ UNCHANGED hostVars /\ call[c].pc = "ready"
          /\ registry' = [registry EXCEPT ![call[c].name] = call[c].pid]
        BY <1>9 DEF Register, Continue
    <2>2. /\ r \in Call /\ r.pid = None
          /\ \/ r = NoCall
             \/ /\ r.kind = call[c].kind /\ r.pc = "starting" /\ r.names = call[c].names
                /\ r.todo = call[c].todo
        <3>1. CASE call[c].kind = "apply"
            <4>1. r = NoCall
                BY <3>1
            <4>2. QED
                BY <1>4, <4>1
        <3>2. CASE call[c].kind # "apply"
            <4>1. r = [call[c] EXCEPT !.pc = "starting", !.name = None, !.pid = None]
                BY <3>2
            <4>2. QED
                BY <1>1, <4>1 DEF Call
        <3>3. QED
            BY <3>1, <3>2
    <2>3. r.kind = "startup" => r.names \subseteq Wanted(c)
        BY <1>4, <2>1, <2>2 DEF Wanted
    <2> HIDE DEF r
    <2>4. Wanted(c)' \subseteq Wanted(c)
        BY <1>4, <1>5, <2>1, <2>2, <2>3
    <2>5. \A n \in Names : registry'[n] \in {None} \union Referred
        BY <1>1, <1>3, <2>1
    <2>6. {r.pid} \union r.todo \subseteq {None} \union Referred
        BY <1>3, <1>4, <2>2
    <2>7. QED
        BY <2>1, <2>2, <2>4, <2>5, <2>6, QuietKeepsRoom
<1>10. CASE Terminated(c)
    <2> DEFINE r == IF call[c].kind = "shutdown" THEN NoCall
                    ELSE [call[c] EXCEPT !.pc = "syncing", !.pid = None]
    <2>1. /\ call' = [call EXCEPT ![c] = r] /\ UNCHANGED hostVars /\ call[c].pc = "terminating"
          /\ registry' = [n \in Names |-> None]
        BY <1>10 DEF Terminated, Continue
    <2>2. /\ r \in Call /\ r.pid = None
          /\ \/ r = NoCall
             \/ /\ r.kind = call[c].kind /\ r.pc = "syncing" /\ r.todo = call[c].todo
        <3>1. CASE call[c].kind = "shutdown"
            <4>1. r = NoCall
                BY <3>1
            <4>2. QED
                BY <1>4, <4>1
        <3>2. CASE call[c].kind # "shutdown"
            <4>1. r = [call[c] EXCEPT !.pc = "syncing", !.pid = None]
                BY <3>2
            <4>2. QED
                BY <1>1, <4>1 DEF Call
        <3>3. QED
            BY <3>1, <3>2
    <2> HIDE DEF r
    <2>3. Wanted(c)' \subseteq Wanted(c)
        BY <1>4, <1>5, <2>1, <2>2
    <2>4. {r.pid} \union r.todo \subseteq {None} \union Referred
        BY <1>3, <1>4, <2>2
    <2>5. \A n \in Names : registry'[n] \in {None} \union Referred
        BY <2>1
    <2>6. QED
        BY <2>1, <2>2, <2>3, <2>4, <2>5, QuietKeepsRoom
<1>11. ASSUME NEW i \in Pids, Terminate(c, i)
       PROVE  RoomLeft'
    <2> DEFINE r == [call[c] EXCEPT !.pid = i, !.todo = @ \ {i}]
    <2>1. /\ call' = [call EXCEPT ![c] = r] /\ UNCHANGED <<hostVars, registry>>
          /\ call[c].pc = "terminating" /\ i \in call[c].todo
        BY <1>11 DEF Terminate, Continue
    <2>2. /\ r \in Call /\ r.kind = call[c].kind /\ r.pc = "terminating"
          /\ r.pid = i /\ r.todo \subseteq call[c].todo
        BY <1>1, <2>1 DEF Call
    <2> HIDE DEF r
    <2>3. Wanted(c)' \subseteq Wanted(c)
        BY <1>5, <2>1, <2>2
    <2>4. QED
        BY <1>3, <2>1, <2>2, <2>3, QuietKeepsRoom
<1>12. CASE SelectMappings(c)
    <2> DEFINE new == {n \in Discovered : mapping[n] = "none"}
               r == [call[c] EXCEPT !.pc = IF new = {} THEN "starting" ELSE "inserting",
                                    !.names = {n \in Discovered : mapping[n] # "off"},
                                    !.missing = new]
    <2>1. /\ call' = [call EXCEPT ![c] = r] /\ UNCHANGED <<hostVars, registry>>
          /\ call[c].pc = "syncing"
        BY <1>12 DEF SelectMappings, Continue
    <2>2. new \in SUBSET Names /\ {n \in Discovered : mapping[n] # "off"} \in SUBSET Names
        BY DiscoveredNames
    <2>3. /\ r \in Call /\ r.kind = call[c].kind /\ r.pc \in {"starting", "inserting"}
          /\ r.pid = call[c].pid /\ r.todo = call[c].todo /\ r.names \subseteq Discovered
        BY <1>1, <2>2 DEF Call
    <2>4. r.kind = "startup" => Wanted(c) = Discovered
        BY <2>1, <2>3 DEF Wanted
    <2> HIDE DEF r
    <2>5. Wanted(c)' \subseteq Wanted(c)
        BY <1>5, <2>1, <2>3, <2>4
    <2>6. QED
        BY <1>3, <2>1, <2>3, <2>5, QuietKeepsRoom
<1>13. CASE InsertMappings(c)
    <2> DEFINE r == [call[c] EXCEPT !.pc = "starting", !.missing = {}]
    <2>1. /\ call' = [call EXCEPT ![c] = r] /\ UNCHANGED <<hostVars, registry>>
          /\ call[c].pc = "inserting"
        BY <1>13 DEF InsertMappings, Continue
    <2>2. /\ r \in Call /\ r.kind = call[c].kind /\ r.pc = "starting"
          /\ r.pid = call[c].pid /\ r.todo = call[c].todo /\ r.names = call[c].names
        BY <1>1 DEF Call
    <2>3. r.kind = "startup" => r.names \subseteq Wanted(c)
        BY <2>1, <2>2 DEF Wanted
    <2> HIDE DEF r
    <2>4. Wanted(c)' \subseteq Wanted(c)
        BY <1>5, <2>1, <2>2, <2>3
    <2>5. QED
        BY <1>3, <2>1, <2>2, <2>4, QuietKeepsRoom
<1>14. ASSUME NEW n \in Names, StartNext(c, n)
       PROVE  RoomLeft'
    <2>1. PICK i \in Free :
             /\ Continue(c, [call[c] EXCEPT !.pc = "waiting", !.name = n, !.pid = i,
                                !.names = @ \ {n}, !.next = FreePort(call[c].next) + 1])
             /\ \A j \in Pids : j # i => proc'[j] = proc[j]
        BY <1>2, <1>14, StartNextSpawns
    <2> DEFINE r == [call[c] EXCEPT !.pc = "waiting", !.name = n, !.pid = i,
                                    !.names = @ \ {n}, !.next = FreePort(call[c].next) + 1]
    <2>2. /\ call' = [call EXCEPT ![c] = r] /\ UNCHANGED registry
          /\ call[c].pc = "starting" /\ n \in call[c].names
        BY <1>14, <2>1 DEF StartNext, Continue
    <2>3. FreePort(call[c].next) \in Nat /\ i \in Pids
        BY <1>2, <1>14, StartNextSpawns, FreePids
    <2>4. /\ r \in Call /\ r.kind = call[c].kind /\ r.pc = "waiting"
          /\ r.pid = i /\ r.todo = call[c].todo /\ r.names = call[c].names \ {n}
        <3>1. call[c].names \ {n} \in SUBSET Names /\ FreePort(call[c].next) + 1 \in Nat
            BY <1>1, <2>3 DEF Call
        <3>2. QED
            BY <1>1, <2>3, <3>1 DEF Call
    <2> HIDE DEF r
    <2>5. call[c].kind = "startup"
        BY <1>1, <1>2, <1>4, <2>2 DEF CallOK, Call, NoCall
    <2>6. Wanted(c) = call[c].names /\ Wanted(c)' = call[c].names \ {n}
        <3>1. call'[c] = r
            BY <1>1, <2>2
        <3>2. QED
            BY <2>2, <2>4, <2>5, <3>1 DEF Wanted
    <2>7. <<c, n>> \in ToStart \ ToStart' /\ ToStart' \subseteq ToStart
        <3>1. <<c, n>> \in ToStart
            BY <2>2, <2>6, ToStartIs
        <3>2. QED
            <4> DEFINE S == call[c].names \ {n}
            <4>1. Wanted(c)' \subseteq S /\ S \subseteq Wanted(c) /\ n \notin S
                BY <2>6
            <4> HIDE DEF S
            <4>2. <<c, n>> \notin ToStart' /\ ToStart' \subseteq ToStart
                BY <2>2, <2>4, <4>1, WantedAfter
            <4>3. QED
                BY <3>1, <4>2
    <2>8. Referred' \intersect Pids \subseteq Referred \union {i}
        BY <1>3, <2>2, <2>4, ReferredAfter
    <2>9. Free \ {i} \subseteq Free'
        <3>1. \A j \in Pids \ {i} : Live(j)' => Live(j)
            BY <2>1 DEF Live
        <3>2. QED
            BY <2>8, <3>1, FreeKept
    <2>10. QED
        BY <2>7, <2>9, RoomForOne
<1>15. QED
    BY <1>6, <1>7, <1>8, <1>9, <1>10, <1>11, <1>12, <1>13, <1>14 DEF CallStep

LEMMA NewCallsKeepRoom ==
    ASSUME HostOK, ManagerTypeOK, RoomLeft, NEW c \in Calls, NewCall(c)
    PROVE  RoomLeft'
<1>1. /\ call \in [Calls -> Call]
      /\ registry \in [Names -> Pids \union {None}]
    BY DEF ManagerTypeOK, Call
<1>2. \A n \in Names : registry[n] \in {None} \union Referred
    BY DEF Referred, InRegistry
<1>3. /\ NoCall \in Call /\ NoCall.kind = "none" /\ NoCall.pid = None
      /\ NoCall.todo = {} /\ NoCall.names = {}
    BY NoCallIsCall
<1>4. ASSUME NEW n \in Names, Enable(c, n)
      PROVE  RoomLeft'
    <2>1. PICK i \in Free :
             /\ Begin(c, {n}, [NoCall EXCEPT !.kind = "apply", !.pc = "waiting",
                                             !.name = n, !.pid = i])
             /\ \A j \in Pids : j # i => proc'[j] = proc[j]
        BY <1>4, EnableSpawns
    <2> DEFINE r == [NoCall EXCEPT !.kind = "apply", !.pc = "waiting", !.name = n, !.pid = i]
    <2>2. /\ call' = [call EXCEPT ![c] = r] /\ UNCHANGED registry /\ RoomFor(1)
        BY <1>4, <2>1, BeginIsNew DEF Enable
    <2>3. i \in Pids
        BY FreePids
    <2>4. r \in Call /\ r.kind = "apply" /\ r.pid = i /\ r.todo = {}
        BY <1>3, <2>3 DEF Call
    <2> HIDE DEF r
    <2>5. Wanted(c)' = {}
        BY <1>1, <2>2, <2>4 DEF Wanted
    <2>6. ToStart' \subseteq ToStart
        <3>1. {} \subseteq Wanted(c) /\ Wanted(c)' \subseteq {}
            BY <2>5
        <3>2. QED
            BY <2>2, <2>4, <3>1, WantedAfter
    <2>7. Referred' \intersect Pids \subseteq Referred \union {i}
        BY <1>2, <2>2, <2>4, ReferredAfter
    <2>8. Free \ {i} \subseteq Free'
        <3>1. \A j \in Pids \ {i} : Live(j)' => Live(j)
            BY <2>1 DEF Live
        <3>2. QED
            BY <2>7, <3>1, FreeKept
    <2>9. QED
        BY <2>2, <2>6, <2>8, RoomForOne
<1>5. ASSUME NEW n \in Names, Disable(c, n)
      PROVE  RoomLeft'
    <2> DEFINE r == [NoCall EXCEPT !.kind = "apply", !.pc = "disabling", !.name = n,
                                   !.pid = registry[n]]
    <2>1. call' = [call EXCEPT ![c] = r] /\ UNCHANGED <<hostVars, registry>>
        BY <1>5, BeginIsNew DEF Disable
    <2>2. r \in Call /\ r.kind = "apply" /\ r.pid = registry[n] /\ r.todo = {}
        BY <1>1, <1>3 DEF Call
    <2> HIDE DEF r
    <2>3. Wanted(c)' \subseteq Wanted(c)
        BY <1>1, <2>1, <2>2 DEF Wanted
    <2>4. QED
        BY <1>2, <2>1, <2>2, <2>3, QuietKeepsRoom
<1>6. ASSUME NEW kind \in {"startup", "shutdown"}, BeginShutdown(c, kind)
      PROVE  RoomLeft'
    <2> DEFINE r == [NoCall EXCEPT !.kind = kind, !.pc = "terminating", !.todo = InRegistry]
    <2>1. /\ call' = [call EXCEPT ![c] = r] /\ UNCHANGED <<hostVars, registry>>
          /\ kind = "startup" => RoomFor(Cardinality(Discovered))
        BY <1>6, BeginIsNew DEF BeginShutdown
    <2>2. InRegistry \in SUBSET Pids
        BY <1>1 DEF InRegistry
    <2>3. /\ r \in Call /\ r.kind = kind /\ r.pc = "terminating"
          /\ r.pid = None /\ r.todo = InRegistry
        BY <1>3, <2>2 DEF Call
    <2> HIDE DEF r
    <2>4. call'[c] = r
        BY <1>1, <2>1
    <2>5. CASE kind = "shutdown"
        <3>1. Wanted(c)' \subseteq Wanted(c)
            BY <2>3, <2>4, <2>5 DEF Wanted
        <3>2. {r.pid} \union r.todo \subseteq {None} \union Referred
            BY <2>3 DEF Referred
        <3>3. QED
            BY <1>2, <2>1, <2>3, <3>1, <3>2, QuietKeepsRoom
    <2>6. CASE kind = "startup"
        <3>1. Wanted(c)' \subseteq Discovered
            BY <2>3, <2>4, <2>6 DEF Wanted
        <3>2. ToStart' \subseteq ToStart \union ({c} \X Discovered)
            BY <2>1, <2>3, <3>1, WantedAfter
        <3>3. Referred' \intersect Pids \subseteq Referred \union {}
            <4>1. {r.pid} \union r.todo \subseteq {None} \union Referred \union {}
                BY <2>3 DEF Referred
            <4>2. QED
                BY <1>2, <2>1, <2>3, <4>1, ReferredAfter
        <3>4. \A j \in Pids \ {} : Live(j)' => Live(j)
            BY <2>1 DEF hostVars, Live
        <3>5. Free \subseteq Free'
            <4>1. Free \ {} \subseteq Free'
                BY <3>3, <3>4, FreeKept
            <4>2. QED
                BY <4>1
        <3>6. QED
            BY <2>1, <2>6, <3>2, <3>5, RoomForAll
    <2>7. QED
        BY <2>5, <2>6
<1>7. QED
    BY <1>4, <1>5, <1>6 DEF NewCall

ManagerHasRoom == deployment = "manager" => RoomLeft

LEMMA RoomFirst == Init => ManagerHasRoom
<1> SUFFICES ASSUME Init, deployment = "manager"
             PROVE  RoomLeft
    BY DEF ManagerHasRoom
<1>1. \A c \in Calls : Wanted(c) = {}
    BY NoCallIsCall DEF Init, ManagerInit, Wanted
<1>2. ToStart = {}
    BY <1>1, ToStartIs
<1>3. IsFiniteSet(ToStart) /\ Cardinality(ToStart) = 0
    BY <1>2, FS_EmptySet
<1>4. Cardinality(Free) >= 0
    BY PidsFinite, FreePids
<1>5. QED
    BY <1>3, <1>4 DEF RoomLeft

LEMMA RoomStep == IInv /\ ManagerHasRoom /\ [Next]_vars => ManagerHasRoom'
<1> SUFFICES ASSUME IInv, ManagerHasRoom, [Next]_vars, deployment' = "manager"
             PROVE  RoomLeft'
    BY DEF ManagerHasRoom
<1>1. deployment = "manager"
    BY DEF Next, GatewaySteps, ManagerSteps, ProcessSteps, vars
<1>2. HostOK /\ ManagerTypeOK /\ ManagerOK /\ RoomLeft
    BY <1>1 DEF IInv, TypeOK, HostOK, ManagerHasRoom
<1>3. ASSUME UNCHANGED <<registry, call>>, \A i \in Pids : Live(i)' => Live(i)
      PROVE  RoomLeft'
    <2>1. Free \subseteq Free' /\ ToStart' = ToStart
        BY <1>3 DEF Free, InRegistry, InHand, ToStart
    <2>2. QED
        BY <1>2, <2>1, RoomStays
<1>4. CASE ManagerSteps
    <2>1. CASE Table
        BY <1>3, <2>1 DEF Table, CreateMapping, SetEnabled, DeleteMapping, hostVars, Live
    <2>2. QED
        BY <1>2, <1>4, <2>1, StepsKeepRoom, NewCallsKeepRoom DEF ManagerSteps, ManagerNext
<1>5. CASE ProcessSteps
    BY <1>2, <1>3, <1>5, HostStepOK DEF ProcessSteps, managerVars
<1>6. CASE UNCHANGED vars
    BY <1>3, <1>6 DEF vars, managerVars, hostVars, Live
<1>7. QED
    BY <1>1, <1>4, <1>5, <1>6 DEF Next, GatewaySteps

\* manager.py:66-106 and 198-231.  The bound on handles is asked for when a call
\* begins and does not bind it later: whenever a startup has a plugin to start
\* there is a handle for its process, whatever has been enabled, crashed or
\* registered over since.
THEOREM StartupsFindHandles ==
    Spec => [](\A c \in Calls :
                  call[c].pc = "starting" /\ call[c].names # {} => Lowest(Free) # {})
<1>1. ASSUME IInv, Parted, ManagerHasRoom,
             NEW c \in Calls, call[c].pc = "starting", NEW n \in call[c].names
      PROVE  Lowest(Free) # {}
    <2>1. call[c] # NoCall
        BY <1>1, NoCallIsCall
    <2>2. CallOK(c) /\ RoomLeft /\ call[c] \in Call
        BY <1>1, <2>1, InHandIsOK DEF ManagerHasRoom, IInv, TypeOK, ManagerTypeOK, Call
    <2>3. call[c].kind = "startup"
        BY <1>1, <2>1, <2>2 DEF CallOK, Call
    <2>4. <<c, n>> \in ToStart
        BY <1>1, <2>3, ToStartIs DEF Wanted
    <2>5. Cardinality(ToStart) # 0 /\ Cardinality(ToStart) \in Nat
        BY <2>2, <2>4, FS_EmptySet, FS_CardinalityType DEF RoomLeft
    <2>6. Free # {}
        <3>1. Cardinality({}) = 0
            BY FS_EmptySet
        <3>2. Cardinality(Free) >= 1
            BY <2>2, <2>5, FreePids, PidsFinite DEF RoomLeft
        <3>3. QED
            BY <3>1, <3>2
    <2>7. Free \in SUBSET Nat
        BY FreePids DEF Pids
    <2>8. QED
        BY <2>6, <2>7, LeastNatural DEF Lowest
<1>2. IInv /\ Parted /\ ManagerHasRoom =>
         \A c \in Calls : call[c].pc = "starting" /\ call[c].names # {} => Lowest(Free) # {}
    BY <1>1
<1>3. QED
    BY <1>2, RoomFirst, RoomStep, PluginsInvariant, HostsAreParted, PTL DEF Spec
=============================================================================
