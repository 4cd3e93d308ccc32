------------------------ MODULE StartupServes_proofs ------------------------
(***************************************************************************)
(* Every process comes to serve (AllServe), for every set of processes,    *)
(* default roles, keys and users and every number of requests and crashes. *)
(*                                                                         *)
(* While no request changes anything and nobody crashes, a start that has  *)
(* to fail has been overtaken by another one that brought the database     *)
(* further: a default role, the translations or the superuser was missing  *)
(* and is there now.  So a rank that counts what is still missing before   *)
(* the stages of one start is never raised, and its own steps lower it.    *)
(***************************************************************************)
EXTENDS Startup_proofs, FiniteSetTheorems, WellFoundedInduction

USE StartupAssumption, NoneAssumption

-----------------------------------------------------------------------------
(***************************************************************************)
(* What is missing in the database.                                        *)
(***************************************************************************)
LEMMA DefaultNamesFinite ==
    /\ IsFiniteSet(DefaultNames) /\ Cardinality(DefaultNames) \in Nat
    /\ \A S \in SUBSET DefaultNames :
          IsFiniteSet(S) /\ Cardinality(S) \in 0 .. Cardinality(DefaultNames)
<1>1. IsFiniteSet(FixedNames)
    <2>1. IsFiniteSet(1 .. MaxFixed)
        BY FS_Interval
    <2>2. FixedId \in Injection(FixedNames, 1 .. MaxFixed)
        BY DEF Injection, IsInjective
    <2>3. QED
        BY <2>1, <2>2, FS_Injection
<1>2. IsFiniteSet(FixedNames \union {AutoName})
    BY <1>1, FS_AddElement
<1>3. IsFiniteSet(DefaultNames)
    BY <1>2 DEF DefaultNames
<1>4. Cardinality(DefaultNames) \in Nat
    BY <1>3, FS_CardinalityType
<1>5. ASSUME NEW S \in SUBSET DefaultNames
      PROVE  IsFiniteSet(S) /\ Cardinality(S) \in 0 .. Cardinality(DefaultNames)
    <2>1. IsFiniteSet(S) /\ Cardinality(S) <= Cardinality(DefaultNames)
        BY <1>3, FS_Subset
    <2>2. Cardinality(S) \in Nat
        BY <2>1, FS_CardinalityType
    <2>3. QED
        BY <1>4, <2>1, <2>2
<1>6. QED
    BY <1>3, <1>4, <1>5

Untranslated == IF translated THEN 0 ELSE 1
Bootless == IF users[Boot] = "none" THEN 1 ELSE 0

ToDo == Cardinality(MissingNames(roles)) + Untranslated + Bootless

LEMMA ToDoIsNat ==
    /\ Cardinality(MissingNames(roles)) \in 0 .. Cardinality(DefaultNames)
    /\ ToDo \in 0 .. Cardinality(DefaultNames) + 2
<1>1. MissingNames(roles) \in SUBSET DefaultNames
    BY DEF MissingNames
<1>2. Cardinality(MissingNames(roles)) \in 0 .. Cardinality(DefaultNames)
    BY <1>1, DefaultNamesFinite
<1>3. QED
    BY <1>2, DefaultNamesFinite DEF ToDo, Untranslated, Bootless

\* The steps of a start never take anything away.
LEMMA NothingIsUndone ==
    ASSUME IInv, IInv', NEW q \in Processes, Step(q)
    PROVE  /\ MissingNames(roles') \subseteq MissingNames(roles)
           /\ Cardinality(MissingNames(roles')) <= Cardinality(MissingNames(roles))
           /\ Untranslated' <= Untranslated
           /\ Bootless' <= Bootless
           /\ ToDo' <= ToDo
<1> USE DEF IInv
<1>1. MissingNames(roles') \subseteq MissingNames(roles)
    <2>1. CASE SeedRoles(q)
        BY <2>1, SeedStep DEF SeedKeeps, MissingNames
    <2>2. CASE ~SeedRoles(q)
        BY <2>2, StepKeepsRoles
    <2>3. QED
        BY <2>1, <2>2
<1>2. /\ IsFiniteSet(MissingNames(roles))
      /\ Cardinality(MissingNames(roles')) <= Cardinality(MissingNames(roles))
    <2>1. MissingNames(roles) \in SUBSET DefaultNames
        BY DEF MissingNames
    <2>2. IsFiniteSet(MissingNames(roles))
        BY <2>1, DefaultNamesFinite
    <2>3. QED
        BY <1>1, <2>2, FS_Subset
<1>3. Untranslated' <= Untranslated
    <2>1. Next
        BY DEF Next
    <2>2. QED
        BY <2>1, Lasting DEF Untranslated
<1>4. Bootless' <= Bootless
    BY UsersStay DEF Bootless
<1>5. /\ Cardinality(MissingNames(roles)) \in Nat
      /\ Cardinality(MissingNames(roles')) \in Nat
    <2>1. MissingNames(roles) \in SUBSET DefaultNames /\ MissingNames(roles') \in SUBSET DefaultNames
        BY DEF MissingNames
    <2>2. QED
        BY <2>1, DefaultNamesFinite
<1>6. Untranslated' \in Nat /\ Untranslated \in Nat /\ Bootless' \in Nat /\ Bootless \in Nat
    BY DEF Untranslated, Bootless
<1>7. QED
    BY <1>1, <1>2, <1>3, <1>4, <1>5, <1>6 DEF ToDo

-----------------------------------------------------------------------------
(***************************************************************************)
(* Starts that have to fail.                                               *)
(***************************************************************************)
Doomed(p) ==
    \/ pc[p] = "create" /\ schema # "none"
    \/ pc[p] = "flush" /\ Conflict(seen[p])
    \/ pc[p] = "insertTitles" /\ translated
    \/ pc[p] = "insert" /\ users[Boot] # "none"

\* What has just been selected meets no conflict.
LEMMA SelectedHasNoConflict ==
    ASSUME TypeOK, ~Drift(roles), NEW p \in Processes, SelectRoles(p)
    PROVE  ~Conflict(seen[p])'
<1>1. PICK S \in Rows :
        /\ \A i \in Ids : S[i] = IF roles[i] # None /\ roles[i].name \in DefaultNames
                                 THEN roles[i] ELSE None
        /\ seen' = [seen EXCEPT ![p] = S]
    BY SelectRolesFrame
<1>2. seen'[p] = S /\ roles' = roles
    BY <1>1 DEF TypeOK, SelectRoles, dbVars
<1>3. InPlace(roles)
    BY InPlaceIsNoDrift DEF TypeOK, Rows
<1>4. \A n \in MissingNames(S) : Named(roles, n) = {}
    BY <1>1 DEF MissingNames, Named
<1>5. ASSUME NEW n \in MissingNames(S) \intersect FixedNames
      PROVE  roles[FixedId[n]] = None
    BY <1>3, <1>4, FixedIdIsId DEF InPlace, Named
<1>6. \A i \in ToFill(S) : roles[i] # None
    BY <1>1 DEF ToFill, Used
<1>7. ~Conflict(S)
    BY <1>4, <1>5, <1>6 DEF Conflict
<1>8. QED
    BY <1>2, <1>7 DEF Conflict

\* A flush that comes to meet a conflict does so over a role that was missing.
LEMMA ConflictNeedsInsert ==
    ASSUME IInv, ~Drift(roles), ~Drift(roles)', IInv', NEW q \in Processes, Step(q), NEW S \in Rows,
           ~Conflict(S), Conflict(S)'
    PROVE  Cardinality(MissingNames(roles')) < Cardinality(MissingNames(roles))
<1> USE DEF IInv
<1>1. SeedRoles(q)
    <2>1. SeedRoles(q) \/ UNCHANGED roles
        BY StepKeepsRoles
    <2>2. QED
        BY <2>1 DEF Conflict
<1>2. \A j \in Ids : roles[j] # None => roles'[j] # None
    BY <1>1, SeedStep DEF SeedKeeps
<1>3. InPlace(roles')
    <2>1. roles' \in Rows
        BY DEF TypeOK, Rows
    <2>2. ~Drift(roles')
        BY DEF Drift, Drifted
    <2>3. QED
        BY <2>1, <2>2, InPlaceIsNoDrift
<1>4. PICK n \in MissingNames(S) : Named(roles', n) # {}
    <2>1. CASE \E n \in MissingNames(S) : Named(roles', n) # {}
        BY <2>1
    <2>2. CASE \E n \in MissingNames(S) \intersect FixedNames : roles'[FixedId[n]] # None
        <3>1. PICK n \in MissingNames(S) \intersect FixedNames : roles'[FixedId[n]] # None
            BY <2>2
        <3>2. FixedId[n] \in Named(roles', n)
            BY <1>3, <3>1, FixedIdIsId DEF InPlace, Named
        <3>3. QED
            BY <3>2
    <2>3. CASE \E i \in ToFill(S) : roles'[i] = None
        <3>1. PICK i \in ToFill(S) : roles'[i] = None
            BY <2>3
        <3>2. roles[i] = None
            BY <1>2, <3>1 DEF ToFill, Used
        <3>3. QED
            BY <3>1, <3>2 DEF Conflict
    <2>4. QED
        BY <2>1, <2>2, <2>3 DEF Conflict
<1>5. Named(roles, n) = {}
    BY DEF Conflict
<1>6. n \in MissingNames(roles) /\ n \notin MissingNames(roles')
    BY <1>4, <1>5 DEF MissingNames
<1>7. MissingNames(roles') \subseteq MissingNames(roles) \ {n}
    BY <1>6, NothingIsUndone
<1>8. IsFiniteSet(MissingNames(roles)) /\ Cardinality(MissingNames(roles)) \in Nat
    <2>1. MissingNames(roles) \in SUBSET DefaultNames
        BY DEF MissingNames
    <2>2. QED
        BY <2>1, DefaultNamesFinite
<1>9. /\ IsFiniteSet(MissingNames(roles) \ {n})
      /\ Cardinality(MissingNames(roles) \ {n}) = Cardinality(MissingNames(roles)) - 1
    BY <1>6, <1>8, FS_RemoveElement
<1>10. /\ Cardinality(MissingNames(roles')) <= Cardinality(MissingNames(roles) \ {n})
       /\ Cardinality(MissingNames(roles')) \in Nat
    <2>1. /\ IsFiniteSet(MissingNames(roles'))
          /\ Cardinality(MissingNames(roles')) <= Cardinality(MissingNames(roles) \ {n})
        BY <1>7, <1>9, FS_Subset
    <2>2. QED
        BY <2>1, FS_CardinalityType
<1>11. QED
    BY <1>8, <1>9, <1>10

-----------------------------------------------------------------------------
(***************************************************************************)
(* The stages of a start that begins again when it has failed.             *)
(***************************************************************************)
Stage(p) == IF Doomed(p) THEN 17 ELSE IF pc[p] = "down" THEN 16 ELSE Ahead(p)

LEMMA StageIsNat ==
    ASSUME TypeOK, NEW p \in Processes
    PROVE  Stage(p) \in 0 .. 17
<1>1. Ahead(p) \in 0 .. 15
    BY StartingIsAhead
<1>2. QED
    BY <1>1 DEF Stage

\* No table is made while the tables are none or all.
LEMMA SchemaStands ==
    ASSUME IInv, Startable, Startable', [Next]_vars
    PROVE  UNCHANGED schema
<1> USE DEF IInv
<1>1. ASSUME NEW q \in Processes, CreateTable(q) \/ CreateOthers(q) \/ StampRevision(q)
      PROVE  FALSE
    <2>1. CASE CreateTable(q)
        BY <2>1 DEF CreateTable, Startable
    <2>2. CASE CreateOthers(q)
        BY <2>2 DEF CreateOthers, Startable
    <2>3. CASE StampRevision(q)
        BY <2>3 DEF StampRevision, SchemaOK, Startable
    <2>4. QED
        BY <1>1, <2>1, <2>2, <2>3
<1>2. ASSUME NEW q \in Processes, Step(q) \/ Crash(q)
      PROVE  UNCHANGED schema
    BY <1>1, <1>2, SeedFrame DEF Step, Crash, Start, Migrate, Seed, MakeSuper, ReadRevision,
       TableExists, MissingSchema, DriftDetected, SelectRoles, SeedConflicts, RolesInPlace,
       SelectTitles, InsertTitles, TitleConflicts, SelectSuper, SelectName, InsertSuper,
       SuperConflicts, Fail, dbVars
<1>3. CASE Requests
    BY <1>3, RequestFrame DEF Change
<1>4. CASE UNCHANGED vars
    BY <1>4 DEF vars
<1>5. QED
    BY <1>2, <1>3, <1>4 DEF Next

\* A start that has to fail does.
LEMMA DoomedFails ==
    ASSUME TypeOK, NEW p \in Processes, Doomed(p), Step(p)
    PROVE  pc'[p] = "down"
<1>1. ~Start(p)
    BY DEF Doomed, Start
<1>2. CASE Migrate(p)
    BY <1>2 DEF TypeOK, Doomed, Migrate, ReadRevision, CreateTable, TableExists, CreateOthers,
       StampRevision, Fail, Goto
<1>3. CASE Seed(p)
    <2>1. CASE pc[p] = "flush"
        <3>1. ~SeedRoles(p)
            BY <2>1, SeedFrame DEF Doomed
        <3>2. ~RolesInPlace(p)
            BY <2>1 DEF RolesInPlace, Doomed, Conflict
        <3>3. SeedConflicts(p)
            BY <1>3, <2>1, <3>1, <3>2 DEF Seed, MissingSchema, DriftDetected, SelectRoles,
               SelectTitles, InsertTitles, TitleConflicts
        <3>4. QED
            BY <3>3 DEF TypeOK, SeedConflicts, Fail, Goto
    <2>2. CASE pc[p] # "flush"
        <3>1. TitleConflicts(p)
            BY <1>3, <2>2, SeedFrame DEF Doomed, Seed, MissingSchema, DriftDetected, SelectRoles,
               SeedConflicts, RolesInPlace, SelectTitles, InsertTitles
        <3>2. QED
            BY <3>1 DEF TypeOK, TitleConflicts, Fail, Goto
    <2>3. QED
        BY <2>1, <2>2
<1>4. CASE MakeSuper(p)
    BY <1>4 DEF TypeOK, Doomed, MakeSuper, SelectSuper, SelectName, InsertSuper, SuperConflicts,
       Fail, Goto
<1>5. QED
    BY <1>1, <1>2, <1>3, <1>4 DEF Step

\* Without a drift, only those fail.
LEMMA OnlyDoomedFail ==
    ASSUME TypeOK, NEW p \in Processes, ~Doomed(p), pc[p] # "down", ~Drift(roles), Step(p)
    PROVE  pc'[p] # "down"
<1>1. ~(TableExists(p) \/ DriftDetected(p) \/ SeedConflicts(p) \/ TitleConflicts(p)
        \/ SuperConflicts(p))
    BY DEF Doomed, TableExists, DriftDetected, SeedConflicts, TitleConflicts, SuperConflicts
<1>2. crashes' = crashes
    BY <1>1, SeedFrame DEF Step, Start, Migrate, Seed, MakeSuper, ReadRevision, CreateTable,
       CreateOthers, StampRevision, MissingSchema, SelectRoles, RolesInPlace, SelectTitles,
       InsertTitles, SelectSuper, SelectName, InsertSuper, countVars
<1>3. Next
    BY DEF Next
<1>4. QED
    BY <1>1, <1>2, <1>3, Raises

\* Nobody enters a stage in which he has to fail.
LEMMA NobodyEntersDoomed ==
    ASSUME IInv, NEW p \in Processes, ~Doomed(p), Startable, UNCHANGED schema, Step(p)
    PROVE  ~Doomed(p)'
<1> USE DEF IInv
<1>1. CASE Start(p) \/ Migrate(p)
    BY <1>1 DEF TypeOK, Doomed, Startable, Start, Migrate, ReadRevision, CreateTable,
       TableExists, CreateOthers, StampRevision, Fail, Goto
<1>2. CASE Seed(p)
    <2>1. CASE SelectRoles(p)
        <3>1. pc'[p] = "flush" /\ ~Conflict(seen[p])'
            BY <2>1, SelectedHasNoConflict DEF TypeOK, SelectRoles, Goto, Startable
        <3>2. QED
            BY <3>1 DEF Doomed
    <2>2. CASE SelectTitles(p)
        BY <2>2 DEF TypeOK, Doomed, SelectTitles, Goto, dbVars
    <2>3. CASE ~SelectRoles(p) /\ ~SelectTitles(p)
        <3>1. pc'[p] \in {"migrate", "down", "super", "titles"}
            BY ZenonT(40), <1>2, <2>3, SeedFrame DEF TypeOK, Seed, MissingSchema, DriftDetected,
               SeedConflicts, RolesInPlace, InsertTitles, TitleConflicts, Fail, Goto
        <3>2. QED
            BY <3>1 DEF Doomed
    <2>4. QED
        BY <2>1, <2>2, <2>3
<1>3. CASE MakeSuper(p)
    BY <1>3 DEF TypeOK, Doomed, MakeSuper, SelectSuper, SelectName, InsertSuper, SuperConflicts,
       IsReady, Fail, Goto, dbVars
<1>4. QED
    BY <1>1, <1>2, <1>3 DEF Step

\* A start comes further with every step, if only by failing.
LEMMA OwnStepAdvances ==
    ASSUME IInv, Startable, UNCHANGED schema, NEW p \in Processes, pc[p] # "serving", Step(p)
    PROVE  Stage(p)' < Stage(p)
<1> USE DEF IInv
<1>1. Ahead(p) \in 0 .. 15
    BY StartingIsAhead
<1>2. CASE Doomed(p)
    <2>1. pc'[p] = "down"
        BY <1>2, DoomedFails
    <2>2. ~Doomed(p)'
        BY <2>1 DEF Doomed
    <2>3. QED
        BY <1>2, <2>1, <2>2 DEF Stage
<1>3. CASE ~Doomed(p) /\ pc[p] = "down"
    <2>1. Start(p)
        BY <1>3, SeedFrame DEF Step, Migrate, Seed, MakeSuper, ReadRevision, CreateTable,
           TableExists, CreateOthers, StampRevision, MissingSchema, DriftDetected, SelectRoles,
           SeedConflicts, RolesInPlace, SelectTitles, InsertTitles, TitleConflicts, SelectSuper,
           SelectName, InsertSuper, SuperConflicts
    <2>2. pc'[p] \in {"roles", "migrate"}
        BY <2>1 DEF TypeOK, Start, Goto
    <2>3. ~Doomed(p)' /\ Ahead(p)' \in 0 .. 15
        BY <2>2 DEF Doomed, Ahead
    <2>4. QED
        BY <1>3, <2>2, <2>3 DEF Stage
<1>4. CASE ~Doomed(p) /\ pc[p] # "down"
    <2>1. Ahead(p)' < Ahead(p)
        BY <1>4, StepBringsFurther DEF Starting
    <2>2. ~Doomed(p)'
        BY <1>4, NobodyEntersDoomed
    <2>3. pc'[p] # "down"
        BY <1>4, OnlyDoomedFail DEF Startable
    <2>4. QED
        BY <1>4, <2>1, <2>2, <2>3 DEF Stage
<1>5. QED
    BY <1>2, <1>3, <1>4

\* Another start takes nothing back, unless it does what was to be done.
LEMMA OthersStepKeeps ==
    ASSUME IInv, IInv', Startable, Startable', UNCHANGED schema,
           NEW p \in Processes, NEW q \in Processes, q # p, Step(q)
    PROVE  Stage(p)' <= Stage(p) \/ ToDo' < ToDo
<1> USE DEF IInv
<1>1. pc'[p] = pc[p] /\ run'[p] = run[p] /\ seen'[p] = seen[p]
    BY MovesOne, RunsOne
<1>2. Ahead(p)' = Ahead(p)
    BY <1>1 DEF Ahead, HasTables
<1>3. Stage(p) \in 0 .. 17 /\ Ahead(p) \in 0 .. 15
    BY StageIsNat, StartingIsAhead
<1>4. /\ Cardinality(MissingNames(roles')) <= Cardinality(MissingNames(roles))
      /\ Untranslated' <= Untranslated
      /\ Bootless' <= Bootless
    BY NothingIsUndone
<1>5. /\ Cardinality(MissingNames(roles)) \in Nat /\ Cardinality(MissingNames(roles')) \in Nat
      /\ Untranslated \in Nat /\ Untranslated' \in Nat /\ Bootless \in Nat /\ Bootless' \in Nat
    <2>1. /\ MissingNames(roles) \in SUBSET DefaultNames
          /\ MissingNames(roles') \in SUBSET DefaultNames
        BY DEF MissingNames
    <2>2. QED
        BY <2>1, DefaultNamesFinite DEF Untranslated, Bootless
<1>6. ASSUME ~Doomed(p), Doomed(p)'
      PROVE  ToDo' < ToDo
    <2>1. CASE pc[p] = "flush" /\ ~Conflict(seen[p]) /\ Conflict(seen[p])'
        <3>1. seen[p] \in Rows
            BY DEF TypeOK, Rows
        <3>2. PICK S \in Rows : S = seen[p]
            BY <3>1
        <3>3. ~Conflict(S) /\ Conflict(S)'
            BY <1>1, <2>1, <3>2 DEF Conflict
        <3>4. Cardinality(MissingNames(roles')) < Cardinality(MissingNames(roles))
            BY <3>3, ConflictNeedsInsert DEF Startable
        <3>5. QED
            BY <1>4, <1>5, <3>4 DEF ToDo
    <2>2. CASE ~translated /\ translated'
        BY <1>4, <1>5, <2>2 DEF ToDo, Untranslated
    <2>3. CASE users[Boot] = "none" /\ users'[Boot] # "none"
        BY <1>4, <1>5, <2>3 DEF ToDo, Bootless
    <2>4. QED
        BY <1>1, <1>6, <2>1, <2>2, <2>3 DEF Doomed
<1>7. ASSUME Doomed(p) \/ ~Doomed(p)'
      PROVE  Stage(p)' <= Stage(p)
    BY <1>1, <1>2, <1>3, <1>7 DEF Stage
<1>8. QED
    BY <1>6, <1>7

-----------------------------------------------------------------------------
(***************************************************************************)
(* The rank: the requests and crashes that may come still, then what is to *)
(* be done, then the stage.                                                *)
(***************************************************************************)
Budget == (MaxChanges - changes) + (MaxCrashes - crashes)

Size == 20 * (Cardinality(DefaultNames) + 3)

Work(p) == 20 * ToDo + Stage(p)

Rank(p) == Size * Budget + Work(p)

LEMMA Lexicographic ==
    ASSUME NEW d \in Nat, NEW b \in Nat, NEW w \in Nat, NEW v \in Nat, b # 0, v < d
    PROVE  d * (b - 1) + v < d * b + w
<1>1. d * (b - 1) + d = d * b /\ d * (b - 1) \in Nat
    OBVIOUS
<1>2. QED
    BY <1>1

LEMMA RankIsNat ==
    ASSUME TypeOK, NEW p \in Processes
    PROVE  /\ Budget \in Nat /\ Size \in Nat /\ Work(p) \in Nat /\ Work(p) < Size
           /\ Rank(p) \in Nat
<1>1. ToDo \in 0 .. Cardinality(DefaultNames) + 2 /\ Cardinality(DefaultNames) \in Nat
    BY ToDoIsNat, DefaultNamesFinite
<1>2. Stage(p) \in 0 .. 17
    BY StageIsNat
<1>3. Budget \in Nat
    BY DEF TypeOK, Budget
<1>4. Size \in Nat /\ Work(p) \in Nat /\ Work(p) < Size
    BY <1>1, <1>2 DEF Size, Work
<1>5. Size * Budget \in Nat
    BY <1>3, <1>4
<1>6. QED
    BY <1>3, <1>4, <1>5 DEF Rank

LEMMA NextRankIsNat ==
    ASSUME NEW p \in Processes
    PROVE  IInv' => (/\ Budget \in Nat /\ Work(p) \in Nat /\ Work(p) < Size
                     /\ ToDo \in Nat /\ Stage(p) \in 0 .. 17 /\ Rank(p) \in Nat)'
<1>1. IInv => /\ Budget \in Nat /\ Work(p) \in Nat /\ Work(p) < Size
              /\ ToDo \in Nat /\ Stage(p) \in 0 .. 17 /\ Rank(p) \in Nat
    BY RankIsNat, ToDoIsNat, StageIsNat, DefaultNamesFinite DEF IInv
<1>2. QED
    BY <1>1, PTL

\* A request or a crash uses up the budget, ...
LEMMA BudgetSpent ==
    ASSUME IInv, IInv', NEW p \in Processes, Budget' = Budget - 1
    PROVE  Rank(p)' < Rank(p)
<1>1. /\ Budget \in Nat /\ Size \in Nat /\ Work(p) \in Nat
    BY RankIsNat DEF IInv
<1>2. Budget' \in Nat /\ Work(p)' \in Nat /\ Work(p)' < Size
    <2>1. Size' = Size
        BY DEF Size
    <2>2. QED
        BY <2>1, NextRankIsNat
<1>3. Rank(p)' = Size * (Budget - 1) + Work(p)'
    BY DEF Rank, Size
<1>4. QED
    BY <1>1, <1>2, <1>3, Lexicographic DEF Rank

\* ... and a step of a start leaves it as it is.
LEMMA StepKeepsBudget ==
    ASSUME NEW q \in Processes, Step(q)
    PROVE  UNCHANGED <<changes, crashes>> /\ Budget' = Budget
<1>1. UNCHANGED <<changes, crashes>>
    BY SeedFrame DEF Step, Start, Migrate, Seed, MakeSuper, ReadRevision, CreateTable,
       TableExists, CreateOthers, StampRevision, MissingSchema, DriftDetected, SelectRoles,
       SeedConflicts, RolesInPlace, SelectTitles, InsertTitles, TitleConflicts, SelectSuper,
       SelectName, InsertSuper, SuperConflicts, Fail, countVars
<1>2. QED
    BY <1>1 DEF Budget

LEMMA SameBudget ==
    ASSUME IInv, NEW p \in Processes, Budget' = Budget, Work(p)' \in Nat
    PROVE  /\ Work(p)' < Work(p) => Rank(p)' < Rank(p)
           /\ Work(p)' <= Work(p) => Rank(p)' <= Rank(p)
<1>1. Size * Budget \in Nat /\ Work(p) \in Nat
    BY RankIsNat DEF IInv
<1>2. Rank(p)' = Size * Budget + Work(p)'
    BY DEF Rank, Size
<1>3. QED
    BY <1>1, <1>2 DEF Rank

LEMMA WorkStep ==
    ASSUME IInv, IInv', Startable, Startable', UNCHANGED schema,
           NEW p \in Processes, NEW q \in Processes, Step(q)
    PROVE  /\ q # p => Work(p)' <= Work(p)
           /\ q = p /\ pc[p] # "serving" => Work(p)' < Work(p)
           /\ Work(p)' \in Nat
<1>1. ToDo' <= ToDo
    BY NothingIsUndone
<1>2. ToDo \in Nat /\ Stage(p) \in 0 .. 17
    BY ToDoIsNat, StageIsNat, DefaultNamesFinite DEF IInv
<1>3. ToDo' \in Nat /\ Stage(p)' \in 0 .. 17
    BY NextRankIsNat
<1>4. ASSUME q # p
      PROVE  Work(p)' <= Work(p)
    <2>1. Stage(p)' <= Stage(p) \/ ToDo' < ToDo
        BY <1>4, OthersStepKeeps
    <2>2. QED
        BY <1>1, <1>2, <1>3, <2>1 DEF Work
<1>5. ASSUME q = p, pc[p] # "serving"
      PROVE  Work(p)' < Work(p)
    <2>1. Stage(p)' < Stage(p)
        BY <1>5, OwnStepAdvances
    <2>2. QED
        BY <1>1, <1>2, <1>3, <2>1 DEF Work
<1>6. Work(p)' \in Nat
    BY <1>3 DEF Work
<1>7. QED
    BY <1>4, <1>5, <1>6

LEMMA WhoServesDoesNotStart ==
    ASSUME NEW p \in Processes, Step(p)
    PROVE  pc[p] # "serving"
BY SeedFrame DEF Step, Start, Migrate, Seed, MakeSuper, ReadRevision, CreateTable,
   TableExists, CreateOthers, StampRevision, MissingSchema, DriftDetected, SelectRoles,
   SeedConflicts, RolesInPlace, SelectTitles, InsertTitles, TitleConflicts, SelectSuper,
   SelectName, InsertSuper, SuperConflicts

\* While the tables are all there and no default role has drifted, nothing raises
\* the rank, and a step of the start itself lowers it.
LEMMA RankStep ==
    ASSUME IInv, IInv', Startable, Startable', [Next]_vars, NEW p \in Processes
    PROVE  /\ Rank(p)' <= Rank(p)
           /\ Step(p) => Rank(p)' < Rank(p)
<1>1. UNCHANGED schema
    BY SchemaStands
<1>2. Rank(p) \in Nat
    BY RankIsNat DEF IInv
<1>3. Rank(p)' \in Nat
    BY NextRankIsNat
<1>4. ASSUME NEW q \in Processes, Step(q)
      PROVE  /\ Rank(p)' <= Rank(p)
             /\ q = p => Rank(p)' < Rank(p)
    <2>1. Budget' = Budget
        BY <1>4, StepKeepsBudget
    <2>2. /\ q # p => Work(p)' <= Work(p)
          /\ q = p => Work(p)' < Work(p)
          /\ Work(p)' \in Nat
        BY <1>1, <1>4, WorkStep, WhoServesDoesNotStart
    <2>3. q # p => Rank(p)' <= Rank(p)
        BY <2>1, <2>2, SameBudget
    <2>4. q = p => Rank(p)' < Rank(p)
        BY <2>1, <2>2, SameBudget
    <2>5. QED
        BY <1>2, <1>3, <2>3, <2>4
<1>5. ASSUME NEW q \in Processes, Crash(q)
      PROVE  Rank(p)' < Rank(p)
    <2>1. Budget' = Budget - 1
        BY <1>5 DEF IInv, TypeOK, Crash, Budget
    <2>2. QED
        BY <2>1, BudgetSpent
<1>6. ASSUME Requests
      PROVE  Rank(p)' < Rank(p)
    <2>1. Budget' = Budget - 1
        BY <1>6, RequestFrame DEF IInv, TypeOK, Change, Budget
    <2>2. QED
        BY <2>1, BudgetSpent
<1>7. ASSUME UNCHANGED vars
      PROVE  Rank(p)' = Rank(p)
    BY <1>7 DEF vars, Rank, Size, Budget, Work, ToDo, Untranslated, Bootless, MissingNames, Named,
       Stage, Doomed, Conflict, ToFill, Used, Ahead, HasTables
<1>8. CASE Next
    BY <1>2, <1>3, <1>4, <1>5, <1>6, <1>8 DEF Next
<1>9. CASE UNCHANGED vars /\ ~Next
    <2>1. ~Step(p)
        BY <1>9 DEF Next
    <2>2. QED
        BY <1>2, <1>7, <1>9, <2>1
<1>10. QED
    BY <1>8, <1>9

-----------------------------------------------------------------------------
(***************************************************************************)
(* Everybody serves.                                                       *)
(***************************************************************************)

\* crud.py:134, lifespan.py:48-57.  As long as the tables are all there and no
\* default role has drifted, a process that does not serve comes down in rank.
THEOREM StartsComeCloser ==
    ASSUME NEW p \in Processes, NEW n \in Nat
    PROVE  Spec /\ []StartsCanGoOn =>
              ([]Startable /\ Rank(p) = n ~> Rank(p) \in 0 .. n - 1 \/ pc[p] = "serving")
<1> DEFINE A == Rank(p) = n
           B == Rank(p) \in 0 .. n - 1
           S == pc[p] = "serving"
<1>1. Spec => StartGoesOn(p)
    BY DEF Spec, Fairness
<1>2. StartsCanGoOn /\ ~S => ENABLED <<Step(p)>>_vars
    BY DEF StartsCanGoOn
<1>3. IInv' => Rank(p)' \in Nat
    BY NextRankIsNat
<1>4. IInv /\ IInv' /\ Startable /\ Startable' /\ A /\ [Next]_vars => A' \/ B'
    BY <1>3, RankStep
<1>5. IInv /\ IInv' /\ Startable /\ Startable' /\ A /\ [Next]_vars /\ <<Step(p)>>_vars => B'
    BY <1>3, RankStep
<1> HIDE DEF A, B, S
<1>6. Spec /\ []StartsCanGoOn => ([]Startable /\ A ~> B \/ S)
    BY <1>1, <1>2, <1>4, <1>5, StartupInvariant, PTL DEF Spec, StartGoesOn
<1>7. QED
    BY <1>6 DEF A, B, S

\* A law of temporal logic, the induction over a rank that always comes down,
\* for the rank of p.
ServeDescends(p) ==
    (\A n \in Nat : []Startable /\ Rank(p) = n ~> Rank(p) \in 0 .. n - 1 \/ pc[p] = "serving")
    => ([]Startable /\ Rank(p) \in Nat ~> pc[p] = "serving")

\* crud.py:134, lifespan.py:48-57, docker-compose.yml.  Whatever races the starts
\* lose, in the end every process serves, if the requests leave the default
\* roles their names and no crash has cut a migration in two.
THEOREM EveryoneServes ==
    Spec /\ []StartsCanGoOn /\ (\A p \in Processes : ServeDescends(p)) => AllServe
<1>1. ASSUME NEW p \in Processes
      PROVE  Spec /\ []StartsCanGoOn /\ ServeDescends(p) =>
                (<>[]Startable => []<>(pc[p] = "serving"))
    <2>1. Spec /\ []StartsCanGoOn =>
              (\A n \in Nat : []Startable /\ Rank(p) = n
                                 ~> Rank(p) \in 0 .. n - 1 \/ pc[p] = "serving")
        BY StartsComeCloser
    <2>2. Spec /\ []StartsCanGoOn /\ ServeDescends(p) =>
              ([]Startable /\ Rank(p) \in Nat ~> pc[p] = "serving")
        BY <2>1 DEF ServeDescends
    <2>3. IInv => Rank(p) \in Nat
        BY RankIsNat DEF IInv
    <2>4. QED
        BY <2>2, <2>3, StartupInvariant, PTL
<1>2. QED
    BY <1>1 DEF AllServe

-----------------------------------------------------------------------------
(***************************************************************************)
(* What StartsCanGoOn rests on: there is an answer to everything a start   *)
(* finds, and the bound on ids never keeps it from inserting a role.       *)
(***************************************************************************)
LEMMA LeastNumber ==
    ASSUME NEW S \in SUBSET Nat, S # {}
    PROVE  \E m \in S : \A k \in S : m <= k
<1> DEFINE R == OpToRel(<, Nat)
<1>1. IsWellFoundedOn(R, Nat)
    BY NatLessThanWellFounded
<1>2. \A x, y \in Nat : <<y, x>> \in R <=> y < x
    BY DEF OpToRel
<1> HIDE DEF R
<1>3. PICK m \in S : \A k \in S : ~(<<k, m>> \in R)
    BY <1>1, WFMin
<1>4. ASSUME NEW k \in S
      PROVE  m <= k
    <2>1. k \in Nat /\ m \in Nat
        OBVIOUS
    <2>2. ~(k < m)
        BY <1>2, <1>3, <2>1
    <2>3. QED
        BY <2>1, <2>2
<1>5. QED
    BY <1>4

\* The next id is right above the greatest.
LEMMA NextIdIsLow ==
    ASSUME NEW T \in Rows, NEW b \in Ids, \A j \in Used(T) : j < b
    PROVE  /\ \E i \in Ids : IsNextId(T, i)
           /\ \A i \in Ids : IsNextId(T, i) => i <= b /\ \A j \in Used(T) : j < i
<1>1. b \in NextIds(T) /\ NextIds(T) \in SUBSET Nat
    BY DEF NextIds, Ids
<1>2. PICK i \in NextIds(T) : \A k \in NextIds(T) : i <= k
    BY <1>1, LeastNumber
<1>3. i \in Ids /\ IsNextId(T, i)
    BY <1>2 DEF IsNextId, NextIds
<1>4. ASSUME NEW k \in Ids, IsNextId(T, k)
      PROVE  k <= b /\ \A j \in Used(T) : j < k
    BY <1>1, <1>4 DEF IsNextId, NextIds
<1>5. QED
    BY <1>3, <1>4

\* Every change adds a row, or takes away the role without an id, which the next
\* start adds.
Missed(T) == IF Named(T, AutoName) = {} THEN 1 ELSE 0

IdsOK == \A i \in Used(roles) : i + Missed(roles) <= MaxFixed + 1 + changes

LEMMA IdsFirst == Init => IdsOK
<1> SUFFICES ASSUME Init, NEW i \in Used(roles)
             PROVE  i + Missed(roles) <= MaxFixed + 1 + changes
    BY DEF IdsOK
<1>1. roles[i].name \in DefaultNames /\ OldId(roles[i].name) = i /\ i \in Ids /\ changes = 0
    BY NoRolesTyped, OldRolesOK DEF Init, Used
<1>2. CASE roles[i].name = AutoName
    <2>1. i = MaxFixed + 1
        BY <1>1, <1>2 DEF OldId
    <2>2. i \in Named(roles, AutoName)
        BY <1>1, <1>2 DEF Named, Used
    <2>3. Missed(roles) = 0
        BY <2>2 DEF Missed
    <2>4. QED
        BY <1>1, <2>1, <2>3
<1>3. CASE roles[i].name \in FixedNames
    <2>1. i \in 1 .. MaxFixed
        BY <1>1, <1>3 DEF OldId
    <2>2. QED
        BY <1>1, <2>1 DEF Missed
<1>4. QED
    BY <1>1, <1>2, <1>3 DEF DefaultNames

\* What a flush adds, but for the role without an id, is low.
Flushed(p) == WithFixed(Updated(seen[p]), MissingNames(seen[p]))

LEMMA FlushedIsLow ==
    ASSUME IInv, IdsOK, NEW p \in Processes, ~Conflict(seen[p])
    PROVE  /\ Flushed(p) \in Rows
           /\ \A j \in Used(Flushed(p)) : roles[j] # None \/ j <= MaxFixed
<1> DEFINE S == seen[p]
           M == MissingNames(S)
           U == Updated(S)
           T == WithFixed(U, M)
<1> USE DEF IInv
<1>1. S \in Rows /\ roles \in Rows
    BY DEF TypeOK, Rows
<1>2. \A j \in Ids : /\ roles[j] = None => U[j] = None
                     /\ roles[j] # None => U[j] \in Row
    BY <1>1, UpdatedRows
<1>3. ASSUME NEW j \in Ids
      PROVE  /\ T[j] \in Row \union {None}
             /\ T[j] # None => roles[j] # None \/ j <= MaxFixed
    <2>1. CASE \E n \in M \intersect FixedNames : FixedId[n] = j
        <3>1. PICK n \in M \intersect FixedNames :
                 FixedId[n] = j /\ T[j] = Fresh(n)
            <4> DEFINE m == CHOOSE m \in M \intersect FixedNames : FixedId[m] = j
            <4>1. m \in M \intersect FixedNames /\ FixedId[m] = j
                BY <2>1
            <4>2. T[j] = Fresh(m)
                BY <2>1 DEF WithFixed
            <4>3. QED
                BY <4>1, <4>2
        <3>2. n \in DefaultNames /\ j \in 1 .. MaxFixed
            BY <3>1 DEF DefaultNames
        <3>3. QED
            BY <3>1, <3>2, FreshIsRow
    <2>2. CASE ~ \E n \in M \intersect FixedNames : FixedId[n] = j
        <3>1. T[j] = U[j]
            BY <2>2 DEF WithFixed
        <3>2. QED
            BY <1>2, <3>1
    <2>3. QED
        BY <2>1, <2>2
<1>4. T = [j \in Ids |-> T[j]]
    BY DEF WithFixed
<1> HIDE DEF T
<1>5. T \in Rows
    BY <1>3, <1>4 DEF Rows
<1>6. \A j \in Used(T) : roles[j] # None \/ j <= MaxFixed
    BY <1>3 DEF Used
<1>7. QED
    BY <1>5, <1>6 DEF T, Flushed

\* Whoever inserts the role without an id finds the next id free, and low.
LEMMA FlushHasRoom ==
    ASSUME IInv, IdsOK, NEW p \in Processes, ~Conflict(seen[p]),
           AutoName \in MissingNames(seen[p])
    PROVE  /\ \E i \in Ids : IsNextId(Flushed(p), i)
           /\ \A i \in Ids : IsNextId(Flushed(p), i) => i <= MaxFixed + 1 + changes
<1> DEFINE T == Flushed(p)
           b == MaxFixed + 1 + changes
<1>1. b \in Ids /\ changes \in Nat
    BY DEF IInv, TypeOK, Ids
<1>2. T \in Rows /\ \A j \in Used(T) : roles[j] # None \/ j <= MaxFixed
    BY FlushedIsLow
<1>3. Named(roles, AutoName) = {}
    BY DEF Conflict
<1>4. \A j \in Used(T) : j < b
    BY <1>1, <1>2, <1>3 DEF IdsOK, Missed, Used, Ids
<1> HIDE DEF T, b
<1>5. /\ \E i \in Ids : IsNextId(T, i)
      /\ \A i \in Ids : IsNextId(T, i) => i <= b
    BY <1>1, <1>2, <1>4, NextIdIsLow
<1>6. QED
    BY <1>5 DEF T, b

LEMMA RequestIds ==
    ASSUME IInv, IdsOK, changes' = changes + 1,
           \A j \in Used(roles') : roles[j] # None \/ j <= MaxFixed
    PROVE  IdsOK'
<1>1. ASSUME NEW j \in Used(roles')
      PROVE  j + Missed(roles') <= MaxFixed + 1 + changes'
    <2>1. j \in Nat /\ changes \in Nat
        BY DEF Used, Ids, IInv, TypeOK
    <2>2. CASE roles[j] # None
        <3>1. j + Missed(roles) <= MaxFixed + 1 + changes
            BY <2>2 DEF IdsOK, Used
        <3>2. QED
            BY <2>1, <3>1 DEF Missed
    <2>3. CASE j <= MaxFixed
        BY <2>1, <2>3 DEF Missed
    <2>4. QED
        BY <1>1, <2>2, <2>3
<1>2. QED
    BY <1>1 DEF IdsOK, Missed, Named, Used

LEMMA CreateHasRoom ==
    ASSUME IInv, IdsOK, changes < MaxChanges
    PROVE  /\ \E i \in Ids : IsNextId(roles, i)
           /\ \A i \in Ids : IsNextId(roles, i) =>
                 roles[i] = None /\ i + Missed(roles) <= MaxFixed + 2 + changes
<1> DEFINE b == MaxFixed + 2 + changes - Missed(roles)
<1>1. b \in Ids /\ changes \in Nat
    BY DEF IInv, TypeOK, Ids, Missed
<1>2. roles \in Rows
    BY DEF IInv, TypeOK, Rows
<1>3. \A j \in Used(roles) : j < b
    BY <1>1 DEF IdsOK, Missed, Used, Ids
<1>4. /\ \E i \in Ids : IsNextId(roles, i)
      /\ \A i \in Ids : IsNextId(roles, i) => i <= b /\ \A j \in Used(roles) : j < i
    <2> HIDE DEF b
    <2>1. QED
        BY <1>1, <1>2, <1>3, NextIdIsLow
<1>5. \A i \in Ids : IsNextId(roles, i) =>
         roles[i] = None /\ i + Missed(roles) <= MaxFixed + 2 + changes
    BY <1>1, <1>4 DEF Missed, Used, Ids
<1>6. QED
    BY <1>4, <1>5

LEMMA IdsStep ==
    ASSUME IInv, IdsOK, [Next]_vars
    PROVE  IdsOK'
<1> USE DEF IInv
<1>1. ASSUME NEW p \in Processes, SeedRoles(p)
      PROVE  IdsOK'
    <2> DEFINE S == seen[p]
               T == Flushed(p)
    <2>1. /\ ~Conflict(S) /\ UNCHANGED changes /\ changes \in Nat
          /\ \A n \in DefaultNames : Named(roles, n) # {} => Named(roles', n) # {}
        <3>1. SeedKeeps(S)
            BY <1>1, SeedStep
        <3>2. ~Conflict(S) /\ UNCHANGED changes
            BY <1>1, SeedFrame
        <3>3. changes \in Nat
            BY DEF TypeOK
        <3>4. \A n \in DefaultNames : Named(roles, n) # {} => Named(roles', n) # {}
            BY <3>1 DEF SeedKeeps
        <3>5. QED
            BY <3>2, <3>3, <3>4
    <2>2. T \in Rows /\ \A j \in Used(T) : roles[j] # None \/ j <= MaxFixed
        BY <2>1, FlushedIsLow
    <2>3. ASSUME NEW j \in Ids, T[j] # None
          PROVE  /\ j + Missed(roles) <= MaxFixed + 1 + changes \/ j <= MaxFixed
                 /\ j <= MaxFixed + 1 + changes
        <3>1. roles[j] # None => j + Missed(roles) <= MaxFixed + 1 + changes
            BY DEF IdsOK, Used
        <3>2. QED
            BY <2>1, <2>2, <2>3, <3>1 DEF Used, Missed, Ids
    <2>4. CASE AutoName \in MissingNames(S)
        <3>1. PICK i \in Ids : IsNextId(T, i) /\ roles' = [T EXCEPT ![i] = Fresh(AutoName)]
            BY <1>1, <2>4 DEF SeedRoles, Flushed
        <3>2. i <= MaxFixed + 1 + changes
            BY <2>1, <2>4, <3>1, FlushHasRoom
        <3>3. AutoName \in DefaultNames
            BY DEF DefaultNames
        <3>4. roles'[i] = Fresh(AutoName) /\ \A j \in Ids : j # i => roles'[j] = T[j]
            BY <2>2, <3>1 DEF Rows
        <3>5. i \in Named(roles', AutoName)
            BY <3>3, <3>4, FreshIsRow DEF Named
        <3>6. Missed(roles') = 0
            BY <3>5 DEF Missed
        <3>7. \A j \in Used(roles') : j + Missed(roles') <= MaxFixed + 1 + changes'
            BY <2>1, <2>3, <3>2, <3>4, <3>6 DEF Used, Ids
        <3>8. QED
            BY <3>7 DEF IdsOK, Missed, Named, Used
    <2>5. CASE AutoName \notin MissingNames(S)
        <3>1. roles' = T
            BY <1>1, <2>5 DEF SeedRoles, Flushed
        <3>2. Named(roles, AutoName) # {} => Named(roles', AutoName) # {}
            BY <2>1 DEF DefaultNames
        <3>3. Missed(roles') <= Missed(roles) /\ Missed(roles') \in {0, 1}
              /\ Missed(roles) \in {0, 1}
            BY <3>2 DEF Missed
        <3>4. \A j \in Used(roles') : j + Missed(roles') <= MaxFixed + 1 + changes'
            <4> SUFFICES ASSUME NEW j \in Used(roles')
                         PROVE  j + Missed(roles') <= MaxFixed + 1 + changes'
                OBVIOUS
            <4>1. j \in Ids /\ T[j] # None /\ j \in Nat
                BY <3>1 DEF Used, Ids
            <4>2. QED
                BY <2>1, <2>3, <3>3, <4>1
        <3>5. QED
            BY <3>4 DEF IdsOK, Missed, Named, Used
    <2>6. QED
        BY <2>4, <2>5
<1>2. ASSUME NEW p \in Processes, Step(p) \/ Crash(p), ~SeedRoles(p)
      PROVE  IdsOK'
    <2>1. UNCHANGED <<roles, changes>>
        BY <1>2, StepKeepsRoles, StepKeepsBudget DEF Crash
    <2>2. QED
        BY <2>1 DEF IdsOK, Missed, Named, Used
<1>3. CASE Requests
    <2>1. changes' = changes + 1 /\ changes < MaxChanges
        BY <1>3, RequestFrame DEF Change
    <2>2. roles \in Rows
        BY DEF TypeOK, Rows
    <2>3. ASSUME NEW i \in Ids, NEW n \in Names, CreateRole(i, n)
          PROVE  IdsOK'
        <3>1. IsNextId(roles, i) /\ roles'[i].name = n
              /\ \A j \in Ids : j # i => roles'[j] = roles[j]
            BY <2>2, <2>3 DEF CreateRole, Rows
        <3>2. roles[i] = None /\ i + Missed(roles) <= MaxFixed + 2 + changes
            BY <2>1, <3>1, CreateHasRoom
        <3>3. Named(roles, AutoName) # {} => Named(roles', AutoName) # {}
            BY <3>1, <3>2 DEF Named
        <3>4. Missed(roles') <= Missed(roles) /\ Missed(roles') \in {0, 1}
              /\ Missed(roles) \in {0, 1}
            BY <3>3 DEF Missed
        <3>5. \A j \in Used(roles') : j + Missed(roles') <= MaxFixed + 1 + changes'
            <4> SUFFICES ASSUME NEW j \in Used(roles')
                         PROVE  j + Missed(roles') <= MaxFixed + 1 + changes'
                OBVIOUS
            <4>1. j \in Nat /\ changes \in Nat /\ i \in Nat
                BY DEF Used, Ids, TypeOK
            <4>2. CASE j = i
                BY <2>1, <3>2, <3>4, <4>1, <4>2
            <4>3. CASE j # i
                <5>1. j + Missed(roles) <= MaxFixed + 1 + changes
                    BY <3>1, <4>3 DEF IdsOK, Used
                <5>2. QED
                    BY <2>1, <3>4, <4>1, <5>1
            <4>4. QED
                BY <4>2, <4>3
        <3>6. QED
            BY <3>5 DEF IdsOK, Missed, Named, Used
    <2>4. ASSUME NEW u \in Users, Signup(u)
          PROVE  \A j \in Used(roles') : roles[j] # None \/ j <= MaxFixed
        <3>1. FixedId[SignupName] \in 1 .. MaxFixed
            OBVIOUS
        <3>2. QED
            BY <2>2, <2>4, <3>1 DEF Signup, Used, Rows
    <2>5. ASSUME \/ \E i \in Ids, n \in Names : RenameRole(i, n)
                 \/ \E i \in Ids : DeleteRole(i)
                 \/ \E i \in Ids, k \in Keys : PatchRole(i, k)
          PROVE  \A j \in Used(roles') : roles[j] # None
        BY <2>2, <2>5 DEF RenameRole, DeleteRole, PatchRole, Used, Rows
    <2>6. ASSUME ResetRoles \/ \E u \in Users, s \in {"none", "plain", "super"} : ChangeUser(u, s)
          PROVE  \A j \in Used(roles') : roles[j] # None
        BY <2>2, <2>6 DEF ResetRoles, ChangeUser, Used, Rows
    <2>7. QED
        BY <1>3, <2>1, <2>3, <2>4, <2>5, <2>6, RequestIds DEF Requests
<1>4. CASE UNCHANGED vars
    BY <1>4 DEF vars, IdsOK, Missed, Named, Used
<1>5. QED
    BY <1>1, <1>2, <1>3, <1>4 DEF Next

\* bootstrap.py:60-89, crud.py:117.  Whatever roles requests have made and starts
\* have seeded, a flush that inserts the role without an id of its own finds the
\* next id free, and so does the request that creates a role.
THEOREM IdsSuffice ==
    Spec => [](/\ \A p \in Processes :
                     pc[p] = "flush" /\ ~Conflict(seen[p]) /\ AutoName \in MissingNames(seen[p])
                     => \E i \in Ids : IsNextId(Flushed(p), i)
               /\ changes < MaxChanges => \E i \in Ids : IsNextId(roles, i))
<1>1. IInv /\ IdsOK =>
        /\ \A p \in Processes :
              pc[p] = "flush" /\ ~Conflict(seen[p]) /\ AutoName \in MissingNames(seen[p])
              => \E i \in Ids : IsNextId(Flushed(p), i)
        /\ changes < MaxChanges => \E i \in Ids : IsNextId(roles, i)
    BY FlushHasRoom, CreateHasRoom
<1>2. IInv /\ IdsOK /\ [Next]_vars => IdsOK'
    BY IdsStep
<1>3. QED
    BY <1>1, <1>2, IdsFirst, StartupInvariant, PTL DEF Spec

=============================================================================
