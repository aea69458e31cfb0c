------------------------ MODULE TwoMigrationsProofs ------------------------
(***************************************************************************)
(* Theorems about TwoMigrations, for any tables, batch size and number of  *)
(* movers and migrators, started any number of times.  The lemmas about    *)
(* one migrator are those of SpiceMigrationProofs, for the tables the      *)
(* movers change.                                                          *)
(***************************************************************************)
EXTENDS TwoMigrations, MoveSystemsProofs

MP == INSTANCE SpiceMigrationProofs WITH
    Procs <- Migrators, Actions <- {"hosts"},
    SeedPlatform <- SeedDB["system_platform"], SeedPackages <- {},
    SeedHosts <- HostsSynced,
    system_platform <- db["system_platform"], system_package <- {},
    hosts <- Hosts \cap HostsSynced,
    pc <- mpc, result <- returned

\* What SpiceMigration assumes of its parameters.
LEMMA MigrationAssumptions ==
    /\ MP!BatchAssumption /\ MP!TableAssumption
    /\ MP!NameOfAssumption /\ MP!LimitAssumption
<1>1. SeedDB["system_platform"] \subseteq SystemPlatform
  BY MoveAssumption, RowOfTable DEF Tables
<1> QED
  BY <1>1, BatchAssumption, MoveAssumption, NameOfAssumption, LimitAssumption
  DEF MP!BatchAssumption, MP!TableAssumption, MP!NameOfAssumption,
      MP!LimitAssumption, SystemPlatform, MP!SystemPlatform

(***************************************************************************)
(* The three instances of SpiceDB and the two of SpiceMigration are about  *)
(* the same relationships and steps.                                       *)
(***************************************************************************)
LEMMA SameObjects ==
    /\ \A o : MP!RootParent(o) = RootParent(o)
    /\ \A o : MP!UngroupedParent(o) = UngroupedParent(o)
    /\ \A h, o : MP!HostWorkspace(h, o) = HostWorkspace(h, o)
    /\ \A s, h : MP!SystemHost(s, h) = SystemHost(s, h)
    /\ \A n, s : MP!PatchSystem(n, s) = PatchSystem(n, s)
    /\ MP!HostRows = Migration!HostRows
BY DEF RootParent, UngroupedParent, HostWorkspace, SystemHost, PatchSystem,
       Rel, Organization, Root, Ungrouped, Host, System, Patch,
       MP!RootParent, MP!UngroupedParent, MP!HostWorkspace, MP!SystemHost,
       MP!PatchSystem, MP!Rel, MP!Organization, MP!Root, MP!Ungrouped,
       MP!Host, MP!System, MP!Patch, MP!HostRows, Migration!HostRows

LEMMA SameSteps ==
    ASSUME NEW m \in Migrators
    PROVE  /\ Migration!Start(m) <=> MP!Start(m)
           /\ Migration!Step(m) <=> MP!Step(m)
           /\ Migration!Crash(m) <=> MP!Crash(m)
           /\ Migration!Running(m) <=> MP!Running(m)
BY DEF Migration!Organization, Migration!Root, Migration!Ungrouped,
       Migration!Host, Migration!System, Migration!Patch, Migration!Rel,
       Migration!RootParent, Migration!UngroupedParent,
       Migration!HostWorkspace, Migration!SystemHost, Migration!PatchSystem,
       Migration!Touch, Migration!Acceptable, Migration!Applied,
       Migration!WriteRelationships, Migration!tables, Migration!NoRow,
       Migration!HostRows, Migration!PackageRows, Migration!PackageKey,
       Migration!Goto, Migration!Running, Migration!Return, Migration!Stored,
       Migration!NotStored, Migration!Fits, Migration!Appended,
       Migration!NewBatch, Migration!Added, Migration!addUpdate,
       Migration!Start, Migration!NextRow, Migration!AddRoot,
       Migration!AddUngrouped, Migration!AddHost, Migration!AddSystem,
       Migration!AddPatch, Migration!EndOfRows, Migration!BadRow,
       Migration!FinalFlush, Migration!Crash, Migration!Step,
       MP!Organization, MP!Root, MP!Ungrouped, MP!Host, MP!System, MP!Patch,
       MP!Rel, MP!RootParent, MP!UngroupedParent, MP!HostWorkspace,
       MP!SystemHost, MP!PatchSystem, MP!Touch, MP!Acceptable, MP!Applied,
       MP!WriteRelationships, MP!tables, MP!NoRow, MP!HostRows,
       MP!PackageRows, MP!PackageKey, MP!Goto, MP!Running, MP!Return,
       MP!Stored, MP!NotStored, MP!Fits, MP!Appended, MP!NewBatch, MP!Added,
       MP!addUpdate, MP!Start, MP!NextRow, MP!AddRoot, MP!AddUngrouped,
       MP!AddHost, MP!AddSystem, MP!AddPatch, MP!EndOfRows, MP!BadRow,
       MP!FinalFlush, MP!Crash, MP!Step

LEMMA Distinct ==
    /\ \A o, q : RootParent(o) # UngroupedParent(q)
    /\ \A o, h, q : RootParent(o) # HostWorkspace(h, q)
    /\ \A o, s, h : RootParent(o) # SystemHost(s, h)
    /\ \A o, n, s : RootParent(o) # PatchSystem(n, s)
    /\ \A o, h, q : UngroupedParent(o) # HostWorkspace(h, q)
    /\ \A o, s, h : UngroupedParent(o) # SystemHost(s, h)
    /\ \A o, n, s : UngroupedParent(o) # PatchSystem(n, s)
    /\ \A g, o, s, h : HostWorkspace(g, o) # SystemHost(s, h)
    /\ \A g, o, n, s : HostWorkspace(g, o) # PatchSystem(n, s)
    /\ \A s, h, n, t : SystemHost(s, h) # PatchSystem(n, t)
BY MP!Distinct
DEF RootParent, UngroupedParent, HostWorkspace, SystemHost, PatchSystem,
    Rel, Organization, Root, Ungrouped, Host, System, Patch,
    MP!RootParent, MP!UngroupedParent, MP!HostWorkspace, MP!SystemHost,
    MP!PatchSystem, MP!Rel, MP!Organization, MP!Root, MP!Ungrouped,
    MP!Host, MP!System, MP!Patch

LEMMA Injective ==
    /\ \A o, q : UngroupedParent(o) = UngroupedParent(q) => o = q
    /\ \A s, t, g, h : SystemHost(s, g) = SystemHost(t, h) => s = t /\ g = h
BY MP!Injective
DEF RootParent, UngroupedParent, HostWorkspace, SystemHost, PatchSystem,
    Rel, Organization, Root, Ungrouped, Host, System, Patch,
    MP!RootParent, MP!UngroupedParent, MP!HostWorkspace, MP!SystemHost,
    MP!PatchSystem, MP!Rel, MP!Organization, MP!Root, MP!Ungrouped,
    MP!Host, MP!System, MP!Patch

-----------------------------------------------------------------------------
(* Types and steps                                                         *)

MigratorsTyped == MP!RowInv /\ MP!Batches

\* The kinds of steps of a migrator, beside movers that stand still.
LEMMA MigratorStep ==
    ASSUME MigratorsTyped, NEW m \in Migrators, UNCHANGED mover,
           Migration!Start(m) \/ Migration!Step(m) \/ Migration!Crash(m)
    PROVE  /\ MigratorsTyped' /\ MP!OthersAlone(m)
           /\ \/ MP!Begins(m) \/ MP!Takes(m) \/ MP!Drains(m)
              \/ MP!AddsOne(m) \/ MP!Ends(m)
           /\ spicedb' \in {spicedb, MP!Known(m)}
           /\ spicedb' # spicedb => MP!Running(m)
<1>1. MP!Start(m) \/ MP!Step(m) \/ MP!Crash(m)
  BY SameSteps
<1>2. /\ MigratorsTyped' /\ MP!OthersAlone(m)
      /\ \/ MP!Begins(m) \/ MP!Takes(m) \/ MP!Drains(m)
         \/ MP!AddsOne(m) \/ MP!Ends(m)
  BY <1>1, MigrationAssumptions, MP!StepEffect DEF MigratorsTyped
<1> QED
  BY <1>2 DEF MP!Begins, MP!Takes, MP!Drains, MP!AddsOne, MP!Adds, MP!Ends,
              MP!Running

\* Movers change the tables of the migrators, but not their types.
LEMMA MigratorsStay ==
    ASSUME MigratorsTyped, Typed', UNCHANGED migrator
    PROVE  MigratorsTyped'
<1>1. db'["system_platform"] \subseteq SystemPlatform
  BY RowOfTable DEF Typed, Shapes, Tables
<1>2. MP!SystemPlatform = SystemPlatform
  BY DEF MP!SystemPlatform, SystemPlatform
<1> QED
  BY <1>1, <1>2
  DEF MigratorsTyped, MP!RowInv, MP!Batches, MP!Running, migrator

\* A step of either kind, with what the other kind does not see of it.
LEMMA StepKinds ==
    ASSUME Typed, MigratorsTyped, [AllNext]_allVars
    PROVE  /\ Typed' /\ MigratorsTyped'
           /\ \/ \E m \in Migrators :
                   /\ UNCHANGED mover
                   /\ \/ Migration!Start(m) \/ Migration!Step(m)
                      \/ Migration!Crash(m)
              \/ \E p \in Procs : UNCHANGED migrator /\ Step(p)
              \/ UNCHANGED <<mover, migrator, spicedb>>
<1>1. ASSUME UNCHANGED mover PROVE Typed'
  BY <1>1 DEF mover, Typed, Shapes, Locks
<1>2. ASSUME NEW m \in Migrators,
             StartMigration(m) \/ StepMigration(m) \/ CrashMigration(m)
      PROVE  /\ UNCHANGED mover
             /\ \/ Migration!Start(m) \/ Migration!Step(m)
                \/ Migration!Crash(m)
  BY <1>2 DEF StartMigration, StepMigration, CrashMigration
<1>3. ASSUME NEW p \in Procs, StartMove(p) \/ StepMove(p)
      PROVE  UNCHANGED migrator /\ Step(p)
  BY <1>3 DEF StartMove, StepMove, Step
<1>4. CASE UNCHANGED allVars
  <2>1. UNCHANGED <<mover, migrator, spicedb>>
    BY <1>4 DEF allVars
  <2> QED
    BY <1>1, <2>1, MigratorsStay
<1> QED
  BY <1>1, <1>2, <1>3, <1>4, MigratorStep, MigratorsStay, TypedStep
  DEF AllNext

LEMMA AllTypedInit == AllInit => Typed /\ MigratorsTyped
<1> SUFFICES ASSUME AllInit PROVE Typed /\ MigratorsTyped
  OBVIOUS
<1>1. Typed
  BY TypedInit DEF AllInit, Idle
<1>2. MP!Init
  BY DEF AllInit, Migration!Init, MP!Init, Migration!NoRow, MP!NoRow
<1>3. MP!MigrationInv
  BY <1>2, MigrationAssumptions, MP!MigrationInit
<1> QED
  BY <1>1, <1>3 DEF MigratorsTyped, MP!MigrationInv

-----------------------------------------------------------------------------
(* Systems and their hosts                                                 *)

Placed(rels) ==
    /\ \A s \in Systems, h \in Hosts :
         SystemHost(s, h) \in rels =>
            \E acc \in Accounts : HostWorkspace(h, acc) \in rels
    /\ \A org \in Accounts :
         UngroupedParent(org) \in rels => RootParent(org) \in rels

(***************************************************************************)
(* With what is stored, a batch is placed as well, and the next            *)
(* relationship of a migrator will be: the host is in some workspace, if   *)
(* no longer in that of its row.                                           *)
(***************************************************************************)
Hanging(m) ==
    /\ Placed(MP!Known(m))
    /\ mpc[m] = "ungrouped" => RootParent(row[m].org) \in MP!Known(m)
    /\ mpc[m] = "system" =>
         \E acc \in Accounts : HostWorkspace(row[m].host, acc) \in MP!Known(m)

PlaceInv ==
    /\ Typed /\ MigratorsTyped
    /\ Placed(spicedb)
    /\ \A m \in Migrators : MP!Running(m) => Hanging(m)

LEMMA PlacedAdd ==
    ASSUME NEW S, Placed(S)
    PROVE  /\ \A o : Placed(S \cup {RootParent(o)})
           /\ \A o : RootParent(o) \in S => Placed(S \cup {UngroupedParent(o)})
           /\ \A h, o : Placed(S \cup {HostWorkspace(h, o)})
           /\ \A s, h : (\E o \in Accounts : HostWorkspace(h, o) \in S)
                         => Placed(S \cup {SystemHost(s, h)})
           /\ \A n, s : Placed(S \cup {PatchSystem(n, s)})
<1>1. \A o : Placed(S \cup {RootParent(o)})
  BY Distinct DEF Placed
<1>2. ASSUME NEW o, RootParent(o) \in S
      PROVE  Placed(S \cup {UngroupedParent(o)})
  BY <1>2, Distinct, Injective DEF Placed
<1>3. \A h, o : Placed(S \cup {HostWorkspace(h, o)})
  BY Distinct DEF Placed
<1>4. ASSUME NEW s, NEW h, NEW o \in Accounts, HostWorkspace(h, o) \in S
      PROVE  Placed(S \cup {SystemHost(s, h)})
  BY <1>4, Distinct, Injective DEF Placed
<1>5. \A n, s : Placed(S \cup {PatchSystem(n, s)})
  BY Distinct DEF Placed
<1> QED
  BY <1>1, <1>2, <1>3, <1>4, <1>5

(***************************************************************************)
(* A request of a mover takes a host out of one workspace, which may be    *)
(* the only one, but puts it into another.                                 *)
(***************************************************************************)
LEMMA SwapPlaced ==
    ASSUME Typed, NEW p \in Procs, NEW S, NEW T,
           S \ Leaving(p) \subseteq T, Joining(p) \subseteq T,
           T \subseteq S \cup Joining(p), Placed(S)
    PROVE  /\ Placed(T)
           /\ \A h : (\E acc \in Accounts : HostWorkspace(h, acc) \in S)
                => \E acc \in Accounts : HostWorkspace(h, acc) \in T
<1>1. to(p) \in Accounts
  BY MoveTyped
<1>2. \A r \in Leaving(p) \cup Joining(p) :
        /\ \A o : r # RootParent(o) /\ r # UngroupedParent(o)
        /\ \A s, h : r # SystemHost(s, h)
  BY Distinct DEF Leaving, Joining
<1>3. ASSUME NEW h, NEW acc \in Accounts, HostWorkspace(h, acc) \in S
      PROVE  \E b \in Accounts : HostWorkspace(h, b) \in T
  <2>1. CASE HostWorkspace(h, acc) \in Leaving(p)
    <3>1. h \in listed[p]
      BY <2>1, HostWorkspaceInjective DEF Leaving
    <3> QED
      BY <1>1, <3>1 DEF Joining
  <2> QED
    BY <1>3, <2>1
<1>4. Placed(T)
  <2>1. \A s \in Systems, h \in Hosts :
          SystemHost(s, h) \in T => SystemHost(s, h) \in S
    BY <1>2
  <2>2. \A org \in Accounts :
          /\ UngroupedParent(org) \in T => UngroupedParent(org) \in S
          /\ RootParent(org) \in S => RootParent(org) \in T
    BY <1>2
  <2> QED
    BY <1>3, <2>1, <2>2 DEF Placed
<1> QED
  BY <1>3, <1>4

LEMMA MoverHangs ==
    ASSUME PlaceInv, NEW p \in Procs, UNCHANGED migrator, Send(p)
    PROVE  Placed(spicedb)' /\ \A m \in Migrators : MP!Running(m)' => Hanging(m)'
<1>1. spicedb' = (spicedb \ Leaving(p)) \cup Joining(p)
  BY DEF Send, Applied
<1>2. Placed(spicedb)'
  <2>1. /\ spicedb \ Leaving(p) \subseteq spicedb'
        /\ Joining(p) \subseteq spicedb' /\ spicedb' \subseteq spicedb \cup Joining(p)
    BY <1>1
  <2> QED
    BY <2>1, SwapPlaced DEF PlaceInv
<1>3. ASSUME NEW m \in Migrators, MP!Running(m)' PROVE Hanging(m)'
  <2>1. /\ MP!Running(m) /\ MP!Batch(m)' = MP!Batch(m)
        /\ row' = row /\ mpc' = mpc
    BY <1>3 DEF MP!Running, MP!Batch, migrator
  <2>2. Hanging(m)
    BY <2>1 DEF PlaceInv
  <2> DEFINE S == MP!Known(m)
             T == MP!Known(m)'
  <2>3. /\ S \ Leaving(p) \subseteq T /\ Joining(p) \subseteq T
        /\ T \subseteq S \cup Joining(p)
    BY <1>1, <2>1 DEF MP!Known
  <2>4. Placed(S) /\ Typed
    BY <2>2 DEF Hanging, PlaceInv
  <2>5. \A o : RootParent(o) \in S => RootParent(o) \in T
    BY <2>3, Distinct DEF Leaving
  <2> HIDE DEF S, T
  <2>6. /\ Placed(T)
        /\ \A h : (\E acc \in Accounts : HostWorkspace(h, acc) \in S)
             => \E acc \in Accounts : HostWorkspace(h, acc) \in T
    BY <2>3, <2>4, SwapPlaced
  <2> QED
    BY <2>1, <2>2, <2>5, <2>6 DEF Hanging, S, T
<1> QED
  BY <1>2, <1>3

\* The relationship a migrator adds is placed, and the next one will be.
LEMMA OwnHangs ==
    ASSUME PlaceInv, NEW m \in Migrators,
           \/ MP!Begins(m) \/ MP!Takes(m) \/ MP!Drains(m) \/ MP!AddsOne(m)
    PROVE  Hanging(m)'
<1>1. CASE MP!Begins(m)
  <2>1. MP!Known(m)' = spicedb /\ mpc'[m] = "next"
    BY <1>1 DEF MP!Begins, MP!Known, MP!Batch
  <2> QED
    BY <2>1 DEF Hanging, PlaceInv
<1>2. CASE MP!Takes(m) \/ MP!Drains(m)
  <2>1. /\ MP!Known(m)' = MP!Known(m) /\ MP!Running(m)
        /\ mpc'[m] \in {"patch", "root", "host", "flush"}
    BY <1>2 DEF MP!Takes, MP!Drains, MP!Known, MP!Batch, MP!Running
  <2> QED
    BY <2>1 DEF Hanging, PlaceInv
<1>3. CASE MP!AddsOne(m)
  <2>1. Hanging(m) /\ row' = row
    BY <1>3 DEF MP!AddsOne, MP!Adds, MP!Running, PlaceInv
  <2>2. mpc[m] \in {"host", "system"} => row[m].org \in Accounts
    BY DEF PlaceInv, MigratorsTyped, MP!RowInv, MP!Running, MP!HostRow
  <2>3. CASE MP!Adds(m, "root", MP!RootParent(row[m].org), "ungrouped", {}, {})
    <3>1. /\ mpc'[m] = "ungrouped"
          /\ MP!Known(m)' = MP!Known(m) \cup {RootParent(row[m].org)}
      BY <2>3, SameObjects DEF MP!Adds
    <3> QED
      BY <2>1, <3>1, PlacedAdd DEF Hanging
  <2>4. CASE MP!Adds(m, "ungrouped", MP!UngroupedParent(row[m].org), "host",
                     {}, {row[m].org})
    <3>1. /\ mpc[m] = "ungrouped" /\ mpc'[m] = "host"
          /\ MP!Known(m)' = MP!Known(m) \cup {UngroupedParent(row[m].org)}
      BY <2>4, SameObjects DEF MP!Adds
    <3> QED
      BY <2>1, <3>1, PlacedAdd DEF Hanging
  <2>5. CASE MP!Adds(m, "host", MP!HostWorkspace(row[m].host, row[m].org),
                     "system", {}, {})
    <3>1. /\ mpc[m] = "host" /\ mpc'[m] = "system"
          /\ MP!Known(m)' =
               MP!Known(m) \cup {HostWorkspace(row[m].host, row[m].org)}
      BY <2>5, SameObjects DEF MP!Adds
    <3> QED
      BY <2>1, <2>2, <3>1, PlacedAdd DEF Hanging
  <2>6. CASE MP!Adds(m, "system", MP!SystemHost(row[m].system, row[m].host),
                     "next", {row[m]}, {})
    <3>1. /\ mpc[m] = "system" /\ mpc'[m] = "next"
          /\ MP!Known(m)' =
               MP!Known(m) \cup {SystemHost(row[m].system, row[m].host)}
      BY <2>6, SameObjects DEF MP!Adds
    <3> QED
      BY <2>1, <3>1, PlacedAdd DEF Hanging
  <2>7. CASE MP!Adds(m, "patch", MP!PatchSystem(row[m].name, row[m].system),
                     "next", {row[m]}, {})
    <3>1. /\ mpc'[m] = "next"
          /\ MP!Known(m)' =
               MP!Known(m) \cup {PatchSystem(row[m].name, row[m].system)}
      BY <2>7, SameObjects DEF MP!Adds
    <3> QED
      BY <2>1, <3>1, PlacedAdd DEF Hanging
  <2> QED
    BY <1>3, <2>3, <2>4, <2>5, <2>6, <2>7 DEF MP!AddsOne
<1> QED
  BY <1>1, <1>2, <1>3

LEMMA OthersHang ==
    ASSUME PlaceInv, NEW m \in Migrators, NEW q \in Migrators, q # m,
           MP!OthersAlone(m), spicedb' \in {spicedb, MP!Known(m)},
           spicedb' # spicedb => MP!Running(m), MP!Running(q)'
    PROVE  Hanging(q)'
<1>1. MP!Running(q) /\ Hanging(q)
  BY DEF MP!OthersAlone, MP!Running, PlaceInv
<1>2. MP!Batch(q)' = MP!Batch(q) /\ row'[q] = row[q] /\ mpc'[q] = mpc[q]
  BY DEF MP!OthersAlone, MP!Batch
<1>3. \/ MP!Known(q)' = MP!Known(q)
      \/ /\ MP!Running(m)
         /\ MP!Known(q)' = MP!Known(q) \cup MP!Known(m)
  BY <1>2 DEF MP!Known
<1>4. Placed(MP!Known(q)')
  BY <1>1, <1>3 DEF PlaceInv, Hanging, Placed
<1>5. MP!Known(q) \subseteq MP!Known(q)'
  BY <1>3
<1> QED
  BY <1>1, <1>2, <1>4, <1>5 DEF Hanging

LEMMA PlaceNext == PlaceInv /\ [AllNext]_allVars => PlaceInv'
<1> SUFFICES ASSUME PlaceInv, [AllNext]_allVars PROVE PlaceInv'
  OBVIOUS
<1>1. Typed /\ MigratorsTyped /\ Typed' /\ MigratorsTyped'
  BY StepKinds DEF PlaceInv
<1>2. ASSUME NEW m \in Migrators, UNCHANGED mover,
             Migration!Start(m) \/ Migration!Step(m) \/ Migration!Crash(m)
      PROVE  PlaceInv'
  <2>1. /\ MP!OthersAlone(m)
        /\ \/ MP!Begins(m) \/ MP!Takes(m) \/ MP!Drains(m)
           \/ MP!AddsOne(m) \/ MP!Ends(m)
        /\ spicedb' \in {spicedb, MP!Known(m)}
        /\ spicedb' # spicedb => MP!Running(m)
    BY <1>1, <1>2, MigratorStep
  <2>2. Placed(spicedb)'
    BY <2>1 DEF PlaceInv, Hanging
  <2>3. MP!Ends(m) => ~MP!Running(m)'
    BY DEF MP!Ends, MP!Running
  <2> QED
    BY <1>1, <2>1, <2>2, <2>3, OthersHang, OwnHangs DEF PlaceInv
<1>3. ASSUME UNCHANGED <<migrator, spicedb>> PROVE PlaceInv'
  <2>1. \A m \in Migrators : MP!Known(m)' = MP!Known(m)
    BY <1>3 DEF MP!Known, MP!Batch, migrator
  <2> QED
    BY <1>1, <1>3, <2>1 DEF PlaceInv, Hanging, MP!Running, migrator
<1>4. ASSUME NEW p \in Procs, UNCHANGED migrator, Step(p) PROVE PlaceInv'
  BY <1>1, <1>3, <1>4, OnlyWriteSends, MoverHangs DEF PlaceInv
<1> QED
  BY <1>1, <1>2, <1>3, <1>4, StepKinds

(***************************************************************************)
(* A system SpiceDB knows always has a host somebody may see, and an       *)
(* ungrouped workspace its root, for any number of accounts, migrators and *)
(* movers, started beside each other however carelessly.                   *)
(***************************************************************************)
THEOREM SystemsPlacedCorrect == AllSpec => []SystemsPlaced
<1>1. AllInit => PlaceInv
  <2>1. AllInit => spicedb = {} /\ \A m \in Migrators : ~MP!Running(m)
    BY DEF AllInit, Migration!Init, MP!Running
  <2> QED
    BY <2>1, AllTypedInit DEF PlaceInv, Placed
<1>2. PlaceInv => SystemsPlaced
  BY DEF PlaceInv, Placed, SystemsPlaced, WorkspacesOf
<1> QED
  BY <1>1, <1>2, PlaceNext, PTL DEF AllSpec

-----------------------------------------------------------------------------
(* What a move repairs                                                     *)

(***************************************************************************)
(* A move that no migration of hosts has run beside is still alone, and    *)
(* before its commit the listed hosts are where they are to be, whatever   *)
(* has happened before it.                                                 *)
(***************************************************************************)
AloneInv ==
    /\ beside \in [Procs -> BOOLEAN]
    /\ \A p \in Procs : ~beside[p] =>
         /\ Running(p) => ~Migrating
         /\ pc[p] = "commit" => SentBy(p)

RepairInv == Typed /\ MigratorsTyped /\ Held /\ AloneInv

\* A step of a migrator, which is not beside any such move.
LEMMA AloneMigrator ==
    ASSUME AloneInv, NEW m \in Migrators,
           StartMigration(m) \/ StepMigration(m) \/ CrashMigration(m)
    PROVE  AloneInv'
<1>1. CASE StartMigration(m)
  BY <1>1 DEF StartMigration, AloneInv
<1>2. CASE StepMigration(m) \/ CrashMigration(m)
  <2>1. Migration!Running(m) /\ UNCHANGED <<mover, beside>>
    BY <1>2 DEF StepMigration, CrashMigration, Migration!Step,
       Migration!Crash, Migration!NextRow, Migration!AddRoot,
       Migration!AddUngrouped, Migration!AddHost, Migration!AddSystem,
       Migration!AddPatch, Migration!EndOfRows, Migration!BadRow,
       Migration!FinalFlush, Migration!Running
  <2>2. \A p \in Procs : ~beside[p] => ~Running(p)
    BY <2>1 DEF AloneInv, Migrating
  <2> QED
    BY <2>1, <2>2 DEF AloneInv, Running, mover
<1> QED
  BY <1>1, <1>2

\* What the steps of a mover do to its pc, and that the accounts and the list
\* are those of the start.
LEMMA MoverPc ==
    ASSUME Typed, NEW p \in Procs, StepMove(p)
    PROVE  /\ Running(p) /\ UNCHANGED <<move, listed>>
           /\ \A q \in Procs : q # p => pc'[q] = pc[q]
           /\ pc'[p] = "commit" => Send(p)
           /\ Send(p) \/ UNCHANGED spicedb
<1>0. pc \in [Procs -> Tables \cup {"idle", "begin", "write", "commit"}]
  BY DEF Typed, Shapes
<1>1. CASE BeginTx(p) \/ Crash(p)
  BY <1>0, <1>1 DEF BeginTx, Crash, Running, Return, Goto
<1>2. CASE \/ UpdateSystemRepo(p) \/ UpdateSystemAdvisories(p)
           \/ UpdateSystemPlatform(p) \/ UpdateBaseline(p)
  BY <1>0, <1>2 DEF UpdateSystemRepo, UpdateSystemAdvisories, Running,
     UpdateSystemPlatform, UpdateBaseline, Update, Return, Goto
<1>3. CASE WriteRels(p)
  BY <1>0, <1>3 DEF WriteRels, NotSent, Running, Return, Goto
<1>4. CASE Commit(p)
  BY <1>0, <1>4 DEF Commit, Running, Return, Goto
<1> QED
  BY <1>1, <1>2, <1>3, <1>4 DEF StepMove

LEMMA AloneMover ==
    ASSUME Directed, TwoAccounts, Typed, AloneInv, NEW p \in Procs,
           StartMove(p) \/ StepMove(p)
    PROVE  AloneInv'
<1>0. /\ pc \in [Procs -> Tables \cup {"idle", "begin", "write", "commit"}]
      /\ move \in [Procs -> Moves] /\ listed \in [Procs -> SUBSET HostsSynced]
      /\ beside \in [Procs -> BOOLEAN]
  BY DEF Typed, Shapes, AloneInv
<1>1. Migrating' = Migrating /\ Migrating \in BOOLEAN
  BY DEF StartMove, StepMove, Migrating, Migration!Running, migrator
<1>2. CASE StartMove(p)
  <2>1. /\ beside' = [beside EXCEPT ![p] = Migrating]
        /\ UNCHANGED spicedb /\ pc'[p] \in {"begin", "idle"}
        /\ \A q \in Procs : q # p =>
             pc'[q] = pc[q] /\ move'[q] = move[q] /\ listed'[q] = listed[q]
    BY <1>0, <1>2 DEF StartMove, Query, Return, Goto
  <2>2. \A q \in Procs : q # p => (SentBy(q)' <=> SentBy(q))
    BY <2>1 DEF SentBy, from, to, WorkspacesOf
  <2> QED
    BY <1>0, <1>1, <2>1, <2>2 DEF AloneInv, Running
<1>3. CASE StepMove(p)
  <2>1. /\ Running(p) /\ UNCHANGED <<move, listed, beside>>
        /\ \A q \in Procs : q # p => pc'[q] = pc[q]
        /\ pc'[p] = "commit" => Send(p)
        /\ Send(p) \/ UNCHANGED spicedb
    BY <1>3, MoverPc DEF StepMove
  <2>2. \A q \in Procs : SentBy(q) => SentBy(q)'
    <3>1. CASE Send(p)
      BY <2>1, <3>1, SendSettles
    <3>2. CASE UNCHANGED spicedb
      BY <2>1, <3>2 DEF SentBy, from, to, WorkspacesOf
    <3> QED
      BY <2>1, <3>1, <3>2
  <2>3. pc'[p] = "commit" => SentBy(p)'
    BY <2>1, SendSettles
  <2> QED
    BY <1>1, <2>1, <2>2, <2>3 DEF AloneInv, Running
<1> QED
  BY <1>2, <1>3

LEMMA RepairNext ==
    ASSUME Directed, TwoAccounts
    PROVE  RepairInv /\ [AllNext]_allVars => RepairInv'
<1> SUFFICES ASSUME RepairInv, [AllNext]_allVars PROVE RepairInv'
  OBVIOUS
<1>1. Typed /\ Typed' /\ MigratorsTyped'
  BY StepKinds DEF RepairInv
<1>2. ASSUME UNCHANGED mover PROVE Held'
  BY <1>2 DEF RepairInv, Held, Updated, from, mover
<1>3. ASSUME NEW m \in Migrators,
             StartMigration(m) \/ StepMigration(m) \/ CrashMigration(m)
      PROVE  RepairInv'
  <2>1. UNCHANGED mover
    BY <1>3 DEF StartMigration, StepMigration, CrashMigration
  <2> QED
    BY <1>1, <1>2, <1>3, <2>1, AloneMigrator DEF RepairInv
<1>4. ASSUME NEW p \in Procs, StartMove(p) \/ StepMove(p)
      PROVE  RepairInv'
  <2>1. Step(p)
    BY <1>4 DEF StartMove, StepMove, Step
  <2> QED
    BY <1>1, <1>4, <2>1, HeldStep, AloneMover DEF RepairInv
<1>5. CASE UNCHANGED allVars
  <2>1. AloneInv'
    BY <1>5 DEF RepairInv, AloneInv, Running, Migrating, Migration!Running,
       SentBy, from, to, WorkspacesOf, allVars, mover, migrator
  <2>2. UNCHANGED mover
    BY <1>5 DEF allVars
  <2> QED
    BY <1>1, <1>2, <2>1, <2>2 DEF RepairInv
<1> QED
  BY <1>3, <1>4, <1>5 DEF AllNext

(***************************************************************************)
(* Between two accounts, with one mover or movers in one direction: a move *)
(* that returns nil and ran beside no migration of hosts has its hosts in  *)
(* the new account's workspace only, in whatever mess it found them.       *)
(***************************************************************************)
THEOREM MoveRepairsCorrect ==
    Directed /\ TwoAccounts => (AllSpec => MoveRepairs)
<1> SUFFICES ASSUME Directed, TwoAccounts PROVE AllSpec => MoveRepairs
  OBVIOUS
<1> DEFINE Repaired ==
      \A p \in Procs :
         result[p] # "nil" /\ result'[p] = "nil" /\ ~beside[p]
           => MovedInBoth(p)'
<1>1. AllInit => RepairInv
  <2>1. AllInit => Held
    BY DEF AllInit, Held, Updated, NoRows, Tables
  <2>2. AllInit => AloneInv
    BY DEF AllInit, AloneInv
  <2> QED
    BY <2>1, <2>2, AllTypedInit DEF RepairInv
<1>2. RepairInv /\ [AllNext]_allVars => RepairInv'
  BY RepairNext
<1>3. RepairInv /\ [AllNext]_allVars => [Repaired]_allVars
  <2> SUFFICES ASSUME RepairInv, AllNext PROVE Repaired
    OBVIOUS
  <2>1. ASSUME NEW m \in Migrators,
               StartMigration(m) \/ StepMigration(m) \/ CrashMigration(m)
        PROVE  Repaired
    BY <2>1 DEF StartMigration, StepMigration, CrashMigration, mover
  <2>2. ASSUME NEW q \in Procs, StartMove(q) \/ StepMove(q)
        PROVE  Repaired
    <3>1. Step(q)
      BY <2>2 DEF StartMove, StepMove, Step
    <3>2. \A p \in Procs : ~beside[p] => (pc[p] = "commit" => SentBy(p))
      BY DEF RepairInv, AloneInv
    <3> QED
      BY <3>1, <3>2, NilStep DEF RepairInv
  <2> QED
    BY <2>1, <2>2 DEF AllNext
<1>4. MoveRepairs <=> [][Repaired]_allVars
  BY DEF MoveRepairs
<1> HIDE DEF Repaired
<1> QED
  BY <1>1, <1>2, <1>3, <1>4, PTL DEF AllSpec

-----------------------------------------------------------------------------
(* One migration after the other                                           *)

\* What a migrator has read it still has while it runs, and no result yet.
ReturnInv ==
    /\ read \in [Migrators -> SUBSET (MP!HostRow \cup MP!PackageRow)]
    /\ returned \in [Migrators -> {"none", "nil", "error", "crashed"}]
    /\ \A m \in Migrators : MP!Running(m) => returned[m] = "none"

(***************************************************************************)
(* A migrator that has the stores for itself reads and writes nothing but  *)
(* what the rows say, and has by now what the rows it has finished need.   *)
(***************************************************************************)
InPlace(r, rels) ==
    HostWorkspace(r.host, r.org) \in rels /\ UngroupedParent(r.org) \in rels

FromRows(rels) ==
    \A h : \A acc \in Accounts : HostWorkspace(h, acc) \in rels =>
        \E r \in MP!HostRows : r.host = h /\ r.org = acc

Copying(m) ==
    /\ FromRows(MP!Known(m))
    /\ rows[m] \subseteq MP!HostRows
    /\ mpc[m] \in {"root", "ungrouped", "host", "system"} =>
         row[m] \in MP!HostRows
    /\ mpc[m] # "patch"
    /\ \A org \in orgUngrouped[m] : UngroupedParent(org) \in MP!Known(m)
    /\ mpc[m] = "host" => UngroupedParent(row[m].org) \in MP!Known(m)
    /\ mpc[m] = "system" => InPlace(row[m], MP!Known(m))
    /\ \A r \in read[m] : InPlace(r, MP!Known(m))

(***************************************************************************)
(* With care the two migrations never run at the same time, and while      *)
(* hosts are migrated the stores agree about every one of them.            *)
(***************************************************************************)
Single ==
    /\ \A h : \A a, b \in WorkspacesOf(h) : a = b
    /\ \A h : WorkspacesOf(h) # {} => h \in HostsSynced

Careful ==
    /\ AgreeInv /\ Single
    /\ ~(Moving /\ Migrating)
    /\ \A m \in Migrators : MP!Running(m) => unsure = {} /\ Copying(m)

OrderInv == Typed /\ MigratorsTyped /\ ReturnInv /\ (~careless => Careful)

\* The rows of the query agree with the only row of their host.
LEMMA RowOfHost ==
    ASSUME RowsKept, Typed
    PROVE  /\ \A r \in MP!HostRows :
                /\ r.host \in PlatformHosts /\ r.host \in HostsSynced
                /\ r.org \in Accounts /\ r \in MP!HostRow
                /\ \A sp \in db["system_platform"] :
                     sp.InventoryID = r.host => r.org = sp.RhAccountID
           /\ \A sp \in db["system_platform"] : sp.InventoryID \in HostsSynced =>
                \E r \in MP!HostRows :
                  r.host = sp.InventoryID /\ r.org = sp.RhAccountID
<1>1. db["system_platform"] \subseteq SystemPlatform
  BY RowOfTable DEF Typed, Shapes, Tables
<1>2. \A x, y \in db["system_platform"] : x.InventoryID = y.InventoryID => x = y
  BY DEF RowsKept
<1>3. ASSUME NEW r \in MP!HostRows
      PROVE  /\ r.host \in PlatformHosts /\ r.host \in HostsSynced
             /\ r.org \in Accounts /\ r \in MP!HostRow
             /\ \A sp \in db["system_platform"] :
                  sp.InventoryID = r.host => r.org = sp.RhAccountID
  <2>1. PICK x \in db["system_platform"] :
          /\ x.InventoryID \in Hosts \cap HostsSynced
          /\ r = [system |-> x.ID, host |-> x.InventoryID, org |-> x.RhAccountID]
    BY DEF MP!HostRows
  <2>2. x \in SystemPlatform
    BY <1>1
  <2> QED
    BY <1>2, <2>1, <2>2 DEF PlatformHosts, SystemPlatform, MP!HostRow
<1>4. ASSUME NEW sp \in db["system_platform"], sp.InventoryID \in HostsSynced
      PROVE  \E r \in MP!HostRows :
               r.host = sp.InventoryID /\ r.org = sp.RhAccountID
  <2>1. [system |-> sp.ID, host |-> sp.InventoryID, org |-> sp.RhAccountID]
          \in MP!HostRows
    BY <1>4, MoveAssumption DEF MP!HostRows
  <2> QED
    BY <2>1
<1> QED
  BY <1>3, <1>4

\* When a migration begins, the stores agree.
LEMMA AgreeFromRows ==
    ASSUME AgreeInv, Single, unsure = {}
    PROVE  FromRows(spicedb)
<1> SUFFICES ASSUME NEW h, NEW acc \in Accounts,
                    HostWorkspace(h, acc) \in spicedb
             PROVE  \E r \in MP!HostRows : r.host = h /\ r.org = acc
  BY DEF FromRows
<1>1. acc \in WorkspacesOf(h)
  BY DEF WorkspacesOf
<1>2. PICK sp \in db["system_platform"] : sp.InventoryID = h
  BY <1>1 DEF AgreeInv, HostsKnown, PlatformHosts
<1>3. acc = sp.RhAccountID /\ h \in HostsSynced
  BY <1>1, <1>2 DEF AgreeInv, StoresAgree, Single
<1> QED
  BY <1>2, <1>3, RowOfHost DEF AgreeInv

\* What is stored from the rows agrees with them.
LEMMA FromRowsAgree ==
    ASSUME AgreeInv, Typed', UNCHANGED mover, FromRows(spicedb'), ~Moving
    PROVE  AgreeInv' /\ Single'
<1>1. ASSUME NEW h, NEW acc \in WorkspacesOf(h)'
      PROVE  /\ h \in PlatformHosts /\ h \in HostsSynced
             /\ \A sp \in db["system_platform"] :
                  sp.InventoryID = h => acc = sp.RhAccountID
  <2>1. PICK r \in MP!HostRows : r.host = h /\ r.org = acc
    BY <1>1 DEF WorkspacesOf, FromRows
  <2> QED
    BY <2>1, RowOfHost DEF AgreeInv
<1>2. db' = db /\ listed' = listed /\ pc' = pc
  BY DEF mover
<1>3. StoresAgree' /\ HostsKnown'
  BY <1>1, <1>2 DEF StoresAgree, HostsKnown, PlatformHosts, AgreeInv
<1>4. RowsKept'
  BY <1>2 DEF AgreeInv, RowsKept
<1>5. Sent'
  BY <1>2 DEF Sent, Moving, Running
<1>6. Single'
  <2>1. ASSUME NEW h, NEW a \in WorkspacesOf(h)', NEW b \in WorkspacesOf(h)'
        PROVE  a = b
    BY <1>1 DEF PlatformHosts
  <2> QED
    BY <1>1, <2>1 DEF Single
<1> QED
  BY <1>3, <1>4, <1>5, <1>6 DEF AgreeInv

\* More in SpiceDB leaves what is in place there.
LEMMA InPlaceStays ==
    ASSUME NEW r, NEW S, NEW T, S \subseteq T, InPlace(r, S)
    PROVE  InPlace(r, T)
BY DEF InPlace

LEMMA HostRowsStay == UNCHANGED mover => MP!HostRows' = MP!HostRows
BY DEF mover, MP!HostRows

\* A migrator keeps copying while another one stores its batch.
LEMMA OthersCopy ==
    ASSUME NEW m \in Migrators, NEW q \in Migrators, q # m,
           MP!OthersAlone(m), UNCHANGED mover, read'[q] = read[q], Copying(q),
           \/ spicedb' = spicedb
           \/ spicedb' = MP!Known(m) /\ FromRows(MP!Known(m))
    PROVE  Copying(q)'
<1>1. /\ MP!Batch(q)' = MP!Batch(q) /\ row'[q] = row[q] /\ mpc'[q] = mpc[q]
      /\ rows'[q] = rows[q] /\ orgUngrouped'[q] = orgUngrouped[q]
  BY DEF MP!OthersAlone, MP!Batch
<1>2. \/ MP!Known(q)' = MP!Known(q)
      \/ /\ FromRows(MP!Known(m))
         /\ MP!Known(q)' = MP!Known(q) \cup MP!Known(m)
  BY <1>1 DEF MP!Known
<1>3. MP!HostRows' = MP!HostRows
  BY HostRowsStay
<1>4. FromRows(MP!Known(q))'
  BY <1>2, <1>3 DEF Copying, FromRows
<1>5. MP!Known(q) \subseteq MP!Known(q)'
  BY <1>2
<1> QED
  BY <1>1, <1>3, <1>4, <1>5 DEF Copying, InPlace

\* A migrator that begins has nothing, and SpiceDB agrees with the rows.
LEMMA BeginsCopying ==
    ASSUME NEW m \in Migrators, UNCHANGED mover, ReturnInv,
           FromRows(spicedb), MP!Begins(m)
    PROVE  Copying(m)'
<1>1. /\ MP!Known(m)' = spicedb /\ mpc'[m] = "next"
      /\ orgUngrouped'[m] = {} /\ read'[m] = {}
      /\ rows'[m] = MP!HostRows
  BY DEF MP!Begins, MP!Known, MP!Batch, ReturnInv
<1>2. MP!HostRows' = MP!HostRows
  BY HostRowsStay
<1> QED
  BY <1>1, <1>2 DEF Copying, FromRows

\* A row of hosts is no row of packages.
LEMMA RowKinds == MP!HostRow \cap MP!PackageRow = {}
<1>1. \A r \in MP!HostRow : "host" \in DOMAIN r
  BY DEF MP!HostRow
<1>2. \A r \in MP!PackageRow : "host" \notin DOMAIN r
  BY DEF MP!PackageRow
<1> QED
  BY <1>1, <1>2

\* A call of addUpdate that adds what the rows say, and finishes a row or an
\* organization only when it is in place.
LEMMA AddCopies ==
    ASSUME NEW m \in Migrators, UNCHANGED mover, Copying(m),
           row' = row, rows' = rows,
           MP!Known(m) \subseteq MP!Known(m)', FromRows(MP!Known(m)'),
           \A o \in orgUngrouped'[m] :
             o \in orgUngrouped[m] \/ UngroupedParent(o) \in MP!Known(m)',
           \A r \in read'[m] : r \in read[m] \/ InPlace(r, MP!Known(m)'),
           mpc'[m] # "patch",
           mpc'[m] \in {"root", "ungrouped", "host", "system"} =>
             row[m] \in MP!HostRows,
           mpc'[m] = "host" => UngroupedParent(row[m].org) \in MP!Known(m)',
           mpc'[m] = "system" => InPlace(row[m], MP!Known(m)')
    PROVE  Copying(m)'
<1>1. MP!HostRows' = MP!HostRows
  BY HostRowsStay
<1>2. FromRows(MP!Known(m))'
  BY <1>1 DEF FromRows
<1>3. \A o \in orgUngrouped'[m] : UngroupedParent(o) \in MP!Known(m)'
  BY DEF Copying
<1>4. \A r \in read'[m] : InPlace(r, MP!Known(m)')
  <2>1. \A r \in read[m] : InPlace(r, MP!Known(m))
    BY DEF Copying
  <2> QED
    BY <2>1, InPlaceStays
<1>5. rows[m] \subseteq MP!HostRows
  BY DEF Copying
<1> QED
  BY <1>1, <1>2, <1>3, <1>4, <1>5 DEF Copying, InPlace

\* Other relationships leave the hosts where the rows say they are.
LEMMA FromRowsAdd ==
    ASSUME NEW S, FromRows(S)
    PROVE  /\ \A o : FromRows(S \cup {RootParent(o)})
           /\ \A o : FromRows(S \cup {UngroupedParent(o)})
           /\ \A r \in MP!HostRows :
                FromRows(S \cup {HostWorkspace(r.host, r.org)})
           /\ \A s, h : FromRows(S \cup {SystemHost(s, h)})
<1>1. \A o : FromRows(S \cup {RootParent(o)})
  BY Distinct DEF FromRows
<1>2. \A o : FromRows(S \cup {UngroupedParent(o)})
  BY Distinct DEF FromRows
<1>3. \A r \in MP!HostRows : FromRows(S \cup {HostWorkspace(r.host, r.org)})
  BY HostWorkspaceInjective DEF FromRows
<1>4. \A s, h : FromRows(S \cup {SystemHost(s, h)})
  BY Distinct DEF FromRows
<1> QED
  BY <1>1, <1>2, <1>3, <1>4

LEMMA OwnCopies ==
    ASSUME NEW m \in Migrators, UNCHANGED mover, ReturnInv, MigratorsTyped,
           MigratorsTyped', Copying(m), AgreeInv,
           MP!Takes(m) \/ MP!Drains(m) \/ MP!AddsOne(m)
    PROVE  Copying(m)'
<1>0. MP!HostRows' = MP!HostRows
  BY HostRowsStay
<1>1. CASE MP!Takes(m)
  <2>1. /\ MP!Known(m)' = MP!Known(m) /\ orgUngrouped' = orgUngrouped
        /\ read' = read /\ rows'[m] \subseteq rows[m] /\ row'[m] \in rows[m]
        /\ \/ mpc'[m] \in {"patch", "root"}
           \/ mpc'[m] = "host" /\ row'[m].org \in orgUngrouped[m]
    BY <1>1 DEF MP!Takes, MP!Known, MP!Batch
  <2>2. row'[m] \in MP!HostRow
    BY <2>1, RowOfHost DEF Copying, AgreeInv
  <2>3. mpc'[m] # "patch"
    BY <2>2, RowKinds DEF MigratorsTyped, MP!RowInv, MP!Running
  <2> QED
    BY <1>0, <2>1, <2>3 DEF Copying, FromRows
<1>2. CASE MP!Drains(m)
  <2>1. /\ MP!Known(m)' = MP!Known(m) /\ orgUngrouped' = orgUngrouped
        /\ read' = read /\ rows' = rows /\ mpc'[m] = "flush"
    BY <1>2 DEF MP!Drains, MP!Known, MP!Batch
  <2> QED
    BY <1>0, <2>1 DEF Copying, FromRows
<1>3. CASE MP!AddsOne(m)
  <2>1. FromRows(MP!Known(m))
    BY DEF Copying
  <2>2. row' = row /\ rows' = rows
    BY <1>3 DEF MP!AddsOne, MP!Adds
  <2>3. CASE MP!Adds(m, "root", MP!RootParent(row[m].org), "ungrouped", {}, {})
    <3>1. /\ mpc'[m] = "ungrouped" /\ row[m] \in MP!HostRows
          /\ MP!Known(m)' = MP!Known(m) \cup {RootParent(row[m].org)}
          /\ orgUngrouped'[m] = orgUngrouped[m]
          /\ read'[m] = read[m]
      BY <2>3, SameObjects DEF MP!Adds, Copying, ReturnInv
    <3>2. FromRows(MP!Known(m)')
      BY <2>1, <3>1, FromRowsAdd
    <3> QED
      BY <2>2, <3>1, <3>2, AddCopies
  <2>4. CASE MP!Adds(m, "ungrouped", MP!UngroupedParent(row[m].org), "host",
                     {}, {row[m].org})
    <3>1. /\ mpc'[m] = "host" /\ row[m] \in MP!HostRows
          /\ MP!Known(m)' = MP!Known(m) \cup {UngroupedParent(row[m].org)}
          /\ orgUngrouped'[m] = orgUngrouped[m] \cup {row[m].org}
          /\ read'[m] = read[m]
      BY <2>4, SameObjects DEF MP!Adds, Copying, ReturnInv
    <3>2. FromRows(MP!Known(m)')
      BY <2>1, <3>1, FromRowsAdd
    <3> QED
      BY <2>2, <3>1, <3>2, AddCopies
  <2>5. CASE MP!Adds(m, "host", MP!HostWorkspace(row[m].host, row[m].org),
                     "system", {}, {})
    <3>1. /\ mpc'[m] = "system" /\ row[m] \in MP!HostRows
          /\ MP!Known(m)' =
               MP!Known(m) \cup {HostWorkspace(row[m].host, row[m].org)}
          /\ orgUngrouped'[m] = orgUngrouped[m]
          /\ read'[m] = read[m]
          /\ UngroupedParent(row[m].org) \in MP!Known(m)
      BY <2>5, SameObjects DEF MP!Adds, Copying, ReturnInv
    <3>2. FromRows(MP!Known(m)')
      BY <2>1, <3>1, FromRowsAdd
    <3>3. InPlace(row[m], MP!Known(m)')
      BY <3>1 DEF InPlace
    <3> QED
      BY <2>2, <3>1, <3>2, <3>3, AddCopies
  <2>6. CASE MP!Adds(m, "system", MP!SystemHost(row[m].system, row[m].host),
                     "next", {row[m]}, {})
    <3>1. /\ mpc'[m] = "next"
          /\ MP!Known(m)' =
               MP!Known(m) \cup {SystemHost(row[m].system, row[m].host)}
          /\ orgUngrouped'[m] = orgUngrouped[m]
          /\ read'[m] = read[m] \cup {row[m]}
          /\ InPlace(row[m], MP!Known(m))
      BY <2>6, SameObjects DEF MP!Adds, Copying, ReturnInv
    <3>2. FromRows(MP!Known(m)')
      BY <2>1, <3>1, FromRowsAdd
    <3>3. InPlace(row[m], MP!Known(m)')
      BY <3>1, InPlaceStays
    <3> QED
      BY <2>2, <3>1, <3>2, <3>3, AddCopies
  <2>7. ~MP!Adds(m, "patch", MP!PatchSystem(row[m].name, row[m].system),
                 "next", {row[m]}, {})
    BY DEF Copying, MP!Adds
  <2> QED
    BY <1>3, <2>3, <2>4, <2>5, <2>6, <2>7 DEF MP!AddsOne
<1> QED
  BY <1>1, <1>2, <1>3

\* The migrators' histories of results and rows.
LEMMA ReturnStep ==
    ASSUME ReturnInv, MigratorsTyped, NEW m \in Migrators, MP!OthersAlone(m),
           \/ MP!Begins(m) \/ MP!Takes(m) \/ MP!Drains(m)
           \/ MP!AddsOne(m) \/ MP!Ends(m)
    PROVE  /\ ReturnInv'
           /\ \A q \in Migrators :
                q # m => read'[q] = read[q] /\ returned'[q] = returned[q]
<1> DEFINE Rows == MP!HostRow \cup MP!PackageRow
<1>1. ASSUME NEW res \in {"none", "nil", "error", "crashed"},
             NEW some \in SUBSET Rows,
             returned' = returned \/ returned' = [returned EXCEPT ![m] = res],
             read' = read \/ read' = [read EXCEPT ![m] = some],
             MP!Running(m)' => returned'[m] = "none"
      PROVE  /\ ReturnInv'
             /\ \A q \in Migrators :
                  q # m => read'[q] = read[q] /\ returned'[q] = returned[q]
  <2>1. \A q \in Migrators :
          q # m => /\ read'[q] = read[q] /\ returned'[q] = returned[q]
                   /\ MP!Running(q)' <=> MP!Running(q)
    BY <1>1 DEF ReturnInv, MP!OthersAlone, MP!Running
  <2>2. /\ read' \in [Migrators -> SUBSET Rows]
        /\ returned' \in [Migrators -> {"none", "nil", "error", "crashed"}]
    BY <1>1 DEF ReturnInv
  <2> QED
    BY <1>1, <2>1, <2>2 DEF ReturnInv
<1>2. CASE MP!Begins(m)
  BY <1>1, <1>2 DEF MP!Begins, ReturnInv
<1>3. CASE MP!Takes(m) \/ MP!Drains(m)
  BY <1>1, <1>3 DEF MP!Takes, MP!Drains, ReturnInv, MP!Running
<1>4. CASE MP!AddsOne(m)
  <2>1. /\ returned' = returned /\ MP!Running(m)
        /\ \/ read' = [read EXCEPT ![m] = @ \cup {}]
           \/ /\ mpc[m] \in {"system", "patch"}
              /\ read' = [read EXCEPT ![m] = @ \cup {row[m]}]
    BY <1>4 DEF MP!AddsOne, MP!Adds, MP!Running
  <2>2. mpc[m] \in {"system", "patch"} => row[m] \in Rows
    BY DEF MigratorsTyped, MP!RowInv, MP!Running
  <2>3. \E some \in SUBSET Rows : read' = [read EXCEPT ![m] = some]
    BY <2>1, <2>2 DEF ReturnInv
  <2> QED
    BY <1>1, <2>1, <2>3 DEF ReturnInv
<1>5. CASE MP!Ends(m)
  <2>1. PICK res \in {"nil", "error", "crashed"} :
          /\ returned' = [returned EXCEPT ![m] = res]
          /\ read' = [read EXCEPT ![m] = IF res = "nil" THEN @ ELSE {}]
    BY <1>5 DEF MP!Ends
  <2>2. \E some \in SUBSET Rows : read' = [read EXCEPT ![m] = some]
    BY <2>1 DEF ReturnInv
  <2>3. ~MP!Running(m)'
    BY <1>5 DEF MP!Ends, MP!Running
  <2> QED
    BY <1>1, <2>1, <2>2, <2>3
<1> QED
  BY <1>2, <1>3, <1>4, <1>5

\* A migrator that is started with care, or runs since it was, copies.
LEMMA CarefulMigrator ==
    ASSUME OrderInv, Typed', MigratorsTyped', NEW m \in Migrators,
           StartMigration(m) \/ StepMigration(m) \/ CrashMigration(m),
           ~careless'
    PROVE  Careful'
<1>1. /\ UNCHANGED mover /\ Typed /\ MigratorsTyped /\ ReturnInv /\ Careful
      /\ Migration!Start(m) \/ Migration!Step(m) \/ Migration!Crash(m)
  BY DEF StartMigration, StepMigration, CrashMigration, OrderInv
<1>2. /\ MP!OthersAlone(m)
      /\ \/ MP!Begins(m) \/ MP!Takes(m) \/ MP!Drains(m)
         \/ MP!AddsOne(m) \/ MP!Ends(m)
      /\ spicedb' \in {spicedb, MP!Known(m)}
      /\ spicedb' # spicedb => MP!Running(m)
  BY <1>1, MigratorStep
<1>3. unsure = {} /\ ~Moving
  <2>1. CASE StartMigration(m)
    BY <2>1 DEF StartMigration
  <2>2. CASE StepMigration(m) \/ CrashMigration(m)
    <3>1. Migration!Running(m)
      BY <2>2 DEF StepMigration, CrashMigration, Migration!Step,
         Migration!Crash, Migration!NextRow, Migration!AddRoot,
         Migration!AddUngrouped, Migration!AddHost, Migration!AddSystem,
         Migration!AddPatch, Migration!EndOfRows, Migration!BadRow,
         Migration!FinalFlush, Migration!Running
    <3> QED
      BY <1>1, <3>1, SameSteps DEF Careful, Migrating
  <2> QED
    BY <2>1, <2>2
<1>4. MP!Running(m) => Copying(m)
  BY <1>1 DEF Careful
<1>5. FromRows(spicedb) /\ FromRows(spicedb')
  <2>1. FromRows(spicedb)
    BY <1>1, <1>3, AgreeFromRows DEF Careful
  <2> QED
    BY <1>2, <1>4, <2>1 DEF Copying
<1>6. AgreeInv' /\ Single'
  BY <1>1, <1>3, <1>5, FromRowsAgree DEF Careful
<1>7. unsure' = {} /\ ~Moving'
  BY <1>1, <1>3 DEF mover, Moving, Running
<1>8. ASSUME NEW q \in Migrators, MP!Running(q)' PROVE Copying(q)'
  <2>1. CASE q = m
    <3>1. CASE MP!Begins(m)
      BY <1>1, <1>5, <2>1, <3>1, BeginsCopying
    <3>2. CASE MP!Takes(m) \/ MP!Drains(m) \/ MP!AddsOne(m)
      <4>1. Copying(m)
        BY <1>4, <3>2
        DEF MP!Takes, MP!Drains, MP!AddsOne, MP!Adds, MP!Running
      <4> QED
        BY <1>1, <2>1, <3>2, <4>1, OwnCopies DEF Careful
    <3>3. ~MP!Ends(m)
      BY <1>8, <2>1 DEF MP!Ends, MP!Running
    <3> QED
      BY <1>2, <3>1, <3>2, <3>3
  <2>2. CASE q # m
    <3>1. MP!Running(q) /\ Copying(q)
      BY <1>1, <1>2, <1>8, <2>2 DEF MP!OthersAlone, MP!Running, Careful
    <3>2. read'[q] = read[q]
      BY <1>1, <1>2, <2>2, ReturnStep
    <3>3. \/ spicedb' = spicedb
          \/ spicedb' = MP!Known(m) /\ FromRows(MP!Known(m))
      BY <1>2, <1>5
    <3> QED
      BY <1>1, <1>2, <2>2, <3>1, <3>2, <3>3, OthersCopy
  <2> QED
    BY <2>1, <2>2
<1> QED
  BY <1>6, <1>7, <1>8 DEF Careful

\* A mover that is started with care, or runs since it was, meets no migrator.
LEMMA CarefulMover ==
    ASSUME Directed, TwoAccounts, OrderInv, NEW p \in Procs,
           StartMove(p) \/ StepMove(p), ~careless'
    PROVE  Careful'
<1>1. /\ UNCHANGED migrator /\ Step(p) /\ Typed /\ Careful
  BY DEF StartMove, StepMove, Step, OrderInv
<1>2. AgreeInv'
  BY <1>1, AgreeStep DEF Careful
<1>3. ~Migrating'
  <2>1. CASE StartMove(p)
    BY <2>1 DEF StartMove, Migrating, Migration!Running, migrator
  <2>2. CASE StepMove(p)
    <3>1. Moving
      BY <1>1, <2>2, MoverPc DEF Moving
    <3> QED
      BY <1>1, <3>1 DEF Careful, Migrating, Migration!Running, migrator
  <2> QED
    BY <2>1, <2>2
<1>4. \A q \in Migrators : ~MP!Running(q)'
  BY <1>3 DEF Migrating, Migration!Running, MP!Running
<1>5. Single'
  <2>1. CASE UNCHANGED spicedb
    BY <1>1, <2>1 DEF Careful, Single, WorkspacesOf
  <2>2. CASE Send(p)
    <3>1. listed[p] \subseteq HostsSynced
      BY <1>1 DEF Typed, Shapes
    <3>2. \A h : \/ WorkspacesOf(h)' = WorkspacesOf(h)
                 \/ h \in listed[p] /\ WorkspacesOf(h)' = {to(p)}
      BY <1>1, <2>2, SendMoves
    <3> QED
      BY <1>1, <3>1, <3>2 DEF Careful, Single
  <2> QED
    BY <1>1, <2>1, <2>2, OnlyWriteSends
<1> QED
  BY <1>2, <1>3, <1>4, <1>5 DEF Careful

LEMMA OrderNext ==
    ASSUME Directed, TwoAccounts
    PROVE  OrderInv /\ [AllNext]_allVars => OrderInv'
<1> SUFFICES ASSUME OrderInv, [AllNext]_allVars PROVE OrderInv'
  OBVIOUS
<1>1. Typed' /\ MigratorsTyped' /\ Typed /\ MigratorsTyped /\ ReturnInv
  BY StepKinds DEF OrderInv
<1>2. ASSUME NEW m \in Migrators,
             StartMigration(m) \/ StepMigration(m) \/ CrashMigration(m)
      PROVE  OrderInv'
  <2>1. UNCHANGED mover /\ (\/ Migration!Start(m) \/ Migration!Step(m)
                            \/ Migration!Crash(m))
    BY <1>2 DEF StartMigration, StepMigration, CrashMigration
  <2>2. ReturnInv'
    BY <1>1, <2>1, MigratorStep, ReturnStep
  <2> QED
    BY <1>1, <1>2, <2>2, CarefulMigrator DEF OrderInv
<1>3. ASSUME UNCHANGED migrator PROVE ReturnInv'
  BY <1>1, <1>3 DEF ReturnInv, MP!Running, migrator
<1>4. ASSUME NEW p \in Procs, StartMove(p) \/ StepMove(p)
      PROVE  OrderInv'
  <2>1. UNCHANGED migrator
    BY <1>4 DEF StartMove, StepMove
  <2> QED
    BY <1>1, <1>3, <1>4, <2>1, CarefulMover DEF OrderInv
<1>5. CASE UNCHANGED allVars
  <2>1. UNCHANGED migrator
    BY <1>5 DEF allVars
  <2>2. Careful => Careful'
    <3>1. ASSUME Careful PROVE AgreeInv'
      <4>1. /\ UNCHANGED <<db, spicedb, unsure>>
            /\ \A p \in Procs :
                 /\ listed'[p] = listed[p] /\ listed[p] \subseteq PlatformHosts
                 /\ pc'[p] = pc[p] /\ move'[p] = move[p]
        BY <1>5, <3>1 DEF allVars, mover, Careful, AgreeInv, HostsKnown
      <4> QED
        BY <1>1, <3>1, <4>1, AgreeQuiet DEF Careful, AgreeInv
    <3>2. Single => Single'
      BY <1>5 DEF Single, WorkspacesOf, allVars, mover
    <3>3. \A m \in Migrators : Copying(m) => Copying(m)'
      <4>1. MP!HostRows' = MP!HostRows
        BY <1>5, HostRowsStay DEF allVars
      <4>2. \A m \in Migrators : MP!Known(m)' = MP!Known(m)
        BY <1>5 DEF allVars, migrator, MP!Known, MP!Batch
      <4> QED
        BY <1>5, <4>1, <4>2 DEF Copying, FromRows, allVars, migrator
    <3>4. /\ Moving' = Moving /\ Migrating' = Migrating
          /\ \A m \in Migrators : MP!Running(m)' = MP!Running(m)
      BY <1>5 DEF Moving, Running, Migrating, Migration!Running, MP!Running,
         allVars, mover, migrator
    <3>5. unsure' = unsure
      BY <1>5 DEF allVars, mover
    <3> QED
      BY <3>1, <3>2, <3>3, <3>4, <3>5 DEF Careful
  <2>3. careless' = careless
    BY <1>5 DEF allVars
  <2> QED
    BY <1>1, <1>3, <2>1, <2>2, <2>3 DEF OrderInv
<1> QED
  BY <1>2, <1>4, <1>5 DEF AllNext

LEMMA OrderInit == ASSUME HostsUnshared PROVE AllInit => OrderInv
<1> SUFFICES ASSUME AllInit PROVE OrderInv
  OBVIOUS
<1>1. /\ spicedb = {} /\ unsure = {} /\ \A m \in Migrators : ~MP!Running(m)
      /\ read = [m \in Migrators |-> {}]
      /\ returned = [m \in Migrators |-> "none"]
  BY DEF AllInit, Migration!Init, MP!Running
<1>2. Typed /\ MigratorsTyped
  BY AllTypedInit
<1>3. \A h : WorkspacesOf(h) = {}
  BY <1>1 DEF WorkspacesOf
<1>4. StoresAgree /\ HostsKnown /\ Single
  BY <1>3 DEF StoresAgree, HostsKnown, Single, AllInit
<1>5. RowsKept /\ Sent
  BY DEF AllInit, RowsKept, HostsUnshared, Sent
<1>6. ~Moving
  BY DEF AllInit, Moving, Running
<1>7. ReturnInv
  BY <1>1 DEF ReturnInv
<1> QED
  BY <1>1, <1>2, <1>4, <1>5, <1>6, <1>7 DEF OrderInv, Careful, AgreeInv

(***************************************************************************)
(* Between two accounts, with one mover or movers in one direction, any    *)
(* number of migrators and no shared hosts: as long as the two migrations  *)
(* are kept apart, a host is in one workspace at most, and in no other     *)
(* than that of its account unless it has been left half moved.            *)
(***************************************************************************)
THEOREM SequencedRunsCorrect ==
    Directed /\ TwoAccounts /\ HostsUnshared => (AllSpec => []SequencedRunsAgree)
<1> SUFFICES ASSUME Directed, TwoAccounts, HostsUnshared
             PROVE  AllSpec => []SequencedRunsAgree
  OBVIOUS
<1>1. AllInit => OrderInv
  BY OrderInit
<1>2. OrderInv /\ [AllNext]_allVars => OrderInv'
  BY OrderNext
<1>3. OrderInv => SequencedRunsAgree
  <2> SUFFICES ASSUME OrderInv, ~careless, NEW sp \in db["system_platform"]
               PROVE  /\ Cardinality(WorkspacesOf(sp.InventoryID)) <= 1
                      /\ sp.InventoryID \notin unsure =>
                           WorkspacesOf(sp.InventoryID) \subseteq {sp.RhAccountID}
    BY DEF SequencedRunsAgree
  <2>1. StoresAgree /\ Single
    BY DEF OrderInv, Careful, AgreeInv
  <2> DEFINE W == WorkspacesOf(sp.InventoryID)
  <2>2. W = {} \/ \E a : W = {a}
    BY <2>1 DEF Single
  <2> HIDE DEF W
  <2>3. Cardinality(W) <= 1
    <3>1. CASE W = {}
      BY <3>1, FS_EmptySet
    <3>2. ASSUME NEW a, W = {a} PROVE Cardinality(W) <= 1
      <4>1. Cardinality({a}) = 1
        BY FS_Singleton
      <4> QED
        BY <3>2, <4>1
    <3> QED
      BY <2>2, <3>1, <3>2
  <2> QED
    BY <2>1, <2>3 DEF StoresAgree, W
<1> QED
  BY <1>1, <1>2, <1>3, PTL DEF AllSpec

\* The hierarchy of SpiceMigration, in terms of what is known of the stores.
LEMMA HierarchyOfRows ==
    ASSUME NEW S, Placed(S), FromRows(S), \A r \in MP!HostRows : InPlace(r, S)
    PROVE  Migration!Closed(S)
<1>1. \A h, org : HostWorkspace(h, org) \in S /\ org \in Accounts =>
        UngroupedParent(org) \in S
  BY DEF FromRows, InPlace
<1>2. /\ \A o : Migration!RootParent(o) = RootParent(o)
      /\ \A o : Migration!UngroupedParent(o) = UngroupedParent(o)
      /\ \A h, o : Migration!HostWorkspace(h, o) = HostWorkspace(h, o)
      /\ \A s, h : Migration!SystemHost(s, h) = SystemHost(s, h)
  BY DEF RootParent, UngroupedParent, HostWorkspace, SystemHost, Rel,
         Organization, Root, Ungrouped, Host, System,
         Migration!RootParent, Migration!UngroupedParent,
         Migration!HostWorkspace, Migration!SystemHost, Migration!Rel,
         Migration!Organization, Migration!Root, Migration!Ungrouped,
         Migration!Host, Migration!System
<1> QED
  BY <1>1, <1>2 DEF Placed, Migration!Closed

\* Hosts that are where the rows say, and in no other workspace.
LEMMA PlacedByRows ==
    ASSUME RowsKept, Typed, UNCHANGED mover, FromRows(spicedb'),
           \A r \in MP!HostRows : InPlace(r, spicedb')
    PROVE  AllPlaced'
<1>1. ASSUME NEW r \in MP!HostRows PROVE WorkspacesOf(r.host)' = {r.org}
  <2>1. r.org \in WorkspacesOf(r.host)'
    BY RowOfHost DEF InPlace, WorkspacesOf
  <2>2. ASSUME NEW acc \in WorkspacesOf(r.host)' PROVE acc = r.org
    <3>1. PICK x \in MP!HostRows : x.host = r.host /\ x.org = acc
      BY <2>2 DEF WorkspacesOf, FromRows
    <3> QED
      BY <3>1, RowOfHost DEF PlatformHosts
  <2> QED
    BY <2>1, <2>2
<1>2. MP!HostRows' = MP!HostRows /\ Migration!HostRows' = MP!HostRows'
  BY HostRowsStay DEF MP!HostRows, Migration!HostRows
<1> QED
  BY <1>1, <1>2 DEF AllPlaced

(***************************************************************************)
(* Under the same conditions a migration of hosts that returns nil after   *)
(* it has read all rows has put every replicated host into the workspace   *)
(* of its account, and under it the workspaces it inherits from.           *)
(***************************************************************************)
THEOREM HealsCorrect ==
    Directed /\ TwoAccounts /\ HostsUnshared => (AllSpec => MigrationHeals)
<1> SUFFICES ASSUME Directed, TwoAccounts, HostsUnshared
             PROVE  AllSpec => MigrationHeals
  OBVIOUS
<1> DEFINE Inv == PlaceInv /\ OrderInv
           Heals ==
      \A m \in Migrators :
         ReturnsNil(m) /\ ~careless /\ read[m] = Migration!HostRows /\ NoThird
            => AllPlaced' /\ Migration!HierarchyClosed'
<1>1. AllInit => Inv
  <2>1. AllInit => spicedb = {} /\ \A m \in Migrators : ~MP!Running(m)
    BY DEF AllInit, Migration!Init, MP!Running
  <2> QED
    BY <2>1, AllTypedInit, OrderInit DEF PlaceInv, Placed
<1>2. Inv /\ [AllNext]_allVars => Inv'
  BY PlaceNext, OrderNext
<1>3. Inv /\ [AllNext]_allVars => [Heals]_allVars
  <2> SUFFICES ASSUME Inv, Inv', AllNext, NEW m \in Migrators, ReturnsNil(m),
                      ~careless, read[m] = Migration!HostRows, NoThird
               PROVE  AllPlaced' /\ Migration!HierarchyClosed'
    BY <1>2
  <2>1. /\ MP!Running(m) /\ returned'[m] = "nil" /\ returned[m] = "none"
        /\ ReturnInv /\ Typed /\ MigratorsTyped /\ Careful
    BY SameSteps DEF ReturnsNil, OrderInv, ReturnInv
  <2>2. PICK n \in Migrators :
          StartMigration(n) \/ StepMigration(n) \/ CrashMigration(n)
    <3>1. ASSUME NEW p \in Procs, StartMove(p) \/ StepMove(p)
          PROVE  returned' = returned
      BY <3>1 DEF StartMove, StepMove, migrator
    <3> QED
      BY <2>1, <3>1 DEF AllNext
  <2>3. /\ UNCHANGED mover
        /\ Migration!Start(n) \/ Migration!Step(n) \/ Migration!Crash(n)
    BY <2>2 DEF StartMigration, StepMigration, CrashMigration
  <2>4. /\ MP!OthersAlone(n)
        /\ \/ MP!Begins(n) \/ MP!Takes(n) \/ MP!Drains(n)
           \/ MP!AddsOne(n) \/ MP!Ends(n)
    BY <2>1, <2>3, MigratorStep
  <2>5. n = m
    BY <2>1, <2>4, ReturnStep
  <2>6. spicedb' = MP!Known(m)
    <3>1. MP!Ends(m)
      BY <2>1, <2>4, <2>5 DEF MP!Begins, MP!Takes, MP!Drains, MP!AddsOne,
         MP!Adds, ReturnInv
    <3> QED
      BY <2>1, <3>1 DEF MP!Ends, ReturnInv
  <2>7. /\ FromRows(MP!Known(m))
        /\ \A r \in MP!HostRows : InPlace(r, MP!Known(m))
    BY <2>1, SameObjects DEF Careful, Copying
  <2>8. AllPlaced'
    BY <2>1, <2>3, <2>6, <2>7, PlacedByRows DEF Careful, AgreeInv
  <2>9. Placed(spicedb')
    BY DEF PlaceInv
  <2>10. Migration!Closed(spicedb')
    BY <2>6, <2>7, <2>9, HierarchyOfRows
  <2>11. Migration!HierarchyClosed'
    BY <2>10 DEF Migration!HierarchyClosed
  <2> QED
    BY <2>8, <2>11
<1>4. MigrationHeals <=> [][Heals]_allVars
  BY DEF MigrationHeals
<1> HIDE DEF Inv, Heals
<1> QED
  BY <1>1, <1>2, <1>3, <1>4, PTL DEF AllSpec

=============================================================================
