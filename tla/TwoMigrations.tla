--------------------------- MODULE TwoMigrations ---------------------------
(***************************************************************************)
(* The migration of hosts and the migration between accounts beside and    *)
(* after each other.  They are processes of their own that share nothing   *)
(* but the two stores: the one copies system_platform into SpiceDB, the    *)
(* other changes both.  Nothing in the program keeps them apart; careless  *)
(* records whether whoever starts them has.                                *)
(***************************************************************************)
EXTENDS MoveSystems

CONSTANTS
    Migrators,      \* processes that may run the migration of hosts
    maxBatchSize,
    MaxStarts       \* bound on how often either migration is started

ASSUME BatchAssumption == maxBatchSize \in Nat \ {0}

VARIABLES
    mpc, action, rows, row, orgUngrouped, updates, read, returned,
                    \* the migrators' pc, ..., result
    careless,       \* history: a migration was started beside the other one
                    \* or after a half move
    beside,         \* history: a migration of hosts ran during the move
    starts          \* number of migrations started

migrator == <<mpc, action, rows, row, orgUngrouped, updates, read, returned>>
mover == <<db, pc, move, listed, tx, result, unsure, been>>
allVars == <<mover, migrator, spicedb, careless, beside, starts>>

Migration == INSTANCE SpiceMigration WITH
    Procs <- Migrators, Actions <- {"hosts"},
    SeedPlatform <- SeedDB["system_platform"], SeedPackages <- {},
    SeedHosts <- HostsSynced,
    system_platform <- db["system_platform"], system_package <- {},
    hosts <- Hosts \cap HostsSynced,
    pc <- mpc, result <- returned

Moving == \E p \in Procs : Running(p)

StartOne == starts < MaxStarts /\ starts' = starts + 1

Migrating == \E m \in Migrators : Migration!Running(m)

-----------------------------------------------------------------------------
StartMigration(m) ==
    /\ StartOne
    /\ UNCHANGED mover
    /\ Migration!Start(m)
    /\ careless' = (careless \/ Moving \/ unsure # {})
    /\ beside' = [p \in Procs |-> TRUE]

StepMigration(m) ==
    /\ UNCHANGED <<mover, careless, beside, starts>>
    /\ Migration!Step(m)

CrashMigration(m) ==
    /\ UNCHANGED <<mover, careless, beside, starts>>
    /\ Migration!Crash(m)

StartMove(p) ==
    /\ StartOne
    /\ Query(p)
    /\ careless' = (careless \/ Migrating)
    /\ beside' = [beside EXCEPT ![p] = Migrating]
    /\ UNCHANGED migrator

StepMove(p) ==
    /\ \/ BeginTx(p)
       \/ UpdateSystemRepo(p)
       \/ UpdateSystemAdvisories(p)
       \/ UpdateSystemPlatform(p)
       \/ UpdateBaseline(p)
       \/ WriteRels(p)
       \/ Commit(p)
       \/ Crash(p)
    /\ UNCHANGED <<migrator, careless, beside, starts>>

\* SpiceDB is empty before the first migration.
AllInit ==
    /\ db = SeedDB
    /\ pc = [p \in Procs |-> "idle"]
    /\ move \in [Procs -> Moves]
    /\ listed = [p \in Procs |-> {}]
    /\ tx = [p \in Procs |-> NoRows]
    /\ result = [p \in Procs |-> "none"]
    /\ unsure = {}
    /\ been = SeedAccounts
    /\ Migration!Init
    /\ careless = FALSE
    /\ starts = 0
    /\ beside = [p \in Procs |-> TRUE]

AllNext ==
    \/ \E m \in Migrators :
         StartMigration(m) \/ StepMigration(m) \/ CrashMigration(m)
    \/ \E p \in Procs : StartMove(p) \/ StepMove(p)

AllSpec == AllInit /\ [][AllNext]_allVars

-----------------------------------------------------------------------------
(* Properties                                                              *)

(***************************************************************************)
(* As long as a migration of hosts is never started beside a move or after *)
(* a half move, and no move beside it, a host moved between two accounts   *)
(* is in no workspace but that of its own, and never in two, however often *)
(* both migrations fail, die and are run again.  (Beside a move the        *)
(* migration stores a row it has read before; after a half move it puts    *)
(* the host back into the workspace of the rows and leaves it in the other *)
(* one.)                                                                   *)
(***************************************************************************)
SequencedRunsAgree ==
    ~careless =>
        \A sp \in { x \in db["system_platform"] : BetweenTwo(x.InventoryID) } :
            /\ Cardinality(WorkspacesOf(sp.InventoryID)) <= 1
            /\ sp.InventoryID \notin unsure =>
                 WorkspacesOf(sp.InventoryID) \subseteq {sp.RhAccountID}

(***************************************************************************)
(* Carelessly or not: a system SpiceDB knows has a host that is in some    *)
(* workspace, and an ungrouped workspace in use has its root.  A batch of  *)
(* the one migration ends where it likes, and a request of the other takes *)
(* the host out of a workspace that may be the only one it is in.          *)
(***************************************************************************)
SystemsPlaced ==
    /\ \A s \in Systems, h \in Hosts :
         SystemHost(s, h) \in spicedb => WorkspacesOf(h) # {}
    /\ \A org \in Accounts :
         UngroupedParent(org) \in spicedb => RootParent(org) \in spicedb

(***************************************************************************)
(* A migration of hosts that returns nil after it has read all rows leaves *)
(* every replicated host in the workspace of its account alone, and no     *)
(* workspace without the ones above it, if no host has been in a third     *)
(* account: also those of an account that had no systems before a move     *)
(* gave it some, whose hosts nobody could see until then.                  *)
(***************************************************************************)
AllPlaced ==
    \A r \in Migration!HostRows : WorkspacesOf(r.host) = {r.org}

NoThird == \A r \in Migration!HostRows : BetweenTwo(r.host)

ReturnsNil(m) == Migration!Running(m) /\ returned'[m] = "nil"

MigrationHeals ==
    [][\A m \in Migrators :
         ReturnsNil(m) /\ ~careless /\ read[m] = Migration!HostRows /\ NoThird
            => AllPlaced' /\ Migration!HierarchyClosed']_allVars

(***************************************************************************)
(* A move that returns nil and had no migration of hosts beside it has     *)
(* every host it has listed in the new account's workspace only, also      *)
(* hosts that careless runs had left in both of the two accounts they have *)
(* been in.                                                                *)
(***************************************************************************)
MoveRepairs ==
    [][\A p \in Procs :
         result[p] # "nil" /\ result'[p] = "nil" /\ ~beside[p]
            => MovedInBoth(p)']_allVars

=============================================================================
