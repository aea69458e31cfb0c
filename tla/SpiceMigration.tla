--------------------------- MODULE SpiceMigration ---------------------------
(***************************************************************************)
(* The migrations that copy the content database into SpiceDB              *)
(* (RUN_ACTION=MIGRATE_CONTENT_TO_SPICEDB and MIGRATE_PACKAGES_TO_SPICEDB).*)
(* A process reads one query's rows, turns every row into relationships,   *)
(* collects them in batches and writes a batch when it is full.  Writes    *)
(* can fail, or succeed without an answer; the row stream can break off;   *)
(* the process can die at any point and be run again, also next to another *)
(* one.                                                                    *)
(***************************************************************************)
EXTENDS SpiceDB

CONSTANTS
    Procs,              \* processes that may run a migration
    Actions,            \* the migrations that are run: "hosts", "packages"
    maxBatchSize,       \* maxRelationshpBatchSize, 100 in the code
    SeedPlatform, SeedPackages, SeedHosts   \* the tables that are migrated

ASSUME BatchAssumption ==
    /\ maxBatchSize \in Nat \ {0}
    /\ Actions \subseteq {"hosts", "packages"}

ASSUME TableAssumption ==
    /\ SeedPlatform \subseteq SystemPlatform
    /\ SeedPackages \subseteq SystemPackage
    /\ SeedHosts \subseteq Hosts

VARIABLES
    system_platform, system_package, hosts,     \* PostgreSQL, only read here
    spicedb,                                    \* stored relationships
    pc,             \* next step of a process
    action,         \* the migration a process runs
    rows,           \* rows of the query not read yet
    row,            \* the row being processed
    orgUngrouped,   \* organizations whose workspaces were already added
    updates,        \* the batch, in the order of the calls of addUpdate
    read,           \* history: rows whose relationships were all added
    result          \* what the migration returned

tables == <<system_platform, system_package, hosts>>
vars == <<tables, spicedb, pc, action, rows, row, orgUngrouped, updates, read,
          result>>

NoRow == [none |-> TRUE]

-----------------------------------------------------------------------------
(* Queries                                                                 *)

\* system_platform JOIN inventory.hosts: system id, host id and account.
HostRows ==
    { [system |-> sp.ID, host |-> sp.InventoryID, org |-> sp.RhAccountID] :
        sp \in { p \in system_platform : p.InventoryID \in hosts } }

(***************************************************************************)
(* system_package: name_id and system_id of every row.  The whole key is   *)
(* kept, for rows that agree in both columns are still two rows.           *)
(***************************************************************************)
PackageRows ==
    { [name |-> NameOf[spkg.PackageID], system |-> spkg.SystemID,
       key |-> PackageKey(spkg)] : spkg \in system_package }

-----------------------------------------------------------------------------
(* addUpdate and flushUpdates                                              *)

Goto(p, l) == pc' = [pc EXCEPT ![p] = l]

Running(p) == pc[p] # "idle"

\* The relationships collected in the batch of a process.
Batch(p) == { updates[p][i].rel : i \in 1..Len(updates[p]) }

(***************************************************************************)
(* The migration is over: main returns, or panics with its error, and the  *)
(* process is gone with what it had in memory.  (What it has read is only  *)
(* of interest after nil.)                                                 *)
(***************************************************************************)
Return(p, res) ==
    /\ Goto(p, "idle")
    /\ result' = [result EXCEPT ![p] = res]
    /\ action' = [action EXCEPT ![p] = "none"]
    /\ rows' = [rows EXCEPT ![p] = {}]
    /\ row' = [row EXCEPT ![p] = NoRow]
    /\ orgUngrouped' = [orgUngrouped EXCEPT ![p] = {}]
    /\ updates' = [updates EXCEPT ![p] = <<>>]
    /\ read' = [read EXCEPT ![p] = IF res = "nil" THEN @ ELSE {}]

(***************************************************************************)
(* The calls of WriteRelationships: the batch is stored and acknowledged,  *)
(* refused or lost, or stored although the caller gets an error.           *)
(***************************************************************************)
Stored(p) ==
    /\ Acceptable(updates[p])
    /\ spicedb' = WriteRelationships(spicedb, updates[p])

NotStored == UNCHANGED spicedb

(***************************************************************************)
(* addUpdate appends to the batch; a full batch is flushed before, and an  *)
(* error of that flush ends the migration.  Rows are finished, or the      *)
(* workspaces of organizations added, by its last call for them.           *)
(***************************************************************************)
Fits(p) == Len(updates[p]) < maxBatchSize

Appended(p, rel) ==
    NotStored /\ updates' = [updates EXCEPT ![p] = Append(@, Touch(rel))]

NewBatch(p, rel) == updates' = [updates EXCEPT ![p] = <<Touch(rel)>>]

Added(p, next, finished, orgs) ==
    /\ Goto(p, next)
    /\ read' = [read EXCEPT ![p] = @ \cup finished]
    /\ orgUngrouped' = [orgUngrouped EXCEPT ![p] = @ \cup orgs]
    /\ UNCHANGED <<action, rows, row, result>>

FlushTooLate(p, rel, next, finished, orgs) ==
    /\ \/ Len(updates[p]) <= maxBatchSize /\ Appended(p, rel)
       \/ /\ Len(updates[p]) > maxBatchSize
          /\ Stored(p) /\ NewBatch(p, rel)
    /\ Added(p, next, finished, orgs)

IgnoreFlushError(p, rel, next, finished, orgs) ==
    /\ \/ Fits(p) /\ Appended(p, rel)
       \/ ~Fits(p) /\ (Stored(p) \/ NotStored) /\ NewBatch(p, rel)
    /\ Added(p, next, finished, orgs)

addUpdate(p, rel, next, finished, orgs) ==
    \/ /\ Fits(p)
       /\ Appended(p, rel)
       /\ Added(p, next, finished, orgs)
    \/ /\ ~Fits(p)
       /\ Stored(p)
       /\ NewBatch(p, rel)
       /\ Added(p, next, finished, orgs)
    \/ /\ ~Fits(p)
       /\ Stored(p) \/ NotStored
       /\ Return(p, "error")

-----------------------------------------------------------------------------
(* The steps of a migration                                                *)

\* A process starts, with a new migrator, and runs its query.
Start(p) ==
    /\ ~Running(p)
    /\ \/ /\ \E a \in Actions :
               /\ action' = [action EXCEPT ![p] = a]
               /\ rows' = [rows EXCEPT ![p] =
                             IF a = "hosts" THEN HostRows ELSE PackageRows]
          /\ Goto(p, "next")
          /\ result' = [result EXCEPT ![p] = "none"]
          /\ read' = [read EXCEPT ![p] = {}]
          /\ UNCHANGED <<row, orgUngrouped, updates>>
       \/ Return(p, "error")
    /\ UNCHANGED <<tables, spicedb>>

(***************************************************************************)
(* rows.Next() with rows.Values(): the next row.  A query without ORDER BY *)
(* returns its rows in any order.                                          *)
(***************************************************************************)
NextRowForgetful(p) ==
    /\ pc[p] = "next"
    /\ \E r \in rows[p] :
         /\ row' = [row EXCEPT ![p] = r]
         /\ rows' = [rows EXCEPT ![p] = @ \ {r}]
         /\ Goto(p, IF action[p] = "packages" THEN "patch" ELSE "root")
    /\ UNCHANGED <<tables, spicedb, action, orgUngrouped, updates, read, result>>

NextRow(p) ==
    /\ pc[p] = "next"
    /\ \E r \in rows[p] :
         /\ row' = [row EXCEPT ![p] = r]
         /\ rows' = [rows EXCEPT ![p] = @ \ {r}]
         /\ \/ action[p] = "packages" /\ Goto(p, "patch")
            \/ /\ action[p] = "hosts" /\ r.org \in orgUngrouped[p]
               /\ Goto(p, "host")
            \/ /\ action[p] = "hosts" /\ r.org \notin orgUngrouped[p]
               /\ Goto(p, "root")
    /\ UNCHANGED <<tables, spicedb, action, orgUngrouped, updates, read, result>>

\* An organization seen for the first time: its root workspace ...
AddRoot(p) ==
    /\ pc[p] = "root"
    /\ addUpdate(p, RootParent(row[p].org), "ungrouped", {}, {})
    /\ UNCHANGED tables

\* ... and the workspace below it that takes the ungrouped hosts.
AddUngrouped(p) ==
    /\ pc[p] = "ungrouped"
    /\ addUpdate(p, UngroupedParent(row[p].org), "host", {}, {row[p].org})
    /\ UNCHANGED tables

AddHost(p) ==
    /\ pc[p] = "host"
    /\ addUpdate(p, HostWorkspace(row[p].host, row[p].org), "system", {}, {})
    /\ UNCHANGED tables

AddSystem(p) ==
    /\ pc[p] = "system"
    /\ addUpdate(p, SystemHost(row[p].system, row[p].host), "next", {row[p]}, {})
    /\ UNCHANGED tables

AddPatch(p) ==
    /\ pc[p] = "patch"
    /\ addUpdate(p, PatchSystem(row[p].name, row[p].system), "next", {row[p]},
                 {})
    /\ UNCHANGED tables

(***************************************************************************)
(* rows.Next() returns false: there are no rows left, or the connection    *)
(* broke off, which the code does not tell apart.                          *)
(***************************************************************************)
EndOfRows(p) ==
    /\ pc[p] = "next"
    /\ Goto(p, "flush")
    /\ UNCHANGED <<tables, spicedb, action, rows, row, orgUngrouped, updates,
                   read, result>>

\* rows.Values() or a uuid cannot be decoded: the batch is dropped.
BadRow(p) ==
    /\ pc[p] = "next"
    /\ rows[p] # {}
    /\ Return(p, "error")
    /\ UNCHANGED <<tables, spicedb>>

\* The last, partial batch is flushed and its error, if any, returned.
FlushDropped(p) ==
    /\ pc[p] = "flush"
    /\ Return(p, "nil")
    /\ NotStored
    /\ UNCHANGED tables

FlushUntilStored(p) ==
    /\ pc[p] = "flush"
    /\ Stored(p)
    /\ Return(p, "nil")
    /\ UNCHANGED tables

FinalFlush(p) ==
    /\ pc[p] = "flush"
    /\ \/ Stored(p) /\ Return(p, "nil")
       \/ (Stored(p) \/ NotStored) /\ Return(p, "error")
    /\ UNCHANGED tables

\* The process dies with its batch.
Crash(p) ==
    /\ Running(p)
    /\ Return(p, "crashed")
    /\ UNCHANGED <<tables, spicedb>>

-----------------------------------------------------------------------------
Init ==
    /\ system_platform = SeedPlatform
    /\ system_package = SeedPackages
    /\ hosts = SeedHosts
    /\ spicedb = {}
    /\ pc = [p \in Procs |-> "idle"]
    /\ action = [p \in Procs |-> "none"]
    /\ rows = [p \in Procs |-> {}]
    /\ row = [p \in Procs |-> NoRow]
    /\ orgUngrouped = [p \in Procs |-> {}]
    /\ updates = [p \in Procs |-> <<>>]
    /\ read = [p \in Procs |-> {}]
    /\ result = [p \in Procs |-> "none"]

Step(p) ==
    \/ NextRow(p)
    \/ AddRoot(p)
    \/ AddUngrouped(p)
    \/ AddHost(p)
    \/ AddSystem(p)
    \/ AddPatch(p)
    \/ EndOfRows(p)
    \/ BadRow(p)
    \/ FinalFlush(p)

Next == \E p \in Procs : Start(p) \/ Step(p) \/ Crash(p)

Spec == Init /\ [][Next]_vars

(***************************************************************************)
(* A running migration keeps executing: every call it makes returns.  It   *)
(* is never obliged to be started or to die.                               *)
(***************************************************************************)
Fairness == \A p \in Procs : WF_vars(Step(p))

FairSpec == Spec /\ Fairness

-----------------------------------------------------------------------------
(* Properties                                                              *)

HostRow == [system : Systems, host : Hosts, org : Accounts]

PackageRow ==
    [name : Names, system : Systems, key : Accounts \X Systems \X Packages]

\* The migrations only ever add relationships.
Update == [op : {"TOUCH"}, rel : Relationships]

(***************************************************************************)
(* Types; in particular a batch never exceeds maxRelationshpBatchSize, and *)
(* nothing but the relationships of the five kinds is ever stored.         *)
(***************************************************************************)
TypeOK ==
    /\ system_platform \subseteq SystemPlatform
    /\ system_package \subseteq SystemPackage
    /\ hosts \subseteq Hosts
    /\ spicedb \subseteq Relationships
    /\ pc \in [Procs -> {"idle", "next", "root", "ungrouped", "host", "system",
                         "patch", "flush"}]
    /\ action \in [Procs -> {"none", "hosts", "packages"}]
    /\ rows \in [Procs -> SUBSET (HostRow \cup PackageRow)]
    /\ row \in [Procs -> HostRow \cup PackageRow \cup {NoRow}]
    /\ orgUngrouped \in [Procs -> SUBSET Accounts]
    /\ updates \in [Procs -> Seq(Update)]
    /\ \A p \in Procs : Len(updates[p]) <= maxBatchSize
    /\ read \in [Procs -> SUBSET (HostRow \cup PackageRow)]
    /\ result \in [Procs -> {"none", "nil", "error", "crashed"}]

(***************************************************************************)
(* What permissions are computed from: a host in an ungrouped workspace    *)
(* inherits from its organization, and a system has a host that is in a    *)
(* workspace.                                                              *)
(***************************************************************************)
Closed(rels) ==
    /\ \A org \in Accounts :
         UngroupedParent(org) \in rels => RootParent(org) \in rels
    /\ \A h \in Hosts, org \in Accounts :
         HostWorkspace(h, org) \in rels => UngroupedParent(org) \in rels
    /\ \A s \in Systems, h \in Hosts :
         SystemHost(s, h) \in rels =>
             \E org \in Accounts : HostWorkspace(h, org) \in rels

(***************************************************************************)
(* At no moment, also after a failed, broken off, killed or concurrently   *)
(* repeated migration, does SpiceDB hold a host without the workspaces     *)
(* above it or a system without a placed host: a batch boundary or an      *)
(* error never separates a relationship from what it hangs on.             *)
(***************************************************************************)
HierarchyClosed == Closed(spicedb)

\* The relationships a row stands for.
RelationsOf(r) ==
    IF r \in HostRow
    THEN {RootParent(r.org), UngroupedParent(r.org),
          HostWorkspace(r.host, r.org), SystemHost(r.system, r.host)}
    ELSE {PatchSystem(r.name, r.system)}

(***************************************************************************)
(* A migration that returns nil has stored the relationships of every row  *)
(* it has read, those of the last, partial batch included.                 *)
(***************************************************************************)
CompleteOnNil ==
    \A p \in Procs :
        result[p] = "nil" => \A r \in read[p] : RelationsOf(r) \subseteq spicedb

(***************************************************************************)
(* SpiceDB never refuses a request of the host migration: within a batch   *)
(* no relationship is repeated, because an organization's workspaces are   *)
(* added once and a host occurs once per account.  (The package migration  *)
(* has no such guarantee: a system with two versions of a package repeats  *)
(* a relationship, and is refused if both fall into one batch.)            *)
(***************************************************************************)
HostRequestsAccepted ==
    \A p \in Procs : action[p] = "hosts" => Acceptable(updates[p])

(***************************************************************************)
(* A migration never goes round in circles: each of its steps takes a row  *)
(* off the query, or leaves the rows as they are and brings the row in     *)
(* work, or the last flush, nearer to its end.  No error leads back.       *)
(***************************************************************************)
StepsLeft ==
    [root |-> 6, ungrouped |-> 5, host |-> 4, system |-> 3, patch |-> 3,
     next |-> 2, flush |-> 1, idle |-> 0]

Nearer(p) ==
    \/ rows'[p] \subseteq rows[p] /\ rows'[p] # rows[p]
    \/ rows'[p] = rows[p] /\ StepsLeft[pc'[p]] < StepsLeft[pc[p]]

MigrationAdvances == [][ \A p \in Procs : Step(p) => Nearer(p) ]_vars

\* A started migration comes to an end, also when SpiceDB keeps failing.
MigrationReturns == \A p \in Procs : Running(p) ~> ~Running(p)

=============================================================================
