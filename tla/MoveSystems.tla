---------------------------- MODULE MoveSystems ----------------------------
(***************************************************************************)
(* The migration that gives the systems of one account to another          *)
(* (RUN_ACTION=MOVE_SYSTEMS).  It keeps two stores in step without a       *)
(* common transaction: it lists the account's hosts, updates four tables   *)
(* in one PostgreSQL transaction, moves the hosts in SpiceDB with one      *)
(* request and commits.  Every call can fail, or succeed without an        *)
(* answer, the process can die anywhere and be run again, also next to     *)
(* another one, and systems can be registered meanwhile.                   *)
(*                                                                         *)
(* The foreign keys among the four tables are taken to be dropped by       *)
(* delete_foreign_keys.sql: with them the first update of a table that     *)
(* refers to another one is refused.                                       *)
(***************************************************************************)
EXTENDS SpiceDB

CONSTANTS
    Procs,          \* processes that may run the migration
    Moves,          \* pairs of FROM_ACCOUNT and TO_ACCOUNT
    Baselines,      \* baseline.id
    BaselineNames,  \* baseline.name
    NoBaseline,     \* a NULL system_platform.baseline_id
    BaselineOf,     \* system_platform.baseline_id of a system
    HostsSynced,    \* inventory.hosts, as far as it was replicated
    SeedDB,         \* the rows of the four tables
    SeedPackage2,   \* keys of system_platform system_package2 refers to
    NewSystems      \* platform rows that are registered later

VARIABLES
    db,         \* the committed rows of the four tables
    spicedb,    \* stored relationships
    pc,         \* next step of a process
    move,       \* the accounts a process moves from and to
    listed,     \* the hosts its query returned
    tx,         \* the rows its open transaction has updated (and locked)
    result,     \* what the migration returned
    unsure,     \* history: hosts whose last request and last transaction
                \* need not agree (see Agreement)
    been        \* history: the accounts a host has ever been in, in either
                \* store (see BetweenTwo)

vars == <<db, spicedb, pc, move, listed, tx, result, unsure, been>>

-----------------------------------------------------------------------------
(* The four tables; repositories and advisories only as "has rows".        *)

Tables == {"system_repo", "system_advisories", "system_platform", "baseline"}

SystemChild == [RhAccountID : Accounts, SystemID : Systems]

Baseline == [RhAccountID : Accounts, ID : Baselines, Name : BaselineNames]

TableRows(t) ==
    CASE t \in {"system_repo", "system_advisories"} -> SystemChild
      [] t = "system_platform" -> SystemPlatform
      [] t = "baseline" -> Baseline

AnyRow == SystemChild \cup SystemPlatform \cup Baseline

ASSUME MoveAssumption ==
    /\ Moves \subseteq Accounts \X Accounts
    /\ BaselineOf \in [Systems -> Baselines \cup {NoBaseline}]
    /\ HostsSynced \subseteq Hosts
    /\ SeedDB \in [Tables -> SUBSET AnyRow]
    /\ \A t \in Tables : SeedDB[t] \subseteq TableRows(t)
    /\ SeedPackage2 \subseteq Accounts \X Systems
    /\ NewSystems \subseteq SystemPlatform

RowsOf(rows, acc) == { r \in rows : r.RhAccountID = acc }

\* UPDATE ... SET rh_account_id, applied to the rows it has matched.
Reassigned(rows, matched, acc) ==
    (rows \ matched) \cup { [r EXCEPT !.RhAccountID = acc] : r \in matched }

NoRows == [t \in Tables |-> {}]

from(p) == move[p][1]
to(p) == move[p][2]

-----------------------------------------------------------------------------
(* The calls of the migration                                              *)

Goto(p, l) == pc' = [pc EXCEPT ![p] = l]

Running(p) == pc[p] # "idle"

\* main panics when the migration returns an error.
Return(p, res) ==
    /\ Goto(p, "idle")
    /\ result' = [result EXCEPT ![p] = res]

\* The transaction ends without an effect, and its locks are released.
Rollback(p) == tx' = [tx EXCEPT ![p] = NoRows]

\* system_platform JOIN inventory.hosts, for one account.
HostsOf(acc) ==
    { sp.InventoryID : sp \in RowsOf(db["system_platform"], acc) }
    \cap HostsSynced

(***************************************************************************)
(* A process starts and reads its list of hosts, outside any transaction.  *)
(* The list is short when the row stream breaks off: nobody asks for its   *)
(* error.                                                                  *)
(***************************************************************************)
Query(p) ==
    /\ ~Running(p)
    /\ \E mv \in Moves :
         /\ move' = [move EXCEPT ![p] = mv]
         /\ \/ /\ \E hosts \in SUBSET HostsOf(mv[1]) :
                    listed' = [listed EXCEPT ![p] = hosts]
               /\ Goto(p, "begin")
               /\ result' = [result EXCEPT ![p] = "none"]
            \/ /\ listed' = [listed EXCEPT ![p] = {}]
               /\ Return(p, "error")
    /\ UNCHANGED <<db, spicedb, tx, unsure, been>>

\* The error of BeginTx is not looked at: the first use of tx panics.
BeginTx(p) ==
    /\ pc[p] = "begin"
    /\ \/ Goto(p, "system_repo") /\ UNCHANGED result
       \/ Return(p, "crashed")
    /\ UNCHANGED <<db, spicedb, move, listed, tx, unsure, been>>

(***************************************************************************)
(* UPDATE <t> SET rh_account_id = to WHERE rh_account_id = from, in the    *)
(* order of the four statements; the next step is named by the table.  It  *)
(* waits for rows another transaction has updated.  An error (allowed is   *)
(* what the constraints of the table ask for) rolls back.                  *)
(***************************************************************************)
Matched(p, t) == RowsOf(db[t], from(p))

Locked(p, t) == \E q \in Procs \ {p} : tx[q][t] \cap Matched(p, t) # {}

Update(p, t, matched, allowed, next) ==
    /\ pc[p] = t
    /\ \/ /\ allowed
          /\ ~Locked(p, t)
          /\ tx' = [tx EXCEPT ![p] = [@ EXCEPT ![t] = matched]]
          /\ Goto(p, next)
          /\ UNCHANGED result
       \/ Rollback(p) /\ Return(p, "error")
    /\ UNCHANGED <<db, spicedb, move, listed, unsure, been>>

UpdateSystemRepo(p) ==
    Update(p, "system_repo", Matched(p, "system_repo"), TRUE,
           "system_advisories")

AdvisoriesForgotten(p) ==
    Update(p, "system_advisories", {}, TRUE, "system_platform")

UpdateSystemAdvisories(p) ==
    Update(p, "system_advisories", Matched(p, "system_advisories"), TRUE,
           "system_platform")

(***************************************************************************)
(* UNIQUE (rh_account_id, inventory_id) and the foreign key of             *)
(* system_package2, which delete_foreign_keys.sql does not drop.           *)
(***************************************************************************)
PlatformMayMove(p) ==
    LET moved == Matched(p, "system_platform")
        there == RowsOf(db["system_platform"], to(p))
    IN  from(p) # to(p) =>
          /\ \A m \in moved, o \in there : m.InventoryID # o.InventoryID
          /\ \A m \in moved : PlatformKey(m) \notin SeedPackage2

PlatformSwapped(p) ==
    Update(p, "system_platform", RowsOf(db["system_platform"], to(p)),
           TRUE, "baseline")

UpdateSystemPlatform(p) ==
    Update(p, "system_platform", Matched(p, "system_platform"),
           PlatformMayMove(p), "baseline")

\* UNIQUE (rh_account_id, name)
BaselineMayMove(p) ==
    from(p) # to(p) =>
        \A m \in Matched(p, "baseline"), o \in RowsOf(db["baseline"], to(p)) :
            m.Name # o.Name

UpdateBaseline(p) ==
    Update(p, "baseline", Matched(p, "baseline"), BaselineMayMove(p), "write")

(***************************************************************************)
(* One request takes every listed host out of one workspace and puts it    *)
(* into the other.                                                         *)
(***************************************************************************)
Leaving(p) == { HostWorkspace(h, from(p)) : h \in listed[p] }
Joining(p) == { HostWorkspace(h, to(p)) : h \in listed[p] }

\* The hosts come to the account of the move, in one store or the other.
Come(p, moved) ==
    been' = [h \in Hosts |-> IF h \in moved THEN been[h] \cup {to(p)}
                                            ELSE been[h]]

SendWithoutDelete(p) ==
    /\ AcceptableSets({}, Joining(p))
    /\ spicedb' = Applied(spicedb, {}, Joining(p))
    /\ unsure' = unsure \cup listed[p]
    /\ Come(p, listed[p])

Send(p) ==
    /\ AcceptableSets(Leaving(p), Joining(p))
    /\ spicedb' = Applied(spicedb, Leaving(p), Joining(p))
    /\ unsure' = unsure \cup listed[p]
    /\ Come(p, listed[p])

NotSent == UNCHANGED <<spicedb, unsure, been>>

IgnoreWriteError(p) ==
    /\ pc[p] = "write"
    /\ Send(p) \/ NotSent
    /\ Goto(p, "commit")
    /\ UNCHANGED <<db, move, listed, tx, result>>

NoRollback(p) ==
    /\ pc[p] = "write"
    /\ \/ Send(p) /\ Goto(p, "commit") /\ UNCHANGED <<tx, result>>
       \/ (Send(p) \/ NotSent) /\ Return(p, "error") /\ UNCHANGED tx
    /\ UNCHANGED <<db, move, listed>>

WriteRels(p) ==
    /\ pc[p] = "write"
    /\ \/ Send(p) /\ Goto(p, "commit") /\ UNCHANGED <<tx, result>>
       \/ (Send(p) \/ NotSent) /\ Rollback(p) /\ Return(p, "error")
    /\ UNCHANGED <<db, move, listed>>

(***************************************************************************)
(* Commit is done and acknowledged, refused, or done without an answer.    *)
(***************************************************************************)
MovedHosts(p) == { sp.InventoryID : sp \in tx[p]["system_platform"] }

Committed(p) ==
    /\ db' = [t \in Tables |-> Reassigned(db[t], tx[p][t], to(p))]
    /\ unsure' = (unsure \ (listed[p] \cap MovedHosts(p)))
                    \cup (listed[p] \ MovedHosts(p))
                    \cup (MovedHosts(p) \ listed[p])
    /\ Come(p, MovedHosts(p))

Commit(p) ==
    /\ pc[p] = "commit"
    /\ \/ Committed(p) /\ Return(p, "nil")
       \/ Committed(p) /\ Return(p, "error")
       \/ UNCHANGED <<db, unsure, been>> /\ Return(p, "error")
    /\ Rollback(p)
    /\ UNCHANGED <<spicedb, move, listed>>

\* The process dies; the server rolls its transaction back.
Crash(p) ==
    /\ Running(p)
    /\ Rollback(p)
    /\ Return(p, "crashed")
    /\ UNCHANGED <<db, spicedb, move, listed, unsure, been>>

(***************************************************************************)
(* Another service registers a system, with repositories and advisories    *)
(* and without telling SpiceDB.                                            *)
(***************************************************************************)
Register ==
    /\ \E new \in NewSystems :
         LET child == [RhAccountID |-> new.RhAccountID, SystemID |-> new.ID]
         IN  /\ \A sp \in db["system_platform"] : sp.ID # new.ID
             /\ db' = [db EXCEPT !["system_platform"] = @ \cup {new},
                                 !["system_repo"] = @ \cup {child},
                                 !["system_advisories"] = @ \cup {child}]
             /\ been' = [been EXCEPT ![new.InventoryID] =
                                         @ \cup {new.RhAccountID}]
    /\ UNCHANGED <<spicedb, pc, move, listed, tx, result, unsure>>

-----------------------------------------------------------------------------
SeedAccounts ==
    [h \in Hosts |->
       { sp.RhAccountID : sp \in { x \in SeedDB["system_platform"] :
                                      x.InventoryID = h } }]

\* The state after MIGRATE_CONTENT_TO_SPICEDB.
Init ==
    /\ db = SeedDB
    /\ spicedb = { HostWorkspace(sp.InventoryID, sp.RhAccountID) :
                     sp \in { x \in SeedDB["system_platform"] :
                                x.InventoryID \in HostsSynced } }
    /\ pc = [p \in Procs |-> "idle"]
    /\ move \in [Procs -> Moves]
    /\ listed = [p \in Procs |-> {}]
    /\ tx = [p \in Procs |-> NoRows]
    /\ result = [p \in Procs |-> "none"]
    /\ unsure = {}
    /\ been = SeedAccounts

Step(p) ==
    \/ Query(p)
    \/ BeginTx(p)
    \/ UpdateSystemRepo(p)
    \/ UpdateSystemAdvisories(p)
    \/ UpdateSystemPlatform(p)
    \/ UpdateBaseline(p)
    \/ WriteRels(p)
    \/ Commit(p)
    \/ Crash(p)

Next == (\E p \in Procs : Step(p)) \/ Register

Spec == Init /\ [][Next]_vars

-----------------------------------------------------------------------------
(* Properties                                                              *)

(***************************************************************************)
(* Types; in particular no table holds a row of another one, and rows are  *)
(* locked only by a transaction that is open: every way out of the         *)
(* migration releases them.                                                *)
(***************************************************************************)
TypeOK ==
    /\ db \in [Tables -> SUBSET AnyRow]
    /\ \A t \in Tables : db[t] \subseteq TableRows(t)
    /\ spicedb \subseteq { HostWorkspace(h, acc) : h \in Hosts, acc \in Accounts }
    /\ pc \in [Procs -> Tables \cup {"idle", "begin", "write", "commit"}]
    /\ move \in [Procs -> Moves]
    /\ listed \in [Procs -> SUBSET HostsSynced]
    /\ tx \in [Procs -> [Tables -> SUBSET AnyRow]]
    /\ \A p \in Procs, t \in Tables : tx[p][t] \subseteq db[t]
    /\ \A p \in Procs : pc[p] \in {"idle", "begin"} => tx[p] = NoRows
    /\ result \in [Procs -> {"none", "nil", "error", "crashed"}]
    /\ unsure \subseteq Hosts
    /\ been \in [Hosts -> SUBSET Accounts]

WorkspacesOf(h) == { acc \in Accounts : HostWorkspace(h, acc) \in spicedb }

(***************************************************************************)
(* What a move promises of a host ends with the third account: a move to   *)
(* one account that fails after its request and a move to another one that *)
(* goes through leave the host in the workspaces of both, and nothing      *)
(* records that the stores differ.  So the properties below are about the  *)
(* hosts that have been, in either store, in two accounts at most.         *)
(***************************************************************************)
BetweenTwo(h) == \E a, b \in Accounts : been[h] \subseteq {a, b}

(***************************************************************************)
(* A host moved between two accounts is in no workspace but its own        *)
(* account's, unless its last request was not followed by the commit it    *)
(* belongs to (an error or a crash between the two stores), or it was      *)
(* moved in only one of them because the list of hosts was not what the    *)
(* transaction found.  So nothing but these two ever separates the stores, *)
(* and a move of the host that goes through repairs them.                  *)
(***************************************************************************)
Agreement ==
    \A sp \in db["system_platform"] :
        BetweenTwo(sp.InventoryID) /\ sp.InventoryID \notin unsure =>
            WorkspacesOf(sp.InventoryID) \subseteq {sp.RhAccountID}

(***************************************************************************)
(* A host that was in a workspace and is moved between two accounts only   *)
(* is in exactly one workspace at every moment, whatever fails: it is      *)
(* never without one, which would hide it from everyone, and not in two,   *)
(* which would show it to both accounts.                                   *)
(***************************************************************************)
PlacedOnce ==
    \A sp \in SeedDB["system_platform"] :
        sp.InventoryID \in HostsSynced /\ BetweenTwo(sp.InventoryID) =>
            Cardinality(WorkspacesOf(sp.InventoryID)) = 1

(***************************************************************************)
(* The keys readd_foreign_keys.sql adds hold at every moment, as long as   *)
(* no system is registered while they are dropped: children and baselines  *)
(* are moved with their systems or not at all.                             *)
(***************************************************************************)
ChildrenFollow(d) ==
    \A c \in d["system_repo"] \cup d["system_advisories"] :
        \E sp \in d["system_platform"] :
            sp.RhAccountID = c.RhAccountID /\ sp.ID = c.SystemID

BaselinesFollow(d) ==
    \A sp \in d["system_platform"] :
        BaselineOf[sp.ID] # NoBaseline =>
            \E b \in d["baseline"] :
                b.RhAccountID = sp.RhAccountID /\ b.ID = BaselineOf[sp.ID]

KeysHold(d) == ChildrenFollow(d) /\ BaselinesFollow(d)

Registered ==
    \E sp \in db["system_platform"], new \in NewSystems : sp.ID = new.ID

KeysCanBeReadded == Registered \/ KeysHold(db)

(***************************************************************************)
(* When a migration returns nil, every host it has listed (and that has    *)
(* been in no third account) has changed accounts in both stores.          *)
(***************************************************************************)
MovedInBoth(p) ==
    \A h \in { x \in listed[p] : BetweenTwo(x) } :
        /\ WorkspacesOf(h) = {to(p)}
        /\ \A sp \in db["system_platform"] :
             sp.InventoryID = h => sp.RhAccountID = to(p)

NilMeansMoved ==
    [][\A p \in Procs :
         result[p] # "nil" /\ result'[p] = "nil" => MovedInBoth(p)']_vars

=============================================================================
