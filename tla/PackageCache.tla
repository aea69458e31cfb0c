---------------------------- MODULE PackageCache ----------------------------
(***************************************************************************)
(* The package cache refresh (RUN_ACTION=REFRESH_PACKAGE_CACHES): a job    *)
(* lists the accounts whose cache is marked invalid and, account by        *)
(* account, counts the installed packages, upserts the counts into         *)
(* package_account_data, deletes the account's other rows and marks the    *)
(* account valid.  Each of these is a transaction of its own: the job can  *)
(* fail or die between any two of them, other jobs can run at the same     *)
(* time, and the counted tables keep changing.                             *)
(***************************************************************************)
EXTENDS ContentDB

CONSTANTS
    Jobs,           \* processes that may run the refresh
    AccIDs,         \* values of the accID argument; main passes only nil
    NoAcc,          \* accID == nil
    SeedPlatform, SeedPackages, SeedHosts, SeedCache, \* the tables at start
    MaxWrites       \* bound on changes made to the counted tables

ASSUME SeedAssumption ==
    /\ SeedPlatform \subseteq SystemPlatform /\ IsFiniteSet(SeedPlatform)
    /\ SeedPackages \subseteq SystemPackage /\ IsFiniteSet(SeedPackages)
    /\ SeedHosts \subseteq Hosts
    /\ SeedCache \subseteq PackageAccountData
    /\ \A r1, r2 \in SeedCache : CacheKey(r1) = CacheKey(r2) => r1 = r2

ASSUME ArgumentAssumption ==
    /\ NoAcc \notin Accounts
    /\ AccIDs \subseteq Accounts \cup {NoAcc}
    /\ MaxWrites \in Nat

VARIABLES
    system_platform, system_package, hosts,     \* the counted tables
    package_account_data,                       \* the cache
    valid_package_cache,                        \* column of rh_account
    pc, todo, cur, pkgSysCounts, err, log,      \* per job
    snap,       \* history: what getCounts last returned for an account
    writes      \* number of changes made to the counted tables

counted == <<system_platform, system_package, hosts>>
cache == <<package_account_data, valid_package_cache>>
vars == <<counted, cache, pc, todo, cur, pkgSysCounts, err, log, snap, writes>>

-----------------------------------------------------------------------------
(* Queries and statements                                                  *)

(***************************************************************************)
(* The SELECT of getCounts for one account: only systems that have         *)
(* packages and are not stale are counted.                                 *)
(***************************************************************************)
Counts(accID) ==
    LET fresh == { sp \in system_platform : sp.PackagesInstalled /\ ~sp.Stale }
    IN  GroupCounts(accID, PackageJoin(fresh, system_package, hosts, accID))

RowsOf(accID) == { r \in package_account_data : r.AccID = accID }

(***************************************************************************)
(* INSERT ... ON CONFLICT (rh_account_id, package_name_id) DO UPDATE.  An  *)
(* empty slice sends no statement at all.                                  *)
(***************************************************************************)
InsertDoNothing(table, rows) ==
    table \cup { c \in rows : \A r \in table : CacheKey(c) # CacheKey(r) }

UnnestInsert(table, rows) ==
    { r \in table : \A c \in rows : CacheKey(c) # CacheKey(r) } \cup rows

(***************************************************************************)
(* "x NOT IN ?" of a WHERE clause.  An empty list is sent as (NULL), and   *)
(* x NOT IN (NULL) is NULL, which selects no row.                          *)
(***************************************************************************)
InInsteadOfNotIn(x, list) == x \in list

NotIn(x, list) == list # {} /\ x \notin list

(***************************************************************************)
(* DELETE FROM package_account_data WHERE (package_name_id, rh_account_id) *)
(* NOT IN pkgAcc AND rh_account_id = accID.                                *)
(***************************************************************************)
DeleteAcrossAccounts(table, rows, accID) ==
    { r \in table : ~NotIn(CacheKey(r), { CacheKey(c) : c \in rows }) }

DeleteOld(table, rows, accID) ==
    { r \in table :
        ~ /\ NotIn(CacheKey(r), { CacheKey(c) : c \in rows })
          /\ r.AccID = accID }

-----------------------------------------------------------------------------
(* The refresh job                                                         *)

Goto(j, l) == pc' = [pc EXCEPT ![j] = l]

Running(j) == pc[j] \notin {"idle", "crashed"}

\* The log line written for an account whose refresh failed or succeeded.
Logged(j, a, line) == log' = [log EXCEPT ![j][a] = line]

\* err is overwritten by every call of the loop.
SetErr(j, failed) == err' = [err EXCEPT ![j] = failed]

(***************************************************************************)
(* The outcome of a transaction run by withTx: committed and acknowledged, *)
(* rolled back with an error, or committed although the caller gets an     *)
(* error because the answer to COMMIT is lost.                             *)
(***************************************************************************)
TxOutcomes ==
    { o \in [committed : BOOLEAN, acked : BOOLEAN] : o.acked => o.committed }

\* "Refresh failed": log, and continue with the next account.
AbortOnFailure(j) ==
    /\ Goto(j, "idle")
    /\ SetErr(j, TRUE)
    /\ Logged(j, cur'[j], "Refresh failed")
    /\ todo' = [todo EXCEPT ![j] = {}]

RetryOnFailure(j) ==
    /\ Goto(j, "loop")
    /\ SetErr(j, TRUE)
    /\ Logged(j, cur'[j], "Refresh failed")
    /\ todo' = [todo EXCEPT ![j] = @ \cup {cur'[j]}]

IgnoreFailure(j) ==
    /\ Goto(j, IF pc[j] = "upsert" THEN "delete" ELSE "loop")
    /\ SetErr(j, TRUE)
    /\ Logged(j, cur'[j], "Refresh failed")
    /\ todo' = [todo EXCEPT ![j] = @ \ {cur'[j]}]

RefreshFailed(j) ==
    /\ Goto(j, "loop")
    /\ SetErr(j, TRUE)
    /\ Logged(j, cur'[j], "Refresh failed")
    /\ todo' = [todo EXCEPT ![j] = @ \ {cur'[j]}]

(***************************************************************************)
(* A job starts: with accID == nil it lists the accounts, otherwise it     *)
(* refreshes the one account whatever its flag says.                       *)
(***************************************************************************)
RefreshPackagesCaches(j) ==
    /\ ~Running(j)
    /\ log' = [log EXCEPT ![j] = [a \in Accounts |-> ""]]
    /\ SetErr(j, FALSE)
    /\ \E accID \in AccIDs :
         \/ /\ accID = NoAcc
            /\ Goto(j, "list")
            /\ UNCHANGED todo
         \/ /\ accID # NoAcc
            /\ Goto(j, "loop")
            /\ todo' = [todo EXCEPT ![j] = {accID}]
    /\ UNCHANGED <<counted, cache, cur, pkgSysCounts, snap, writes>>

\* The condition on the flag is missing.
AllAccounts(j) ==
    /\ pc[j] = "list"
    /\ todo' = [todo EXCEPT ![j] = Accounts]
    /\ Goto(j, "loop")
    /\ UNCHANGED <<counted, cache, cur, pkgSysCounts, err, log, snap, writes>>

(***************************************************************************)
(* The accounts with valid_package_cache = FALSE.  The loop visits them in *)
(* an order given by a hash of the id; the model allows any order.         *)
(***************************************************************************)
accountsWithoutCache(j) ==
    /\ pc[j] = "list"
    /\ \/ /\ todo' = [todo EXCEPT ![j] =
                        { a \in Accounts : ~valid_package_cache[a] }]
          /\ Goto(j, "loop")
          /\ UNCHANGED err
       \/ /\ Goto(j, "idle")
          /\ SetErr(j, TRUE)
          /\ UNCHANGED todo
    /\ UNCHANGED <<counted, cache, cur, pkgSysCounts, log, snap, writes>>

\* The next account of the loop is taken and its packages are counted.
getCounts(j) ==
    /\ pc[j] = "loop"
    /\ \E a \in todo[j] :
         /\ cur' = [cur EXCEPT ![j] = a]
         /\ \/ /\ pkgSysCounts' = [pkgSysCounts EXCEPT ![j] = Counts(a)]
               /\ snap' = [snap EXCEPT ![a] = Counts(a)]
               /\ todo' = [todo EXCEPT ![j] = @ \ {a}]
               /\ Goto(j, "upsert")
               /\ SetErr(j, FALSE)
               /\ UNCHANGED log
            \/ /\ RefreshFailed(j)
               /\ UNCHANGED <<pkgSysCounts, snap>>
    /\ UNCHANGED <<counted, cache, writes>>

updatePackageAccountData(j) ==
    /\ pc[j] = "upsert"
    /\ \E o \in TxOutcomes :
         /\ package_account_data' =
              IF o.committed
              THEN UnnestInsert(package_account_data, pkgSysCounts[j])
              ELSE package_account_data
         /\ \/ /\ o.acked
               /\ Goto(j, "delete")
               /\ SetErr(j, FALSE)
               /\ UNCHANGED <<todo, log, cur>>
            \/ /\ ~o.acked
               /\ UNCHANGED cur
               /\ RefreshFailed(j)
    /\ UNCHANGED <<counted, valid_package_cache, pkgSysCounts, snap, writes>>

deleteOldCache(j) ==
    /\ pc[j] = "delete"
    /\ \E o \in TxOutcomes :
         /\ package_account_data' =
              IF o.committed
              THEN DeleteOld(package_account_data, pkgSysCounts[j], cur[j])
              ELSE package_account_data
         /\ \/ /\ o.acked
               /\ Goto(j, "validate")
               /\ SetErr(j, FALSE)
               /\ UNCHANGED <<todo, log, cur>>
            \/ /\ ~o.acked
               /\ UNCHANGED cur
               /\ RefreshFailed(j)
    /\ UNCHANGED <<counted, valid_package_cache, pkgSysCounts, snap, writes>>

updatePkgCacheValidity(j) ==
    /\ pc[j] = "validate"
    /\ \E o \in TxOutcomes :
         /\ valid_package_cache' =
              IF o.committed
              THEN [valid_package_cache EXCEPT ![cur[j]] = TRUE]
              ELSE valid_package_cache
         /\ \/ /\ o.acked
               /\ Goto(j, "loop")
               /\ SetErr(j, FALSE)
               /\ Logged(j, cur[j], "Cache refreshed")
               /\ UNCHANGED <<todo, cur>>
            \/ /\ ~o.acked
               /\ UNCHANGED cur
               /\ RefreshFailed(j)
    /\ UNCHANGED <<counted, package_account_data, pkgSysCounts, snap, writes>>

\* The loop is over; err, the outcome of the last account, is returned.
Return(j) ==
    /\ pc[j] = "loop"
    /\ todo[j] = {}
    /\ Goto(j, "idle")
    /\ UNCHANGED <<counted, cache, todo, cur, pkgSysCounts, err, log, snap,
                   writes>>

\* The process dies; its open transaction is rolled back by the server.
Crash(j) ==
    /\ Running(j)
    /\ Goto(j, "crashed")
    /\ todo' = [todo EXCEPT ![j] = {}]
    /\ UNCHANGED <<counted, cache, cur, pkgSysCounts, err, log, snap, writes>>

-----------------------------------------------------------------------------
(* Writers of the counted tables                                           *)

Write ==
    /\ writes < MaxWrites
    /\ writes' = writes + 1
    /\ UNCHANGED <<package_account_data, pc, todo, cur, pkgSysCounts, err, log,
                   snap>>

\* SQL function: systems past their warning timestamp become stale.
mark_stale_systems ==
    /\ Write
    /\ \E marked \in SUBSET { sp \in system_platform : ~sp.Stale } :
         system_platform' = (system_platform \ marked)
                            \cup { [sp EXCEPT !.Stale = TRUE] : sp \in marked }
    /\ UNCHANGED <<system_package, hosts, valid_package_cache>>

\* SQL function: a system and the rows that belong to it are deleted.
delete_system ==
    /\ Write
    /\ \E sp \in system_platform :
         /\ system_platform' = system_platform \ {sp}
         /\ system_package' = { spkg \in system_package :
                ~ /\ spkg.SystemID = sp.ID
                  /\ spkg.RhAccountID = sp.RhAccountID }
    /\ UNCHANGED <<hosts, valid_package_cache>>

(***************************************************************************)
(* External: the evaluator stores what it found on a system, here one      *)
(* package installed, updated or removed, and marks the account's cache    *)
(* invalid in the same transaction.                                        *)
(***************************************************************************)
Evaluate ==
    /\ Write
    /\ \E sp \in system_platform, p \in Packages :
         LET others == { spkg \in system_package :
                           PackageKey(spkg) # <<sp.RhAccountID, sp.ID, p>> }
         IN  /\ \/ system_package' = others
                \/ \E u \in SUBSET UpdateStatuses :
                     system_package' = others \cup
                       {[RhAccountID |-> sp.RhAccountID, SystemID |-> sp.ID,
                         PackageID |-> p, UpdateData |-> u]}
             /\ system_platform' = (system_platform \ {sp}) \cup
                  {[sp EXCEPT !.Stale = FALSE,
                              !.PackagesInstalled =
                                \E spkg \in system_package' :
                                  /\ spkg.SystemID = sp.ID
                                  /\ spkg.RhAccountID = sp.RhAccountID]}
             /\ valid_package_cache' =
                  [valid_package_cache EXCEPT ![sp.RhAccountID] = FALSE]
    /\ UNCHANGED hosts

\* External: the inventory adds or removes a host.
SyncHosts ==
    /\ Write
    /\ \E h \in Hosts :
         hosts' = IF h \in hosts THEN hosts \ {h} ELSE hosts \cup {h}
    /\ UNCHANGED <<system_platform, system_package, valid_package_cache>>

-----------------------------------------------------------------------------
Init ==
    /\ system_platform = SeedPlatform
    /\ system_package = SeedPackages
    /\ hosts = SeedHosts
    /\ package_account_data = SeedCache
    /\ valid_package_cache = [a \in Accounts |-> FALSE]
    /\ pc = [j \in Jobs |-> "idle"]
    /\ todo = [j \in Jobs |-> {}]
    /\ cur = [j \in Jobs |-> NoAcc]
    /\ pkgSysCounts = [j \in Jobs |-> {}]
    /\ err = [j \in Jobs |-> FALSE]
    /\ log = [j \in Jobs |-> [a \in Accounts |-> ""]]
    /\ snap = [a \in Accounts |-> {}]
    /\ writes = 0

JobStep(j) ==
    \/ accountsWithoutCache(j)
    \/ getCounts(j)
    \/ updatePackageAccountData(j)
    \/ deleteOldCache(j)
    \/ updatePkgCacheValidity(j)
    \/ Return(j)

Writer ==
    \/ mark_stale_systems
    \/ delete_system
    \/ Evaluate
    \/ SyncHosts

Next ==
    \/ \E j \in Jobs : RefreshPackagesCaches(j) \/ JobStep(j) \/ Crash(j)
    \/ Writer

Spec == Init /\ [][Next]_vars

(***************************************************************************)
(* A running job keeps executing; it is never obliged to start or to die.  *)
(***************************************************************************)
Fairness == \A j \in Jobs : WF_vars(JobStep(j))

FairSpec == Spec /\ Fairness

-----------------------------------------------------------------------------
(* Properties                                                              *)

(***************************************************************************)
(* Statistics as the query computes them: applicable updates include the   *)
(* installable ones, and a counted package is installed somewhere.         *)
(***************************************************************************)
Statistics ==
    { r \in PackageAccountData :
        /\ r.SysInstallable <= r.SysApplicable
        /\ r.SysApplicable <= r.SysInstalled
        /\ r.SysInstalled > 0 }

UniqueKeys(rows) ==
    \A r1, r2 \in rows : CacheKey(r1) = CacheKey(r2) => r1 = r2

(***************************************************************************)
(* Every variable has its type: the tables respect their columns and the   *)
(* primary key of the cache, and what a job holds in memory are statistics *)
(* that make sense.                                                        *)
(***************************************************************************)
TypeOK ==
    /\ system_platform \subseteq SystemPlatform
    /\ IsFiniteSet(system_platform)
    /\ system_package \subseteq SystemPackage
    /\ IsFiniteSet(system_package)
    /\ hosts \subseteq Hosts
    /\ package_account_data \subseteq PackageAccountData
    /\ UniqueKeys(package_account_data)
    /\ valid_package_cache \in [Accounts -> BOOLEAN]
    /\ pc \in [Jobs -> {"idle", "list", "loop", "upsert", "delete", "validate",
                        "crashed"}]
    /\ todo \in [Jobs -> SUBSET Accounts]
    /\ cur \in [Jobs -> Accounts \cup {NoAcc}]
    /\ pkgSysCounts \in [Jobs -> SUBSET Statistics]
    /\ \A j \in Jobs : UniqueKeys(pkgSysCounts[j])
    /\ err \in [Jobs -> BOOLEAN]
    /\ log \in [Jobs -> [Accounts -> {"", "Refresh failed", "Cache refreshed"}]]
    /\ snap \in [Accounts -> SUBSET Statistics]
    /\ writes \in Nat /\ writes <= MaxWrites

(***************************************************************************)
(* With one job at a time, as main starts it, an account marked valid has  *)
(* exactly the rows that one execution of getCounts returned for it: never *)
(* a mix of two refreshes, whatever failed, crashed, lost its answer or    *)
(* was written in between.  The refresh does not achieve this when         *)
(* getCounts returns nothing (see CacheIsLastCount).                       *)
(***************************************************************************)
CacheIsSnapshot ==
    \A a \in Accounts :
        valid_package_cache[a] => RowsOf(a) = snap[a] \/ snap[a] = {}

(***************************************************************************)
(* Why CacheIsSnapshot holds, with one job at a time: the accounts a job   *)
(* still has to refresh, and the one it is refreshing, are marked invalid  *)
(* until the job marks them; the counts in memory are those of the current *)
(* account; after the upsert they are all in the table, and after the      *)
(* delete there is nothing else.                                           *)
(***************************************************************************)
InFlight(j) == pc[j] \in {"upsert", "delete", "validate"}

ListedInvalid ==
    \A j \in Jobs :
        /\ \A a \in todo[j] : ~valid_package_cache[a]
        /\ pc[j] \in {"idle", "crashed", "list"} => todo[j] = {}

CurrentCounted ==
    \A j \in Jobs : InFlight(j) =>
        /\ cur[j] \in Accounts \ todo[j]
        /\ ~valid_package_cache[cur[j]]
        /\ pkgSysCounts[j] = snap[cur[j]]
        /\ \A r \in pkgSysCounts[j] : r.AccID = cur[j]

Upserted ==
    \A j \in Jobs : pc[j] = "delete" => pkgSysCounts[j] \subseteq RowsOf(cur[j])

OldDeleted ==
    \A j \in Jobs : pc[j] = "validate" =>
        RowsOf(cur[j]) = snap[cur[j]] \/ snap[cur[j]] = {}

RefreshInv ==
    /\ ListedInvalid
    /\ CurrentCounted
    /\ Upserted
    /\ OldDeleted
    /\ CacheIsSnapshot

(***************************************************************************)
(* What "Deleting old packages from package_account_data" and "Cache       *)
(* refreshed" claim: a valid account has the rows of its last count and no *)
(* others.  Violated: for an empty count deleteOldCache deletes nothing.   *)
(***************************************************************************)
CacheIsLastCount ==
    \A a \in Accounts : valid_package_cache[a] => RowsOf(a) = snap[a]

(***************************************************************************)
(* While the counted tables do not change, refreshes may overlap in any    *)
(* way, also with the refresh of one explicit account: an account marked   *)
(* valid has exactly the current counts (the empty count aside).           *)
(***************************************************************************)
OverlapHarmless ==
    writes = 0 =>
        \A a \in Accounts :
            valid_package_cache[a] => RowsOf(a) = Counts(a) \/ Counts(a) = {}

(***************************************************************************)
(* A step changes the cache rows of an account, or marks it valid, only    *)
(* while some job is refreshing that very account.                         *)
(***************************************************************************)
OnlyOwnAccount ==
    [][ \A a \in Accounts :
          (RowsOf(a)' # RowsOf(a)
             \/ (valid_package_cache'[a] /\ ~valid_package_cache[a]))
          => \E j \in Jobs :
               cur[j] = a /\ pc[j] \in {"upsert", "delete", "validate"} ]_vars

(***************************************************************************)
(* With one job at a time, as main starts it, the cache of an account is   *)
(* only changed while the account is marked invalid: who goes by the flag  *)
(* never sees the rows of a valid account change under him, however the    *)
(* transactions of the refresh fail, crash and start over.                 *)
(***************************************************************************)
ValidUntouched ==
    [][ \A a \in Accounts :
          valid_package_cache[a] /\ valid_package_cache'[a]
              => RowsOf(a)' = RowsOf(a) ]_vars

(***************************************************************************)
(* The loop never loses an account: one that is listed or in work stays so *)
(* until a line about it is logged, unless the process dies.               *)
(***************************************************************************)
Pending(j) == todo[j] \cup { a \in {cur[j]} : InFlight(j) }

NoneDropped ==
    [][ \A j \in Jobs : pc'[j] # "crashed" =>
          \A a \in Pending(j) \ Pending(j)' : log'[j][a] # "" ]_vars

(***************************************************************************)
(* A job never goes round in circles: each of its steps takes an account   *)
(* off the list, or leaves the list as it is and brings the account in     *)
(* work nearer to its end; nothing leads back to listing accounts.         *)
(***************************************************************************)
StepsLeft ==
    [list |-> 5, upsert |-> 4, delete |-> 3, validate |-> 2, loop |-> 1,
     idle |-> 0, crashed |-> 0]

Nearer(j) ==
    \/ pc[j] = "list"
    \/ todo'[j] \subseteq todo[j] /\ todo'[j] # todo[j]
    \/ todo'[j] = todo[j] /\ StepsLeft[pc'[j]] < StepsLeft[pc[j]]

JobAdvances ==
    [][ \A j \in Jobs : JobStep(j) => Nearer(j) /\ pc'[j] # "list" ]_vars

(***************************************************************************)
(* Every account a job has listed is eventually settled, "Refresh failed"  *)
(* or "Cache refreshed": a failing account does not keep the others from   *)
(* being refreshed, unless the process dies.                               *)
(***************************************************************************)
AllAttempted ==
    \A j \in Jobs, a \in Accounts :
        a \in todo[j] ~> log[j][a] # "" \/ pc[j] = "crashed"

\* A started job comes to an end: a failing account is not retried for ever.
JobReturns == \A j \in Jobs : Running(j) ~> ~Running(j)

=============================================================================
