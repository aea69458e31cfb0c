------------------------- MODULE PackageCacheProofs -------------------------
(***************************************************************************)
(* Theorems about PackageCache, OverlappingJobs and BulkInsert, for any    *)
(* accounts, systems, packages, seed tables, jobs and number of writes.    *)
(***************************************************************************)
EXTENDS BulkInsert, OverlappingJobs, ContentDBProofs

-----------------------------------------------------------------------------
(* The counting query                                                      *)

\* What getCounts returns: statistics of the one account, one row per name.
LEMMA CountsTyped ==
    ASSUME NEW a \in Accounts,
           system_platform \subseteq SystemPlatform,
           IsFiniteSet(system_platform),
           system_package \subseteq SystemPackage,
           IsFiniteSet(system_package)
    PROVE  /\ Counts(a) \subseteq Statistics
           /\ UniqueKeys(Counts(a))
           /\ \A r \in Counts(a) : r.AccID = a
<1> DEFINE fresh == { sp \in system_platform :
                        sp.PackagesInstalled /\ ~sp.Stale }
           rows == PackageJoin(fresh, system_package, hosts, a)
<1>1. fresh \in SUBSET system_platform
  OBVIOUS
<1>2. IsFiniteSet(fresh)
  BY <1>1, FS_Subset
<1>3. IsFiniteSet(rows)
  BY <1>2, JoinFinite
<1>4. \A row \in rows : a \in Accounts /\ NameOfRow(row) \in Names
  BY <1>1, JoinTyped
<1>5. Counts(a) = GroupCounts(a, rows)
  BY DEF Counts
<1> HIDE DEF rows
<1>6. ASSUME NEW r \in Counts(a)
      PROVE  r \in Statistics /\ r.AccID = a
  <2>1. /\ r \in PackageAccountData /\ r.AccID = a
        /\ r.SysInstallable <= r.SysApplicable
        /\ r.SysApplicable <= r.SysInstalled /\ r.SysInstalled # 0
    BY <1>3, <1>4, <1>5, GroupCountsTyped
  <2>2. r.SysInstalled \in Nat
    BY <2>1 DEF PackageAccountData
  <2> QED
    BY <2>1, <2>2 DEF Statistics
<1>7. UniqueKeys(Counts(a))
  BY <1>5 DEF GroupCounts, UniqueKeys, CacheKey, CountsOf
<1> QED
  BY <1>6, <1>7

-----------------------------------------------------------------------------
(* Type correctness                                                        *)

\* The upsert keeps the primary key of package_account_data.
LEMMA UpsertUnique ==
    ASSUME NEW T, NEW R, UniqueKeys(T), UniqueKeys(R)
    PROVE  UniqueKeys(UnnestInsert(T, R))
BY DEF UniqueKeys, UnnestInsert

LEMMA DeleteUnique ==
    ASSUME NEW T, NEW R, NEW a, UniqueKeys(T)
    PROVE  UniqueKeys(DeleteOld(T, R, a))
BY DEF UniqueKeys, DeleteOld

LEMMA TypeInit == Init => TypeOK
<1> SUFFICES ASSUME Init PROVE TypeOK
  OBVIOUS
<1>1. UniqueKeys(SeedCache)
  BY SeedAssumption DEF UniqueKeys
<1>2. \A j \in Jobs : UniqueKeys(pkgSysCounts[j])
  BY DEF Init, UniqueKeys
<1>3. writes \in Nat /\ writes <= MaxWrites
  <2>1. writes = 0 /\ MaxWrites \in Nat
    BY ArgumentAssumption DEF Init
  <2> QED
    BY ONLY <2>1
<1>4. cur \in [Jobs -> Accounts \cup {NoAcc}]
  BY DEF Init
<1> QED
  BY <1>1, <1>2, <1>3, <1>4, SeedAssumption DEF Init, TypeOK

\* A writer of the counted tables keeps them typed and finite.
LEMMA TypeWriter == TypeOK /\ Writer => TypeOK'
<1> SUFFICES ASSUME TypeOK, Writer PROVE TypeOK'
  OBVIOUS
<1> USE DEF TypeOK
<1>0. writes < MaxWrites /\ writes' = writes + 1
      => writes' \in Nat /\ writes' <= MaxWrites
  <2>1. writes \in Nat /\ MaxWrites \in Nat
    BY ArgumentAssumption
  <2> QED
    BY ONLY <2>1
<1>1. CASE mark_stale_systems
  <2>1. PICK marked \in SUBSET { sp \in system_platform : ~sp.Stale } :
          system_platform' = (system_platform \ marked)
                     \cup { [sp EXCEPT !.Stale = TRUE] : sp \in marked }
    BY <1>1 DEF mark_stale_systems
  <2>2. IsFiniteSet(system_platform')
    <3> DEFINE stale(sp) == [sp EXCEPT !.Stale = TRUE]
               f == [sp \in marked |-> [sp EXCEPT !.Stale = TRUE]]
               image == { [sp EXCEPT !.Stale = TRUE] : sp \in marked }
    <3>1. IsFiniteSet(marked) /\ IsFiniteSet(system_platform \ marked)
      BY FS_Subset
    <3>2. f \in Surjection(marked, image)
      BY DEF Surjection
    <3>3. IsFiniteSet(image)
      BY <3>1, <3>2, FS_Surjection DEF ExistsSurjection
    <3> QED
      BY <2>1, <3>1, <3>3, FS_Union
  <2>3. system_platform' \subseteq SystemPlatform
    <3>1. ASSUME NEW sp \in marked
          PROVE  [sp EXCEPT !.Stale = TRUE] \in SystemPlatform
      <4>1. sp \in SystemPlatform
        OBVIOUS
      <4> QED
        BY ONLY <4>1 DEF SystemPlatform
    <3> QED
      BY <2>1, <3>1
  <2> QED
    BY <1>0, <1>1, <2>2, <2>3 DEF mark_stale_systems, Write, UniqueKeys
<1>2. CASE delete_system
  <2>1. /\ system_platform' \in SUBSET system_platform
        /\ system_package' \in SUBSET system_package
    BY <1>2 DEF delete_system
  <2>2. IsFiniteSet(system_platform') /\ IsFiniteSet(system_package')
    BY <2>1, FS_Subset
  <2> QED
    BY <1>0, <1>2, <2>1, <2>2 DEF delete_system, Write, UniqueKeys
<1>3. CASE Evaluate
  <2>1. PICK sp \in system_platform, p \in Packages :
          LET others == { spkg \in system_package :
                           PackageKey(spkg) # <<sp.RhAccountID, sp.ID, p>> }
          IN  /\ \/ system_package' = others
                 \/ \E u \in SUBSET UpdateStatuses :
                      system_package' = others \cup
                        {[RhAccountID |-> sp.RhAccountID, SystemID |-> sp.ID,
                          PackageID |-> p, UpdateData |-> u]}
              /\ system_platform' = (system_platform \ {sp}) \cup
                   {[sp EXCEPT !.Stale = FALSE,
                               !.PackagesInstalled =
                                 \E spkg \in system_package' :
                                   /\ spkg.SystemID = sp.ID
                                   /\ spkg.RhAccountID = sp.RhAccountID]}
              /\ valid_package_cache' =
                   [valid_package_cache EXCEPT ![sp.RhAccountID] = FALSE]
    BY <1>3 DEF Evaluate
  <2> DEFINE others == { spkg \in system_package :
                           PackageKey(spkg) # <<sp.RhAccountID, sp.ID, p>> }
             found == \E spkg \in system_package' :
                        /\ spkg.SystemID = sp.ID
                        /\ spkg.RhAccountID = sp.RhAccountID
             new == [sp EXCEPT !.Stale = FALSE, !.PackagesInstalled = found]
  <2>2. sp \in SystemPlatform
    OBVIOUS
  <2>3. others \in SUBSET system_package /\ IsFiniteSet(others)
    BY FS_Subset
  <2>4. system_package' \subseteq SystemPackage /\ IsFiniteSet(system_package')
    <3>1. CASE system_package' = others
      BY <2>3, <3>1
    <3>2. ASSUME NEW u \in SUBSET UpdateStatuses,
                 system_package' = others \cup
                   {[RhAccountID |-> sp.RhAccountID, SystemID |-> sp.ID,
                     PackageID |-> p, UpdateData |-> u]}
          PROVE  system_package' \subseteq SystemPackage
                 /\ IsFiniteSet(system_package')
      <4> DEFINE row == [RhAccountID |-> sp.RhAccountID, SystemID |-> sp.ID,
                         PackageID |-> p, UpdateData |-> u]
      <4>1. row \in SystemPackage
        BY <2>2 DEF SystemPackage, SystemPlatform
      <4> HIDE DEF row, others
      <4>2. IsFiniteSet(others \cup {row})
        BY <2>3, FS_AddElement
      <4>3. system_package' = others \cup {row}
        BY <3>2 DEF row
      <4> QED
        BY <2>3, <4>1, <4>2, <4>3
    <3> QED
      BY <2>1, <3>1, <3>2
  <2>5. found \in BOOLEAN
    OBVIOUS
  <2>6. system_platform' = (system_platform \ {sp}) \cup {new}
    BY <2>1
  <2> HIDE DEF found
  <2>7. new \in SystemPlatform
    BY <2>2, <2>5 DEF SystemPlatform
  <2> HIDE DEF new
  <2>8. IsFiniteSet(system_platform \ {sp})
    BY FS_Subset
  <2>9. IsFiniteSet(system_platform')
    BY <2>6, <2>8, FS_AddElement
  <2>10. system_platform' \subseteq SystemPlatform
    BY <2>6, <2>7
  <2>11. valid_package_cache' \in [Accounts -> BOOLEAN]
    BY <2>1
  <2> QED
    BY <1>0, <1>3, <2>4, <2>9, <2>10, <2>11 DEF Evaluate, Write, UniqueKeys
<1>4. CASE SyncHosts
  <2>1. hosts' \subseteq Hosts
    BY <1>4 DEF SyncHosts
  <2> QED
    BY <1>0, <1>4, <2>1 DEF SyncHosts, Write, UniqueKeys
<1> QED
  BY <1>1, <1>2, <1>3, <1>4 DEF Writer

LEMMA TypeFailed ==
    ASSUME TypeOK, NEW j \in Jobs, RefreshFailed(j),
           cur' \in [Jobs -> Accounts \cup {NoAcc}]
    PROVE  /\ pc' \in [Jobs -> {"idle", "list", "loop", "upsert", "delete",
                                "validate", "crashed"}]
           /\ todo' \in [Jobs -> SUBSET Accounts]
           /\ err' \in [Jobs -> BOOLEAN]
           /\ log' \in [Jobs -> [Accounts ->
                          {"", "Refresh failed", "Cache refreshed"}]]
BY DEF TypeOK, RefreshFailed, Goto, SetErr, Logged

\* A step of a job: one case per statement of the refresh.
LEMMA TypeJob ==
    ASSUME TypeOK, NEW j \in Jobs,
           RefreshPackagesCaches(j) \/ JobStep(j) \/ Crash(j)
    PROVE  TypeOK'
<1> USE DEF TypeOK
<1>1. CASE RefreshPackagesCaches(j)
  <2>1. /\ log' = [log EXCEPT ![j] = [a \in Accounts |-> ""]]
        /\ SetErr(j, FALSE)
        /\ Goto(j, "list") \/ Goto(j, "loop")
        /\ todo' = todo \/ \E a \in Accounts : todo' = [todo EXCEPT ![j] = {a}]
        /\ UNCHANGED <<counted, cache, cur, pkgSysCounts, snap, writes>>
    BY <1>1, ArgumentAssumption DEF RefreshPackagesCaches
  <2>2. log' \in [Jobs -> [Accounts -> {"", "Refresh failed", "Cache refreshed"}]]
    BY <2>1
  <2>3. todo' \in [Jobs -> SUBSET Accounts]
    <3>1. CASE todo' = todo
      BY <3>1
    <3>2. ASSUME NEW a \in Accounts, todo' = [todo EXCEPT ![j] = {a}]
          PROVE  todo' \in [Jobs -> SUBSET Accounts]
      BY <3>2
    <3> QED
      BY <2>1, <3>1, <3>2
  <2>4. err' \in [Jobs -> BOOLEAN]
    BY <2>1 DEF SetErr
  <2>5. pc' \in [Jobs -> {"idle", "list", "loop", "upsert", "delete", "validate",
                          "crashed"}]
    BY <2>1 DEF Goto
  <2> QED
    BY <2>1, <2>2, <2>3, <2>4, <2>5 DEF counted, cache, UniqueKeys
<1>2. CASE accountsWithoutCache(j)
  BY <1>2 DEF accountsWithoutCache, Goto, SetErr, counted, cache, UniqueKeys
<1>3. CASE getCounts(j)
  <2>1. PICK a \in todo[j] :
         /\ cur' = [cur EXCEPT ![j] = a]
         /\ \/ /\ pkgSysCounts' = [pkgSysCounts EXCEPT ![j] = Counts(a)]
               /\ snap' = [snap EXCEPT ![a] = Counts(a)]
               /\ todo' = [todo EXCEPT ![j] = @ \ {a}]
               /\ Goto(j, "upsert")
               /\ SetErr(j, FALSE)
               /\ UNCHANGED log
            \/ /\ RefreshFailed(j)
               /\ UNCHANGED <<pkgSysCounts, snap>>
    BY <1>3 DEF getCounts
  <2>2. a \in Accounts /\ cur' \in [Jobs -> Accounts \cup {NoAcc}]
    BY <2>1
  <2>3. Counts(a) \subseteq Statistics /\ UniqueKeys(Counts(a))
    BY <2>2, CountsTyped
  <2>4. UNCHANGED <<counted, cache, writes>>
    BY <1>3 DEF getCounts
  <2>5. CASE /\ pkgSysCounts' = [pkgSysCounts EXCEPT ![j] = Counts(a)]
             /\ snap' = [snap EXCEPT ![a] = Counts(a)]
             /\ todo' = [todo EXCEPT ![j] = @ \ {a}]
             /\ Goto(j, "upsert")
             /\ SetErr(j, FALSE)
             /\ UNCHANGED log
    <3>1. \A i \in Jobs : UniqueKeys(pkgSysCounts'[i])
      BY <2>3, <2>5
    <3>2. UniqueKeys(package_account_data)'
      BY <2>4 DEF cache, UniqueKeys
    <3> QED
      BY <2>2, <2>3, <2>4, <2>5, <3>1, <3>2
      DEF Goto, SetErr, counted, cache
  <2>6. CASE RefreshFailed(j) /\ UNCHANGED <<pkgSysCounts, snap>>
    BY <2>2, <2>4, <2>6, TypeFailed DEF counted, cache, UniqueKeys
  <2> QED
    BY <2>1, <2>5, <2>6
<1>4. CASE updatePackageAccountData(j)
  <2>1. /\ package_account_data' \in
             {package_account_data,
              UnnestInsert(package_account_data, pkgSysCounts[j])}
        /\ cur' = cur
        /\ \/ Goto(j, "delete") /\ SetErr(j, FALSE) /\ UNCHANGED <<todo, log>>
           \/ RefreshFailed(j)
        /\ UNCHANGED <<counted, valid_package_cache, pkgSysCounts, snap, writes>>
    BY <1>4 DEF updatePackageAccountData
  <2>2. UniqueKeys(package_account_data')
    BY <2>1, UpsertUnique
  <2>3. package_account_data' \subseteq PackageAccountData
    BY <2>1 DEF UnnestInsert, Statistics
  <2>4. /\ pc' \in [Jobs -> {"idle", "list", "loop", "upsert", "delete",
                             "validate", "crashed"}]
        /\ todo' \in [Jobs -> SUBSET Accounts]
        /\ err' \in [Jobs -> BOOLEAN]
        /\ log' \in [Jobs -> [Accounts ->
                       {"", "Refresh failed", "Cache refreshed"}]]
    BY <2>1, TypeFailed DEF Goto, SetErr
  <2> QED
    BY <2>1, <2>2, <2>3, <2>4 DEF counted, UniqueKeys
<1>5. CASE deleteOldCache(j)
  <2>1. /\ package_account_data' \in
             {package_account_data,
              DeleteOld(package_account_data, pkgSysCounts[j], cur[j])}
        /\ cur' = cur
        /\ \/ Goto(j, "validate") /\ SetErr(j, FALSE) /\ UNCHANGED <<todo, log>>
           \/ RefreshFailed(j)
        /\ UNCHANGED <<counted, valid_package_cache, pkgSysCounts, snap, writes>>
    BY <1>5 DEF deleteOldCache
  <2>2. UniqueKeys(package_account_data')
    BY <2>1, DeleteUnique
  <2>3. package_account_data' \subseteq PackageAccountData
    BY <2>1 DEF DeleteOld
  <2>4. /\ pc' \in [Jobs -> {"idle", "list", "loop", "upsert", "delete",
                             "validate", "crashed"}]
        /\ todo' \in [Jobs -> SUBSET Accounts]
        /\ err' \in [Jobs -> BOOLEAN]
        /\ log' \in [Jobs -> [Accounts ->
                       {"", "Refresh failed", "Cache refreshed"}]]
    BY <2>1, TypeFailed DEF Goto, SetErr
  <2> QED
    BY <2>1, <2>2, <2>3, <2>4 DEF counted, UniqueKeys
<1>6. CASE updatePkgCacheValidity(j)
  <2>1. /\ valid_package_cache' \in
             {valid_package_cache,
              [valid_package_cache EXCEPT ![cur[j]] = TRUE]}
        /\ cur' = cur
        /\ \/ /\ Goto(j, "loop") /\ SetErr(j, FALSE)
              /\ Logged(j, cur[j], "Cache refreshed") /\ UNCHANGED todo
           \/ RefreshFailed(j)
        /\ UNCHANGED <<counted, package_account_data, pkgSysCounts, snap, writes>>
    BY <1>6 DEF updatePkgCacheValidity
  <2>2. valid_package_cache' \in [Accounts -> BOOLEAN]
    BY <2>1
  <2>3. /\ pc' \in [Jobs -> {"idle", "list", "loop", "upsert", "delete",
                             "validate", "crashed"}]
        /\ todo' \in [Jobs -> SUBSET Accounts]
        /\ err' \in [Jobs -> BOOLEAN]
        /\ log' \in [Jobs -> [Accounts ->
                       {"", "Refresh failed", "Cache refreshed"}]]
    <3>1. CASE /\ Goto(j, "loop") /\ SetErr(j, FALSE)
               /\ Logged(j, cur[j], "Cache refreshed") /\ UNCHANGED todo
      BY <3>1 DEF Goto, SetErr, Logged
    <3>2. CASE RefreshFailed(j)
      BY <2>1, <3>2, TypeFailed
    <3> QED
      BY <2>1, <3>1, <3>2
  <2> QED
    BY <2>1, <2>2, <2>3 DEF counted, UniqueKeys
<1>7. CASE Return(j)
  BY <1>7 DEF Return, Goto, counted, cache, UniqueKeys
<1>8. CASE Crash(j)
  BY <1>8 DEF Crash, Goto, counted, cache, UniqueKeys
<1> QED
  BY <1>1, <1>2, <1>3, <1>4, <1>5, <1>6, <1>7, <1>8 DEF JobStep

LEMMA TypeNext == TypeOK /\ [Next]_vars => TypeOK'
<1>1. TypeOK /\ Next => TypeOK'
  BY TypeWriter, TypeJob DEF Next
<1>2. TypeOK /\ UNCHANGED vars => TypeOK'
  BY DEF TypeOK, vars, counted, cache, UniqueKeys
<1> QED
  BY <1>1, <1>2

(***************************************************************************)
(* Type correctness of the refresh, whatever the number of jobs and their  *)
(* arguments: in particular the cache keeps its primary key and getCounts  *)
(* only ever returns statistics with installable <= applicable <=          *)
(* installed.                                                              *)
(***************************************************************************)
THEOREM TypeCorrect == Spec => []TypeOK
BY TypeInit, TypeNext, PTL DEF Spec

-----------------------------------------------------------------------------
(* A valid cache is one snapshot                                           *)

(***************************************************************************)
(* How main uses the refresh: one process at a time, without an account.   *)
(***************************************************************************)
OneJob ==
    /\ \A i, j \in Jobs : i = j
    /\ AccIDs \subseteq {NoAcc}

LEMMA RefreshInit == Init => RefreshInv
<1> SUFFICES ASSUME Init PROVE RefreshInv
  OBVIOUS
<1>1. ListedInvalid /\ CacheIsSnapshot
  BY DEF Init, ListedInvalid, CacheIsSnapshot
<1>2. CurrentCounted /\ Upserted /\ OldDeleted
  BY DEF Init, CurrentCounted, Upserted, OldDeleted, InFlight
<1> QED
  BY <1>1, <1>2 DEF RefreshInv

\* A step that leaves cache rows and job alone, and marks no account valid.
LEMMA RefreshQuiet ==
    ASSUME TypeOK, RefreshInv,
           UNCHANGED <<package_account_data, pc, todo, cur, pkgSysCounts, snap>>,
           \A a \in Accounts : valid_package_cache'[a] => valid_package_cache[a]
    PROVE  RefreshInv'
<1>1. \A a : RowsOf(a)' = RowsOf(a)
  BY DEF RowsOf
<1>2. ListedInvalid'
  BY DEF RefreshInv, ListedInvalid, TypeOK
<1>3. CurrentCounted'
  BY DEF RefreshInv, CurrentCounted, InFlight
<1>4. Upserted' /\ OldDeleted'
  BY <1>1 DEF RefreshInv, Upserted, OldDeleted
<1>5. CacheIsSnapshot'
  BY <1>1 DEF RefreshInv, CacheIsSnapshot
<1> QED
  BY <1>2, <1>3, <1>4, <1>5 DEF RefreshInv

LEMMA RefreshWriter ==
    ASSUME TypeOK, RefreshInv, Writer
    PROVE  RefreshInv'
<1>1. UNCHANGED <<package_account_data, pc, todo, cur, pkgSysCounts, snap>>
  BY DEF Writer, mark_stale_systems, delete_system, Evaluate, SyncHosts, Write
<1>2. ASSUME NEW a \in Accounts, valid_package_cache'[a]
      PROVE  valid_package_cache[a]
  <2>1. CASE Evaluate
    <3>1. PICK b : valid_package_cache' =
                     [valid_package_cache EXCEPT ![b] = FALSE]
      BY <2>1 DEF Evaluate
    <3> QED
      BY <1>2, <3>1 DEF TypeOK
  <2>2. CASE UNCHANGED valid_package_cache
    BY <1>2, <2>2
  <2> QED
    BY <2>1, <2>2 DEF Writer, mark_stale_systems, delete_system, SyncHosts
<1> QED
  BY <1>1, <1>2, RefreshQuiet

(***************************************************************************)
(* A step of the job to the head of its loop, or out of it: nothing is in  *)
(* flight any more.                                                        *)
(***************************************************************************)
LEMMA RefreshLeave ==
    ASSUME OneJob, TypeOK, RefreshInv, NEW j \in Jobs,
           pc'[j] \in {"idle", "crashed", "list", "loop"},
           ListedInvalid', CacheIsSnapshot'
    PROVE  RefreshInv'
<1>1. \A i \in Jobs : pc'[i] \in {"idle", "crashed", "list", "loop"}
  BY DEF OneJob
<1>2. CurrentCounted' /\ Upserted' /\ OldDeleted'
  BY <1>1 DEF CurrentCounted, Upserted, OldDeleted, InFlight
<1> QED
  BY <1>2 DEF RefreshInv

LEMMA RefreshJob ==
    ASSUME OneJob, TypeOK, RefreshInv, NEW j \in Jobs,
           RefreshPackagesCaches(j) \/ JobStep(j) \/ Crash(j)
    PROVE  RefreshInv'
<1>0. \A i \in Jobs : i = j
  BY DEF OneJob
<1>1. CASE RefreshPackagesCaches(j)
  <2>1. Goto(j, "list") /\ UNCHANGED <<todo, cache, snap>>
    BY <1>1 DEF RefreshPackagesCaches, OneJob
  <2>2. pc'[j] = "list" /\ todo[j] = {}
    BY <1>1, <2>1
    DEF Goto, TypeOK, RefreshPackagesCaches, Running, RefreshInv, ListedInvalid
  <2>3. ListedInvalid'
    BY <1>0, <2>1, <2>2 DEF ListedInvalid
  <2>4. CacheIsSnapshot'
    BY <2>1 DEF RefreshInv, CacheIsSnapshot, RowsOf, cache
  <2> QED
    BY <2>2, <2>3, <2>4, RefreshLeave
<1>2. CASE accountsWithoutCache(j)
  <2>1. /\ \/ /\ todo'[j] = { a \in Accounts : ~valid_package_cache[a] }
              /\ pc'[j] = "loop"
           \/ todo'[j] = todo[j] /\ pc'[j] = "idle"
        /\ todo[j] = {}
        /\ UNCHANGED <<cache, snap>>
    BY <1>2 DEF accountsWithoutCache, Goto, TypeOK, RefreshInv, ListedInvalid
  <2>2. ListedInvalid'
    BY <1>0, <2>1 DEF ListedInvalid, cache
  <2>3. CacheIsSnapshot'
    BY <2>1 DEF RefreshInv, CacheIsSnapshot, RowsOf, cache
  <2> QED
    BY <2>1, <2>2, <2>3, RefreshLeave
<1>3. CASE getCounts(j)
  <2>1. PICK a \in todo[j] :
          /\ cur' = [cur EXCEPT ![j] = a]
          /\ todo' = [todo EXCEPT ![j] = @ \ {a}]
          /\ \/ /\ pkgSysCounts' = [pkgSysCounts EXCEPT ![j] = Counts(a)]
                /\ snap' = [snap EXCEPT ![a] = Counts(a)]
                /\ Goto(j, "upsert")
             \/ /\ Goto(j, "loop")
                /\ UNCHANGED snap
    BY <1>3 DEF getCounts, RefreshFailed, TypeOK
  <2>2. UNCHANGED <<counted, cache>>
    BY <1>3 DEF getCounts
  <2>3. a \in Accounts /\ ~valid_package_cache[a] /\ cur'[j] = a
    BY <2>1 DEF TypeOK, RefreshInv, ListedInvalid
  <2>4. \A b : RowsOf(b)' = RowsOf(b)
    BY <2>2 DEF RowsOf, cache
  <2>5. pc[j] = "loop" /\ pc'[j] \in {"loop", "upsert"}
    BY <1>3, <2>1 DEF getCounts, Goto, TypeOK
  <2>6. ListedInvalid'
    BY <1>0, <2>1, <2>2, <2>5 DEF RefreshInv, ListedInvalid, cache, TypeOK
  <2>7. \A b \in Accounts : b # a => snap'[b] = snap[b]
    BY <2>1 DEF TypeOK
  <2>8. CacheIsSnapshot'
    BY <2>2, <2>3, <2>4, <2>7 DEF RefreshInv, CacheIsSnapshot, cache
  <2>9. CASE pc'[j] = "loop"
    BY <2>6, <2>8, <2>9, RefreshLeave
  <2>10. CASE pc'[j] = "upsert"
    <3>1. pkgSysCounts'[j] = Counts(a) /\ snap'[a] = Counts(a)
      BY <2>1, <2>3, <2>10 DEF Goto, TypeOK
    <3>2. \A r \in Counts(a) : r.AccID = a
      BY <2>3, CountsTyped DEF TypeOK
    <3>3. a \notin todo'[j]
      BY <2>1 DEF TypeOK
    <3>4. CurrentCounted'
      BY <1>0, <2>2, <2>3, <3>1, <3>2, <3>3 DEF CurrentCounted, cache
    <3>5. Upserted' /\ OldDeleted'
      BY <1>0, <2>10 DEF Upserted, OldDeleted
    <3> QED
      BY <2>6, <2>8, <3>4, <3>5 DEF RefreshInv
  <2> QED
    BY <2>5, <2>9, <2>10
<1>4. CASE updatePackageAccountData(j)
  <2> DEFINE a == cur[j]
             C == pkgSysCounts[j]
  <2>1. /\ package_account_data' \in
             {package_account_data, UnnestInsert(package_account_data, C)}
        /\ \/ /\ package_account_data' = UnnestInsert(package_account_data, C)
              /\ pc'[j] = "delete" /\ todo' = todo
           \/ pc'[j] = "loop" /\ todo' = [todo EXCEPT ![j] = @ \ {a}]
        /\ UNCHANGED <<cur, valid_package_cache, pkgSysCounts, snap>>
    BY <1>4
    DEF updatePackageAccountData, RefreshFailed, Goto, TypeOK, TxOutcomes
  <2>2. /\ a \in Accounts \ todo[j]
        /\ ~valid_package_cache[a]
        /\ C = snap[a]
        /\ \A r \in C : r.AccID = a
    BY <1>4
    DEF updatePackageAccountData, RefreshInv, CurrentCounted, InFlight
  <2>3. \A b : b # a => RowsOf(b)' = RowsOf(b)
    BY <2>1, <2>2 DEF RowsOf, UnnestInsert, CacheKey
  <2>4. ListedInvalid'
    <3>1. todo'[j] \subseteq todo[j]
      BY <2>1 DEF TypeOK
    <3>2. pc'[j] \notin {"idle", "crashed", "list"}
      BY <2>1
    <3> QED
      BY <1>0, <2>1, <3>1, <3>2 DEF RefreshInv, ListedInvalid
  <2>5. CacheIsSnapshot'
    BY <2>1, <2>2, <2>3 DEF RefreshInv, CacheIsSnapshot
  <2>6. CASE pc'[j] = "loop"
    BY <2>4, <2>5, <2>6, RefreshLeave
  <2>7. CASE pc'[j] = "delete"
    <3>1. CurrentCounted'
      BY <1>0, <2>1, <2>2, <2>7 DEF CurrentCounted
    <3>2. Upserted'
      BY <1>0, <2>1, <2>2, <2>7 DEF Upserted, RowsOf, UnnestInsert
    <3>3. OldDeleted'
      BY <1>0, <2>7 DEF OldDeleted
    <3> QED
      BY <2>4, <2>5, <3>1, <3>2, <3>3 DEF RefreshInv
  <2> QED
    BY <2>1, <2>6, <2>7
<1>5. CASE deleteOldCache(j)
  <2> DEFINE a == cur[j]
             C == pkgSysCounts[j]
  <2>1. /\ package_account_data' \in
             {package_account_data, DeleteOld(package_account_data, C, a)}
        /\ \/ /\ package_account_data' = DeleteOld(package_account_data, C, a)
              /\ pc'[j] = "validate" /\ todo' = todo
           \/ pc'[j] = "loop" /\ todo' = [todo EXCEPT ![j] = @ \ {a}]
        /\ UNCHANGED <<cur, valid_package_cache, pkgSysCounts, snap>>
    BY <1>5 DEF deleteOldCache, RefreshFailed, Goto, TypeOK, TxOutcomes
  <2>2. /\ a \in Accounts \ todo[j]
        /\ ~valid_package_cache[a]
        /\ C = snap[a]
        /\ \A r \in C : r.AccID = a
    BY <1>5 DEF deleteOldCache, RefreshInv, CurrentCounted, InFlight
  <2>3. \A b : b # a => RowsOf(b)' = RowsOf(b)
    BY <2>1 DEF RowsOf, DeleteOld
  <2>4. ListedInvalid'
    <3>1. todo'[j] \subseteq todo[j]
      BY <2>1 DEF TypeOK
    <3>2. pc'[j] \notin {"idle", "crashed", "list"}
      BY <2>1
    <3> QED
      BY <1>0, <2>1, <3>1, <3>2 DEF RefreshInv, ListedInvalid
  <2>5. CacheIsSnapshot'
    BY <2>1, <2>2, <2>3 DEF RefreshInv, CacheIsSnapshot
  <2>6. CASE pc'[j] = "loop"
    BY <2>4, <2>5, <2>6, RefreshLeave
  <2>7. CASE pc'[j] = "validate"
    <3>1. CurrentCounted'
      BY <1>0, <2>1, <2>2, <2>7 DEF CurrentCounted
    <3>2. OldDeleted'
      <4>1. C \subseteq RowsOf(a)
        BY <1>5 DEF deleteOldCache, RefreshInv, Upserted
      <4>2. ASSUME C # {} PROVE RowsOf(a)' = C
        <5>1. package_account_data' = DeleteOld(package_account_data, C, a)
          BY <2>1, <2>7
        <5>2. ASSUME NEW r \in C PROVE r \in RowsOf(a)'
          BY <2>1, <2>2, <4>1, <5>1 DEF RowsOf, DeleteOld, NotIn
        <5>3. ASSUME NEW r \in RowsOf(a)' PROVE r \in C
          <6>1. PICK c \in C : CacheKey(r) = CacheKey(c)
            BY <2>1, <4>2, <5>1 DEF RowsOf, DeleteOld, NotIn
          <6>2. c \in package_account_data /\ r \in package_account_data
            BY <4>1, <5>1 DEF RowsOf, DeleteOld
          <6> QED
            BY <6>1, <6>2 DEF TypeOK, UniqueKeys
        <5> QED
          BY <5>2, <5>3
      <4> QED
        BY <1>0, <2>1, <2>2, <4>2 DEF OldDeleted
    <3>3. Upserted'
      BY <1>0, <2>7 DEF Upserted
    <3> QED
      BY <2>4, <2>5, <3>1, <3>2, <3>3 DEF RefreshInv
  <2> QED
    BY <2>1, <2>6, <2>7
<1>6. CASE updatePkgCacheValidity(j)
  <2> DEFINE a == cur[j]
  <2>1. /\ valid_package_cache' \in
             {valid_package_cache, [valid_package_cache EXCEPT ![a] = TRUE]}
        /\ pc'[j] = "loop"
        /\ todo' = todo \/ todo' = [todo EXCEPT ![j] = @ \ {a}]
        /\ UNCHANGED <<package_account_data, snap>>
    BY <1>6
    DEF updatePkgCacheValidity, RefreshFailed, Goto, TypeOK, TxOutcomes
  <2>2. /\ a \in Accounts \ todo[j]
        /\ RowsOf(a) = snap[a] \/ snap[a] = {}
    BY <1>6 DEF updatePkgCacheValidity, RefreshInv, CurrentCounted, InFlight,
                OldDeleted
  <2>3. ListedInvalid'
    <3>1. todo'[j] \subseteq todo[j]
      <4>1. todo \in [Jobs -> SUBSET Accounts]
        BY DEF TypeOK
      <4>2. todo' = todo \/ todo' = [todo EXCEPT ![j] = @ \ {a}]
        BY <2>1
      <4> QED
        BY ONLY <4>1, <4>2, j \in Jobs
    <3>2. ASSUME NEW b \in todo[j] PROVE ~valid_package_cache'[b]
      <4>1. b # a /\ b \in Accounts /\ ~valid_package_cache[b]
        BY <2>2 DEF RefreshInv, ListedInvalid, TypeOK
      <4>2. valid_package_cache'[b] = valid_package_cache[b]
        BY <2>1, <4>1 DEF TypeOK
      <4> QED
        BY <4>1, <4>2
    <3> QED
      BY <1>0, <2>1, <3>1, <3>2 DEF ListedInvalid
  <2>4. \A b : RowsOf(b)' = RowsOf(b)
    BY <2>1 DEF RowsOf
  <2>5. CacheIsSnapshot'
    BY <2>1, <2>2, <2>4 DEF RefreshInv, CacheIsSnapshot, TypeOK
  <2> QED
    BY <2>1, <2>3, <2>5, RefreshLeave
<1>7. CASE Return(j) \/ Crash(j)
  <2>1. /\ pc'[j] \in {"idle", "crashed"}
        /\ todo'[j] = {}
        /\ UNCHANGED <<cache, snap>>
    BY <1>7 DEF Return, Crash, Goto, TypeOK
  <2>2. ListedInvalid'
    BY <1>0, <2>1 DEF ListedInvalid
  <2>3. CacheIsSnapshot'
    BY <2>1 DEF RefreshInv, CacheIsSnapshot, RowsOf, cache
  <2> QED
    BY <2>1, <2>2, <2>3, RefreshLeave
<1> QED
  BY <1>1, <1>2, <1>3, <1>4, <1>5, <1>6, <1>7 DEF JobStep

LEMMA RefreshNext ==
    ASSUME OneJob
    PROVE  TypeOK /\ RefreshInv /\ [Next]_vars => RefreshInv'
<1>1. TypeOK /\ RefreshInv /\ Next => RefreshInv'
  BY RefreshWriter, RefreshJob DEF Next
<1>2. TypeOK /\ RefreshInv /\ UNCHANGED vars => RefreshInv'
  BY RefreshQuiet DEF vars, cache
<1> QED
  BY <1>1, <1>2

(***************************************************************************)
(* The invariant behind the theorem below, which a run checks as well.     *)
(***************************************************************************)
THEOREM RefreshCorrect == OneJob => (Spec => []RefreshInv)
<1> SUFFICES ASSUME OneJob PROVE Spec => []RefreshInv
  OBVIOUS
<1>1. TypeOK /\ RefreshInv /\ [Next]_vars => RefreshInv'
  BY RefreshNext
<1> QED
  BY <1>1, RefreshInit, TypeCorrect, PTL DEF Spec

(***************************************************************************)
(* With one job at a time a valid cache is the result of one count,        *)
(* through failures, lost answers, crashes and concurrent writes.          *)
(***************************************************************************)
THEOREM SnapshotCorrect == OneJob => (Spec => []CacheIsSnapshot)
<1> SUFFICES ASSUME OneJob PROVE Spec => []CacheIsSnapshot
  OBVIOUS
<1>1. RefreshInv => CacheIsSnapshot
  BY DEF RefreshInv
<1>2. Spec => []RefreshInv
  BY RefreshCorrect
<1> QED
  BY <1>1, <1>2, PTL

-----------------------------------------------------------------------------
(* Any number of overlapping jobs                                          *)

\* What a job holds in memory belongs to the account it is refreshing.
OwnCounts ==
    \A j \in Jobs : InFlight(j) =>
        cur[j] \in Accounts /\ \A r \in pkgSysCounts[j] : r.AccID = cur[j]

LEMMA OwnNext == TypeOK /\ OwnCounts /\ [Next]_vars => OwnCounts'
<1> SUFFICES ASSUME TypeOK, OwnCounts, [Next]_vars,
                    NEW i \in Jobs, InFlight(i)'
             PROVE  (cur[i] \in Accounts
                      /\ \A r \in pkgSysCounts[i] : r.AccID = cur[i])'
  BY DEF OwnCounts
<1>1. CASE pc'[i] = pc[i] /\ cur'[i] = cur[i] /\ pkgSysCounts'[i] = pkgSysCounts[i]
  BY <1>1 DEF OwnCounts, InFlight
<1>2. ASSUME NEW j \in Jobs, RefreshPackagesCaches(j) \/ JobStep(j) \/ Crash(j)
      PROVE  (cur[i] \in Accounts
               /\ \A r \in pkgSysCounts[i] : r.AccID = cur[i])'
  <2>1. CASE getCounts(j)
    <3>1. PICK a \in todo[j] :
            /\ cur' = [cur EXCEPT ![j] = a]
            /\ \/ /\ pkgSysCounts' = [pkgSysCounts EXCEPT ![j] = Counts(a)]
                  /\ Goto(j, "upsert")
               \/ Goto(j, "loop") /\ UNCHANGED pkgSysCounts
      BY <2>1 DEF getCounts, RefreshFailed
    <3>2. a \in Accounts /\ \A r \in Counts(a) : r.AccID = a
      BY CountsTyped DEF TypeOK
    <3>3. CASE i = j
      BY <3>1, <3>2, <3>3 DEF TypeOK, Goto, InFlight
    <3>4. CASE i # j
      BY <3>1, <3>4, <1>1 DEF TypeOK, Goto
    <3> QED
      BY <3>3, <3>4
  <2>2. CASE \/ RefreshPackagesCaches(j) \/ accountsWithoutCache(j)
             \/ Return(j) \/ Crash(j)
    <3>1. /\ UNCHANGED <<cur, pkgSysCounts>>
          /\ \/ Goto(j, "list") \/ Goto(j, "loop") \/ Goto(j, "idle")
             \/ Goto(j, "crashed")
      BY <2>2 DEF RefreshPackagesCaches, accountsWithoutCache, Return, Crash
    <3>2. i # j
      BY <3>1 DEF Goto, InFlight, TypeOK
    <3> QED
      BY <3>1, <3>2, <1>1 DEF Goto, TypeOK
  <2>3. CASE \/ updatePackageAccountData(j) \/ deleteOldCache(j)
             \/ updatePkgCacheValidity(j)
    <3>1. /\ UNCHANGED <<cur, pkgSysCounts>>
          /\ InFlight(j)
          /\ Goto(j, "loop") \/ Goto(j, "delete") \/ Goto(j, "validate")
      BY <2>3 DEF updatePackageAccountData, deleteOldCache,
                  updatePkgCacheValidity, InFlight, RefreshFailed
    <3>2. InFlight(i)
      BY <3>1 DEF Goto, InFlight, TypeOK
    <3> QED
      BY <3>1, <3>2 DEF OwnCounts
  <2> QED
    BY <1>2, <2>1, <2>2, <2>3 DEF JobStep
<1>3. CASE Writer
  BY <1>1, <1>3
  DEF Writer, mark_stale_systems, delete_system, Evaluate, SyncHosts, Write
<1>4. CASE UNCHANGED vars
  BY <1>1, <1>4 DEF vars
<1> QED
  BY <1>2, <1>3, <1>4 DEF Next

LEMMA OwnStep ==
    ASSUME TypeOK, OwnCounts, [Next]_vars, NEW a \in Accounts,
           \/ RowsOf(a)' # RowsOf(a)
           \/ valid_package_cache'[a] /\ ~valid_package_cache[a]
    PROVE  \E j \in Jobs :
             cur[j] = a /\ pc[j] \in {"upsert", "delete", "validate"}
<1>1. ASSUME NEW j \in Jobs, JobStep(j)
      PROVE  \E i \in Jobs :
               cur[i] = a /\ pc[i] \in {"upsert", "delete", "validate"}
  <2>1. CASE updatePackageAccountData(j)
    <3>1. /\ pc[j] = "upsert"
          /\ package_account_data' \in
               {package_account_data,
                UnnestInsert(package_account_data, pkgSysCounts[j])}
          /\ UNCHANGED valid_package_cache
      BY <2>1 DEF updatePackageAccountData
    <3>2. \A r \in pkgSysCounts[j] : r.AccID = cur[j]
      BY <3>1 DEF OwnCounts, InFlight
    <3>3. cur[j] = a
      BY <3>1, <3>2 DEF RowsOf, UnnestInsert, CacheKey
    <3> QED
      BY <3>1, <3>3
  <2>2. CASE deleteOldCache(j)
    <3>1. /\ pc[j] = "delete"
          /\ package_account_data' \in
               {package_account_data,
                DeleteOld(package_account_data, pkgSysCounts[j], cur[j])}
          /\ UNCHANGED valid_package_cache
      BY <2>2 DEF deleteOldCache
    <3>2. cur[j] = a
      BY <3>1 DEF RowsOf, DeleteOld
    <3> QED
      BY <3>1, <3>2
  <2>3. CASE updatePkgCacheValidity(j)
    <3>1. /\ pc[j] = "validate"
          /\ valid_package_cache' \in
               {valid_package_cache,
                [valid_package_cache EXCEPT ![cur[j]] = TRUE]}
          /\ UNCHANGED package_account_data
      BY <2>3 DEF updatePkgCacheValidity
    <3>2. cur[j] = a
      BY <3>1 DEF RowsOf, TypeOK
    <3> QED
      BY <3>1, <3>2
  <2> QED
    BY <1>1, <2>1, <2>2, <2>3
    DEF JobStep, accountsWithoutCache, getCounts, Return, cache, RowsOf
<1>2. ASSUME NEW j \in Jobs, RefreshPackagesCaches(j) \/ Crash(j)
      PROVE  FALSE
  BY <1>2 DEF RefreshPackagesCaches, Crash, cache, RowsOf
<1>3. CASE Writer
  <2>1. UNCHANGED package_account_data
    BY <1>3
    DEF Writer, mark_stale_systems, delete_system, Evaluate, SyncHosts, Write
  <2>2. valid_package_cache'[a] => valid_package_cache[a]
    <3>1. CASE Evaluate
      <4>1. PICK b : valid_package_cache' =
                       [valid_package_cache EXCEPT ![b] = FALSE]
        BY <3>1 DEF Evaluate
      <4> QED
        BY <4>1 DEF TypeOK
    <3> QED
      BY <1>3, <3>1 DEF Writer, mark_stale_systems, delete_system, SyncHosts
  <2> QED
    BY <2>1, <2>2 DEF RowsOf
<1>4. CASE UNCHANGED vars
  BY <1>4 DEF vars, cache, RowsOf
<1> QED
  BY <1>1, <1>2, <1>3, <1>4 DEF Next

(***************************************************************************)
(* However many jobs overlap and whatever they were started for, the cache *)
(* of an account changes, or becomes valid, only under a job that is       *)
(* refreshing it: no refresh disturbs another account's cache.             *)
(***************************************************************************)
THEOREM OnlyOwnAccountCorrect == Spec => OnlyOwnAccount
<1> DEFINE Own(a) ==
             (RowsOf(a)' # RowsOf(a)
                \/ (valid_package_cache'[a] /\ ~valid_package_cache[a]))
             => \E j \in Jobs :
                  cur[j] = a /\ pc[j] \in {"upsert", "delete", "validate"}
<1>1. Init => OwnCounts
  BY DEF Init, OwnCounts, InFlight
<1>2. TypeOK /\ OwnCounts /\ [Next]_vars => [\A a \in Accounts : Own(a)]_vars
  BY OwnStep
<1> QED
  BY <1>1, <1>2, OwnNext, TypeCorrect, PTL DEF Spec, OnlyOwnAccount

(***************************************************************************)
(* With one job at a time the rows of a valid cache never change: only an  *)
(* account that is marked invalid is refreshed.                            *)
(***************************************************************************)
THEOREM ValidUntouchedCorrect == OneJob => (Spec => ValidUntouched)
<1> SUFFICES ASSUME OneJob PROVE Spec => ValidUntouched
  OBVIOUS
<1> DEFINE Kept(a) == valid_package_cache[a] /\ valid_package_cache'[a]
                        => RowsOf(a)' = RowsOf(a)
<1>1. Init => OwnCounts
  BY DEF Init, OwnCounts, InFlight
<1>2. TypeOK /\ OwnCounts /\ RefreshInv /\ [Next]_vars
        => [\A a \in Accounts : Kept(a)]_vars
  <2> SUFFICES ASSUME TypeOK, OwnCounts, RefreshInv, [Next]_vars,
                      NEW a \in Accounts, RowsOf(a)' # RowsOf(a)
               PROVE  ~valid_package_cache[a]
    OBVIOUS
  <2>1. PICK j \in Jobs : cur[j] = a /\ pc[j] \in {"upsert", "delete", "validate"}
    BY OwnStep
  <2> QED
    BY <2>1 DEF RefreshInv, CurrentCounted, InFlight
<1>3. Spec => []RefreshInv
  BY RefreshCorrect
<1> QED
  BY <1>1, <1>2, <1>3, OwnNext, TypeCorrect, PTL DEF Spec, ValidUntouched

-----------------------------------------------------------------------------
(* The loop over the accounts: what of its liveness is a matter of steps   *)

\* A job that is not in its loop has no list.
NoList ==
    \A j \in Jobs : pc[j] \in {"idle", "crashed", "list"} => todo[j] = {}

\* The other jobs stay where they are.
LEMMA OthersStay ==
    ASSUME TypeOK, NEW j \in Jobs, NEW i \in Jobs, i # j,
           RefreshPackagesCaches(j) \/ JobStep(j) \/ Crash(j)
    PROVE  UNCHANGED <<pc[i], todo[i], cur[i]>>
<1>1. \/ UNCHANGED cur
      \/ \E a : cur' = [cur EXCEPT ![j] = a]
  BY DEF JobStep, RefreshPackagesCaches, Crash, accountsWithoutCache, getCounts,
         updatePackageAccountData, deleteOldCache, updatePkgCacheValidity, Return
<1>2. \/ UNCHANGED todo
      \/ \E t : todo' = [todo EXCEPT ![j] = t]
  BY DEF JobStep, RefreshPackagesCaches, Crash, accountsWithoutCache, getCounts,
         updatePackageAccountData, deleteOldCache, updatePkgCacheValidity, Return,
         RefreshFailed
<1>3. \E l : pc' = [pc EXCEPT ![j] = l]
  BY DEF JobStep, RefreshPackagesCaches, Crash, accountsWithoutCache, getCounts,
         updatePackageAccountData, deleteOldCache, updatePkgCacheValidity, Return,
         RefreshFailed, Goto
<1> QED
  BY <1>1, <1>2, <1>3 DEF TypeOK

\* The writers leave every job where it is.
LEMMA WritersStay == Writer \/ UNCHANGED vars => UNCHANGED <<pc, todo, cur, log>>
BY DEF Writer, mark_stale_systems, delete_system, Evaluate, SyncHosts, Write, vars

\* The error path is the same for all calls of the loop.
LEMMA FailedMoves ==
    ASSUME TypeOK, NEW j \in Jobs, NEW a \in Accounts, cur'[j] = a,
           RefreshFailed(j)
    PROVE  /\ pc'[j] = "loop"
           /\ todo'[j] = todo[j] \ {a}
           /\ log'[j][a] # ""
BY DEF RefreshFailed, Goto, Logged, TypeOK

\* Where the calls of the loop can lead.
LEMMA LoopMoves ==
    ASSUME TypeOK, OwnCounts, NEW j \in Jobs,
           \/ getCounts(j) \/ updatePackageAccountData(j) \/ deleteOldCache(j)
           \/ updatePkgCacheValidity(j)
    PROVE  \/ /\ pc[j] = "loop" /\ pc'[j] = "upsert"
              /\ cur'[j] \in todo[j] /\ todo'[j] = todo[j] \ {cur'[j]}
           \/ /\ pc[j] = "loop" /\ pc'[j] = "loop"
              /\ cur'[j] \in todo[j] /\ todo'[j] = todo[j] \ {cur'[j]}
              /\ log'[j][cur'[j]] # ""
           \/ /\ <<pc[j], pc'[j]>> \in {<<"upsert", "delete">>,
                                        <<"delete", "validate">>}
              /\ UNCHANGED <<todo, cur>>
           \/ /\ InFlight(j) /\ pc'[j] = "loop" /\ UNCHANGED cur
              /\ todo'[j] \in {todo[j], todo[j] \ {cur[j]}}
              /\ log'[j][cur[j]] # ""
<1>1. CASE getCounts(j)
  <2>1. PICK a \in todo[j] :
          /\ cur' = [cur EXCEPT ![j] = a]
          /\ \/ /\ todo' = [todo EXCEPT ![j] = @ \ {a}]
                /\ Goto(j, "upsert")
             \/ RefreshFailed(j)
    BY <1>1 DEF getCounts
  <2>2. a \in Accounts /\ cur'[j] = a /\ pc[j] = "loop"
    BY <1>1, <2>1 DEF TypeOK, getCounts
  <2>3. CASE RefreshFailed(j)
    <3>1. pc'[j] = "loop" /\ todo'[j] = todo[j] \ {a} /\ log'[j][a] # ""
      BY <2>2, <2>3, FailedMoves
    <3> QED
      BY <2>1, <2>2, <3>1
  <2>4. CASE todo' = [todo EXCEPT ![j] = @ \ {a}] /\ Goto(j, "upsert")
    BY <2>1, <2>2, <2>4 DEF TypeOK, Goto
  <2> QED
    BY <2>1, <2>3, <2>4
<1>2. CASE \/ updatePackageAccountData(j) \/ deleteOldCache(j)
           \/ updatePkgCacheValidity(j)
  <2>1. /\ InFlight(j)
        /\ UNCHANGED cur
        /\ \/ RefreshFailed(j)
           \/ /\ pc[j] = "upsert" /\ Goto(j, "delete") /\ UNCHANGED todo
           \/ /\ pc[j] = "delete" /\ Goto(j, "validate") /\ UNCHANGED todo
           \/ /\ pc[j] = "validate" /\ Goto(j, "loop") /\ UNCHANGED todo
              /\ Logged(j, cur[j], "Cache refreshed")
    BY <1>2 DEF updatePackageAccountData, deleteOldCache,
                updatePkgCacheValidity, InFlight
  <2>2. cur[j] \in Accounts /\ cur'[j] = cur[j]
    BY <2>1 DEF OwnCounts
  <2>3. CASE RefreshFailed(j)
    BY <2>1, <2>2, <2>3, FailedMoves
  <2>4. CASE Logged(j, cur[j], "Cache refreshed") /\ Goto(j, "loop")
             /\ UNCHANGED todo
    BY <2>1, <2>2, <2>4 DEF Logged, Goto, TypeOK
  <2>5. CASE /\ UNCHANGED todo
             /\ \/ pc[j] = "upsert" /\ Goto(j, "delete")
                \/ pc[j] = "delete" /\ Goto(j, "validate")
    BY <2>1, <2>5 DEF Goto, TypeOK
  <2> QED
    BY <2>1, <2>3, <2>4, <2>5
<1> QED
  BY <1>1, <1>2

LEMMA NoListNext == TypeOK /\ OwnCounts /\ NoList /\ [Next]_vars => NoList'
<1> SUFFICES ASSUME TypeOK, OwnCounts, NoList, [Next]_vars, NEW i \in Jobs,
                    pc'[i] \in {"idle", "crashed", "list"}
             PROVE  todo'[i] = {}
  BY DEF NoList
<1>1. CASE UNCHANGED <<pc[i], todo[i]>>
  BY <1>1 DEF NoList
<1>2. ASSUME NEW j \in Jobs, RefreshPackagesCaches(j) \/ JobStep(j) \/ Crash(j),
             j = i
      PROVE  todo'[i] = {}
  <2>1. CASE RefreshPackagesCaches(i)
    <3>1. todo[i] = {}
      BY <2>1 DEF RefreshPackagesCaches, Running, NoList
    <3>2. UNCHANGED todo \/ Goto(i, "loop")
      BY <2>1 DEF RefreshPackagesCaches
    <3> QED
      BY <3>1, <3>2 DEF Goto, TypeOK
  <2>2. CASE accountsWithoutCache(i)
    <3>1. /\ pc[i] = "list"
          /\ UNCHANGED todo \/ Goto(i, "loop")
      BY <2>2 DEF accountsWithoutCache
    <3> QED
      BY <3>1 DEF Goto, TypeOK, NoList
  <2>3. CASE Return(i)
    BY <2>3 DEF Return
  <2>4. CASE Crash(i)
    BY <2>4 DEF Crash, TypeOK
  <2>5. CASE \/ getCounts(i) \/ updatePackageAccountData(i)
             \/ deleteOldCache(i) \/ updatePkgCacheValidity(i)
    BY <2>5, LoopMoves
  <2> QED
    BY <1>2, <2>1, <2>2, <2>3, <2>4, <2>5 DEF JobStep
<1> QED
  BY <1>1, <1>2, OthersStay, WritersStay DEF Next

LEMMA NoneDroppedStep ==
    ASSUME TypeOK, OwnCounts, NoList, [Next]_vars, NEW i \in Jobs,
           pc'[i] # "crashed", NEW a \in Pending(i) \ Pending(i)'
    PROVE  log'[i][a] # ""
<1>1. CASE UNCHANGED <<pc[i], todo[i], cur[i]>>
  BY <1>1 DEF Pending, InFlight
<1>2. ASSUME NEW j \in Jobs, RefreshPackagesCaches(j) \/ JobStep(j) \/ Crash(j),
             j = i
      PROVE  log'[i][a] # ""
  <2>1. CASE \/ RefreshPackagesCaches(i) \/ accountsWithoutCache(i) \/ Return(i)
    <3>1. todo[i] = {} /\ ~InFlight(i)
      BY <2>1 DEF RefreshPackagesCaches, accountsWithoutCache, Return, NoList,
                  Running, InFlight
    <3> QED
      BY <3>1 DEF Pending
  <2>2. CASE Crash(i)
    BY <2>2 DEF Crash, Goto, TypeOK
  <2>3. CASE \/ getCounts(i) \/ updatePackageAccountData(i)
             \/ deleteOldCache(i) \/ updatePkgCacheValidity(i)
    BY <2>3, LoopMoves DEF Pending, InFlight
  <2> QED
    BY <1>2, <2>1, <2>2, <2>3 DEF JobStep
<1> QED
  BY <1>1, <1>2, OthersStay, WritersStay DEF Next

LEMMA AdvanceStep ==
    ASSUME TypeOK, OwnCounts, NEW j \in Jobs, JobStep(j)
    PROVE  Nearer(j) /\ pc'[j] # "list"
<1> DEFINE left(l) == StepsLeft[l]
<1>0. /\ left("upsert") = 4 /\ left("delete") = 3 /\ left("validate") = 2
      /\ left("loop") = 1 /\ left("idle") = 0
  BY DEF StepsLeft
<1>. Nearer(j) <=>
       \/ pc[j] = "list"
       \/ todo'[j] \subseteq todo[j] /\ todo'[j] # todo[j]
       \/ todo'[j] = todo[j] /\ left(pc'[j]) < left(pc[j])
  BY DEF Nearer
<1> HIDE DEF left
<1>1. CASE accountsWithoutCache(j)
  BY <1>1 DEF accountsWithoutCache, Goto, TypeOK
<1>2. CASE Return(j)
  <2>1. pc[j] = "loop" /\ pc'[j] = "idle" /\ UNCHANGED todo
    BY <1>2 DEF Return, Goto, TypeOK
  <2> QED
    BY <1>0, <2>1
<1>3. CASE \/ getCounts(j) \/ updatePackageAccountData(j)
           \/ deleteOldCache(j) \/ updatePkgCacheValidity(j)
  <2>1. pc'[j] \in {"upsert", "delete", "validate", "loop"}
    BY <1>3, LoopMoves
  <2>2. \/ \E a \in todo[j] : todo'[j] = todo[j] \ {a}
        \/ /\ <<pc[j], pc'[j]>> \in {<<"upsert", "delete">>,
                                     <<"delete", "validate">>}
           /\ todo'[j] = todo[j]
        \/ /\ pc[j] \in {"upsert", "delete", "validate"} /\ pc'[j] = "loop"
           /\ todo'[j] = todo[j] \/ todo'[j] = todo[j] \ {cur[j]}
    BY <1>3, LoopMoves DEF InFlight
  <2>3. ASSUME NEW a \in todo[j], todo'[j] = todo[j] \ {a}
        PROVE  Nearer(j)
    BY <2>3
  <2>4. CASE /\ <<pc[j], pc'[j]>> \in {<<"upsert", "delete">>,
                                       <<"delete", "validate">>}
             /\ todo'[j] = todo[j]
    BY <1>0, <2>4
  <2>5. CASE /\ pc[j] \in {"upsert", "delete", "validate"} /\ pc'[j] = "loop"
             /\ todo'[j] = todo[j] \/ todo'[j] = todo[j] \ {cur[j]}
    BY <1>0, <2>5
  <2> QED
    BY <2>1, <2>2, <2>3, <2>4, <2>5
<1> QED
  BY <1>1, <1>2, <1>3 DEF JobStep

(***************************************************************************)
(* However many jobs overlap, an account that a job has listed or is       *)
(* working on stays so until a line about it is logged, unless the process *)
(* dies: with JobAdvances, what AllAttempted owes to the code.             *)
(***************************************************************************)
THEOREM NoneDroppedCorrect == Spec => NoneDropped
<1> DEFINE Kept(j) == pc'[j] # "crashed" =>
             \A a \in Pending(j) \ Pending(j)' : log'[j][a] # ""
<1>1. Init => OwnCounts /\ NoList
  BY DEF Init, OwnCounts, NoList, InFlight
<1>2. TypeOK /\ OwnCounts /\ NoList /\ [Next]_vars
        => [\A j \in Jobs : Kept(j)]_vars
  BY NoneDroppedStep
<1> QED
  BY <1>1, <1>2, OwnNext, NoListNext, TypeCorrect, PTL DEF Spec, NoneDropped

(***************************************************************************)
(* Every step of a job brings it nearer to its end, through any failures   *)
(* and beside any other jobs: what JobReturns owes to the code.            *)
(***************************************************************************)
THEOREM AdvancesCorrect == Spec => JobAdvances
<1> DEFINE Advances(j) == JobStep(j) => Nearer(j) /\ pc'[j] # "list"
<1>1. Init => OwnCounts
  BY DEF Init, OwnCounts, InFlight
<1>2. TypeOK /\ OwnCounts => [\A j \in Jobs : Advances(j)]_vars
  BY AdvanceStep
<1> QED
  BY <1>1, <1>2, OwnNext, TypeCorrect, PTL DEF Spec, JobAdvances

-----------------------------------------------------------------------------
(* Overlapping jobs on quiescent tables                                    *)

Exact(a) == RowsOf(a) = Counts(a) \/ Counts(a) = {}

(***************************************************************************)
(* As long as nothing was written, every job in flight holds the current   *)
(* counts; they are in the cache once it has upserted them and alone there *)
(* once it has deleted.                                                    *)
(***************************************************************************)
QuietInv ==
    writes = 0 =>
        /\ \A j \in Jobs :
             /\ InFlight(j) => /\ cur[j] \in Accounts
                               /\ pkgSysCounts[j] = Counts(cur[j])
             /\ pc[j] = "delete" =>
                  Counts(cur[j]) \subseteq package_account_data
             /\ pc[j] = "validate" => Exact(cur[j])
        /\ \A a \in Accounts : valid_package_cache[a] => Exact(a)

LEMMA CountsUnchanged ==
    ASSUME UNCHANGED counted PROVE \A a : Counts(a)' = Counts(a)
BY DEF counted, Counts

(***************************************************************************)
(* The statements of one job only bring other accounts, and the parts of   *)
(* its own that other jobs have done, closer to the current counts.        *)
(***************************************************************************)
LEMMA QuietRows ==
    ASSUME TypeOK, UNCHANGED counted, NEW a \in Accounts, NEW b \in Accounts,
           package_account_data' \in
             {package_account_data,
              UnnestInsert(package_account_data, Counts(a)),
              DeleteOld(package_account_data, Counts(a), a)}
    PROVE  /\ Counts(b) \subseteq package_account_data
                => Counts(b)' \subseteq package_account_data'
           /\ Exact(b) => Exact(b)'
<1>1. Counts(b)' = Counts(b)
  BY CountsUnchanged
<1>2. /\ \A r \in Counts(a) : r.AccID = a
      /\ \A r \in Counts(b) : r.AccID = b
      /\ UniqueKeys(Counts(b))
  BY CountsTyped DEF TypeOK
<1>3. ASSUME Counts(b) \subseteq package_account_data
      PROVE  Counts(b)' \subseteq package_account_data'
  <2>1. ASSUME NEW r \in Counts(b)
        PROVE  r \in package_account_data'
    <3>1. r \in package_account_data /\ r.AccID = b
      BY <1>2, <1>3
    <3>2. r \in UnnestInsert(package_account_data, Counts(a))
      <4>1. CASE a = b
        BY <2>1, <4>1 DEF UnnestInsert
      <4>2. CASE a # b
        BY <1>2, <3>1, <4>2 DEF UnnestInsert, CacheKey
      <4> QED
        BY <4>1, <4>2
    <3>3. r \in DeleteOld(package_account_data, Counts(a), a)
      BY <2>1, <3>1 DEF DeleteOld, NotIn
    <3> QED
      BY <3>1, <3>2, <3>3
  <2> QED
    BY <1>1, <2>1
<1>4. ASSUME Exact(b), Counts(b) # {}
      PROVE  Exact(b)'
  <2>1. RowsOf(b) = Counts(b)
    BY <1>4 DEF Exact
  <2>2. Counts(b) \subseteq RowsOf(b)'
    BY <1>1, <1>2, <1>3, <2>1 DEF RowsOf
  <2>3. ASSUME NEW r \in RowsOf(b)' PROVE r \in Counts(b)
    <3>1. r \in package_account_data \/ r \in Counts(a)
      BY DEF RowsOf, UnnestInsert, DeleteOld
    <3>2. r.AccID = b
      BY DEF RowsOf
    <3> QED
      BY <1>2, <2>1, <3>1, <3>2 DEF RowsOf
  <2> QED
    BY <1>1, <2>2, <2>3 DEF Exact
<1> QED
  BY <1>1, <1>3, <1>4 DEF Exact

LEMMA QuietNext == TypeOK /\ QuietInv /\ [Next]_vars => QuietInv'
<1> SUFFICES ASSUME TypeOK, QuietInv, [Next]_vars, writes' = 0
             PROVE  QuietInv'
  BY DEF QuietInv
<1>1. /\ writes = 0
      /\ UNCHANGED counted
      /\ ~Writer
  <2>1. ~Writer
    <3>1. Writer => Write
      BY DEF Writer, mark_stale_systems, delete_system, Evaluate, SyncHosts
    <3>2. writes' = writes + 1 => FALSE
      <4>1. writes \in Nat
        BY DEF TypeOK
      <4> QED
        BY ONLY <4>1, writes' = 0
    <3> QED
      BY <3>1, <3>2 DEF Write
  <2> QED
    BY <2>1 DEF Next, vars, RefreshPackagesCaches, JobStep, Crash,
        accountsWithoutCache, getCounts, updatePackageAccountData,
        deleteOldCache, updatePkgCacheValidity, Return
<1>2. \A a : Counts(a)' = Counts(a)
  BY <1>1, CountsUnchanged
<1>3. ASSUME UNCHANGED vars PROVE QuietInv'
  <2>1. \A a : Exact(a)' = Exact(a)
    BY <1>2, <1>3 DEF vars, cache, Exact, RowsOf
  <2> QED
    BY <1>2, <1>3, <2>1 DEF QuietInv, vars, cache, InFlight
<1>4. ASSUME NEW j \in Jobs, RefreshPackagesCaches(j) \/ JobStep(j) \/ Crash(j)
      PROVE  QuietInv'
  <2>1. InFlight(j) => cur[j] \in Accounts /\ pkgSysCounts[j] = Counts(cur[j])
    BY <1>1 DEF QuietInv
  <2>2. \/ UNCHANGED package_account_data
        \/ /\ InFlight(j)
           /\ package_account_data' \in
                {package_account_data,
                 UnnestInsert(package_account_data, Counts(cur[j])),
                 DeleteOld(package_account_data, Counts(cur[j]), cur[j])}
    BY <1>4, <2>1 DEF JobStep, RefreshPackagesCaches, Crash,
        accountsWithoutCache, getCounts, updatePackageAccountData,
        deleteOldCache, updatePkgCacheValidity, Return, cache, InFlight
  <2>3. \A b \in Accounts :
          /\ Counts(b) \subseteq package_account_data
               => Counts(b) \subseteq package_account_data'
          /\ Exact(b) => Exact(b)'
    <3>1. CASE UNCHANGED package_account_data
      BY <1>2, <3>1 DEF Exact, RowsOf
    <3>2. CASE ~UNCHANGED package_account_data
      BY <1>1, <1>2, <2>1, <2>2, <3>2, QuietRows
    <3> QED
      BY <3>1, <3>2
  <2>4. \A i \in Jobs : i # j =>
          UNCHANGED <<pc[i], cur[i], pkgSysCounts[i]>>
    BY <1>4 DEF JobStep, RefreshPackagesCaches, Crash,
        accountsWithoutCache, getCounts, updatePackageAccountData,
        deleteOldCache, updatePkgCacheValidity, Return, RefreshFailed,
        Goto, TypeOK
  <2>5. /\ InFlight(j)' => /\ cur'[j] \in Accounts
                           /\ pkgSysCounts'[j] = Counts(cur'[j])
        /\ pc'[j] = "delete" => Counts(cur'[j]) \subseteq package_account_data'
        /\ pc'[j] = "validate" => Exact(cur[j])' /\ cur'[j] = cur[j]
        /\ \A a \in Accounts :
             valid_package_cache'[a] => valid_package_cache[a] \/ Exact(a)'
    <3>1. CASE \/ RefreshPackagesCaches(j) \/ accountsWithoutCache(j)
               \/ Return(j) \/ Crash(j)
      <4>1. /\ UNCHANGED valid_package_cache
            /\ \/ Goto(j, "list") \/ Goto(j, "loop") \/ Goto(j, "idle")
               \/ Goto(j, "crashed")
        BY <3>1 DEF RefreshPackagesCaches, accountsWithoutCache, Return, Crash,
                    cache
      <4> QED
        BY <4>1 DEF Goto, InFlight, TypeOK
    <3>2. CASE getCounts(j)
      <4>1. PICK a \in todo[j] :
              /\ cur' = [cur EXCEPT ![j] = a]
              /\ \/ /\ pkgSysCounts' = [pkgSysCounts EXCEPT ![j] = Counts(a)]
                    /\ Goto(j, "upsert")
                 \/ Goto(j, "loop")
        BY <3>2 DEF getCounts, RefreshFailed
      <4>2. UNCHANGED valid_package_cache
        BY <3>2 DEF getCounts, cache
      <4> QED
        BY <4>1, <4>2 DEF Goto, InFlight, TypeOK
    <3>3. CASE updatePackageAccountData(j)
      <4>1. /\ InFlight(j)
            /\ UNCHANGED <<cur, pkgSysCounts, valid_package_cache>>
            /\ \/ /\ package_account_data' =
                       UnnestInsert(package_account_data, pkgSysCounts[j])
                  /\ Goto(j, "delete")
               \/ Goto(j, "loop")
        BY <3>3 DEF updatePackageAccountData, InFlight, RefreshFailed,
                    TxOutcomes
      <4>2. pc'[j] = "delete" => Counts(cur[j]) \subseteq package_account_data'
        BY <2>1, <4>1 DEF Goto, TypeOK, UnnestInsert
      <4> QED
        BY <2>1, <4>1, <4>2 DEF Goto, InFlight, TypeOK
    <3>4. CASE deleteOldCache(j)
      <4> DEFINE a == cur[j]
      <4>1. /\ InFlight(j)
            /\ Counts(a) \subseteq package_account_data
            /\ UNCHANGED <<cur, pkgSysCounts, valid_package_cache>>
            /\ \/ /\ package_account_data' =
                       DeleteOld(package_account_data, pkgSysCounts[j], a)
                  /\ Goto(j, "validate")
               \/ Goto(j, "loop")
        BY <1>1, <3>4 DEF deleteOldCache, InFlight, RefreshFailed, TxOutcomes,
                          QuietInv
      <4>2. a \in Accounts /\ pkgSysCounts[j] = Counts(a)
        BY <2>1, <4>1
      <4>3. CASE Goto(j, "loop")
        BY <4>1, <4>3 DEF Goto, InFlight, TypeOK
      <4>4. ASSUME Counts(a) # {}, Goto(j, "validate"),
                   package_account_data' =
                     DeleteOld(package_account_data, pkgSysCounts[j], a)
            PROVE  RowsOf(a)' = Counts(a)
        <5>1. ASSUME NEW r \in Counts(a) PROVE r \in RowsOf(a)'
          <6>1. r \in package_account_data'
            BY <2>3, <4>1, <4>2
          <6>2. r.AccID = a /\ a' = a
            BY <4>1, <4>2, CountsTyped DEF TypeOK
          <6> QED
            BY <6>1, <6>2 DEF RowsOf
        <5>2. ASSUME NEW r \in RowsOf(a)' PROVE r \in Counts(a)
          <6>1. PICK c \in Counts(a) : CacheKey(r) = CacheKey(c)
            BY <4>1, <4>2, <4>4 DEF RowsOf, DeleteOld, NotIn
          <6>2. c \in package_account_data /\ r \in package_account_data
            BY <4>1, <4>4 DEF RowsOf, DeleteOld
          <6> QED
            BY <6>1, <6>2 DEF TypeOK, UniqueKeys
        <5> QED
          BY <5>1, <5>2
      <4>5. pc'[j] = "validate" => Exact(a)'
        BY <1>2, <4>1, <4>4 DEF Exact, Goto, TypeOK
      <4> QED
        BY <4>1, <4>2, <4>5 DEF Goto, InFlight, TypeOK
    <3>5. CASE updatePkgCacheValidity(j)
      <4> DEFINE a == cur[j]
      <4>1. /\ a \in Accounts
            /\ Exact(a)
            /\ Goto(j, "loop")
            /\ valid_package_cache' \in
                 {valid_package_cache,
                  [valid_package_cache EXCEPT ![a] = TRUE]}
        BY <1>1, <3>5 DEF updatePkgCacheValidity, InFlight, RefreshFailed,
                          QuietInv
      <4>2. Exact(a) /\ a' = a => Exact(a)'
        BY <2>3, <4>1
      <4>3. a' = a
        BY <3>5 DEF updatePkgCacheValidity
      <4> QED
        BY <4>1, <4>2, <4>3 DEF Goto, InFlight, TypeOK
    <3> QED
      BY <1>4, <3>1, <3>2, <3>3, <3>4, <3>5 DEF JobStep
  <2>6. ASSUME NEW i \in Jobs, i # j
        PROVE  /\ InFlight(i)' => /\ cur'[i] \in Accounts
                                  /\ pkgSysCounts'[i] = Counts(cur'[i])
               /\ pc'[i] = "delete" =>
                    Counts(cur'[i]) \subseteq package_account_data'
               /\ pc'[i] = "validate" => Exact(cur[i])'
    <3>1. UNCHANGED <<pc[i], cur[i], pkgSysCounts[i]>>
      BY <2>4, <2>6
    <3>2. pc[i] = "delete" => Counts(cur[i]) \subseteq package_account_data'
      BY <1>1, <2>3 DEF QuietInv, InFlight
    <3>3. pc[i] = "validate" => cur[i] \in Accounts /\ Exact(cur[i])
      BY <1>1 DEF QuietInv, InFlight
    <3>4. pc[i] = "validate" => Exact(cur[i])'
      <4>1. ASSUME NEW b \in Accounts, b = cur[i], Exact(b)
            PROVE  Exact(cur[i])'
        <5>1. Exact(b)'
          BY <2>3, <4>1
        <5>2. cur'[i] = b
          BY <3>1, <4>1
        <5> QED
          BY <5>1, <5>2 DEF Exact, RowsOf, Counts
      <4> QED
        BY <3>3, <4>1
    <3> QED
      BY <1>1, <3>1, <3>2, <3>4 DEF QuietInv, InFlight
  <2>7. \A a \in Accounts : valid_package_cache'[a] => Exact(a)'
    BY <1>1, <2>3, <2>5 DEF QuietInv
  <2> QED
    BY <1>2, <2>5, <2>6, <2>7 DEF QuietInv
<1> QED
  BY <1>1, <1>3, <1>4 DEF Next

(***************************************************************************)
(* However many refreshes overlap and whatever they were started for, as   *)
(* long as the counted tables do not change a valid cache is exact.        *)
(***************************************************************************)
THEOREM OverlapCorrect == Spec => []OverlapHarmless
<1>1. Init => QuietInv
  BY DEF Init, QuietInv, InFlight
<1>2. QuietInv => OverlapHarmless
  BY DEF QuietInv, OverlapHarmless, Exact
<1> QED
  BY <1>1, <1>2, QuietNext, TypeCorrect, PTL DEF Spec

-----------------------------------------------------------------------------
(* Overlapping jobs while the tables change                                *)

(***************************************************************************)
(* Why both hold: as long as nothing was written a job in flight holds     *)
(* the current counts, and as long as no other job stored rows of its      *)
(* account its own are in the table once it has upserted them, and alone   *)
(* there once it has deleted the others.                                   *)
(***************************************************************************)
Undisturbed ==
    \A j \in Jobs : InFlight(j) =>
        /\ "write" \notin beside[j] => pkgSysCounts[j] = Counts(cur[j])
        /\ "job" \notin beside[j] =>
             /\ pc[j] = "delete" => pkgSysCounts[j] \subseteq RowsOf(cur[j])
             /\ pc[j] = "validate" => \/ RowsOf(cur[j]) = pkgSysCounts[j]
                                     \/ pkgSysCounts[j] = {}

OverlapInv == HistoryOK /\ OwnCounts /\ Undisturbed /\ SettledExact

\* The histories only watch the steps of the refresh.
LEMMA OverlapRefines ==
    /\ OverlapInit => Init
    /\ [OverlapNext]_allVars => [Next]_vars
<1>1. OverlapNext => Next
  BY DEF OverlapNext, Next, Count, Store, Settle, Elsewhere, Change, JobStep
<1> QED
  BY <1>1 DEF OverlapInit, allVars

\* What a job stores are rows of its own account.
LEMMA StoreRows ==
    ASSUME TypeOK, OwnCounts, NEW j \in Jobs, Store(j)
    PROVE  /\ InFlight(j)
           /\ cur[j] \in Accounts
           /\ UNCHANGED <<counted, cur, pkgSysCounts>>
           /\ package_account_data' \in
                {package_account_data,
                 UnnestInsert(package_account_data, pkgSysCounts[j]),
                 DeleteOld(package_account_data, pkgSysCounts[j], cur[j])}
           /\ \A b : b # cur[j] => RowsOf(b)' = RowsOf(b)
<1>1. /\ InFlight(j)
      /\ UNCHANGED <<counted, cur, pkgSysCounts>>
      /\ package_account_data' \in
           {package_account_data,
            UnnestInsert(package_account_data, pkgSysCounts[j]),
            DeleteOld(package_account_data, pkgSysCounts[j], cur[j])}
  BY DEF Store, updatePackageAccountData, deleteOldCache, InFlight
<1>2. cur[j] \in Accounts /\ \A r \in pkgSysCounts[j] : r.AccID = cur[j]
  BY <1>1 DEF OwnCounts
<1>3. ASSUME NEW b, b # cur[j]
      PROVE  RowsOf(b)' = RowsOf(b)
  <2>1. RowsOf(b)' = { r \in package_account_data' : r.AccID = b }
    BY DEF RowsOf
  <2>2. CASE package_account_data' = package_account_data
    BY <2>1, <2>2 DEF RowsOf
  <2>3. CASE package_account_data' =
               UnnestInsert(package_account_data, pkgSysCounts[j])
    BY <1>2, <1>3, <2>1, <2>3 DEF RowsOf, UnnestInsert, CacheKey
  <2>4. CASE package_account_data' =
               DeleteOld(package_account_data, pkgSysCounts[j], cur[j])
    BY <1>3, <2>1, <2>4 DEF RowsOf, DeleteOld
  <2> QED
    BY <1>1, <2>2, <2>3, <2>4
<1> QED
  BY <1>1, <1>2, <1>3

\* An acknowledged upsert leaves the counts in the table, ...
LEMMA UpsertStored ==
    ASSUME TypeOK, OwnCounts, NEW j \in Jobs, Store(j), pc'[j] = "delete"
    PROVE  pkgSysCounts[j] \subseteq RowsOf(cur[j])'
<1>1. /\ InFlight(j)
      /\ UNCHANGED cur
      /\ package_account_data' =
           UnnestInsert(package_account_data, pkgSysCounts[j])
  BY DEF Store, updatePackageAccountData, deleteOldCache, TxOutcomes,
         RefreshFailed, Goto, TypeOK, InFlight
<1>2. \A r \in pkgSysCounts[j] : r.AccID = cur[j]
  BY <1>1 DEF OwnCounts
<1> QED
  BY <1>1, <1>2 DEF UnnestInsert, RowsOf

\* ... and after an acknowledged delete there is nothing else.
LEMMA DeleteStored ==
    ASSUME TypeOK, OwnCounts, NEW j \in Jobs, Store(j), pc'[j] = "validate",
           pkgSysCounts[j] \subseteq RowsOf(cur[j]), pkgSysCounts[j] # {}
    PROVE  RowsOf(cur[j])' = pkgSysCounts[j]
<1>1. /\ InFlight(j)
      /\ UNCHANGED cur
      /\ package_account_data' =
           DeleteOld(package_account_data, pkgSysCounts[j], cur[j])
  BY DEF Store, updatePackageAccountData, deleteOldCache, TxOutcomes,
         RefreshFailed, Goto, TypeOK, InFlight
<1>2. ASSUME NEW r \in pkgSysCounts[j] PROVE r \in RowsOf(cur[j])'
  BY <1>1, <1>2 DEF DeleteOld, NotIn, RowsOf
<1>3. ASSUME NEW r \in RowsOf(cur[j])' PROVE r \in pkgSysCounts[j]
  <2>1. PICK c \in pkgSysCounts[j] : CacheKey(r) = CacheKey(c)
    BY <1>1, <1>3 DEF DeleteOld, NotIn, RowsOf
  <2>2. c \in package_account_data /\ r \in package_account_data
    BY <1>1, <1>3 DEF RowsOf, DeleteOld
  <2> QED
    BY <2>1, <2>2 DEF TypeOK, UniqueKeys
<1> QED
  BY <1>2, <1>3

LEMMA HistoryNext == HistoryOK /\ [OverlapNext]_allVars => HistoryOK'
<1> SUFFICES ASSUME HistoryOK, [OverlapNext]_allVars
             PROVE  HistoryOK'
  OBVIOUS
<1>1. TypeOK'
  BY OverlapRefines, TypeNext DEF HistoryOK
<1>2. beside' \in [Jobs -> SUBSET {"job", "write"}]
  BY DEF HistoryOK, OverlapNext, Count, Store, Settle, Elsewhere, Change,
         allVars, histories
<1>3. settled' \in [Accounts -> BOOLEAN]
  BY ZenonT(30)
  DEF HistoryOK, OverlapNext, Count, Store, Settle, Elsewhere, Change,
      allVars, histories
<1> QED
  BY <1>1, <1>2, <1>3 DEF HistoryOK

\* A step that leaves the tables alone and job i where it is.
LEMMA UndisturbedStays ==
    ASSUME Undisturbed, NEW i \in Jobs, InFlight(i)',
           UNCHANGED <<pc[i], cur[i], pkgSysCounts[i], counted>>,
           beside[i] \subseteq beside'[i],
           "job" \notin beside'[i] => RowsOf(cur[i])' = RowsOf(cur[i])
    PROVE  /\ "write" \notin beside'[i] => pkgSysCounts'[i] = Counts(cur[i])'
           /\ "job" \notin beside'[i] =>
                /\ pc'[i] = "delete" => pkgSysCounts'[i] \subseteq RowsOf(cur[i])'
                /\ pc'[i] = "validate" => \/ RowsOf(cur[i])' = pkgSysCounts'[i]
                                          \/ pkgSysCounts'[i] = {}
<1>1. InFlight(i)
  BY DEF InFlight
<1>2. Counts(cur[i])' = Counts(cur[i])
  BY DEF counted, Counts
<1> QED
  BY <1>1, <1>2 DEF Undisturbed

LEMMA UndisturbedNext == OverlapInv /\ [OverlapNext]_allVars => Undisturbed'
<1> SUFFICES ASSUME OverlapInv, [OverlapNext]_allVars,
                    NEW i \in Jobs, InFlight(i)'
             PROVE  /\ "write" \notin beside'[i] =>
                         pkgSysCounts'[i] = Counts(cur[i])'
                    /\ "job" \notin beside'[i] =>
                         /\ pc'[i] = "delete" =>
                              pkgSysCounts'[i] \subseteq RowsOf(cur[i])'
                         /\ pc'[i] = "validate" =>
                              \/ RowsOf(cur[i])' = pkgSysCounts'[i]
                              \/ pkgSysCounts'[i] = {}
  BY DEF Undisturbed
<1> USE DEF OverlapInv, HistoryOK
<1>1. CASE UNCHANGED allVars
  <2>1. UNCHANGED <<pc[i], cur[i], pkgSysCounts[i], counted, beside[i]>>
        /\ RowsOf(cur[i])' = RowsOf(cur[i])
    BY <1>1 DEF allVars, vars, histories, cache, RowsOf
  <2> QED
    BY <2>1, UndisturbedStays
<1>2. ASSUME NEW j \in Jobs, Count(j)
      PROVE  /\ "write" \notin beside'[i] =>
                  pkgSysCounts'[i] = Counts(cur[i])'
             /\ "job" \notin beside'[i] =>
                  /\ pc'[i] = "delete" =>
                       pkgSysCounts'[i] \subseteq RowsOf(cur[i])'
                  /\ pc'[i] = "validate" =>
                       \/ RowsOf(cur[i])' = pkgSysCounts'[i]
                       \/ pkgSysCounts'[i] = {}
  <2>1. PICK a \in todo[j] :
          /\ cur' = [cur EXCEPT ![j] = a]
          /\ \/ /\ pkgSysCounts' = [pkgSysCounts EXCEPT ![j] = Counts(a)]
                /\ Goto(j, "upsert")
             \/ Goto(j, "loop") /\ UNCHANGED pkgSysCounts
    BY <1>2 DEF Count, getCounts, RefreshFailed
  <2>2. /\ UNCHANGED <<counted, package_account_data>>
        /\ beside' = [beside EXCEPT ![j] = {}]
    BY <1>2 DEF Count, getCounts, cache
  <2>3. CASE i = j
    <3>1. /\ cur'[i] = a /\ pkgSysCounts'[i] = Counts(a) /\ pc'[i] = "upsert"
      BY <2>1, <2>3 DEF Goto, InFlight, TypeOK
    <3>2. Counts(cur[i])' = Counts(a)
      BY <2>2, <3>1 DEF counted, Counts
    <3> QED
      BY <3>1, <3>2
  <2>4. CASE i # j
    <3>1. /\ UNCHANGED <<pc[i], cur[i], pkgSysCounts[i], counted>>
          /\ beside[i] = beside'[i]
      BY <2>1, <2>2, <2>4 DEF Goto, TypeOK
    <3>2. RowsOf(cur[i])' = RowsOf(cur[i])
      BY <2>2, <3>1 DEF RowsOf
    <3> QED
      BY <3>1, <3>2, UndisturbedStays
  <2> QED
    BY <2>3, <2>4
<1>3. ASSUME NEW j \in Jobs, Store(j)
      PROVE  /\ "write" \notin beside'[i] =>
                  pkgSysCounts'[i] = Counts(cur[i])'
             /\ "job" \notin beside'[i] =>
                  /\ pc'[i] = "delete" =>
                       pkgSysCounts'[i] \subseteq RowsOf(cur[i])'
                  /\ pc'[i] = "validate" =>
                       \/ RowsOf(cur[i])' = pkgSysCounts'[i]
                       \/ pkgSysCounts'[i] = {}
  <2>1. /\ InFlight(j) /\ UNCHANGED <<counted, cur, pkgSysCounts>>
        /\ \A b : b # cur[j] => RowsOf(b)' = RowsOf(b)
    BY <1>3, StoreRows
  <2>2. beside' = [k \in Jobs |-> IF k # j /\ cur[k] = cur[j]
                                  THEN beside[k] \cup {"job"} ELSE beside[k]]
    BY <1>3 DEF Store
  <2>3. CASE i = j
    <3>1. beside'[i] = beside[i] /\ InFlight(i)
      BY <2>1, <2>2, <2>3
    <3>2. "write" \notin beside'[i] => pkgSysCounts'[i] = Counts(cur[i])'
      BY <2>1, <3>1 DEF Undisturbed, counted, Counts
    <3>3. pc'[i] = "delete" => pkgSysCounts'[i] \subseteq RowsOf(cur[i])'
      BY <1>3, <2>1, <2>3, UpsertStored
    <3>4. ASSUME "job" \notin beside[i], pc'[i] = "validate",
                 pkgSysCounts[i] # {}
          PROVE  RowsOf(cur[i])' = pkgSysCounts[i]
      <4>1. pc[i] = "delete"
        BY <1>3, <2>3, <3>4 DEF Store, updatePackageAccountData,
           deleteOldCache, RefreshFailed, Goto, TypeOK
      <4>2. pkgSysCounts[i] \subseteq RowsOf(cur[i])
        BY <3>1, <3>4, <4>1 DEF Undisturbed
      <4> QED
        BY <1>3, <2>3, <3>4, <4>2, DeleteStored
    <3> QED
      BY <2>1, <3>1, <3>2, <3>3, <3>4
  <2>4. CASE i # j
    <3>1. /\ UNCHANGED <<pc[i], cur[i], pkgSysCounts[i], counted>>
          /\ beside[i] \subseteq beside'[i]
          /\ "job" \notin beside'[i] => cur[i] # cur[j]
      BY <1>3, <2>1, <2>2, <2>4
      DEF Store, updatePackageAccountData, deleteOldCache, RefreshFailed,
          Goto, TypeOK
    <3>2. "job" \notin beside'[i] => RowsOf(cur[i])' = RowsOf(cur[i])
      <4>1. ASSUME cur[i] # cur[j] PROVE RowsOf(cur[i])' = RowsOf(cur[i])
        <5>1. PICK b : b = cur[i] /\ cur'[i] = b
          BY <2>1
        <5>2. RowsOf(b)' = RowsOf(b)
          BY <2>1, <4>1, <5>1
        <5> QED
          BY <5>1, <5>2 DEF RowsOf
      <4> QED
        BY <3>1, <4>1
    <3> QED
      BY <3>1, <3>2, UndisturbedStays
  <2> QED
    BY <2>3, <2>4
<1>4. ASSUME NEW j \in Jobs, Settle(j) \/ Elsewhere(j)
      PROVE  /\ "write" \notin beside'[i] =>
                  pkgSysCounts'[i] = Counts(cur[i])'
             /\ "job" \notin beside'[i] =>
                  /\ pc'[i] = "delete" =>
                       pkgSysCounts'[i] \subseteq RowsOf(cur[i])'
                  /\ pc'[i] = "validate" =>
                       \/ RowsOf(cur[i])' = pkgSysCounts'[i]
                       \/ pkgSysCounts'[i] = {}
  <2>1. /\ UNCHANGED <<cur, pkgSysCounts, counted, package_account_data, beside>>
        /\ \/ Goto(j, "list") \/ Goto(j, "loop") \/ Goto(j, "idle")
           \/ Goto(j, "crashed")
    BY <1>4 DEF Settle, Elsewhere, updatePkgCacheValidity, RefreshFailed,
       RefreshPackagesCaches, accountsWithoutCache, Return, Crash, histories,
       cache
  <2>2. UNCHANGED pc[i]
    BY <2>1 DEF Goto, InFlight, TypeOK
  <2>3. RowsOf(cur[i])' = RowsOf(cur[i])
    BY <2>1 DEF RowsOf
  <2> QED
    BY <2>1, <2>2, <2>3, UndisturbedStays
<1>5. CASE Change
  <2>1. UNCHANGED <<pc, cur, pkgSysCounts, package_account_data>>
    BY <1>5 DEF Change, Writer, mark_stale_systems, delete_system, Evaluate,
                SyncHosts, Write
  <2>2. beside'[i] = beside[i] \cup {"write"}
    BY <1>5 DEF Change
  <2>3. RowsOf(cur[i])' = RowsOf(cur[i])
    BY <2>1 DEF RowsOf
  <2> QED
    BY <2>1, <2>2, <2>3 DEF Undisturbed, InFlight
<1> QED
  BY <1>1, <1>2, <1>3, <1>4, <1>5 DEF OverlapNext

LEMMA SettledNext == OverlapInv /\ [OverlapNext]_allVars => SettledExact'
<1> SUFFICES ASSUME OverlapInv, [OverlapNext]_allVars,
                    NEW a \in Accounts, settled'[a]
             PROVE  Exact(a)'
  BY DEF SettledExact, Exact
<1> USE DEF OverlapInv, HistoryOK
<1>1. settled[a] => Exact(a)
  BY DEF SettledExact, Exact
<1>2. CASE UNCHANGED <<counted, package_account_data, settled>>
  BY <1>1, <1>2, CountsUnchanged DEF Exact, RowsOf
<1>3. ASSUME NEW j \in Jobs, Store(j)
      PROVE  Exact(a)'
  <2>1. /\ InFlight(j) /\ UNCHANGED counted
        /\ package_account_data' \in
             {package_account_data,
              UnnestInsert(package_account_data, pkgSysCounts[j]),
              DeleteOld(package_account_data, pkgSysCounts[j], cur[j])}
        /\ \A b : b # cur[j] => RowsOf(b)' = RowsOf(b)
    BY <1>3, StoreRows
  <2>2. settled' = [settled EXCEPT ![cur[j]] = @ /\ "write" \notin beside[j]]
    BY <1>3 DEF Store
  <2>3. CASE a = cur[j]
    <3>1. settled[a] /\ "write" \notin beside[j]
      BY <2>2, <2>3
    <3>2. pkgSysCounts[j] = Counts(a)
      BY <2>1, <2>3, <3>1 DEF Undisturbed
    <3> QED
      BY <1>1, <2>1, <2>3, <3>1, <3>2, QuietRows
  <2>4. CASE a # cur[j]
    <3>1. settled[a] /\ RowsOf(a)' = RowsOf(a)
      BY <2>1, <2>2, <2>4
    <3> QED
      BY <1>1, <2>1, <3>1, CountsUnchanged DEF Exact
  <2> QED
    BY <2>3, <2>4
<1>4. ASSUME NEW j \in Jobs, Settle(j)
      PROVE  Exact(a)'
  <2>1. /\ pc[j] = "validate" /\ UNCHANGED <<counted, package_account_data>>
        /\ settled' = [settled EXCEPT ![cur[j]] = @ \/ beside[j] = {}]
    BY <1>4 DEF Settle, updatePkgCacheValidity
  <2>2. settled[a] \/ (a = cur[j] /\ beside[j] = {})
    BY <2>1
  <2>3. Exact(a)
    BY <1>1, <2>1, <2>2 DEF Undisturbed, InFlight, Exact
  <2> QED
    BY <2>1, <2>3, CountsUnchanged DEF Exact, RowsOf
<1>5. CASE Change
  BY <1>5 DEF Change
<1>6. ASSUME NEW j \in Jobs, Count(j) \/ Elsewhere(j)
      PROVE  UNCHANGED <<counted, package_account_data, settled>>
  BY <1>6 DEF Count, Elsewhere, getCounts, RefreshPackagesCaches,
     accountsWithoutCache, Return, Crash, histories, cache
<1>7. UNCHANGED allVars => UNCHANGED <<counted, package_account_data, settled>>
  BY DEF allVars, vars, cache, histories
<1> QED
  BY <1>2, <1>3, <1>4, <1>5, <1>6, <1>7 DEF OverlapNext

LEMMA OverlapInvCorrect == OverlapSpec => []OverlapInv
<1>1. OverlapInit => OverlapInv
  <2>1. OverlapInit => TypeOK
    BY TypeInit DEF OverlapInit
  <2> QED
    BY <2>1 DEF OverlapInit, Init, OverlapInv, HistoryOK, OwnCounts,
                Undisturbed, SettledExact, InFlight
<1>2. OverlapInv /\ [OverlapNext]_allVars => OverlapInv'
  BY HistoryNext, OverlapRefines, OwnNext, UndisturbedNext, SettledNext
  DEF OverlapInv, HistoryOK
<1> QED
  BY <1>1, <1>2, PTL DEF OverlapSpec

\* The variables keep their types through any overlap, the histories too.
THEOREM HistoryCorrect == OverlapSpec => []HistoryOK
<1>1. OverlapInv => HistoryOK
  BY DEF OverlapInv
<1> QED
  BY <1>1, OverlapInvCorrect, PTL

(***************************************************************************)
(* However many refreshes overlap and whatever is written meanwhile: a     *)
(* refresh marks exact rows unless another one stored rows of the same     *)
(* account, or the counted tables changed, since it counted.               *)
(***************************************************************************)
THEOREM MarkedExactCorrect == OverlapSpec => []MarkedExact
<1>1. OverlapInv => MarkedExact
  BY DEF OverlapInv, Undisturbed, MarkedExact, InFlight
<1> QED
  BY <1>1, OverlapInvCorrect, PTL

(***************************************************************************)
(* An account settled by an undisturbed refresh stays exact until the      *)
(* counted tables change, or a job stores counts older than a change.      *)
(***************************************************************************)
THEOREM SettledExactCorrect == OverlapSpec => []SettledExact
<1>1. OverlapInv => SettledExact
  BY DEF OverlapInv
<1> QED
  BY <1>1, OverlapInvCorrect, PTL

-----------------------------------------------------------------------------
(* BulkInsert.  The statement is carried out group by group, so its effect *)
(* is shown by induction over the groups; a set of numbers stands for the  *)
(* formula proved of them.                                                 *)

\* A set of numbers has a least one.
LEMMA LeastOf ==
    ASSUME NEW T \in SUBSET Nat, T # {}
    PROVE  \E m \in T : \A k \in T : m <= k
<1> DEFINE R == { p \in Nat \X Nat : p[1] < p[2] }
<1>1. IsWellFoundedOn(R, Nat)
  BY NatLessThanWellFounded DEF OpToRel
<1> HIDE DEF R
<1>2. PICK m \in T : \A k \in T : <<k, m>> \notin R
  BY <1>1, WFMin
<1>3. \A k \in T : m <= k
  <2> SUFFICES ASSUME NEW k \in T PROVE m <= k
    OBVIOUS
  <2>1. k \in Nat /\ m \in Nat /\ <<k, m>> \notin R
    BY <1>2
  <2>2. <<k, m>> \in Nat \X Nat /\ <<k, m>>[1] = k /\ <<k, m>>[2] = m
    BY <2>1
  <2>3. ~(k < m)
    BY <2>1, <2>2 DEF R
  <2> QED
    BY <2>1, <2>3
<1> QED
  BY <1>3

\* Induction, with the set of the numbers the formula holds of.
LEMMA SetInduction ==
    ASSUME NEW S, 0 \in S, \A n \in Nat : n \in S => n + 1 \in S
    PROVE  \A n \in Nat : n \in S
<1> DEFINE T == Nat \ S
<1>1. SUFFICES ASSUME T # {} PROVE FALSE
  OBVIOUS
<1>2. PICK m \in T : \A k \in T : m <= k
  BY <1>1, LeastOf
<1>3. m # 0 /\ m - 1 \in Nat /\ ~(m <= m - 1)
  BY <1>2
<1>4. m - 1 \in S
  BY <1>2, <1>3
<1> QED
  BY <1>2, <1>3, <1>4

\* The states a statement goes through, after each of its groups.
IsRun(f, n, base, groups, clause) ==
    f = [i \in 0..n |-> IF i = 0 THEN base
                        ELSE InsertGroup(f[i - 1], groups[i], clause)]

\* The recursion is well-defined: a run of n groups extends to one of n + 1.
LEMMA RunExists ==
    ASSUME NEW base, NEW groups, NEW clause
    PROVE  \A n \in Nat : \E f : IsRun(f, n, base, groups, clause)
<1> DEFINE K == { n \in Nat : \E f : IsRun(f, n, base, groups, clause) }
<1>1. 0 \in K
  <2>1. IsRun([i \in 0..0 |-> base], 0, base, groups, clause)
    BY DEF IsRun
  <2> QED
    BY <2>1
<1>2. ASSUME NEW n \in Nat, n \in K
      PROVE  n + 1 \in K
  <2>1. PICK f : IsRun(f, n, base, groups, clause)
    BY <1>2
  <2> DEFINE g == [i \in 0..(n + 1) |->
                     IF i = n + 1 THEN InsertGroup(f[n], groups[n + 1], clause)
                     ELSE f[i]]
  <2>2. \A i \in 0..n : g[i] = f[i]
    OBVIOUS
  <2>3. ASSUME NEW i \in 0..(n + 1)
        PROVE  g[i] = IF i = 0 THEN base
                      ELSE InsertGroup(g[i - 1], groups[i], clause)
    <3>1. CASE i = n + 1
      BY <3>1, <2>2
    <3>2. CASE i = 0
      BY <3>2, <2>1, <2>2 DEF IsRun
    <3>3. CASE i # n + 1 /\ i # 0
      <4>1. i \in 0..n /\ i - 1 \in 0..n
        BY <3>3
      <4>2. f[i] = InsertGroup(f[i - 1], groups[i], clause)
        BY <2>1, <3>3, <4>1 DEF IsRun
      <4> QED
        BY <2>2, <3>3, <4>1, <4>2
    <3> QED
      BY <3>1, <3>2, <3>3
  <2>4. g = [i \in 0..(n + 1) |-> g[i]]
    OBVIOUS
  <2> HIDE DEF g
  <2>5. IsRun(g, n + 1, base, groups, clause)
    BY <2>3, <2>4 DEF IsRun
  <2> QED
    BY <2>5
<1> HIDE DEF K
<1>3. \A n \in Nat : n \in K
  BY <1>1, <1>2, SetInduction
<1> QED
  BY <1>3 DEF K

\* Executed is the last state of a run.
LEMMA ExecutedRun ==
    ASSUME NEW table, NEW groups, NEW clause, Len(groups) \in Nat
    PROVE  \E f :
             /\ IsRun(f, Len(groups), [table |-> table, returned |-> <<>>],
                      groups, clause)
             /\ Executed(table, [groups |-> groups, clause |-> clause])
                  = f[Len(groups)]
<1> DEFINE base == [table |-> table, returned |-> <<>>]
           n == Len(groups)
           f == CHOOSE g : g = [i \in 0..n |->
                  IF i = 0 THEN base
                  ELSE InsertGroup(g[i - 1], groups[i], clause)]
<1>1. \E g : g = [i \in 0..n |->
                  IF i = 0 THEN base
                  ELSE InsertGroup(g[i - 1], groups[i], clause)]
  <2>1. \E g : IsRun(g, Len(groups), [table |-> table, returned |-> <<>>],
                    groups, clause)
    BY RunExists
  <2> QED
    BY <2>1 DEF IsRun
<1>2. IsRun(f, n, base, groups, clause)
  BY <1>1 DEF IsRun
<1>3. Executed(table, [groups |-> groups, clause |-> clause]) = f[n]
  BY DEF Executed
<1> QED
  BY <1>2, <1>3

\* A run starts with no group inserted and inserts one at a time.
LEMMA RunStep ==
    ASSUME NEW f, NEW n \in Nat, NEW base, NEW groups, NEW clause,
           IsRun(f, n, base, groups, clause)
    PROVE  /\ f[0] = base
           /\ \A i \in 0..(n - 1) :
                f[i + 1] = InsertGroup(f[i], groups[i + 1], clause)
<1>1. f[0] = base
  BY DEF IsRun
<1>2. ASSUME NEW i \in 0..(n - 1)
      PROVE  f[i + 1] = InsertGroup(f[i], groups[i + 1], clause)
  <2>1. i + 1 \in 0..n /\ i + 1 # 0 /\ (i + 1) - 1 = i
    OBVIOUS
  <2>2. f[i + 1] = InsertGroup(f[(i + 1) - 1], groups[i + 1], clause)
    BY <2>1 DEF IsRun
  <2> QED
    BY <2>1, <2>2
<1> QED
  BY <1>1, <1>2

\* What a refresh holds for an account: rows of different names.
Rows(objects, n) ==
    /\ objects \in [1..n -> PackageAccountData]
    /\ \A i, k \in 1..n : CacheKey(objects[i]) = CacheKey(objects[k]) => i = k

\* The rows sent by the first m groups.
First(objects, m) == { objects[k] : k \in 1..m }

\* objectToMap skips no column of PackageAccountData.
LEMMA MapIsRow ==
    ASSUME NEW c \in PackageAccountData
    PROVE  objectToMap(Schema, c) = c
<1>1. Columns(Schema) =
        {"AccID", "PkgNameID", "SysInstalled", "SysInstallable", "SysApplicable"}
  <2>1. ASSUME NEW name \in {"AccID", "PkgNameID", "SysInstalled",
                             "SysInstallable", "SysApplicable"}
        PROVE  /\ ~Skipped(Plain(name)) /\ Plain(name).name = name
               /\ ~Skipped(Key(name)) /\ Key(name).name = name
    BY <2>1 DEF Skipped, Plain, Key
  <2> QED
    BY <2>1 DEF Columns, Schema
<1>2. /\ c = [k \in {"AccID", "PkgNameID", "SysInstalled", "SysInstallable",
                     "SysApplicable"} |-> c[k]]
  BY DEF PackageAccountData
<1> QED
  BY <1>1, <1>2 DEF objectToMap

\* A row of the same key is wholly overwritten.
LEMMA OverwrittenIsRow ==
    ASSUME NEW r \in PackageAccountData, NEW c \in PackageAccountData,
           CacheKey(r) = CacheKey(c)
    PROVE  Overwritten(r, c, Values) = c
<1> DEFINE D == {"AccID", "PkgNameID", "SysInstalled", "SysInstallable",
                 "SysApplicable"}
<1>1. DOMAIN r = D /\ c = [k \in D |-> c[k]]
  BY DEF PackageAccountData
<1>2. r.AccID = c.AccID /\ r.PkgNameID = c.PkgNameID
  BY DEF CacheKey
<1>3. \A k \in D : (IF k \in Values THEN c[k] ELSE r[k]) = c[k]
  BY <1>2 DEF Values
<1> QED
  BY <1>1, <1>3 DEF Overwritten

\* One group more.
LEMMA FirstNext ==
    ASSUME NEW objects, NEW m \in Nat
    PROVE  First(objects, m + 1) = First(objects, m) \cup {objects[m + 1]}
<1>1. 1..(m + 1) = (1..m) \cup {m + 1}
  OBVIOUS
<1> QED
  BY <1>1 DEF First

\* One row more, updated or inserted.
LEMMA UpsertGroup ==
    ASSUME NEW n \in Nat, NEW objects, Rows(objects, n), NEW m \in 0..(n - 1),
           NEW table \in SUBSET PackageAccountData, NEW returned
    PROVE  InsertGroup([table |-> UnnestInsert(table, First(objects, m)),
                        returned |-> returned],
                       objects[m + 1], DoUpdates(Values))
             = [table |-> UnnestInsert(table, First(objects, m + 1)),
                returned |-> Append(returned, objects[m + 1])]
<1> DEFINE c == objects[m + 1]
           t == UnnestInsert(table, First(objects, m))
           found == Found(t, c)
<1>1. m + 1 \in 1..n /\ c \in PackageAccountData
  BY DEF Rows
<1>2. \A k \in 1..m : k \in 1..n /\ CacheKey(objects[k]) # CacheKey(c)
  BY <1>1 DEF Rows
<1>3. First(objects, m) \in SUBSET PackageAccountData
  BY <1>2 DEF First, Rows
<1>4. t \in SUBSET PackageAccountData
  BY <1>3 DEF UnnestInsert
<1>5. (IF found = {} THEN c
       ELSE Overwritten(CHOOSE r \in found : TRUE, c, Values)) = c
  <2>1. CASE found = {}
    BY <2>1
  <2>2. CASE found # {}
    <3>1. (CHOOSE r \in found : TRUE) \in found
      BY <2>2
    <3>2. \A r \in found : r \in PackageAccountData /\ CacheKey(r) = CacheKey(c)
      BY <1>4 DEF Found
    <3> QED
      BY <1>1, <2>2, <3>1, <3>2, OverwrittenIsRow
  <2> QED
    BY <2>1, <2>2
<1>6. (t \ found) \cup {c} = UnnestInsert(table, First(objects, m + 1))
  <2>1. \A o \in First(objects, m) : CacheKey(o) # CacheKey(c)
    BY <1>2 DEF First
  <2>2. First(objects, m + 1) = First(objects, m) \cup {c}
    <3>1. m \in Nat
      OBVIOUS
    <3> QED
      BY <3>1, FirstNext
  <2>3. found = { r \in t : CacheKey(r) = CacheKey(c) }
    BY DEF Found
  <2> HIDE DEF c, found
  <2> QED
    BY <2>1, <2>2, <2>3 DEF UnnestInsert
<1>7. DoUpdates(Values).doNothing = FALSE /\ DoUpdates(Values).updates = Values
  BY DEF DoUpdates
<1> HIDE DEF c, t
<1>8. InsertGroup([table |-> t, returned |-> returned], c, DoUpdates(Values))
        = [table |-> (t \ found) \cup {c}, returned |-> Append(returned, c)]
  BY <1>5, <1>7 DEF InsertGroup
<1> QED
  BY <1>6, <1>8 DEF c, t

\* DO NOTHING inserts a row that is not there, ...
LEMMA NothingFound ==
    ASSUME NEW state, NEW c, Found(state.table, c) = {}
    PROVE  InsertGroup(state, c, DoNothing)
             = [table |-> state.table \cup {c},
                returned |-> Append(state.returned, c)]
BY DEF InsertGroup

\* ... and returns no row for one that is.
LEMMA NothingDone ==
    ASSUME NEW state, NEW c, Found(state.table, c) # {}
    PROVE  InsertGroup(state, c, DoNothing) = state
BY DEF InsertGroup, DoNothing

\* What Append returns.
LEMMA AppendRow ==
    ASSUME NEW S, NEW s \in Seq(S), NEW c \in S
    PROVE  /\ Append(s, c) \in Seq(S)
           /\ Len(Append(s, c)) = Len(s) + 1
           /\ Append(s, c)[Len(s) + 1] = c
           /\ \A k \in 1..Len(s) : Append(s, c)[k] = s[k]
OBVIOUS

\* The same, of the rows returned.
LEMMA ListAppend ==
    ASSUME NEW n \in Nat, NEW S, NEW objects \in [1..n -> S],
           NEW m \in 0..(n - 1)
    PROVE  Append([k \in 1..m |-> objects[k]], objects[m + 1])
             = [k \in 1..(m + 1) |-> objects[k]]
<1> DEFINE s == [k \in 1..m |-> objects[k]]
           t == [k \in 1..(m + 1) |-> objects[k]]
<1>1. s \in Seq(S) /\ Len(s) = m
  <2>1. s \in [1..m -> S]
    OBVIOUS
  <2> QED
    BY <2>1
<1>2. t \in Seq(S) /\ Len(t) = m + 1
  <2>1. t \in [1..(m + 1) -> S]
    OBVIOUS
  <2> QED
    BY <2>1
<1>3. objects[m + 1] \in S
  OBVIOUS
<1>4. /\ Append(s, objects[m + 1]) \in Seq(S)
      /\ Len(Append(s, objects[m + 1])) = m + 1
      /\ \A k \in 1..(m + 1) : Append(s, objects[m + 1])[k] = t[k]
  <2>1. \A k \in 1..m : s[k] = objects[k]
    OBVIOUS
  <2>2. \A k \in 1..(m + 1) : t[k] = objects[k]
    OBVIOUS
  <2> HIDE DEF s, t
  <2> QED
    BY <1>1, <1>3, <2>1, <2>2, AppendRow
<1> HIDE DEF s, t
<1> QED
  BY <1>2, <1>4

\* With ON CONFLICT DO UPDATE, m groups leave what UnnestInsert of m rows does.
LEMMA UpsertHolds ==
    ASSUME NEW n \in Nat, NEW objects, Rows(objects, n),
           NEW table \in SUBSET PackageAccountData
    PROVE  UpsertIs(table, objects)
<1> DEFINE After(m) == [table |-> UnnestInsert(table, First(objects, m)),
                        returned |-> [k \in 1..m |-> objects[k]]]
           stmt == [groups |-> objects, clause |-> DoUpdates(Values)]
<1>1. objects \in [1..n -> PackageAccountData] /\ Len(objects) = n
  BY DEF Rows
<1>2. statementFromObjects(objects, DoUpdates(Values)) = stmt
  <2>1. [i \in DOMAIN objects |-> objectToMap(Schema, objects[i])] = objects
    BY <1>1, MapIsRow
  <2> QED
    BY <2>1 DEF statementFromObjects
<1>3. PICK f : /\ IsRun(f, n, [table |-> table, returned |-> <<>>], objects,
                        DoUpdates(Values))
               /\ Executed(table, stmt) = f[n]
  BY <1>1, ExecutedRun
<1>4. /\ f[0] = [table |-> table, returned |-> <<>>]
      /\ \A i \in 0..(n - 1) :
           f[i + 1] = InsertGroup(f[i], objects[i + 1], DoUpdates(Values))
  <2>1. PICK base, clause :
          /\ base = [table |-> table, returned |-> <<>>] /\ clause = DoUpdates(Values)
          /\ IsRun(f, n, base, objects, clause)
    BY <1>3
  <2>2. f[0] = base /\ \A i \in 0..(n - 1) :
          f[i + 1] = InsertGroup(f[i], objects[i + 1], clause)
    BY <2>1, RunStep
  <2> QED
    BY <2>1, <2>2
<1>5. f[n] = After(n)
  <2> DEFINE K == { m \in Nat : m <= n => f[m] = After(m) }
  <2>1. 0 \in K
    <3>1. First(objects, 0) = {} /\ UnnestInsert(table, {}) = table
      BY DEF First, UnnestInsert
    <3>2. [k \in 1..0 |-> objects[k]] = <<>>
      OBVIOUS
    <3> QED
      BY <1>4, <3>1, <3>2
  <2>2. ASSUME NEW m \in Nat, m \in K
        PROVE  m + 1 \in K
    <3>1. SUFFICES ASSUME m + 1 <= n PROVE f[m + 1] = After(m + 1)
      OBVIOUS
    <3>2. m \in 0..(n - 1) /\ f[m] = After(m)
      BY <2>2, <3>1
    <3>3. f[m + 1] = InsertGroup(After(m), objects[m + 1], DoUpdates(Values))
      BY <1>4, <3>2
    <3>4. Append([k \in 1..m |-> objects[k]], objects[m + 1])
            = [k \in 1..(m + 1) |-> objects[k]]
      BY <1>1, <3>2, ListAppend
    <3>5. InsertGroup(After(m), objects[m + 1], DoUpdates(Values))
            = [table |-> UnnestInsert(table, First(objects, m + 1)),
               returned |-> Append([k \in 1..m |-> objects[k]], objects[m + 1])]
      BY <3>2, UpsertGroup
    <3> QED
      BY <3>3, <3>4, <3>5
  <2> HIDE DEF K
  <2>3. n \in K
    BY <2>1, <2>2, SetInduction
  <2> QED
    BY <2>3 DEF K
<1>6. First(objects, n) = ToSet(objects) /\ [k \in 1..n |-> objects[k]] = objects
  BY <1>1 DEF First, ToSet
<1>7. Executed(table, stmt) =
        [table |-> UnnestInsert(table, ToSet(objects)), returned |-> objects]
  BY <1>3, <1>5, <1>6
<1>8. Scanned(objects, objects) = objects
  BY <1>1 DEF Scanned
<1>9. CASE objects = <<>>
  <2>1. ToSet(objects) = {}
    BY <1>9 DEF ToSet
  <2>2. UnnestInsert(table, {}) = table
    BY DEF UnnestInsert
  <2> QED
    BY <1>9, <2>1, <2>2 DEF UpsertIs, bulkExec
<1>10. CASE objects # <<>>
  BY <1>2, <1>7, <1>8, <1>10 DEF UpsertIs, bulkExec
<1> QED
  BY <1>9, <1>10

\* With DO NOTHING, as long as every row was inserted, the rows returned are
\* those sent; later ones are returned behind them.
LEMMA OwnRowsHold ==
    ASSUME NEW n \in Nat, NEW objects, Rows(objects, n),
           NEW table \in SUBSET PackageAccountData
    PROVE  OwnRows(table, objects)
<1> DEFINE stmt == [groups |-> objects, clause |-> DoNothing]
<1>1. objects \in [1..n -> PackageAccountData] /\ Len(objects) = n
  BY DEF Rows
<1>2. statementFromObjects(objects, DoNothing) = stmt
  <2>1. [i \in DOMAIN objects |-> objectToMap(Schema, objects[i])] = objects
    BY <1>1, MapIsRow
  <2> QED
    BY <2>1 DEF statementFromObjects
<1>3. PICK f : /\ IsRun(f, n, [table |-> table, returned |-> <<>>], objects,
                        DoNothing)
               /\ Executed(table, stmt) = f[n]
  BY <1>1, ExecutedRun
<1>4. /\ f[0] = [table |-> table, returned |-> <<>>]
      /\ \A i \in 0..(n - 1) :
           f[i + 1] = InsertGroup(f[i], objects[i + 1], DoNothing)
  <2>1. PICK base, clause :
          /\ base = [table |-> table, returned |-> <<>>] /\ clause = DoNothing
          /\ IsRun(f, n, base, objects, clause)
    BY <1>3
  <2>2. f[0] = base /\ \A i \in 0..(n - 1) :
          f[i + 1] = InsertGroup(f[i], objects[i + 1], clause)
    BY <2>1, RunStep
  <2> QED
    BY <2>1, <2>2
<1>5. ASSUME NEW i \in 1..n, \A k \in 1..i : Found(table, objects[k]) = {}
      PROVE  i \in DOMAIN f[n].returned /\ f[n].returned[i] = objects[i]
  <2> DEFINE Sent(m) ==
               /\ f[m].returned \in Seq(PackageAccountData)
               /\ m <= i => /\ f[m].table = table \cup First(objects, m)
                            /\ Len(f[m].returned) = m
               /\ i <= m => /\ i <= Len(f[m].returned)
                            /\ f[m].returned[i] = objects[i]
             K == { m \in Nat : m <= n => Sent(m) }
  <2>1. 0 \in K
    <3>1. f[0].table = table /\ f[0].returned = <<>> /\ First(objects, 0) = {}
      BY <1>4 DEF First
    <3>2. <<>> \in Seq(PackageAccountData) /\ Len(<<>>) = 0
      OBVIOUS
    <3>3. ~(i <= 0)
      OBVIOUS
    <3>4. Sent(0)
      BY <3>1, <3>2, <3>3
    <3> QED
      BY <3>4
  <2>2. ASSUME NEW m \in Nat, m \in K
        PROVE  m + 1 \in K
    <3>1. SUFFICES ASSUME m + 1 <= n PROVE Sent(m + 1)
      OBVIOUS
    <3>2. m \in 0..(n - 1) /\ Sent(m)
      BY <2>2, <3>1
    <3>3. PICK c : c = objects[m + 1]
      OBVIOUS
    <3>4. c \in PackageAccountData /\ m + 1 \in 1..n
      BY <1>1, <3>2, <3>3
    <3>5. f[m + 1] = InsertGroup(f[m], c, DoNothing)
      BY <1>4, <3>2, <3>3
    <3>6. CASE Found(f[m].table, c) = {}
      <4>1. /\ f[m + 1].table = f[m].table \cup {c}
            /\ f[m + 1].returned = Append(f[m].returned, c)
        <5>1. InsertGroup(f[m], c, DoNothing)
                = [table |-> f[m].table \cup {c},
                   returned |-> Append(f[m].returned, c)]
          BY <3>6, NothingFound
        <5> QED
          BY <3>5, <5>1
      <4>2. /\ f[m + 1].returned \in Seq(PackageAccountData)
            /\ Len(f[m + 1].returned) = Len(f[m].returned) + 1
            /\ f[m + 1].returned[Len(f[m].returned) + 1] = c
            /\ \A k \in 1..Len(f[m].returned) :
                 f[m + 1].returned[k] = f[m].returned[k]
        BY <3>2, <3>4, <4>1, AppendRow
      <4>3. Len(f[m].returned) \in Nat
        BY <3>2
      <4>4. m + 1 <= i => /\ f[m + 1].table = table \cup First(objects, m + 1)
                          /\ Len(f[m + 1].returned) = m + 1
        BY <3>2, <3>3, <4>1, <4>2, FirstNext
      <4>5. i <= m + 1 => /\ i <= Len(f[m + 1].returned)
                          /\ f[m + 1].returned[i] = objects[i]
        <5>1. CASE i <= m
          BY <3>2, <4>2, <4>3, <5>1
        <5>2. CASE i = m + 1
          BY <3>2, <3>3, <4>2, <4>3, <5>2
        <5> QED
          BY <5>1, <5>2
      <4> QED
        BY <4>2, <4>4, <4>5
    <3>7. CASE Found(f[m].table, c) # {}
      <4>1. f[m + 1] = f[m]
        BY <3>5, <3>7, NothingDone
      <4>2. ~(m + 1 <= i)
        <5> SUFFICES ASSUME m + 1 <= i PROVE FALSE
          OBVIOUS
        <5>1. PICK r \in table \cup First(objects, m) : CacheKey(r) = CacheKey(c)
          BY <3>2, <3>7 DEF Found
        <5>2. r \notin table
          BY <1>5, <3>3, <3>4, <5>1 DEF Found
        <5>3. PICK k \in 1..m : r = objects[k]
          BY <5>1, <5>2 DEF First
        <5>4. k \in 1..n /\ k # m + 1
          BY <3>4, <5>3
        <5> QED
          BY <3>3, <3>4, <5>1, <5>3, <5>4 DEF Rows
      <4>3. i <= m
        BY <4>2
      <4> QED
        BY <3>2, <4>1, <4>2, <4>3
    <3> QED
      BY <3>6, <3>7
  <2> HIDE DEF K
  <2>3. n \in K
    BY <2>1, <2>2, SetInduction
  <2>4. Sent(n)
    BY <2>3 DEF K
  <2>5. i <= n /\ i \in 1..Len(f[n].returned)
    BY <2>4
  <2> QED
    BY <2>4, <2>5
<1>6. ASSUME NEW i \in 1..n, \A k \in 1..i : Found(table, objects[k]) = {}
      PROVE  bulkExec(table, objects, DoNothing).objects[i] = objects[i]
  <2>1. i \in DOMAIN objects /\ objects # <<>>
    BY <1>1, <1>6
  <2>2. bulkExec(table, objects, DoNothing).objects
          = Scanned(objects, f[n].returned)
    BY <1>2, <1>3, <2>1 DEF bulkExec
  <2>3. i \in DOMAIN f[n].returned /\ f[n].returned[i] = objects[i]
    BY <1>5, <1>6
  <2> QED
    BY <2>1, <2>2, <2>3 DEF Scanned
<1> QED
  BY <1>1, <1>6 DEF OwnRows

\* The counts in memory are finitely many: those of a finite join.
CountsFinite == \A j \in Jobs : IsFiniteSet(pkgSysCounts[j])

\* So it stays, for getCounts alone writes them.
LEMMA CountsFiniteNext == TypeOK /\ CountsFinite /\ [Next]_vars => CountsFinite'
<1> SUFFICES ASSUME TypeOK, CountsFinite, [Next]_vars, NEW j \in Jobs
             PROVE  IsFiniteSet(pkgSysCounts'[j])
  BY DEF CountsFinite
<1>1. CASE pkgSysCounts' = pkgSysCounts
  BY <1>1 DEF CountsFinite
<1>2. CASE \E k \in Jobs : getCounts(k)
  <2>1. PICK k \in Jobs, a \in Accounts :
          \/ pkgSysCounts' = [pkgSysCounts EXCEPT ![k] = Counts(a)]
          \/ pkgSysCounts' = pkgSysCounts
    BY <1>2 DEF getCounts, TypeOK
  <2>2. IsFiniteSet(Counts(a))
    <3> DEFINE fresh == { sp \in system_platform :
                            sp.PackagesInstalled /\ ~sp.Stale }
               rows == PackageJoin(fresh, system_package, hosts, a)
               names == { NameOfRow(row) : row \in rows }
               count == [m \in names |-> CountsOf(a, m, InGroup(rows, m))]
               nameof == [row \in rows |-> NameOfRow(row)]
    <3>1. IsFiniteSet(fresh) /\ IsFiniteSet(system_package)
      <4>1. fresh \in SUBSET system_platform
        OBVIOUS
      <4> QED
        BY <4>1, FS_Subset DEF TypeOK
    <3>2. IsFiniteSet(rows)
      BY <3>1, JoinFinite
    <3> HIDE DEF rows
    <3>3. IsFiniteSet({ nameof[row] : row \in rows })
      BY <3>2, ImageFinite
    <3>4. IsFiniteSet(names)
      BY <3>3
    <3> HIDE DEF names
    <3>5. IsFiniteSet({ count[m] : m \in names })
      BY <3>4, ImageFinite
    <3>6. Counts(a) = { count[m] : m \in names }
      BY DEF Counts, GroupCounts, rows, names
    <3> QED
      BY <3>5, <3>6
  <2> QED
    BY <1>1, <2>1, <2>2 DEF CountsFinite, TypeOK
<1> QED
  BY <1>1, <1>2 DEF Next, JobStep, RefreshPackagesCaches, accountsWithoutCache,
     updatePackageAccountData, deleteOldCache, updatePkgCacheValidity, Return,
     Crash, Writer, Write, mark_stale_systems, delete_system, Evaluate,
     SyncHosts, vars

\* In every state in which a job is about to upsert, as in every other.
LEMMA BulkInsertHolds == TypeOK /\ CountsFinite => BulkInsertUpserts
<1> SUFFICES ASSUME TypeOK, CountsFinite, NEW j \in Jobs,
                    NEW objects \in SetToSeqs(pkgSysCounts[j])
             PROVE  /\ UpsertIs(package_account_data, objects)
                    /\ OwnRows(package_account_data, objects)
  BY DEF BulkInsertUpserts
<1> DEFINE S == pkgSysCounts[j]
           n == Cardinality(S)
<1>1. n \in Nat
  BY FS_CardinalityType DEF CountsFinite
<1>2. /\ objects \in [1..n -> S]
      /\ \A i, k \in 1..n : i # k => objects[i] # objects[k]
  BY DEF SetToSeqs
<1>3. /\ S \in SUBSET PackageAccountData /\ UniqueKeys(S)
      /\ package_account_data \in SUBSET PackageAccountData
  BY DEF TypeOK, Statistics
<1> HIDE DEF S, n
<1>4. Rows(objects, n)
  BY <1>2, <1>3 DEF Rows, UniqueKeys
<1> QED
  BY <1>1, <1>3, <1>4, UpsertHolds, OwnRowsHold

\* BulkInsert with the refresh's conflict clause has the effect of its upsert,
\* whatever the cache holds and in whatever order the counts come, and with DO
\* NOTHING an object holds another's row only behind a row that was there: for
\* any number of jobs, accounts and counts.
THEOREM BulkInsertCorrect == Spec => []BulkInsertUpserts
<1>1. Init => CountsFinite
  BY FS_EmptySet DEF Init, CountsFinite
<1> QED
  BY <1>1, TypeInit, TypeNext, CountsFiniteNext, BulkInsertHolds, PTL DEF Spec

=============================================================================
