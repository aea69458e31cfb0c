---------------------------- MODULE OverlappingJobs ----------------------------
(***************************************************************************)
(* Refreshes that overlap with each other and with changes of the counted  *)
(* tables.  Nothing makes the transactions of one refresh a unit, so two   *)
(* jobs started one after the other, or an explicit refresh beside a full  *)
(* one, can leave an account with old counts that is marked valid.  The    *)
(* steps are those of PackageCache; two history variables record what each *)
(* refresh ran beside, so as to say when the cache is exact all the same.  *)
(***************************************************************************)
EXTENDS PackageCache

VARIABLES
    beside,     \* per job in flight: what happened since it counted
    settled     \* per account: refreshed without disturbance, see Settle

histories == <<beside, settled>>
allVars == <<vars, histories>>

-----------------------------------------------------------------------------
(* The job counts: nothing has happened beside it yet.                     *)
Count(j) ==
    /\ getCounts(j)
    /\ beside' = [beside EXCEPT ![j] = {}]
    /\ UNCHANGED settled

(***************************************************************************)
(* The job changes the rows of its account; other refreshes of that        *)
(* account see it happen, and counts older than a write unsettle it.       *)
(***************************************************************************)
Store(j) ==
    /\ updatePackageAccountData(j) \/ deleteOldCache(j)
    /\ beside' = [i \in Jobs |-> IF i # j /\ cur[i] = cur[j]
                                 THEN beside[i] \cup {"job"} ELSE beside[i]]
    /\ settled' = [settled EXCEPT ![cur[j]] = @ /\ "write" \notin beside[j]]

\* The account is marked valid.
Settle(j) ==
    /\ updatePkgCacheValidity(j)
    /\ settled' = [settled EXCEPT ![cur[j]] = @ \/ beside[j] = {}]
    /\ UNCHANGED beside

Elsewhere(j) ==
    /\ \/ RefreshPackagesCaches(j)
       \/ accountsWithoutCache(j)
       \/ Return(j)
       \/ Crash(j)
    /\ UNCHANGED histories

\* The counted tables change.
Change ==
    /\ Writer
    /\ beside' = [i \in Jobs |-> beside[i] \cup {"write"}]
    /\ settled' = [a \in Accounts |-> FALSE]

OverlapInit ==
    /\ Init
    /\ beside = [j \in Jobs |-> {}]
    /\ settled = [a \in Accounts |-> FALSE]

OverlapNext ==
    \/ \E j \in Jobs : Count(j) \/ Store(j) \/ Settle(j) \/ Elsewhere(j)
    \/ Change

OverlapSpec == OverlapInit /\ [][OverlapNext]_allVars

-----------------------------------------------------------------------------
(* Properties                                                              *)

\* Types of the variables, and what can happen beside a refresh.
HistoryOK ==
    /\ TypeOK
    /\ beside \in [Jobs -> SUBSET {"job", "write"}]
    /\ settled \in [Accounts -> BOOLEAN]

(***************************************************************************)
(* However many jobs overlap and whatever is written meanwhile, when a job *)
(* is about to mark an account valid the account has exactly the rows the  *)
(* job counted, unless another job stored rows of that very account since; *)
(* and they are what counting would give now, unless the counted tables    *)
(* changed since as well.  (The empty count aside.)                        *)
(***************************************************************************)
MarkedExact ==
    \A j \in Jobs : pc[j] = "validate" /\ pkgSysCounts[j] # {} =>
        /\ "job" \notin beside[j] => RowsOf(cur[j]) = pkgSysCounts[j]
        /\ beside[j] = {} => RowsOf(cur[j]) = Counts(cur[j])

(***************************************************************************)
(* An account marked valid without disturbance stays exact, through any    *)
(* later refreshes, failed, crashed or overlapping, until the counted      *)
(* tables change or a job stores counts that are older than a change: an   *)
(* old cache can only come back through a refresh that outlived a write.   *)
(***************************************************************************)
SettledExact ==
    \A a \in Accounts :
        settled[a] => RowsOf(a) = Counts(a) \/ Counts(a) = {}

=============================================================================
