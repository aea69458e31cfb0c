--------------------------- MODULE AdvisoryCache ---------------------------
(***************************************************************************)
(* The counters of advisory_account_data: how many systems of an account   *)
(* an advisory affects.  The trigger on_system_update keeps them up to     *)
(* date when a system becomes stale or fresh, the refresh functions count  *)
(* them anew, and the functions that delete systems rely on the trigger.   *)
(*                                                                         *)
(* Sessions run under READ COMMITTED: a statement sees what was committed  *)
(* when it began, and waits for the locks of rows it changes.  A session's *)
(* last statement is taken together with its commit: what it has written   *)
(* is visible to nobody, and locked, in between.                           *)
(***************************************************************************)
EXTENDS Integers, FiniteSets

CONSTANTS
    Accounts,       \* rh_account.id
    Systems,        \* system_platform.id
    Advisories,     \* advisory_metadata.id
    Sessions,       \* database sessions
    SeedPlatform, SeedAdvisories,   \* the tables at start
    MaxUpdates      \* bound on the number of changes of systems

VARIABLES
    system_platform, system_advisories,
    advisory_account_data,  \* counters; zeros for a row that is not there
    job,            \* what a session is doing
    trust,          \* history: what is known of an account's counters
    updates         \* number of changes of systems

vars == <<system_platform, system_advisories, advisory_account_data, job,
          trust, updates>>

-----------------------------------------------------------------------------
(* Tables and counts                                                       *)

SystemPlatform ==
    [ID : Systems, RhAccountID : Accounts, Stale : BOOLEAN,
     Evaluated : BOOLEAN]       \* last_evaluation IS NOT NULL

\* status_id is 0, installable, or 1, applicable.
SystemAdvisory ==
    [RhAccountID : Accounts, SystemID : Systems, AdvisoryID : Advisories,
     StatusID : {0, 1}]

ASSUME SeedAssumption ==
    /\ SeedPlatform \subseteq SystemPlatform
    /\ SeedAdvisories \subseteq SystemAdvisory
    /\ IsFiniteSet(SeedAdvisories)
    /\ \A sp1, sp2 \in SeedPlatform : sp1.ID = sp2.ID => sp1 = sp2
    /\ \A sa1, sa2 \in SeedAdvisories :
         sa1.SystemID = sa2.SystemID /\ sa1.AdvisoryID = sa2.AdvisoryID
           => sa1 = sa2

Keys == Accounts \X Advisories

Counters == [installable : Int, applicable : Int]

\* No row ever holds two zeros, so they stand for no row.
NoRow == [installable |-> 0, applicable |-> 0]

Rows == { k \in Keys : advisory_account_data[k] # NoRow }

Counted(sp) == sp.Evaluated /\ ~sp.Stale

AdvisoriesOf(sp) ==
    { sa \in system_advisories :
        sa.RhAccountID = sp.RhAccountID /\ sa.SystemID = sp.ID }

Affected(k) ==
    { sa \in UNION { AdvisoriesOf(sp) :
                       sp \in { x \in system_platform : Counted(x) } } :
        <<sa.RhAccountID, sa.AdvisoryID>> = k }

current_counts ==
    [k \in Keys |->
        [installable |-> Cardinality({ sa \in Affected(k) : sa.StatusID = 0 }),
         applicable |-> Cardinality(Affected(k))]]

-----------------------------------------------------------------------------
(* Sessions                                                                *)

NoJob == [op |-> "none"]

\* A change of one system, from the snapshot of the trigger's statement on.
Updates ==
    [op : {"mark", "revive", "delete"}, system : SystemPlatform,
     seen : SUBSET Keys]

Refreshes ==
    [op : {"lock"}, scope : SUBSET Keys, locked : SUBSET Keys,
     alone : BOOLEAN]
    \cup [op : {"count"}, scope : SUBSET Keys, locked : SUBSET Keys,
          alone : BOOLEAN, counts : [Keys -> Counters],
          visible : SUBSET Keys]

Updating(s) == job[s].op \in {"mark", "revive", "delete"}

Refreshing(s) == job[s].op \in {"lock", "count"}

\* The row of system_platform an update has locked.
Free(sp) == \A s \in Sessions : Updating(s) => job[s].system # sp

\* Rows of advisory_account_data locked by other sessions.
NothingLocked(s) == {}

LockedFor(s) ==
    UNION { job[t].locked : t \in { u \in Sessions \ {s} : Refreshing(u) } }

AccountsOf(keys) == { k[1] : k \in keys }

InRefresh(acc) ==
    \E s \in Sessions : Refreshing(s) /\ acc \in AccountsOf(job[s].scope)

Busy(acc) ==
    \/ InRefresh(acc)
    \/ \E s \in Sessions : Updating(s) /\ job[s].system.RhAccountID = acc

-----------------------------------------------------------------------------
(* on_system_update                                                        *)

Change(j) ==
    IF ~j.system.Evaluated \/ (j.op # "revive" /\ j.system.Stale) THEN 0
    ELSE IF j.op = "revive" THEN 1 ELSE -1

Key(sa) == <<sa.RhAccountID, sa.AdvisoryID>>

Plus(counters, sa, change) ==
    [installable |-> counters.installable
                       + (IF sa.StatusID = 0 THEN change ELSE 0),
     applicable |-> counters.applicable + change]

KeptIfBoth(counters) ==
    IF counters.installable <= 0 \/ counters.applicable <= 0
    THEN NoRow ELSE counters

\* A row without positive counters is deleted.
Kept(counters) ==
    IF counters.installable <= 0 /\ counters.applicable <= 0
    THEN NoRow ELSE counters

ReachedRows(j) ==
    { sa \in AdvisoriesOf(j.system) :
        Change(j) # 0 /\ Key(sa) \in j.seen \cap Rows }

(***************************************************************************)
(* Rows the statement has seen are locked, read again and changed; a row   *)
(* it has not seen is inserted by an increment, or incremented if somebody *)
(* was faster, but a decrement does nothing about it.                      *)
(***************************************************************************)
Reached(j) ==
    { sa \in AdvisoriesOf(j.system) :
        \/ Change(j) = 1
        \/ Change(j) = -1 /\ Key(sa) \in j.seen \cap Rows }

on_system_update(j) ==
    [k \in Keys |->
        LET hits == { sa \in Reached(j) : Key(sa) = k }
        IN  IF hits = {} THEN advisory_account_data[k]
            ELSE Kept(Plus(advisory_account_data[k],
                           CHOOSE sa \in hits : TRUE, Change(j)))]

-----------------------------------------------------------------------------
(* Updates of one system                                                   *)

\* Refreshes of these accounts are no longer alone.
Disturb(accs) ==
    [s \in Sessions |->
        IF Refreshing(s) /\ accs \cap AccountsOf(job[s].scope) # {}
        THEN [job[s] EXCEPT !.alone = FALSE] ELSE job[s]]

Begin(s, op, sp) ==
    /\ job[s] = NoJob
    /\ Free(sp)
    /\ updates < MaxUpdates
    /\ updates' = updates + 1
    /\ job' = [Disturb({sp.RhAccountID}) EXCEPT
                 ![s] = [op |-> op, system |-> sp, seen |-> Rows]]
    /\ trust' = IF op = "revive" /\ InRefresh(sp.RhAccountID)
                THEN [trust EXCEPT ![sp.RhAccountID] = "raced"] ELSE trust
    /\ UNCHANGED <<system_platform, system_advisories, advisory_account_data>>

(***************************************************************************)
(* mark_stale_systems(1), for which one system is due, whichever.  A call  *)
(* with a larger limit marks all it finds in one statement, holds all      *)
(* their locks at once and is rolled back as a whole; that is not          *)
(* modelled.                                                               *)
(***************************************************************************)
mark_stale_systems(s) ==
    \E sp \in system_platform : ~sp.Stale /\ Begin(s, "mark", sp)

delete_system(s) == \E sp \in system_platform : Begin(s, "delete", sp)

\* External: an upload makes a stale system fresh.
Upload(s) == \E sp \in system_platform : sp.Stale /\ Begin(s, "revive", sp)

Finish(s) ==
    LET j == job[s]
    IN  /\ Updating(s)
        /\ { Key(sa) : sa \in Reached(j) } \cap LockedFor(s) = {}
        /\ advisory_account_data' = on_system_update(j)
        /\ \/ /\ j.op = "delete"
              /\ system_platform' = system_platform \ {j.system}
              /\ system_advisories' = system_advisories \ AdvisoriesOf(j.system)
           \/ /\ j.op # "delete"
              /\ system_platform' = (system_platform \ {j.system})
                   \cup {[j.system EXCEPT !.Stale = (j.op = "mark")]}
              /\ UNCHANGED system_advisories
        /\ job' = [job EXCEPT ![s] = NoJob]
        /\ UNCHANGED <<trust, updates>>

-----------------------------------------------------------------------------
(* delete_systems, which delete_culled_systems calls too                   *)

(***************************************************************************)
(* One statement updates and deletes the same rows of system_platform.     *)
(* Only one of the two happens to a row, and which one is not defined.     *)
(* The trigger, if it fires at all, does so at the end of the statement    *)
(* and finds the advisories deleted, so that no counter changes.           *)
(***************************************************************************)
delete_systems ==
    \E gone \in SUBSET system_platform : \E updated \in SUBSET gone :
        /\ gone # {}
        /\ updates < MaxUpdates
        /\ updates' = updates + 1
        /\ \A sp \in gone : Free(sp)
        /\ system_platform' = (system_platform \ gone)
             \cup { [sp EXCEPT !.Stale = TRUE] : sp \in updated }
        /\ system_advisories' =
             system_advisories \ UNION { AdvisoriesOf(sp) : sp \in gone }
        /\ LET lost == { sp.RhAccountID : sp \in
                           { x \in gone : Counted(x) /\ AdvisoriesOf(x) # {} } }
           IN  /\ trust' = [acc \in Accounts |->
                              IF acc \in lost /\ trust[acc] = "exact"
                              THEN "over" ELSE trust[acc]]
               /\ job' = Disturb(lost)
        /\ UNCHANGED advisory_account_data

-----------------------------------------------------------------------------
(* refresh_advisory_caches_multi                                           *)

\* Its parameters: some advisories or all, one account or all.
Scopes ==
    { accs \X advs : accs \in {Accounts} \cup { {acc} : acc \in Accounts },
                     advs \in SUBSET Advisories \ {{}} }

LockRows(s) ==
    /\ job[s] = NoJob
    /\ \E scope \in Scopes :
         LET locked == scope \cap Rows
             accs == AccountsOf(scope)
             revived == { job[t].system.RhAccountID :
                            t \in { u \in Sessions : job[u].op = "revive" } }
         IN  /\ locked \cap LockedFor(s) = {}
             /\ job' = [Disturb(accs) EXCEPT ![s] =
                          [op |-> "lock", scope |-> scope, locked |-> locked,
                           alone |-> \A acc \in accs : ~Busy(acc)]]
             /\ trust' = [acc \in Accounts |->
                            IF acc \in revived \cap accs
                            THEN "raced" ELSE trust[acc]]
    /\ UNCHANGED <<system_platform, system_advisories, advisory_account_data,
                   updates>>

CountRows(s) ==
    /\ job[s].op = "lock"
    /\ job' = [job EXCEPT ![s] =
                 [op |-> "count", scope |-> job[s].scope,
                  locked |-> job[s].locked,
                  alone |-> job[s].alone,
                  counts |-> current_counts, visible |-> Rows]]
    /\ UNCHANGED <<system_platform, system_advisories, advisory_account_data,
                   trust, updates>>

\* Rows that are counted are written, the others that were visible deleted.
Written(j) ==
    { k \in j.scope : j.counts[k] # NoRow \/ k \in j.visible }

WriteRows(s) ==
    LET j == job[s]
    IN  /\ j.op = "count"
        /\ Written(j) \cap LockedFor(s) = {}
        /\ advisory_account_data' =
             [k \in Keys |-> IF k \in Written(j) THEN j.counts[k]
                             ELSE advisory_account_data[k]]
        /\ trust' = [acc \in Accounts |->
                       IF j.alone /\ {acc} \X Advisories \subseteq j.scope
                       THEN "exact" ELSE trust[acc]]
        /\ job' = [job EXCEPT ![s] = NoJob]
        /\ UNCHANGED <<system_platform, system_advisories, updates>>

-----------------------------------------------------------------------------
\* An error, a deadlock or a lost connection rolls the transaction back.
Rollback(s) ==
    /\ job[s] # NoJob
    /\ job' = [job EXCEPT ![s] = NoJob]
    /\ UNCHANGED <<system_platform, system_advisories, advisory_account_data,
                   trust, updates>>

Init ==
    /\ system_platform = SeedPlatform
    /\ system_advisories = SeedAdvisories
    /\ \/ /\ advisory_account_data = current_counts
          /\ trust = [acc \in Accounts |-> "exact"]
       \/ /\ advisory_account_data = [k \in Keys |-> NoRow]
          /\ trust = [acc \in Accounts |-> "unbuilt"]
    /\ job = [s \in Sessions |-> NoJob]
    /\ updates = 0

Step(s) ==
    \/ mark_stale_systems(s)
    \/ delete_system(s)
    \/ Upload(s)
    \/ Finish(s)
    \/ LockRows(s)
    \/ CountRows(s)
    \/ WriteRows(s)
    \/ Rollback(s)

Next == (\E s \in Sessions : Step(s)) \/ delete_systems

Spec == Init /\ [][Next]_vars

-----------------------------------------------------------------------------
(* Properties                                                              *)

(***************************************************************************)
(* Types; and two refreshes never hold the lock of the same row, nor two   *)
(* updates that of the same system.                                        *)
(***************************************************************************)
TypeOK ==
    /\ system_platform \subseteq SystemPlatform
    /\ system_advisories \subseteq SystemAdvisory
    /\ advisory_account_data \in [Keys -> Counters]
    /\ \A s \in Sessions : job[s] \in {NoJob} \cup Updates \cup Refreshes
    /\ trust \in [Accounts -> {"unbuilt", "exact", "over", "raced"}]
    /\ \A s, t \in Sessions : s # t =>
         /\ Refreshing(s) /\ Refreshing(t) =>
              job[s].locked \cap job[t].locked = {}
         /\ Updating(s) /\ Updating(t) => job[s].system # job[t].system

(***************************************************************************)
(* The counters equal a recount.  Once built, or refreshed while nothing   *)
(* else happened to the account, they stay so under any interleaving of    *)
(* systems becoming stale, becoming fresh and being deleted one by one,    *)
(* and of refreshes with all of these but the second.                      *)
(***************************************************************************)
CountsExact ==
    \A k \in Keys :
        trust[k[1]] = "exact" => advisory_account_data[k] = current_counts[k]

(***************************************************************************)
(* No affected system is ever missing from the counters, even after        *)
(* delete_systems has left counts of systems behind.                       *)
(***************************************************************************)
NothingMissing ==
    \A k \in Keys : trust[k[1]] \in {"exact", "over"} =>
        /\ advisory_account_data[k].installable >= current_counts[k].installable
        /\ advisory_account_data[k].applicable >= current_counts[k].applicable

(***************************************************************************)
(* Deleting systems also takes them out of the counters, "opt out to       *)
(* refresh cache and then delete", whichever function does it.             *)
(***************************************************************************)
DeletionsCounted ==
    \A k \in Keys : trust[k[1]] \in {"exact", "over"} =>
        advisory_account_data[k] = current_counts[k]

=============================================================================
