------------------------ MODULE AdvisoryCacheProofs ------------------------
(***************************************************************************)
(* Theorems about AdvisoryCache, for any accounts, systems, advisories and *)
(* tables at start and any number of sessions and updates: the locks keep  *)
(* the sessions apart, counters that were once right stay right, and they  *)
(* are never too small.                                                    *)
(***************************************************************************)
EXTENDS AdvisoryCache, FiniteSetTheorems, TLAPS

-----------------------------------------------------------------------------
(* The inductive invariants                                                *)

Jobs == {NoJob} \cup Updates \cup Refreshes

\* Rows keep their keys, and a system stays as it is while its row is locked.
PlatformInv ==
    /\ IsFiniteSet(system_advisories)
    /\ \A sp1, sp2 \in system_platform : sp1.ID = sp2.ID => sp1 = sp2
    /\ \A sa1, sa2 \in system_advisories :
         sa1.SystemID = sa2.SystemID /\ sa1.AdvisoryID = sa2.AdvisoryID
           => sa1 = sa2
    /\ \A s \in Sessions : Updating(s) =>
         /\ job[s].system \in system_platform
         /\ job[s].op = "mark" => ~job[s].system.Stale
         /\ job[s].op = "revive" => job[s].system.Stale

Typed == TypeOK /\ PlatformInv /\ job \in [Sessions -> Jobs]

\* The accounts whose counters are at least known not to be too small.
Known(acc) == trust[acc] \in {"exact", "over"}

AtLeast(c, d) == c.installable >= d.installable /\ c.applicable >= d.applicable

DataInv == CountsExact /\ NothingMissing

\* A refresh that is still alone has its accounts to itself, and what it has
\* counted is what there is to count.
AloneInv ==
    \A s \in Sessions : Refreshing(s) /\ job[s].alone =>
      /\ \A t \in Sessions :
           /\ Refreshing(t) /\ t # s =>
                AccountsOf(job[t].scope) \cap AccountsOf(job[s].scope) = {}
           /\ Updating(t) =>
                job[t].system.RhAccountID \notin AccountsOf(job[s].scope)
      /\ job[s].op = "count" =>
           \A k \in job[s].scope :
             /\ job[s].counts[k] = current_counts[k]
             /\ k \in Rows => k \in job[s].visible

\* A decrement will find every row it is due to change.
SeenInv ==
    \A s \in Sessions :
      Updating(s) /\ Change(job[s]) = -1 /\ Known(job[s].system.RhAccountID) =>
        \A sa \in AdvisoriesOf(job[s].system) : Key(sa) \in job[s].seen

\* No system is revived in an account with known counters that is refreshed.
RaceInv ==
    \A s, t \in Sessions :
      /\ Refreshing(s) /\ job[t].op = "revive"
      /\ job[t].system.RhAccountID \in AccountsOf(job[s].scope)
      => ~Known(job[t].system.RhAccountID)

\* A refresh of known counters has locked every row that is there, so that
\* what it has counted stays right until it writes it.
LockedInv ==
    \A s \in Sessions : Refreshing(s) =>
      \A k \in job[s].scope : Known(k[1]) =>
        /\ k \in Rows => k \in job[s].locked
        /\ job[s].op = "count" =>
             /\ job[s].counts[k] # NoRow => k \in Rows
             /\ AtLeast(job[s].counts[k], current_counts[k])
             /\ trust[k[1]] = "exact" => job[s].counts[k] = current_counts[k]

Invs == DataInv /\ AloneInv /\ SeenInv /\ RaceInv /\ LockedInv

-----------------------------------------------------------------------------
(* Counting                                                                *)

\* The counters of a set of affected systems.
Tally(A) ==
    [installable |-> Cardinality({ sa \in A : sa.StatusID = 0 }),
     applicable |-> Cardinality(A)]

LEMMA CountsAreTallies ==
    ASSUME NEW k \in Keys
    PROVE  current_counts[k] = Tally(Affected(k))
BY DEF current_counts, Tally

LEMMA TallyTyped ==
    ASSUME NEW A, IsFiniteSet(A)
    PROVE  /\ Tally(A) \in Counters
           /\ Tally(A).installable >= 0 /\ Tally(A).applicable >= 0
           /\ A # {} => Tally(A).applicable >= 1
<1> DEFINE I == { sa \in A : sa.StatusID = 0 }
<1>1. IsFiniteSet(I)
  BY FS_Subset
<1> HIDE DEF I
<1>2. Cardinality(I) \in Nat /\ Cardinality(A) \in Nat
  BY <1>1, FS_CardinalityType
<1>3. A # {} => Cardinality(A) # 0
  BY FS_EmptySet
<1>4. Tally(A) = [installable |-> Cardinality(I), applicable |-> Cardinality(A)]
  BY DEF Tally, I
<1> QED
  BY <1>2, <1>3, <1>4 DEF Counters

LEMMA TallyMono ==
    ASSUME NEW B, IsFiniteSet(B), NEW A \in SUBSET B
    PROVE  AtLeast(Tally(B), Tally(A))
<1> DEFINE I == { sa \in A : sa.StatusID = 0 }
           J == { sa \in B : sa.StatusID = 0 }
<1>1. I \in SUBSET J /\ IsFiniteSet(J)
  BY FS_Subset
<1> HIDE DEF I, J
<1>2. Cardinality(I) <= Cardinality(J) /\ Cardinality(A) <= Cardinality(B)
      /\ IsFiniteSet(I) /\ IsFiniteSet(A)
  BY <1>1, FS_Subset
<1>3. /\ Cardinality(I) \in Nat /\ Cardinality(J) \in Nat
      /\ Cardinality(A) \in Nat /\ Cardinality(B) \in Nat
  BY <1>1, <1>2, FS_CardinalityType
<1>4. /\ Tally(A) = [installable |-> Cardinality(I), applicable |-> Cardinality(A)]
      /\ Tally(B) = [installable |-> Cardinality(J), applicable |-> Cardinality(B)]
  BY DEF Tally, I, J
<1> QED
  BY <1>2, <1>3, <1>4 DEF AtLeast

\* One system more, ...
LEMMA TallyAdd ==
    ASSUME NEW A, IsFiniteSet(A), NEW sa, sa \notin A
    PROVE  Tally(A \cup {sa}) = Plus(Tally(A), sa, 1)
<1> DEFINE B == A \cup {sa}
           I == { x \in A : x.StatusID = 0 }
           J == { x \in B : x.StatusID = 0 }
<1>1. IsFiniteSet(I) /\ sa \notin I
  BY FS_Subset
<1>2. J = IF sa.StatusID = 0 THEN I \cup {sa} ELSE I
  OBVIOUS
<1>3. Cardinality(B) = Cardinality(A) + 1
  BY FS_AddElement
<1> HIDE DEF I, J
<1>4. Cardinality(I \cup {sa}) = Cardinality(I) + 1
  BY <1>1, FS_AddElement
<1>5. Cardinality(I) \in Nat /\ Cardinality(A) \in Nat
  BY <1>1, FS_CardinalityType
<1> HIDE DEF B
<1>6. Tally(A) = [installable |-> Cardinality(I), applicable |-> Cardinality(A)]
  BY DEF Tally, I
<1>7. Tally(B) = [installable |-> Cardinality(J), applicable |-> Cardinality(B)]
  BY DEF Tally, J
<1>8. Tally(B) = Plus(Tally(A), sa, 1)
  BY <1>2, <1>3, <1>4, <1>5, <1>6, <1>7 DEF Plus
<1> QED
  BY <1>8 DEF B

\* ... and one less.
LEMMA TallyRemove ==
    ASSUME NEW A, IsFiniteSet(A), NEW sa \in A
    PROVE  Tally(A \ {sa}) = Plus(Tally(A), sa, -1)
<1> DEFINE B == A \ {sa}
<1>1. IsFiniteSet(B) /\ sa \notin B /\ A = B \cup {sa}
  BY FS_Subset
<1> HIDE DEF B
<1>2. Tally(A) = Plus(Tally(B), sa, 1)
  BY <1>1, TallyAdd
<1>3. Tally(B) \in Counters
  BY <1>1, TallyTyped
<1>4. Tally(B) = Plus(Tally(A), sa, -1)
  BY <1>2, <1>3 DEF Plus, Counters
<1> QED
  BY <1>4 DEF B

LEMMA AffectedFinite ==
    ASSUME IsFiniteSet(system_advisories), NEW k
    PROVE  IsFiniteSet(Affected(k))
<1>1. Affected(k) \in SUBSET system_advisories
  BY DEF Affected, AdvisoriesOf
<1> QED
  BY <1>1, FS_Subset

LEMMA CountsTyped ==
    ASSUME Typed
    PROVE  /\ current_counts \in [Keys -> Counters]
           /\ \A k \in Keys : AtLeast(current_counts[k], NoRow)
<1>1. ASSUME NEW k \in Keys
      PROVE  /\ current_counts[k] \in Counters
             /\ AtLeast(current_counts[k], NoRow)
  BY AffectedFinite, CountsAreTallies, TallyTyped
  DEF Typed, PlatformInv, AtLeast, NoRow
<1>2. current_counts = [k \in Keys |-> current_counts[k]]
  BY DEF current_counts
<1> HIDE DEF current_counts
<1> QED
  BY <1>1, <1>2

-----------------------------------------------------------------------------
(* Sessions                                                                *)

\* What a session does tells what its record holds.
LEMMA JobKinds ==
    ASSUME Typed, NEW s \in Sessions
    PROVE  /\ Updating(s) => job[s] \in Updates
           /\ Refreshing(s) => job[s] \in Refreshes
           /\ ~Updating(s) /\ ~Refreshing(s) => job[s] = NoJob
           /\ Updating(s) => ~Refreshing(s)
<1>1. job[s] \in {NoJob} \cup Updates \cup Refreshes
  BY DEF Typed, Jobs
<1>2. \A j \in Updates : j.op \in {"mark", "revive", "delete"}
  BY DEF Updates
<1>3. \A j \in Refreshes : j.op \in {"lock", "count"}
  BY DEF Refreshes
<1> QED
  BY <1>1, <1>2, <1>3 DEF NoJob, Updating, Refreshing

LEMMA RefreshFields ==
    ASSUME NEW j \in Refreshes
    PROVE  /\ j.op \in {"lock", "count"} /\ j.scope \in SUBSET Keys
           /\ j.locked \in SUBSET Keys /\ j.alone \in BOOLEAN
           /\ j.op = "count" =>
                j.counts \in [Keys -> Counters] /\ j.visible \in SUBSET Keys
BY DEF Refreshes

\* A refresh that is disturbed is no longer alone, and nothing else changes.
LEMMA Disturbed ==
    ASSUME Typed, NEW accs, NEW t \in Sessions
    PROVE  /\ Disturb(accs)[t] \in Jobs
           /\ Disturb(accs)[t].op = job[t].op
           /\ ~Refreshing(t) => Disturb(accs)[t] = job[t]
           /\ Refreshing(t) =>
                /\ Disturb(accs)[t].scope = job[t].scope
                /\ Disturb(accs)[t].locked = job[t].locked
                /\ Disturb(accs)[t].alone =>
                     job[t].alone /\ accs \cap AccountsOf(job[t].scope) = {}
                /\ job[t].op = "count" =>
                     /\ Disturb(accs)[t].counts = job[t].counts
                     /\ Disturb(accs)[t].visible = job[t].visible
<1> DEFINE hit == Refreshing(t) /\ accs \cap AccountsOf(job[t].scope) # {}
<1>1. ~hit => Disturb(accs)[t] = job[t]
  BY DEF Disturb
<1>2. hit => Disturb(accs)[t] = [job[t] EXCEPT !.alone = FALSE]
  BY DEF Disturb
<1>3. CASE hit
  <2>1. job[t] \in Refreshes
    BY <1>3, JobKinds
  <2>2. CASE job[t].op = "lock"
    <3>1. job[t] \in [op : {"lock"}, scope : SUBSET Keys,
                      locked : SUBSET Keys, alone : BOOLEAN]
      BY <2>1, <2>2 DEF Refreshes
    <3>2. [job[t] EXCEPT !.alone = FALSE] \in Refreshes
      BY <3>1 DEF Refreshes
    <3> QED
      BY <1>2, <1>3, <2>2, <3>1, <3>2 DEF Jobs
  <2>3. CASE job[t].op = "count"
    <3>1. job[t] \in [op : {"count"}, scope : SUBSET Keys,
                      locked : SUBSET Keys, alone : BOOLEAN,
                      counts : [Keys -> Counters], visible : SUBSET Keys]
      BY <2>1, <2>3 DEF Refreshes
    <3>2. [job[t] EXCEPT !.alone = FALSE] \in Refreshes
      BY <3>1 DEF Refreshes
    <3> QED
      BY <1>2, <1>3, <2>3, <3>1, <3>2 DEF Jobs
  <2> QED
    BY <2>1, <2>2, <2>3, RefreshFields
<1>4. CASE ~hit
  BY <1>1, <1>4 DEF Typed
<1> QED
  BY <1>3, <1>4

\* What the other sessions' steps leave of a job: all but that it is alone.
Same(i, j) ==
    /\ j.op = i.op
    /\ i.op \notin {"lock", "count"} => j = i
    /\ i.op \in {"lock", "count"} =>
         j.scope = i.scope /\ j.locked = i.locked /\ (j.alone => i.alone)
    /\ i.op = "count" => j.counts = i.counts /\ j.visible = i.visible

LEMMA DisturbSame ==
    ASSUME Typed, NEW accs, NEW t \in Sessions
    PROVE  Same(job[t], Disturb(accs)[t])
BY Disturbed DEF Same, Refreshing

-----------------------------------------------------------------------------
(* Type correctness                                                        *)

TablesTyped ==
    /\ system_platform \subseteq SystemPlatform
    /\ system_advisories \subseteq SystemAdvisory
    /\ IsFiniteSet(system_advisories)
    /\ \A sp1, sp2 \in system_platform : sp1.ID = sp2.ID => sp1 = sp2
    /\ \A sa1, sa2 \in system_advisories :
         sa1.SystemID = sa2.SystemID /\ sa1.AdvisoryID = sa2.AdvisoryID
           => sa1 = sa2
    /\ advisory_account_data \in [Keys -> Counters]
    /\ trust \in [Accounts -> {"unbuilt", "exact", "over", "raced"}]

\* What the locks of a session promise.
Apart(s) ==
    /\ Updating(s) =>
         /\ job[s].system \in system_platform
         /\ job[s].op = "mark" => ~job[s].system.Stale
         /\ job[s].op = "revive" => job[s].system.Stale
    /\ \A t \in Sessions \ {s} :
         /\ Refreshing(s) /\ Refreshing(t) =>
              job[s].locked \cap job[t].locked = {}
         /\ Updating(s) /\ Updating(t) => job[s].system # job[t].system

LEMMA TypedSplit ==
    Typed <=> /\ TablesTyped
              /\ job \in [Sessions -> Jobs]
              /\ \A s \in Sessions : Apart(s)
<1>1. Typed => TablesTyped /\ \A s \in Sessions : Apart(s)
  BY DEF Typed, TypeOK, PlatformInv, TablesTyped, Apart
<1>2. ASSUME TablesTyped, job \in [Sessions -> Jobs],
             \A s \in Sessions : Apart(s)
      PROVE  Typed
  <2>1. \A s \in Sessions : job[s] \in {NoJob} \cup Updates \cup Refreshes
    BY <1>2 DEF Jobs
  <2> QED
    BY <1>2, <2>1 DEF Typed, TypeOK, PlatformInv, TablesTyped, Apart
<1> QED
  BY <1>1, <1>2 DEF Typed

\* Sessions that a step leaves alone stay apart.
LEMMA TypedFrom ==
    ASSUME Typed, TablesTyped', (job \in [Sessions -> Jobs])',
           NEW rest \in SUBSET Sessions,
           \A t \in rest :
             /\ Same(job[t], job'[t])
             /\ Updating(t) => job[t].system \in system_platform',
           \A s \in Sessions \ rest : Apart(s)'
    PROVE  Typed'
<1>1. \A s \in Sessions : Apart(s)
  BY TypedSplit
<1>2. ASSUME NEW t \in rest
      PROVE  Apart(t)'
  <2>1. /\ Updating(t)' => Updating(t) /\ job'[t] = job[t]
        /\ Refreshing(t)' => Refreshing(t) /\ job'[t].locked = job[t].locked
    BY DEF Same, Updating, Refreshing
  <2>2. ASSUME NEW u \in rest \ {t}
        PROVE  /\ Refreshing(t)' /\ Refreshing(u)' =>
                    job'[t].locked \cap job'[u].locked = {}
               /\ Updating(t)' /\ Updating(u)' =>
                    job'[t].system # job'[u].system
    <3>1. /\ Updating(u)' => Updating(u) /\ job'[u] = job[u]
          /\ Refreshing(u)' => Refreshing(u) /\ job'[u].locked = job[u].locked
      BY DEF Same, Updating, Refreshing
    <3> QED
      BY <1>1, <2>1, <3>1 DEF Apart
  <2>3. ASSUME NEW u \in Sessions \ rest
        PROVE  /\ Refreshing(t)' /\ Refreshing(u)' =>
                    job'[t].locked \cap job'[u].locked = {}
               /\ Updating(t)' /\ Updating(u)' =>
                    job'[t].system # job'[u].system
    <3>1. Apart(u)' /\ t \in Sessions \ {u}
      OBVIOUS
    <3> QED
      BY <3>1 DEF Apart
  <2>4. Updating(t)' =>
          /\ job'[t].system \in system_platform'
          /\ job'[t].op = "mark" => ~job'[t].system.Stale
          /\ job'[t].op = "revive" => job'[t].system.Stale
    BY <1>1, <2>1 DEF Apart
  <2> QED
    BY <2>2, <2>3, <2>4 DEF Apart
<1>3. (\A s \in Sessions : Apart(s))'
  BY <1>2
<1>4. (Typed <=> /\ TablesTyped
                 /\ job \in [Sessions -> Jobs]
                 /\ \A s \in Sessions : Apart(s))'
  BY TypedSplit, PTL
<1> QED
  BY <1>3, <1>4

LEMMA TypedInit == Init => Typed
<1> SUFFICES ASSUME Init PROVE Typed
  OBVIOUS
<1>1. \A s \in Sessions : job[s] = NoJob
  BY DEF Init
<1>2. \A s \in Sessions : Apart(s)
  BY <1>1 DEF Apart, Updating, Refreshing, NoJob
<1>3. job \in [Sessions -> Jobs]
  BY DEF Init, Jobs
<1>4. IsFiniteSet(system_advisories)
  BY SeedAssumption DEF Init
<1>5. advisory_account_data \in [Keys -> Counters]
  <2>1. ASSUME NEW k \in Keys PROVE current_counts[k] \in Counters
    BY <1>4, AffectedFinite, CountsAreTallies, TallyTyped
  <2>2. current_counts \in [Keys -> Counters]
    BY <2>1 DEF current_counts
  <2>3. NoRow \in Counters
    BY DEF NoRow, Counters
  <2> QED
    BY <2>2, <2>3 DEF Init
<1>6. trust \in [Accounts -> {"unbuilt", "exact", "over", "raced"}]
  BY DEF Init
<1>7. TablesTyped
  BY <1>4, <1>5, <1>6, SeedAssumption DEF Init, TablesTyped
<1> QED
  BY <1>2, <1>3, <1>7, TypedSplit

\* An update of one system begins: whichever it is, it may.
Begins(s, op, sp) ==
    /\ Begin(s, op, sp)
    /\ op \in {"mark", "revive", "delete"}
    /\ sp \in system_platform
    /\ op = "mark" => ~sp.Stale
    /\ op = "revive" => sp.Stale

LEMMA BeginnersBegin ==
    ASSUME NEW s \in Sessions,
           mark_stale_systems(s) \/ delete_system(s) \/ Upload(s)
    PROVE  \E op \in {"mark", "revive", "delete"}, sp \in system_platform :
             Begins(s, op, sp)
BY DEF mark_stale_systems, delete_system, Upload, Begins

AccountOf(sp) == {sp.RhAccountID}

LEMMA BeginJobs ==
    ASSUME Typed, NEW s \in Sessions, NEW op, NEW sp, Begins(s, op, sp)
    PROVE  /\ job'[s] = [op |-> op, system |-> sp, seen |-> Rows]
           /\ job'[s] \in Updates
           /\ job' \in [Sessions -> Jobs]
           /\ \A t \in Sessions \ {s} :
                job'[t] = Disturb(AccountOf(sp))[t]
<1>1. job' = [Disturb(AccountOf(sp)) EXCEPT
                ![s] = [op |-> op, system |-> sp, seen |-> Rows]]
  BY DEF Begins, Begin, AccountOf
<1>2. DOMAIN Disturb(AccountOf(sp)) = Sessions
  BY DEF Disturb
<1>3. [op |-> op, system |-> sp, seen |-> Rows] \in Updates
  BY DEF Begins, Updates, Rows, Typed, TypeOK
<1>4. \A t \in Sessions : Disturb(AccountOf(sp))[t] \in Jobs
  BY Disturbed
<1>5. [op |-> op, system |-> sp, seen |-> Rows] \in Jobs
  BY <1>3 DEF Jobs
<1> HIDE DEF Disturb
<1>6. Disturb(AccountOf(sp)) \in [Sessions -> Jobs]
  <2>1. Disturb(AccountOf(sp))
          = [t \in Sessions |-> Disturb(AccountOf(sp))[t]]
    BY DEF Disturb
  <2> QED
    BY <1>4, <2>1
<1> QED
  BY <1>1, <1>3, <1>5, <1>6

LEMMA BeginTyped ==
    ASSUME Typed, NEW s \in Sessions, NEW op, NEW sp, Begins(s, op, sp)
    PROVE  Typed'
<1>1. TablesTyped'
  <2>1. TablesTyped
    BY TypedSplit
  <2>2. trust' \in [Accounts -> {"unbuilt", "exact", "over", "raced"}]
    BY <2>1 DEF Begins, Begin, TablesTyped
  <2> QED
    BY <2>1, <2>2 DEF Begins, Begin, TablesTyped
<1>2. ASSUME NEW t \in Sessions \ {s}
      PROVE  /\ Same(job[t], job'[t])
             /\ Updating(t) => job[t].system \in system_platform'
             /\ Updating(t)' => Updating(t) /\ job'[t] = job[t]
  <2>1. Same(job[t], job'[t])
    BY BeginJobs, DisturbSame
  <2>2. system_platform' = system_platform
    BY DEF Begins, Begin
  <2> QED
    BY <2>1, <2>2 DEF Same, Typed, PlatformInv, Updating
<1>3. Apart(s)'
  <2>1. job'[s] = [op |-> op, system |-> sp, seen |-> Rows]
    BY BeginJobs
  <2>2. system_platform' = system_platform
    BY DEF Begins, Begin
  <2>3. \A t \in Sessions : Updating(t) => job[t].system # sp
    BY DEF Begins, Begin, Free
  <2>4. ~Refreshing(s)'
    BY <2>1 DEF Begins, Refreshing
  <2> QED
    BY <1>2, <2>1, <2>2, <2>3, <2>4 DEF Apart, Begins
<1>4. PICK rest : rest = Sessions \ {s}
  OBVIOUS
<1> QED
  BY <1>1, <1>2, <1>3, <1>4, BeginJobs, TypedFrom

\* A step that ends what a session does, or leaves it refreshing.
LEMMA OwnStepTyped ==
    ASSUME Typed, NEW s \in Sessions, NEW new \in Jobs,
           TablesTyped',
           job' = [job EXCEPT ![s] = new],
           \A t \in Sessions \ {s} :
             Updating(t) => job[t].system \in system_platform',
           \/ new = NoJob
           \/ /\ Refreshing(s) /\ new \in Refreshes
              /\ new.locked = job[s].locked
    PROVE  Typed'
<1>1. /\ job' \in [Sessions -> Jobs] /\ job'[s] = new
      /\ \A t \in Sessions \ {s} : job'[t] = job[t]
  BY DEF Typed
<1>2. \A t \in Sessions \ {s} : Same(job[t], job'[t])
  BY <1>1 DEF Same
<1>3. Apart(s)'
  <2>1. ~Updating(s)'
    BY <1>1, RefreshFields DEF Updating, NoJob
  <2>2. ASSUME Refreshing(s)', NEW t \in Sessions \ {s}, Refreshing(t)'
        PROVE  job'[s].locked \cap job'[t].locked = {}
    <3>1. new # NoJob /\ Refreshing(t)
      BY <1>1, <2>2 DEF Refreshing, NoJob
    <3> QED
      BY <1>1, <3>1 DEF Typed, TypeOK
  <2> QED
    BY <2>1, <2>2 DEF Apart
<1>4. PICK rest : rest = Sessions \ {s}
  OBVIOUS
<1> QED
  BY <1>1, <1>2, <1>3, <1>4, TypedFrom

LEMMA RollbackTyped ==
    ASSUME Typed, NEW s \in Sessions, Rollback(s)
    PROVE  Typed'
<1>1. TablesTyped
  BY TypedSplit
<1>2. TablesTyped'
  BY <1>1 DEF Rollback, TablesTyped
<1>3. NoJob \in Jobs
  BY DEF Jobs
<1>4. \A t \in Sessions : Updating(t) => job[t].system \in system_platform'
  BY DEF Rollback, Typed, PlatformInv
<1> QED
  BY <1>2, <1>3, <1>4, OwnStepTyped DEF Rollback

\* What a refresh records when it has locked its rows.
Locking(scope) ==
    [op |-> "lock", scope |-> scope, locked |-> scope \cap Rows,
     alone |-> \A acc \in AccountsOf(scope) : ~Busy(acc)]

LEMMA LockJobs ==
    ASSUME Typed, NEW s \in Sessions, LockRows(s)
    PROVE  \E scope \in Scopes :
             /\ (scope \cap Rows) \cap LockedFor(s) = {}
             /\ job'[s] = Locking(scope) /\ job'[s] \in Refreshes
             /\ job' \in [Sessions -> Jobs]
             /\ \A t \in Sessions \ {s} :
                  job'[t] = Disturb(AccountsOf(scope))[t]
             /\ trust' = [acc \in Accounts |->
                            IF /\ \E t \in Sessions :
                                    /\ job[t].op = "revive"
                                    /\ acc = job[t].system.RhAccountID
                               /\ acc \in AccountsOf(scope)
                            THEN "raced" ELSE trust[acc]]
<1>1. PICK scope \in Scopes :
        /\ (scope \cap Rows) \cap LockedFor(s) = {}
        /\ job' = [Disturb(AccountsOf(scope)) EXCEPT ![s] = Locking(scope)]
        /\ trust' = [acc \in Accounts |->
                       IF acc \in { job[t].system.RhAccountID :
                                      t \in { u \in Sessions :
                                                job[u].op = "revive" } }
                                    \cap AccountsOf(scope)
                       THEN "raced" ELSE trust[acc]]
  BY DEF LockRows, Locking
<1>2. scope \in SUBSET Keys
  BY DEF Scopes, Keys
<1>3. Locking(scope) \in Refreshes
  <2>1. (\A acc \in AccountsOf(scope) : ~Busy(acc)) \in BOOLEAN
    OBVIOUS
  <2> QED
    BY <1>2, <2>1 DEF Locking, Refreshes
<1>4. Disturb(AccountsOf(scope)) \in [Sessions -> Jobs]
  <2>1. \A t \in Sessions : Disturb(AccountsOf(scope))[t] \in Jobs
    BY Disturbed
  <2>2. Disturb(AccountsOf(scope))
          = [t \in Sessions |-> Disturb(AccountsOf(scope))[t]]
    BY DEF Disturb
  <2> HIDE DEF Disturb
  <2> QED
    BY <2>1, <2>2
<1>5. /\ job'[s] = Locking(scope)
      /\ job' \in [Sessions -> Jobs]
      /\ \A t \in Sessions \ {s} : job'[t] = Disturb(AccountsOf(scope))[t]
  BY <1>1, <1>3, <1>4 DEF Jobs
<1>6. trust' = [acc \in Accounts |->
                  IF /\ \E t \in Sessions :
                          /\ job[t].op = "revive"
                          /\ acc = job[t].system.RhAccountID
                     /\ acc \in AccountsOf(scope)
                  THEN "raced" ELSE trust[acc]]
  <2>1. \A acc :
          acc \in { job[t].system.RhAccountID :
                      t \in { u \in Sessions : job[u].op = "revive" } }
            <=> \E t \in Sessions :
                  job[t].op = "revive" /\ acc = job[t].system.RhAccountID
    OBVIOUS
  <2> QED
    BY <1>1, <2>1
<1> QED
  BY <1>1, <1>3, <1>5, <1>6

LEMMA LockTyped ==
    ASSUME Typed, NEW s \in Sessions, LockRows(s)
    PROVE  Typed'
<1>1. PICK scope \in Scopes :
        /\ (scope \cap Rows) \cap LockedFor(s) = {}
        /\ job'[s] = Locking(scope)
        /\ job' \in [Sessions -> Jobs]
        /\ \A t \in Sessions \ {s} : job'[t] = Disturb(AccountsOf(scope))[t]
        /\ trust' = [acc \in Accounts |->
                       IF /\ \E t \in Sessions :
                               /\ job[t].op = "revive"
                               /\ acc = job[t].system.RhAccountID
                          /\ acc \in AccountsOf(scope)
                       THEN "raced" ELSE trust[acc]]
  BY LockJobs
<1>2. TablesTyped'
  <2>1. TablesTyped
    BY TypedSplit
  <2>2. trust' \in [Accounts -> {"unbuilt", "exact", "over", "raced"}]
    BY <1>1, <2>1 DEF TablesTyped
  <2> QED
    BY <2>1, <2>2 DEF LockRows, TablesTyped
<1>3. ASSUME NEW t \in Sessions \ {s}
      PROVE  /\ Same(job[t], job'[t])
             /\ Updating(t) => job[t].system \in system_platform'
  <2>1. Same(job[t], job'[t])
    BY <1>1, DisturbSame
  <2>2. system_platform' = system_platform
    BY DEF LockRows
  <2> QED
    BY <2>1, <2>2 DEF Typed, PlatformInv
<1>4. Apart(s)'
  <2>1. ~Updating(s)' /\ job'[s].locked = scope \cap Rows
    BY <1>1 DEF Updating, Locking
  <2>2. ASSUME NEW t \in Sessions \ {s}, Refreshing(t)'
        PROVE  job'[s].locked \cap job'[t].locked = {}
    <3>1. Refreshing(t) /\ job'[t].locked = job[t].locked
      BY <1>3, <2>2 DEF Same, Refreshing
    <3>2. job[t].locked \in SUBSET LockedFor(s)
      BY <3>1 DEF LockedFor
    <3> QED
      BY <1>1, <2>1, <3>1, <3>2
  <2> QED
    BY <2>1, <2>2 DEF Apart
<1>5. PICK rest : rest = Sessions \ {s}
  OBVIOUS
<1> QED
  BY <1>1, <1>2, <1>3, <1>4, <1>5, TypedFrom

\* What a refresh records when it has counted.
Counting(j) ==
    [op |-> "count", scope |-> j.scope, locked |-> j.locked,
     alone |-> j.alone, counts |-> current_counts, visible |-> Rows]

LEMMA CountTyped ==
    ASSUME Typed, NEW s \in Sessions, CountRows(s)
    PROVE  Typed'
<1>1. job[s] \in Refreshes /\ Refreshing(s)
  BY JobKinds DEF CountRows, Refreshing
<1>2. Counting(job[s]) \in Refreshes
  <2>1. Rows \in SUBSET Keys
    BY DEF Rows
  <2> QED
    BY <1>1, <2>1, CountsTyped, RefreshFields DEF Counting, Refreshes
<1>3. PICK new : new = Counting(job[s])
  OBVIOUS
<1>4. /\ job' = [job EXCEPT ![s] = new] /\ new \in Jobs
      /\ new.locked = job[s].locked
  BY <1>2, <1>3 DEF CountRows, Counting, Jobs
<1>5. TablesTyped
  BY TypedSplit
<1>6. TablesTyped'
  BY <1>5 DEF CountRows, TablesTyped
<1>7. \A t \in Sessions : Updating(t) => job[t].system \in system_platform'
  BY DEF CountRows, Typed, PlatformInv
<1> QED
  BY <1>1, <1>2, <1>3, <1>4, <1>6, <1>7, OwnStepTyped

LEMMA WriteTyped ==
    ASSUME Typed, NEW s \in Sessions, WriteRows(s)
    PROVE  Typed'
<1>1. job[s] \in Refreshes /\ job[s].op = "count"
  BY JobKinds DEF WriteRows, Refreshing
<1>2. TablesTyped
  BY TypedSplit
<1>3. advisory_account_data' \in [Keys -> Counters]
  BY <1>1, <1>2, RefreshFields DEF WriteRows, Written, TablesTyped
<1>4. trust' \in [Accounts -> {"unbuilt", "exact", "over", "raced"}]
  BY <1>2 DEF WriteRows, TablesTyped
<1>5. TablesTyped'
  BY <1>2, <1>3, <1>4 DEF WriteRows, TablesTyped
<1>6. \A t \in Sessions : Updating(t) => job[t].system \in system_platform'
  BY DEF WriteRows, Typed, PlatformInv
<1>7. NoJob \in Jobs /\ job' = [job EXCEPT ![s] = NoJob]
  BY DEF WriteRows, Jobs
<1> QED
  BY <1>5, <1>6, <1>7, OwnStepTyped

LEMMA ChangeValues ==
    \A j : Change(j) \in {-1, 0, 1}
BY DEF Change

LEMMA KeptTyped ==
    ASSUME NEW c \in Counters, NEW sa, NEW d \in {-1, 0, 1}
    PROVE  Kept(Plus(c, sa, d)) \in Counters
BY DEF Kept, Plus, Counters, NoRow

\* The trigger leaves counters.
LEMMA TriggerTyped ==
    ASSUME Typed, NEW j
    PROVE  on_system_update(j) \in [Keys -> Counters]
<1>1. ASSUME NEW k \in Keys PROVE on_system_update(j)[k] \in Counters
  <2> DEFINE hits == { sa \in Reached(j) : Key(sa) = k }
  <2>1. advisory_account_data[k] \in Counters
    BY DEF Typed, TypeOK
  <2>2. PICK sa : sa = CHOOSE x \in hits : TRUE
    OBVIOUS
  <2>3. Kept(Plus(advisory_account_data[k], sa, Change(j))) \in Counters
    BY <2>1, ChangeValues, KeptTyped
  <2>4. on_system_update(j)[k] =
          IF hits = {} THEN advisory_account_data[k]
          ELSE Kept(Plus(advisory_account_data[k],
                         CHOOSE x \in hits : TRUE, Change(j)))
    BY DEF on_system_update
  <2> QED
    BY <2>1, <2>2, <2>3, <2>4
<1>2. on_system_update(j) = [k \in Keys |-> on_system_update(j)[k]]
  BY DEF on_system_update
<1> HIDE DEF on_system_update
<1> QED
  BY <1>1, <1>2

\* What a change of one system leaves of its row.
Remaining(j) ==
    IF j.op = "delete" THEN {} ELSE {[j.system EXCEPT !.Stale = (j.op = "mark")]}

LEMMA FinishTables ==
    ASSUME Typed, NEW s \in Sessions, Finish(s)
    PROVE  /\ job[s] \in Updates /\ job[s].system \in system_platform
           /\ system_platform' =
                (system_platform \ {job[s].system}) \cup Remaining(job[s])
           /\ system_advisories' =
                IF job[s].op = "delete"
                THEN system_advisories \ AdvisoriesOf(job[s].system)
                ELSE system_advisories
           /\ advisory_account_data' = on_system_update(job[s])
           /\ job' = [job EXCEPT ![s] = NoJob]
BY JobKinds DEF Finish, Remaining, Typed, PlatformInv

LEMMA FinishTyped ==
    ASSUME Typed, NEW s \in Sessions, Finish(s)
    PROVE  Typed'
<1>1. TablesTyped
  BY TypedSplit
<1>2. job[s].system \in SystemPlatform
  BY <1>1, FinishTables DEF TablesTyped
<1>3. \A sp \in Remaining(job[s]) :
        sp \in SystemPlatform /\ sp.ID = job[s].system.ID
  BY <1>2 DEF Remaining, SystemPlatform
<1>4. /\ (system_platform \subseteq SystemPlatform)'
      /\ (\A sp1, sp2 \in system_platform : sp1.ID = sp2.ID => sp1 = sp2)'
  <2>1. \A sp1, sp2 \in Remaining(job[s]) : sp1 = sp2
    BY DEF Remaining
  <2> QED
    BY <1>1, <1>3, <2>1, FinishTables DEF TablesTyped
<1>5. system_advisories' \in SUBSET system_advisories
  BY FinishTables
<1>6. IsFiniteSet(system_advisories)'
  BY <1>1, <1>5, FS_Subset DEF TablesTyped
<1>7. (advisory_account_data \in [Keys -> Counters])'
  BY FinishTables, TriggerTyped
<1>8. TablesTyped'
  BY <1>1, <1>4, <1>5, <1>6, <1>7 DEF TablesTyped, Finish
<1>9. ASSUME NEW t \in Sessions \ {s}, Updating(t)
      PROVE  job[t].system \in system_platform'
  <2>1. job[t].system \in system_platform /\ job[t].system # job[s].system
    BY <1>9 DEF Finish, Typed, TypeOK, PlatformInv
  <2> QED
    BY <2>1, FinishTables
<1>10. NoJob \in Jobs
  BY DEF Jobs
<1> QED
  BY <1>8, <1>9, <1>10, FinishTables, OwnStepTyped

\* delete_systems on the systems gone, of which it updates some.
Deletes(gone, updated) ==
    /\ gone \in SUBSET system_platform
    /\ updated \in SUBSET gone
    /\ \A sp \in gone : Free(sp)
    /\ system_platform' = (system_platform \ gone)
         \cup { [sp EXCEPT !.Stale = TRUE] : sp \in updated }
    /\ system_advisories' =
         system_advisories \ UNION { AdvisoriesOf(sp) : sp \in gone }
    /\ UNCHANGED advisory_account_data

\* The accounts that lose affected systems without being told.
Lost(gone) ==
    { sp.RhAccountID : sp \in
        { x \in gone : Counted(x) /\ AdvisoriesOf(x) # {} } }

Deleted(gone) ==
    /\ trust' = [acc \in Accounts |->
                   IF acc \in Lost(gone) /\ trust[acc] = "exact"
                   THEN "over" ELSE trust[acc]]
    /\ job' = Disturb(Lost(gone))

LEMMA DeleteSystems ==
    ASSUME delete_systems
    PROVE  \E gone, updated : Deletes(gone, updated) /\ Deleted(gone)
BY DEF delete_systems, Deletes, Deleted, Lost

LEMMA DeleteTyped ==
    ASSUME Typed, delete_systems
    PROVE  Typed'
<1>1. PICK gone, updated : Deletes(gone, updated) /\ Deleted(gone)
  BY DeleteSystems
<1>2. TablesTyped
  BY TypedSplit
<1> DEFINE marked == { [sp EXCEPT !.Stale = TRUE] : sp \in updated }
<1>3. system_platform' = (system_platform \ gone) \cup marked
  BY <1>1 DEF Deletes
<1>4. \A sp \in marked :
        /\ sp \in SystemPlatform
        /\ \E x \in gone : x \in system_platform /\ x.ID = sp.ID
                            /\ sp = [x EXCEPT !.Stale = TRUE]
  <2>1. ASSUME NEW sp \in marked
        PROVE  /\ sp \in SystemPlatform
               /\ \E x \in gone : x \in system_platform /\ x.ID = sp.ID
                                   /\ sp = [x EXCEPT !.Stale = TRUE]
    <3>1. PICK x \in updated : sp = [x EXCEPT !.Stale = TRUE]
      OBVIOUS
    <3>2. x \in gone /\ x \in system_platform /\ x \in SystemPlatform
      BY <1>1, <1>2 DEF Deletes, TablesTyped
    <3>3. sp \in SystemPlatform /\ sp.ID = x.ID
      BY <3>1, <3>2 DEF SystemPlatform
    <3> QED
      BY <3>1, <3>2, <3>3
  <2> QED
    BY <2>1
<1> HIDE DEF marked
<1>5. /\ (system_platform \subseteq SystemPlatform)'
      /\ (\A sp1, sp2 \in system_platform : sp1.ID = sp2.ID => sp1 = sp2)'
  <2>1. ASSUME NEW sp1 \in system_platform', NEW sp2 \in system_platform',
               sp1.ID = sp2.ID
        PROVE  sp1 = sp2
    <3>1. CASE sp1 \in marked /\ sp2 \in marked
      <4>1. PICK x1 \in gone : x1 \in system_platform /\ x1.ID = sp1.ID
                                /\ sp1 = [x1 EXCEPT !.Stale = TRUE]
        BY <1>4, <3>1
      <4>2. PICK x2 \in gone : x2 \in system_platform /\ x2.ID = sp2.ID
                                /\ sp2 = [x2 EXCEPT !.Stale = TRUE]
        BY <1>4, <3>1
      <4>3. x1 = x2
        BY <1>2, <2>1, <4>1, <4>2 DEF TablesTyped
      <4> QED
        BY <4>1, <4>2, <4>3
    <3>2. CASE sp1 \in marked /\ sp2 \notin marked
      BY <1>2, <1>3, <1>4, <2>1, <3>2 DEF TablesTyped
    <3>3. CASE sp1 \notin marked /\ sp2 \in marked
      BY <1>2, <1>3, <1>4, <2>1, <3>3 DEF TablesTyped
    <3>4. CASE sp1 \notin marked /\ sp2 \notin marked
      BY <1>2, <1>3, <2>1, <3>4 DEF TablesTyped
    <3> QED
      BY <3>1, <3>2, <3>3, <3>4
  <2> QED
    BY <1>2, <1>3, <1>4, <2>1 DEF TablesTyped
<1>6. system_advisories' \in SUBSET system_advisories
  BY <1>1 DEF Deletes
<1>7. IsFiniteSet(system_advisories)'
  BY <1>2, <1>6, FS_Subset DEF TablesTyped
<1>8. trust' \in [Accounts -> {"unbuilt", "exact", "over", "raced"}]
  BY <1>1, <1>2 DEF Deleted, TablesTyped
<1>9. TablesTyped'
  BY <1>1, <1>2, <1>5, <1>6, <1>7, <1>8 DEF TablesTyped, Deletes
<1>10. \A t \in Sessions : job'[t] = Disturb(Lost(gone))[t]
  BY <1>1 DEF Deleted
<1>11. job' \in [Sessions -> Jobs]
  <2>1. \A t \in Sessions : Disturb(Lost(gone))[t] \in Jobs
    BY Disturbed
  <2>2. Disturb(Lost(gone)) = [t \in Sessions |-> Disturb(Lost(gone))[t]]
    BY DEF Disturb
  <2> HIDE DEF Disturb
  <2> QED
    BY <1>1, <2>1, <2>2 DEF Deleted
<1>12. ASSUME NEW t \in Sessions
       PROVE  /\ Same(job[t], job'[t])
              /\ Updating(t) => job[t].system \in system_platform'
  <2>1. Same(job[t], job'[t])
    BY <1>10, DisturbSame
  <2>2. Updating(t) => job[t].system \in system_platform \ gone
    BY <1>1 DEF Deletes, Free, Typed, PlatformInv
  <2> QED
    BY <1>3, <2>1, <2>2
<1> QED
  BY <1>9, <1>11, <1>12, TypedFrom

LEMMA TypedNext == Typed /\ [Next]_vars => Typed'
<1> SUFFICES ASSUME Typed, [Next]_vars PROVE Typed'
  OBVIOUS
<1>1. CASE \E s \in Sessions : Step(s)
  <2>1. PICK s \in Sessions : Step(s)
    BY <1>1
  <2>2. CASE mark_stale_systems(s) \/ delete_system(s) \/ Upload(s)
    <3>1. PICK op \in {"mark", "revive", "delete"}, sp \in system_platform :
            Begins(s, op, sp)
      BY <2>2, BeginnersBegin
    <3> QED
      BY <3>1, BeginTyped
  <2> QED
    BY <2>1, <2>2, FinishTyped, LockTyped, CountTyped, WriteTyped,
       RollbackTyped DEF Step
<1>2. CASE UNCHANGED vars
  BY <1>2 DEF vars, Typed, TypeOK, PlatformInv, Updating, Refreshing,
              AdvisoriesOf
<1> QED
  BY <1>1, <1>2, DeleteTyped DEF Next

\* Any number of sessions, rolled back anywhere: two refreshes never hold the
\* lock of one row of counters, nor two updates that of one system, and the
\* tables keep their types.
THEOREM TypeCorrect == Spec => []TypeOK
<1>1. Typed => TypeOK
  BY DEF Typed
<1> QED
  BY <1>1, TypedInit, TypedNext, PTL DEF Spec

-----------------------------------------------------------------------------
(* What a step does to the affected systems of an advisory                 *)

LEMMA AffectedIff ==
    \A k, sa : sa \in Affected(k) <=>
      /\ sa \in system_advisories /\ Key(sa) = k
      /\ \E sp \in system_platform :
           /\ Counted(sp)
           /\ sa.RhAccountID = sp.RhAccountID /\ sa.SystemID = sp.ID
BY DEF Affected, AdvisoriesOf, Key

\* The advisory k of the system that j changes, if it has it.
Advisory(j, k) == { sa \in AdvisoriesOf(j.system) : Key(sa) = k }

\* A system has an advisory at most once.
LEMMA OneAdvisory ==
    ASSUME Typed, NEW j, NEW k, Advisory(j, k) # {}
    PROVE  \E sa \in AdvisoriesOf(j.system) :
             Advisory(j, k) = {sa} /\ Key(sa) = k
BY DEF Advisory, AdvisoriesOf, Key, Typed, PlatformInv

\* The trigger adds the system it should count, or takes it away.
LEMMA FinishAffected ==
    ASSUME Typed, NEW s \in Sessions, Finish(s), NEW k
    PROVE  /\ Change(job[s]) = 0 => Affected(k)' = Affected(k)
           /\ Change(job[s]) = -1 =>
                /\ Advisory(job[s], k) \in SUBSET Affected(k)
                /\ Affected(k)' = Affected(k) \ Advisory(job[s], k)
           /\ Change(job[s]) = 1 =>
                /\ Advisory(job[s], k) \cap Affected(k) = {}
                /\ Affected(k)' = Affected(k) \cup Advisory(job[s], k)
<1>1. PICK j : j = job[s]
  OBVIOUS
<1>2. /\ j \in Updates /\ j.system \in system_platform
      /\ system_platform' = (system_platform \ {j.system}) \cup Remaining(j)
      /\ system_advisories' = IF j.op = "delete"
                              THEN system_advisories \ AdvisoriesOf(j.system)
                              ELSE system_advisories
      /\ j.op = "mark" => ~j.system.Stale
      /\ j.op = "revive" => j.system.Stale
  BY <1>1, FinishTables DEF Typed, PlatformInv, Finish
<1>3. /\ j.op \in {"mark", "revive", "delete"} /\ j.system \in SystemPlatform
      /\ \A sp \in system_platform : sp.ID = j.system.ID => sp = j.system
  BY <1>2 DEF Updates, Typed, PlatformInv
<1>4. ASSUME NEW sa
      PROVE  (sa \in Affected(k))' <=>
               /\ sa \in system_advisories' /\ Key(sa) = k
               /\ \E sp \in system_platform' :
                    /\ Counted(sp)
                    /\ sa.RhAccountID = sp.RhAccountID /\ sa.SystemID = sp.ID
  BY DEF Affected, AdvisoriesOf, Key, Counted
\* The system is counted afterwards if it was evaluated and is revived.
<1>5. ASSUME NEW sp \in Remaining(j)
      PROVE  /\ sp.ID = j.system.ID /\ sp.RhAccountID = j.system.RhAccountID
             /\ Counted(sp) <=> j.system.Evaluated /\ j.op = "revive"
  BY <1>3 DEF Remaining, SystemPlatform, Counted
<1>6. j.op # "delete" => \E sp : sp \in Remaining(j)
  BY DEF Remaining
<1>7. /\ Change(j) = 0 =>
           ~Counted(j.system) /\ \A sp \in Remaining(j) : ~Counted(sp)
      /\ Change(j) = -1 =>
           Counted(j.system) /\ \A sp \in Remaining(j) : ~Counted(sp)
      /\ Change(j) = 1 =>
           /\ ~Counted(j.system) /\ j.op = "revive"
           /\ \A sp \in Remaining(j) : Counted(sp)
  BY <1>2, <1>3, <1>5 DEF Change, Counted
\* What other systems are affected by stays.
<1>8. ASSUME NEW sa, Key(sa) = k,
             sa.SystemID # j.system.ID \/ sa.RhAccountID # j.system.RhAccountID
      PROVE  (sa \in Affected(k))' <=> sa \in Affected(k)
  <2>1. sa \notin AdvisoriesOf(j.system)
    BY <1>8 DEF AdvisoriesOf
  <2>2. sa \in system_advisories' <=> sa \in system_advisories
    BY <1>2, <2>1
  <2>3. (\E sp \in system_platform' :
           /\ Counted(sp)
           /\ sa.RhAccountID = sp.RhAccountID /\ sa.SystemID = sp.ID)
        <=> \E sp \in system_platform :
              /\ Counted(sp)
              /\ sa.RhAccountID = sp.RhAccountID /\ sa.SystemID = sp.ID
    BY <1>2, <1>5, <1>8
  <2> QED
    BY <1>4, <2>2, <2>3, AffectedIff
\* Those of the system itself are affected as long as it is counted.
<1>9. ASSUME NEW sa, Key(sa) = k,
             sa.SystemID = j.system.ID, sa.RhAccountID = j.system.RhAccountID
      PROVE  /\ sa \in Affected(k) <=>
                  sa \in system_advisories /\ Counted(j.system)
             /\ (sa \in Affected(k))' <=>
                  /\ sa \in system_advisories'
                  /\ \E sp \in Remaining(j) : Counted(sp)
             /\ sa \in Advisory(j, k) <=> sa \in system_advisories
  <2>1. sa \in Affected(k) <=> sa \in system_advisories /\ Counted(j.system)
    BY <1>2, <1>3, <1>9, AffectedIff
  <2>2. (sa \in Affected(k))' <=>
          /\ sa \in system_advisories'
          /\ \E sp \in Remaining(j) : Counted(sp)
    BY <1>2, <1>3, <1>4, <1>5, <1>9
  <2> QED
    BY <1>9, <2>1, <2>2 DEF Advisory, AdvisoriesOf
<1>10. ASSUME NEW sa, sa \in Advisory(j, k)
       PROVE  /\ Key(sa) = k /\ sa.SystemID = j.system.ID
              /\ sa.RhAccountID = j.system.RhAccountID
              /\ sa \in system_advisories
  BY <1>10 DEF Advisory, AdvisoriesOf
<1>11. ASSUME NEW sa, sa \in Affected(k) \/ (sa \in Affected(k))'
       PROVE  Key(sa) = k
  BY <1>4, <1>11, AffectedIff
<1>12. CASE Change(j) = 0
  BY <1>1, <1>7, <1>8, <1>9, <1>11, <1>12
<1>13. CASE Change(j) = -1
  BY <1>1, <1>7, <1>8, <1>9, <1>10, <1>11, <1>13
<1>14. CASE Change(j) = 1
  <2>1. system_advisories' = system_advisories
    BY <1>2, <1>7, <1>14
  <2> QED
    BY <1>1, <1>6, <1>7, <1>8, <1>9, <1>10, <1>11, <1>14, <2>1
<1> QED
  BY <1>1, <1>12, <1>13, <1>14, ChangeValues

\* The counters the trigger is right to leave of an advisory.
LEMMA HitsOf ==
    ASSUME NEW j, NEW k
    PROVE  { sa \in Reached(j) : Key(sa) = k } =
             IF Change(j) = 1 \/ (Change(j) = -1 /\ k \in j.seen \cap Rows)
             THEN Advisory(j, k) ELSE {}
BY DEF Reached, Advisory

\* One step of the trigger on one row, beside what there is to count.
LEMMA FinishCounts ==
    ASSUME Typed, NEW s \in Sessions, Finish(s), NEW k \in Keys
    PROVE  LET j == job[s]
               c == advisory_account_data[k]
               d == current_counts[k]
           IN  \/ /\ advisory_account_data'[k] = c
                  /\ current_counts'[k] = d
               \/ \E sa \in Reached(j) :
                    /\ Key(sa) = k
                    /\ Change(j) \in {-1, 1}
                    /\ advisory_account_data'[k] = Kept(Plus(c, sa, Change(j)))
                    /\ current_counts'[k] = Plus(d, sa, Change(j))
               \/ /\ Change(j) = -1 /\ k \notin j.seen \cap Rows
                  /\ k[1] = j.system.RhAccountID
                  /\ \E sa \in AdvisoriesOf(j.system) : Key(sa) = k
                  /\ d.applicable >= 1
                  /\ advisory_account_data'[k] = c
                  /\ AtLeast(d, current_counts'[k])
<1>1. PICK j, c, d : /\ j = job[s] /\ c = advisory_account_data[k]
                     /\ d = current_counts[k]
  OBVIOUS
<1>2. d = Tally(Affected(k)) /\ IsFiniteSet(Affected(k))
  BY <1>1, CountsAreTallies, AffectedFinite DEF Typed, PlatformInv
<1>3. current_counts'[k] = Tally(Affected(k)')
  BY DEF current_counts, Tally
<1> DEFINE hits == { sa \in Reached(j) : Key(sa) = k }
<1>4. advisory_account_data'[k] =
        IF hits = {} THEN c
        ELSE Kept(Plus(c, CHOOSE sa \in hits : TRUE, Change(j)))
  BY <1>1, FinishTables DEF on_system_update
<1>5. hits = IF Change(j) = 1 \/ (Change(j) = -1 /\ k \in j.seen \cap Rows)
             THEN Advisory(j, k) ELSE {}
  BY HitsOf
<1>6. ASSUME NEW sa, hits = {sa}
      PROVE  /\ sa \in Reached(j) /\ Key(sa) = k
             /\ advisory_account_data'[k] = Kept(Plus(c, sa, Change(j)))
  BY <1>4, <1>6
<1> HIDE DEF hits
<1>7. CASE Change(j) = 0 \/ Advisory(j, k) = {}
  <2>1. hits = {}
    BY <1>5, <1>7
  <2>2. Affected(k)' = Affected(k)
    BY <1>1, <1>7, FinishAffected, ChangeValues
  <2> QED
    BY <1>1, <1>2, <1>3, <1>4, <2>1, <2>2
<1>8. CASE Change(j) # 0 /\ Advisory(j, k) # {}
  <2>1. PICK sa \in AdvisoriesOf(j.system) : Advisory(j, k) = {sa} /\ Key(sa) = k
    BY <1>8, OneAdvisory
  <2>2. CASE Change(j) = 1
    <3>1. sa \notin Affected(k) /\ Affected(k)' = Affected(k) \cup {sa}
      BY <1>1, <2>1, <2>2, FinishAffected
    <3>2. current_counts'[k] = Plus(d, sa, 1)
      BY <1>2, <1>3, <3>1, TallyAdd
    <3>3. hits = {sa}
      BY <1>5, <2>1, <2>2
    <3> QED
      BY <1>1, <1>6, <2>2, <3>2, <3>3
  <2>3. CASE Change(j) = -1
    <3>1. sa \in Affected(k) /\ Affected(k)' = Affected(k) \ {sa}
      BY <1>1, <2>1, <2>3, FinishAffected
    <3>2. current_counts'[k] = Plus(d, sa, -1)
      BY <1>2, <1>3, <3>1, TallyRemove
    <3>3. CASE k \in j.seen \cap Rows
      <4>1. hits = {sa}
        BY <1>5, <2>1, <2>3, <3>3
      <4> QED
        BY <1>1, <1>6, <2>3, <3>2, <4>1
    <3>4. CASE k \notin j.seen \cap Rows
      <4>1. hits = {}
        BY <1>5, <2>3, <3>4
      <4>2. d.applicable >= 1
        BY <1>2, <3>1, TallyTyped
      <4>3. AtLeast(d, current_counts'[k])
        BY <1>2, <1>3, <3>1, TallyMono
      <4>4. k[1] = j.system.RhAccountID
        BY <2>1 DEF Key, AdvisoriesOf
      <4> QED
        BY <1>1, <1>4, <2>1, <2>3, <3>4, <4>1, <4>2, <4>3, <4>4
    <3> QED
      BY <3>3, <3>4
  <2> QED
    BY <1>8, <2>2, <2>3, ChangeValues
<1> QED
  BY <1>7, <1>8

\* A step of the trigger on a row keeps what is known of it.
LEMMA StepUp ==
    ASSUME NEW c \in Counters, NEW d \in Counters, NEW sa,
           AtLeast(c, d), AtLeast(d, NoRow)
    PROVE  /\ Kept(Plus(c, sa, 1)) = Plus(c, sa, 1)
           /\ AtLeast(Plus(c, sa, 1), Plus(d, sa, 1))
BY DEF Counters, AtLeast, Kept, Plus, NoRow

LEMMA StepDown ==
    ASSUME NEW c \in Counters, NEW d \in Counters, NEW sa,
           AtLeast(c, d), AtLeast(Plus(d, sa, -1), NoRow)
    PROVE  /\ AtLeast(Kept(Plus(c, sa, -1)), Plus(d, sa, -1))
           /\ c = d => Kept(Plus(c, sa, -1)) = Plus(d, sa, -1)
<1>1. c = [installable |-> c.installable, applicable |-> c.applicable]
  BY DEF Counters
<1>2. PICK e : e = Plus(c, sa, -1)
  OBVIOUS
<1>3. /\ e = [installable |-> e.installable, applicable |-> e.applicable]
      /\ e.installable \in Int /\ e.applicable \in Int
      /\ AtLeast(e, Plus(d, sa, -1))
  BY <1>2 DEF Plus, Counters, AtLeast
<1>4. AtLeast(Kept(e), Plus(d, sa, -1))
  BY <1>3 DEF Kept, AtLeast, NoRow, Plus, Counters
<1>5. AtLeast(e, NoRow) => Kept(e) = e
  BY <1>3 DEF Kept, AtLeast, NoRow
<1> QED
  BY <1>2, <1>4, <1>5

-----------------------------------------------------------------------------
(* The steps keep the invariant                                            *)

Natural == \A k \in Keys : AtLeast(current_counts[k], NoRow)

LEMMA CountsNatural == Typed => Natural
BY CountsTyped DEF Natural

\* What DataInv says of one row.
DataOf(k) ==
    /\ Known(k[1]) => AtLeast(advisory_account_data[k], current_counts[k])
    /\ trust[k[1]] = "exact" => advisory_account_data[k] = current_counts[k]

LEMMA DataSplit == DataInv <=> \A k \in Keys : DataOf(k)
BY DEF DataInv, CountsExact, NothingMissing, DataOf, Known, AtLeast

\* A row is there if there is something to count, as far as it is known.
LEMMA RowIsThere ==
    ASSUME Typed, DataInv, NEW k \in Keys, Known(k[1]),
           current_counts[k] # NoRow
    PROVE  k \in Rows
<1>1. AtLeast(advisory_account_data[k], current_counts[k])
  BY DataSplit DEF DataOf
<1>2. AtLeast(current_counts[k], NoRow) /\ current_counts[k] \in Counters
  BY CountsTyped
<1>3. advisory_account_data[k] # NoRow
  BY <1>1, <1>2 DEF AtLeast, NoRow, Counters
<1> QED
  BY <1>3 DEF Rows

LEMMA SameTables ==
    ASSUME UNCHANGED <<system_platform, system_advisories>>
    PROVE  /\ current_counts' = current_counts
           /\ \A sp : AdvisoriesOf(sp)' = AdvisoriesOf(sp)
BY DEF current_counts, Affected, AdvisoriesOf, Counted

\* The trigger on a row whose counters are known.
LEMMA FinishKnown ==
    ASSUME Typed, DataInv, SeenInv, NEW s \in Sessions, Finish(s),
           NEW k \in Keys
    PROVE  /\ DataOf(k)'
           /\ \/ /\ advisory_account_data'[k] = advisory_account_data[k]
                 /\ current_counts'[k] = current_counts[k]
              \/ /\ k[1] = job[s].system.RhAccountID
                 /\ Known(k[1]) => \E sa \in Reached(job[s]) : Key(sa) = k
<1>1. PICK j, c, d : /\ j = job[s] /\ c = advisory_account_data[k]
                     /\ d = current_counts[k]
  OBVIOUS
<1>2. trust' = trust
  BY DEF Finish
<1>3. /\ c \in Counters /\ d \in Counters /\ DataOf(k)
      /\ AtLeast(d, NoRow)
  BY <1>1, CountsTyped, DataSplit DEF Typed, TypeOK
<1>4. AtLeast(current_counts'[k], NoRow)
  <2>1. (Typed => Natural)'
    BY CountsNatural, PTL
  <2> QED
    BY <2>1, FinishTyped DEF Natural
<1>5. CASE advisory_account_data'[k] = c /\ current_counts'[k] = d
  BY <1>1, <1>2, <1>3, <1>5 DEF DataOf, Known
<1>6. CASE \E sa \in Reached(j) :
             /\ Key(sa) = k
             /\ Change(j) \in {-1, 1}
             /\ advisory_account_data'[k] = Kept(Plus(c, sa, Change(j)))
             /\ current_counts'[k] = Plus(d, sa, Change(j))
  <2>1. PICK sa \in Reached(j) :
          /\ Key(sa) = k
          /\ Change(j) \in {-1, 1}
          /\ advisory_account_data'[k] = Kept(Plus(c, sa, Change(j)))
          /\ current_counts'[k] = Plus(d, sa, Change(j))
    BY <1>6
  <2>2. k[1] = j.system.RhAccountID
    BY <2>1 DEF Reached, AdvisoriesOf, Key
  <2>3. AtLeast(c, d) =>
          /\ AtLeast(advisory_account_data'[k], current_counts'[k])
          /\ c = d => advisory_account_data'[k] = current_counts'[k]
    BY <1>3, <1>4, <2>1, StepUp, StepDown
  <2>4. Known(k[1]) => AtLeast(c, d)
    BY <1>1, <1>3 DEF DataOf
  <2>5. DataOf(k)'
    BY <1>1, <1>2, <1>3, <2>3, <2>4 DEF DataOf, Known
  <2> QED
    BY <1>1, <2>1, <2>2, <2>5
<1>7. CASE /\ Change(j) = -1 /\ k \notin j.seen \cap Rows
           /\ k[1] = j.system.RhAccountID
           /\ \E sa \in AdvisoriesOf(j.system) : Key(sa) = k
           /\ d.applicable >= 1
  <2>1. ASSUME Known(k[1]) PROVE FALSE
    <3>1. k \in j.seen
      BY <1>1, <1>7, <2>1 DEF SeenInv, Finish
    <3>2. current_counts[k] # NoRow
      BY <1>1, <1>7 DEF NoRow
    <3> QED
      BY <1>7, <2>1, <3>1, <3>2, RowIsThere
  <2>2. ~Known(k[1])'
    BY <1>2, <2>1 DEF Known
  <2> QED
    BY <1>1, <1>7, <2>1, <2>2 DEF DataOf, Known
<1> QED
  BY <1>1, <1>5, <1>6, <1>7, FinishCounts

LEMMA FinishInvs ==
    ASSUME Typed, Invs, NEW s \in Sessions, Finish(s)
    PROVE  Invs'
<1>1. /\ trust' = trust /\ job'[s] = NoJob /\ Updating(s)
      /\ \A t \in Sessions \ {s} : job'[t] = job[t]
  BY DEF Finish, Typed
<1>2. ~Updating(s)' /\ ~Refreshing(s)' /\ job'[s].op # "revive"
  BY <1>1 DEF Updating, Refreshing, NoJob
<1>3. /\ \A t \in Sessions : Updating(t)' => t # s /\ Updating(t)
      /\ \A t \in Sessions : Refreshing(t)' => t # s /\ Refreshing(t)
  BY <1>1, <1>2 DEF Updating, Refreshing
<1>4. \A sp : AdvisoriesOf(sp)' \in SUBSET AdvisoriesOf(sp)
  BY FinishTables DEF AdvisoriesOf
<1>5. DataInv'
  <2>1. (\A k \in Keys : DataOf(k))'
    BY FinishKnown DEF Invs
  <2>2. (DataInv <=> \A k \in Keys : DataOf(k))'
    BY DataSplit, PTL
  <2> QED
    BY <2>1, <2>2
<1>6. ASSUME NEW t \in Sessions \ {s}, Refreshing(t)
      PROVE  job[t].scope \in SUBSET Keys
  BY <1>6, JobKinds, RefreshFields
<1>7. AloneInv'
  <2>1. ASSUME NEW t \in Sessions \ {s}, Refreshing(t), job[t].alone,
               job[t].op = "count", NEW k \in job[t].scope
        PROVE  /\ job[t].counts[k] = current_counts'[k]
               /\ k \in Rows' => k \in job[t].visible
    <3>1. k \in Keys /\ k[1] \in AccountsOf(job[t].scope)
      BY <1>6, <2>1 DEF AccountsOf
    <3>2. k[1] # job[s].system.RhAccountID
      BY <1>1, <2>1, <3>1 DEF Invs, AloneInv
    <3>3. /\ advisory_account_data'[k] = advisory_account_data[k]
          /\ current_counts'[k] = current_counts[k]
      BY <3>1, <3>2, FinishKnown DEF Invs
    <3> QED
      BY <2>1, <3>3 DEF Invs, AloneInv, Rows
  <2> QED
    BY <1>1, <1>3, <2>1 DEF Invs, AloneInv
<1>8. SeenInv'
  BY <1>1, <1>3, <1>4 DEF Invs, SeenInv, Known
<1>9. RaceInv'
  BY <1>1, <1>2, <1>3 DEF Invs, RaceInv, Known
<1>10. LockedInv'
  <2>1. ASSUME NEW t \in Sessions \ {s}, Refreshing(t),
               NEW k \in job[t].scope, Known(k[1])
        PROVE  /\ advisory_account_data'[k] = advisory_account_data[k]
               /\ current_counts'[k] = current_counts[k]
               /\ k \in Rows' => k \in Rows
    <3>1. k \in Keys
      BY <1>6, <2>1
    <3>2. k[1] = job[s].system.RhAccountID =>
            ~\E sa \in Reached(job[s]) : Key(sa) = k
      <4>1. SUFFICES ASSUME k[1] = job[s].system.RhAccountID,
                            NEW sa \in Reached(job[s]), Key(sa) = k
                     PROVE  FALSE
        OBVIOUS
      <4>2. job[s].op # "revive"
        BY <2>1, <4>1 DEF Invs, RaceInv, AccountsOf
      <4>3. k \in Rows
        BY <4>1, <4>2 DEF Reached, Change
      <4>4. k \in job[t].locked
        BY <2>1, <4>3 DEF Invs, LockedInv
      <4>5. k \in LockedFor(s)
        BY <2>1, <4>4 DEF LockedFor
      <4> QED
        BY <4>1, <4>5 DEF Finish
    <3> QED
      BY <2>1, <3>1, <3>2, FinishKnown DEF Invs, Rows
  <2>2. ASSUME NEW t \in Sessions, Refreshing(t)', NEW k \in job'[t].scope,
               Known(k[1])'
        PROVE  /\ k \in Rows' => k \in job'[t].locked
               /\ job'[t].op = "count" =>
                    /\ job'[t].counts[k] # NoRow => k \in Rows'
                    /\ AtLeast(job'[t].counts[k], current_counts'[k])
                    /\ trust'[k[1]] = "exact" =>
                         job'[t].counts[k] = current_counts'[k]
    <3>1. t \in Sessions \ {s} /\ Refreshing(t) /\ job'[t] = job[t]
      BY <1>1, <1>3, <2>2
    <3>2. Known(k[1])
      BY <1>1, <2>2 DEF Known
    <3>3. /\ advisory_account_data'[k] = advisory_account_data[k]
          /\ current_counts'[k] = current_counts[k]
          /\ k \in Rows' <=> k \in Rows
      BY <2>1, <2>2, <3>1, <3>2 DEF Rows
    <3> QED
      BY <1>1, <2>2, <3>1, <3>2, <3>3 DEF Invs, LockedInv
  <2> QED
    BY <2>2 DEF LockedInv
<1> QED
  BY <1>5, <1>7, <1>8, <1>9, <1>10 DEF Invs

\* A refresh that writes its counts: rows of its scope, nobody else's.
LEMMA WriteRow ==
    ASSUME Typed, NEW s \in Sessions, WriteRows(s), NEW k \in Keys
    PROVE  /\ advisory_account_data'[k] = IF k \in Written(job[s])
                                          THEN job[s].counts[k]
                                          ELSE advisory_account_data[k]
           /\ current_counts'[k] = current_counts[k]
           /\ job[s] \in Refreshes /\ Refreshing(s) /\ job[s].op = "count"
<1>1. Refreshing(s) /\ job[s].op = "count"
  BY DEF WriteRows, Refreshing
<1>2. current_counts' = current_counts
  BY SameTables DEF WriteRows
<1> QED
  BY <1>1, <1>2, JobKinds DEF WriteRows

\* The accounts a refresh has counted completely, and alone.
Rebuilt(s, acc) == job[s].alone /\ {acc} \X Advisories \subseteq job[s].scope

\* A row of a rebuilt account is right, and nobody else works on the account.
LEMMA RebuiltRow ==
    ASSUME Typed, Invs, NEW s \in Sessions, WriteRows(s), NEW k \in Keys,
           Rebuilt(s, k[1])
    PROVE  /\ advisory_account_data'[k] = current_counts[k]
           /\ \A t \in Sessions :
                /\ Updating(t) => job[t].system.RhAccountID # k[1]
                /\ Refreshing(t) /\ t # s => k \notin job[t].scope
<1>1. k \in job[s].scope /\ k[1] \in AccountsOf(job[s].scope)
  BY DEF Rebuilt, Keys, AccountsOf
<1>2. job[s].alone /\ Refreshing(s) /\ job[s].op = "count"
  BY WriteRow DEF Rebuilt
<1>3. /\ job[s].counts[k] = current_counts[k]
      /\ k \in Rows => k \in job[s].visible
  BY <1>1, <1>2 DEF Invs, AloneInv
<1>4. advisory_account_data'[k] = current_counts[k]
  <2>1. CASE k \in Written(job[s])
    BY <1>3, <2>1, WriteRow
  <2>2. CASE k \notin Written(job[s])
    <3>1. current_counts[k] = NoRow /\ advisory_account_data[k] = NoRow
      BY <1>1, <1>3, <2>2 DEF Written, Rows
    <3> QED
      BY <2>2, <3>1, WriteRow
  <2> QED
    BY <2>1, <2>2
<1>5. ASSUME NEW t \in Sessions, Updating(t)
      PROVE  job[t].system.RhAccountID # k[1]
  BY <1>1, <1>2, <1>5 DEF Invs, AloneInv
<1>6. ASSUME NEW t \in Sessions, Refreshing(t), t # s
      PROVE  k \notin job[t].scope
  <2>1. AccountsOf(job[t].scope) \cap AccountsOf(job[s].scope) = {}
    BY <1>2, <1>6 DEF Invs, AloneInv
  <2> QED
    BY <1>1, <2>1 DEF AccountsOf
<1> QED
  BY <1>4, <1>5, <1>6

\* A refresh changes no row that another one is due to write.
LEMMA OthersRow ==
    ASSUME Typed, Invs, NEW s \in Sessions, WriteRows(s),
           NEW t \in Sessions \ {s}, Refreshing(t), NEW k \in job[t].scope,
           Known(k[1]) \/ job[t].alone
    PROVE  advisory_account_data'[k] = advisory_account_data[k]
<1>1. k \in Keys
  BY JobKinds, RefreshFields
<1>2. job[s] \in Refreshes /\ Refreshing(s) /\ job[s].op = "count"
  BY <1>1, WriteRow
<1>3. CASE k \notin job[s].scope
  BY <1>1, <1>3, WriteRow DEF Written
<1>4. CASE k \in job[s].scope
  <2>1. k[1] \in AccountsOf(job[t].scope) \cap AccountsOf(job[s].scope)
    BY <1>4 DEF AccountsOf
  <2>2. Known(k[1])
    BY <1>2, <2>1 DEF Invs, AloneInv
  <2>3. k \notin Rows
    <3>1. job[s].locked \cap job[t].locked = {}
      BY <1>2 DEF Typed, TypeOK
    <3> QED
      BY <1>2, <1>4, <2>2, <3>1 DEF Invs, LockedInv
  <2>4. job[s].counts[k] = NoRow /\ advisory_account_data[k] = NoRow
    BY <1>1, <1>2, <1>4, <2>2, <2>3 DEF Invs, LockedInv, Rows
  <2> QED
    BY <1>1, <2>4, WriteRow
<1> QED
  BY <1>3, <1>4

LEMMA WriteInvs ==
    ASSUME Typed, Invs, NEW s \in Sessions, WriteRows(s)
    PROVE  Invs'
<1>1. /\ job'[s] = NoJob
      /\ \A t \in Sessions \ {s} : job'[t] = job[t]
      /\ trust' = [acc \in Accounts |->
                     IF Rebuilt(s, acc) THEN "exact" ELSE trust[acc]]
  BY DEF WriteRows, Rebuilt, Typed
<1>2. ~Updating(s)' /\ ~Refreshing(s)' /\ job'[s].op # "revive"
  BY <1>1 DEF Updating, Refreshing, NoJob
<1>3. /\ \A t \in Sessions : Updating(t)' => t # s /\ Updating(t)
      /\ \A t \in Sessions : Refreshing(t)' => t # s /\ Refreshing(t)
  BY <1>1, <1>2 DEF Updating, Refreshing
<1>4. current_counts' = current_counts /\ \A sp : AdvisoriesOf(sp)' = AdvisoriesOf(sp)
  BY SameTables DEF WriteRows
<1>5. ASSUME NEW acc \in Accounts, ~Rebuilt(s, acc)
      PROVE  trust'[acc] = trust[acc]
  BY <1>1, <1>5
<1>6. ASSUME NEW k \in Keys
      PROVE  k[1] \in Accounts
  BY DEF Keys
<1>7. DataInv'
  <2>1. ASSUME NEW k \in Keys
        PROVE  DataOf(k)'
    <3>1. CASE Rebuilt(s, k[1])
      <4>1. advisory_account_data'[k] = current_counts'[k]
        BY <1>4, <3>1, RebuiltRow
      <4>2. current_counts'[k] \in Counters
        BY <1>4, CountsTyped
      <4>3. AtLeast(current_counts'[k], current_counts'[k])
        BY <4>2 DEF AtLeast, Counters
      <4> QED
        BY <4>1, <4>3 DEF DataOf
    <3>2. CASE ~Rebuilt(s, k[1])
      <4>1. trust'[k[1]] = trust[k[1]]
        BY <1>5, <1>6, <3>2
      <4>2. DataOf(k)
        BY DataSplit DEF Invs
      <4>3. CASE k \in Written(job[s])
        <5>1. k \in job[s].scope
          BY <4>3 DEF Written
        <5>2. Known(k[1]) =>
                /\ AtLeast(job[s].counts[k], current_counts[k])
                /\ trust[k[1]] = "exact" => job[s].counts[k] = current_counts[k]
          BY <5>1, WriteRow DEF Invs, LockedInv
        <5> QED
          BY <1>4, <4>1, <4>3, <5>2, WriteRow DEF DataOf, Known
      <4>4. CASE k \notin Written(job[s])
        BY <1>4, <4>1, <4>2, <4>4, WriteRow DEF DataOf, Known
      <4> QED
        BY <4>3, <4>4
    <3> QED
      BY <3>1, <3>2
  <2>2. (DataInv <=> \A k \in Keys : DataOf(k))'
    BY DataSplit, PTL
  <2> QED
    BY <2>1, <2>2
<1>8. AloneInv'
  <2>1. ASSUME NEW t \in Sessions \ {s}, Refreshing(t), job[t].alone,
               job[t].op = "count", NEW k \in job[t].scope
        PROVE  /\ job[t].counts[k] = current_counts'[k]
               /\ k \in Rows' => k \in job[t].visible
    <3>1. advisory_account_data'[k] = advisory_account_data[k]
      BY <2>1, OthersRow
    <3> QED
      BY <1>4, <2>1, <3>1 DEF Invs, AloneInv, Rows
  <2> QED
    BY <1>1, <1>3, <2>1 DEF Invs, AloneInv
<1>9. SeenInv'
  <2>1. ASSUME NEW t \in Sessions \ {s}, Updating(t), Change(job[t]) = -1,
               Known(job[t].system.RhAccountID)',
               NEW sa \in AdvisoriesOf(job[t].system)
        PROVE  Key(sa) \in job[t].seen
    <3>1. sa \in SystemAdvisory
      BY DEF AdvisoriesOf, Typed, TypeOK
    <3>2. Key(sa) \in Keys /\ Key(sa)[1] = job[t].system.RhAccountID
      BY <3>1 DEF Key, Keys, SystemAdvisory, AdvisoriesOf
    <3>3. ~Rebuilt(s, job[t].system.RhAccountID)
      BY <2>1, <3>2, RebuiltRow
    <3>4. Known(job[t].system.RhAccountID)
      BY <1>1, <1>5, <1>6, <2>1, <3>2, <3>3 DEF Known
    <3> QED
      BY <2>1, <3>4 DEF Invs, SeenInv
  <2> QED
    BY <1>1, <1>3, <1>4, <2>1 DEF SeenInv
<1>10. RaceInv'
  <2>1. ASSUME NEW t \in Sessions \ {s}, Refreshing(t),
               NEW u \in Sessions \ {s}, job[u].op = "revive",
               job[u].system.RhAccountID \in AccountsOf(job[t].scope)
        PROVE  ~Known(job[u].system.RhAccountID)'
    <3>1. PICK k \in job[t].scope : k[1] = job[u].system.RhAccountID
      BY <2>1 DEF AccountsOf
    <3>2. k \in Keys
      BY <2>1, JobKinds, RefreshFields
    <3>3. Updating(u)
      BY <2>1 DEF Updating
    <3>4. ~Rebuilt(s, k[1])
      BY <3>1, <3>2, <3>3, RebuiltRow
    <3>5. ~Known(k[1])
      BY <2>1, <3>1 DEF Invs, RaceInv
    <3> QED
      BY <1>1, <1>5, <1>6, <3>1, <3>2, <3>4, <3>5 DEF Known
  <2> QED
    BY <1>1, <1>2, <1>3, <2>1 DEF RaceInv
<1>11. LockedInv'
  <2>1. ASSUME NEW t \in Sessions, Refreshing(t)', NEW k \in job'[t].scope,
               Known(k[1])'
        PROVE  /\ k \in Rows' => k \in job'[t].locked
               /\ job'[t].op = "count" =>
                    /\ job'[t].counts[k] # NoRow => k \in Rows'
                    /\ AtLeast(job'[t].counts[k], current_counts'[k])
                    /\ trust'[k[1]] = "exact" =>
                         job'[t].counts[k] = current_counts'[k]
    <3>1. t \in Sessions \ {s} /\ Refreshing(t) /\ job'[t] = job[t]
      BY <1>1, <1>3, <2>1
    <3>2. k \in Keys
      BY <2>1, <3>1, JobKinds, RefreshFields
    <3>3. ~Rebuilt(s, k[1])
      BY <2>1, <3>1, <3>2, RebuiltRow
    <3>4. trust'[k[1]] = trust[k[1]] /\ Known(k[1])
      BY <1>5, <1>6, <2>1, <3>2, <3>3 DEF Known
    <3>5. advisory_account_data'[k] = advisory_account_data[k]
      BY <2>1, <3>1, <3>4, OthersRow
    <3>6. k \in Rows' <=> k \in Rows
      BY <3>5 DEF Rows
    <3> QED
      BY <1>4, <2>1, <3>1, <3>4, <3>6 DEF Invs, LockedInv
  <2> QED
    BY <2>1 DEF LockedInv
<1> QED
  BY <1>7, <1>8, <1>9, <1>10, <1>11 DEF Invs

\* Steps that only start, count, or give up.
Quiet == UNCHANGED <<system_platform, system_advisories, advisory_account_data>>

LEMMA QuietTables ==
    ASSUME Quiet
    PROVE  /\ current_counts' = current_counts /\ Rows' = Rows
           /\ advisory_account_data' = advisory_account_data
           /\ \A sp : AdvisoriesOf(sp)' = AdvisoriesOf(sp)
BY SameTables DEF Quiet, Rows

\* Accounts become raced, and nothing else is learnt of them.
LEMMA QuietData ==
    ASSUME Quiet, DataInv,
           \A acc \in Accounts : trust'[acc] = trust[acc] \/ trust'[acc] = "raced"
    PROVE  DataInv'
<1>1. ASSUME NEW k \in Keys PROVE DataOf(k)'
  <2>1. DataOf(k) /\ k[1] \in Accounts
    BY DataSplit DEF Keys
  <2> QED
    BY <2>1, QuietTables DEF DataOf, Known
<1>2. (DataInv <=> \A k \in Keys : DataOf(k))'
  BY DataSplit, PTL
<1> QED
  BY <1>1, <1>2

LEMMA RollbackInvs ==
    ASSUME Typed, Invs, NEW s \in Sessions, Rollback(s)
    PROVE  Invs'
<1>1. /\ job'[s] = NoJob /\ trust' = trust /\ Quiet
      /\ \A t \in Sessions \ {s} : job'[t] = job[t]
  BY DEF Rollback, Typed, Quiet
<1>2. ~Updating(s)' /\ ~Refreshing(s)' /\ job'[s].op # "revive"
  BY <1>1 DEF Updating, Refreshing, NoJob
<1>3. /\ \A t \in Sessions : Updating(t)' => t # s /\ Updating(t)
      /\ \A t \in Sessions : Refreshing(t)' => t # s /\ Refreshing(t)
  BY <1>1, <1>2 DEF Updating, Refreshing
<1>4. DataInv'
  BY <1>1, QuietData DEF Invs
<1>5. AloneInv'
  BY <1>1, <1>3, QuietTables DEF Invs, AloneInv
<1>6. SeenInv'
  BY <1>1, <1>3, QuietTables DEF Invs, SeenInv, Known
<1>7. RaceInv'
  BY <1>1, <1>2, <1>3 DEF Invs, RaceInv, Known
<1>8. LockedInv'
  BY <1>1, <1>3, QuietTables DEF Invs, LockedInv, Known
<1> QED
  BY <1>4, <1>5, <1>6, <1>7, <1>8 DEF Invs

LEMMA CountInvs ==
    ASSUME Typed, Invs, NEW s \in Sessions, CountRows(s)
    PROVE  Invs'
<1>1. /\ Refreshing(s) /\ trust' = trust /\ Quiet
      /\ job' = [job EXCEPT ![s] = Counting(job[s])]
  BY DEF CountRows, Counting, Quiet, Refreshing
<1>2. job'[s] = Counting(job[s]) /\ \A t \in Sessions \ {s} : job'[t] = job[t]
  BY <1>1 DEF Typed
<1>3. /\ job'[s].scope = job[s].scope /\ job'[s].locked = job[s].locked
      /\ job'[s].alone = job[s].alone /\ job'[s].op = "count"
      /\ job'[s].counts = current_counts /\ job'[s].visible = Rows
  BY <1>2 DEF Counting
<1>4. ASSUME NEW t \in Sessions
      PROVE  /\ Updating(t)' <=> Updating(t)
             /\ Refreshing(t)' <=> Refreshing(t)
             /\ job'[t].op = "revive" <=> job[t].op = "revive"
             /\ Updating(t) => job'[t] = job[t]
             /\ Refreshing(t) => /\ job'[t].scope = job[t].scope
                                 /\ job'[t].locked = job[t].locked
                                 /\ job'[t].alone = job[t].alone
  BY <1>1, <1>2, <1>3 DEF Updating, Refreshing
<1>5. \A t \in Sessions : Refreshing(t) => job[t].scope \in SUBSET Keys
  BY JobKinds, RefreshFields
<1>6. DataInv'
  BY <1>1, QuietData DEF Invs
<1>7. AloneInv'
  <2>1. ASSUME NEW t \in Sessions, Refreshing(t), job[t].alone,
               job'[t].op = "count", NEW k \in job[t].scope
        PROVE  /\ job'[t].counts[k] = current_counts'[k]
               /\ k \in Rows' => k \in job'[t].visible
    <3>1. CASE t = s
      BY <1>1, <1>3, <3>1, QuietTables
    <3>2. CASE t # s
      BY <1>1, <1>2, <2>1, <3>2, QuietTables DEF Invs, AloneInv
    <3> QED
      BY <3>1, <3>2
  <2> QED
    BY <1>4, <2>1 DEF Invs, AloneInv
<1>8. SeenInv'
  BY <1>1, <1>4, QuietTables DEF Invs, SeenInv, Known
<1>9. RaceInv'
  <2>1. \A t \in Sessions : job[t].op = "revive" => Updating(t)
    BY DEF Updating
  <2> QED
    BY <1>1, <1>4, <2>1 DEF Invs, RaceInv, Known
<1>10. LockedInv'
  <2>1. ASSUME NEW t \in Sessions, Refreshing(t), NEW k \in job[t].scope,
               Known(k[1])
        PROVE  /\ k \in Rows => k \in job[t].locked
               /\ job'[t].op = "count" =>
                    /\ job'[t].counts[k] # NoRow => k \in Rows
                    /\ AtLeast(job'[t].counts[k], current_counts[k])
                    /\ trust[k[1]] = "exact" =>
                         job'[t].counts[k] = current_counts[k]
    <3>1. CASE t = s
      <4>1. k \in Keys
        BY <1>5, <2>1
      <4>2. current_counts[k] # NoRow => k \in Rows
        BY <2>1, <4>1, RowIsThere DEF Invs
      <4>3. AtLeast(current_counts[k], current_counts[k])
        BY <4>1, CountsTyped DEF AtLeast, Counters
      <4> QED
        BY <1>3, <2>1, <3>1, <4>2, <4>3 DEF Invs, LockedInv
    <3>2. CASE t # s
      BY <1>2, <2>1, <3>2 DEF Invs, LockedInv
    <3> QED
      BY <3>1, <3>2
  <2> QED
    BY <1>1, <1>4, <2>1, QuietTables DEF LockedInv, Known
<1> QED
  BY <1>6, <1>7, <1>8, <1>9, <1>10 DEF Invs

\* The other sessions when one begins to refresh or to update: what they hold
\* is what it was, but some are no longer alone.
Others(s, accs) ==
    /\ Quiet
    /\ \A t \in Sessions \ {s} : job'[t] = Disturb(accs)[t]
    /\ \A acc \in Accounts : trust'[acc] = trust[acc] \/ trust'[acc] = "raced"

LEMMA OthersKept ==
    ASSUME Typed, Invs, NEW s \in Sessions, NEW accs, Others(s, accs),
           NEW t \in Sessions \ {s}
    PROVE  /\ Updating(t)' <=> Updating(t)
           /\ Refreshing(t)' <=> Refreshing(t)
           /\ job'[t].op = job[t].op
           /\ Updating(t) => job'[t] = job[t]
           /\ Refreshing(t) =>
                /\ job'[t].scope = job[t].scope
                /\ job'[t].locked = job[t].locked
                /\ job'[t].alone =>
                     job[t].alone /\ accs \cap AccountsOf(job[t].scope) = {}
                /\ job[t].op = "count" =>
                     /\ job'[t].counts = job[t].counts
                     /\ job'[t].visible = job[t].visible
BY Disturbed, JobKinds DEF Others, Updating, Refreshing

\* What is known of an account can only have been known before.
LEMMA OthersKnown ==
    ASSUME NEW s, NEW accs, Others(s, accs), NEW acc \in Accounts
    PROVE  /\ Known(acc)' => Known(acc)
           /\ trust'[acc] = "exact" => trust[acc] = "exact"
BY DEF Others, Known

\* The rows the other refreshes hold.
LEMMA OthersLocked ==
    ASSUME Typed, Invs, NEW s \in Sessions, NEW accs, Others(s, accs),
           NEW t \in Sessions \ {s}, Refreshing(t)', NEW k \in job'[t].scope,
           Known(k[1])'
    PROVE  /\ k \in Rows' => k \in job'[t].locked
           /\ job'[t].op = "count" =>
                /\ job'[t].counts[k] # NoRow => k \in Rows'
                /\ AtLeast(job'[t].counts[k], current_counts'[k])
                /\ trust'[k[1]] = "exact" => job'[t].counts[k] = current_counts'[k]
<1>1. Refreshing(t) /\ k \in job[t].scope
  BY OthersKept
<1>2. k[1] \in Accounts
  BY <1>1, JobKinds, RefreshFields DEF Keys
<1>3. Known(k[1]) /\ (trust'[k[1]] = "exact" => trust[k[1]] = "exact")
  BY <1>2, OthersKnown
<1>4. current_counts' = current_counts /\ Rows' = Rows
  BY QuietTables DEF Others
<1>5. /\ job'[t].op = job[t].op /\ job'[t].locked = job[t].locked
      /\ job[t].op = "count" => job'[t].counts = job[t].counts
  BY <1>1, OthersKept
<1> QED
  BY <1>1, <1>3, <1>4, <1>5 DEF Invs, LockedInv

\* The counts of another refresh that is still alone.
LEMMA OthersAlone ==
    ASSUME Typed, Invs, NEW s \in Sessions, NEW accs, Others(s, accs),
           NEW t \in Sessions \ {s}, Refreshing(t)', job'[t].alone
    PROVE  /\ Refreshing(t) /\ job[t].alone
           /\ accs \cap AccountsOf(job'[t].scope) = {}
           /\ \A u \in Sessions \ {s} :
                /\ Refreshing(u)' /\ u # t =>
                     AccountsOf(job'[u].scope) \cap AccountsOf(job'[t].scope) = {}
                /\ Updating(u)' =>
                     job'[u].system.RhAccountID \notin AccountsOf(job'[t].scope)
           /\ job'[t].op = "count" =>
                \A k \in job'[t].scope :
                  /\ job'[t].counts[k] = current_counts'[k]
                  /\ k \in Rows' => k \in job'[t].visible
<1>1. /\ Refreshing(t) /\ job[t].alone /\ job'[t].scope = job[t].scope
      /\ accs \cap AccountsOf(job[t].scope) = {}
  BY OthersKept
<1>2. current_counts' = current_counts /\ Rows' = Rows
  BY QuietTables DEF Others
<1>3. ASSUME NEW u \in Sessions \ {s}
      PROVE  /\ Refreshing(u)' /\ u # t =>
                  AccountsOf(job'[u].scope) \cap AccountsOf(job'[t].scope) = {}
             /\ Updating(u)' =>
                  job'[u].system.RhAccountID \notin AccountsOf(job'[t].scope)
  <2>1. /\ Refreshing(u)' => Refreshing(u) /\ job'[u].scope = job[u].scope
        /\ Updating(u)' => Updating(u) /\ job'[u] = job[u]
    BY OthersKept
  <2> QED
    BY <1>1, <2>1 DEF Invs, AloneInv
<1>4. /\ job'[t].op = job[t].op
      /\ job[t].op = "count" =>
           job'[t].counts = job[t].counts /\ job'[t].visible = job[t].visible
  BY <1>1, OthersKept
<1>5. ASSUME job[t].op = "count", NEW k \in job[t].scope
      PROVE  /\ job[t].counts[k] = current_counts[k]
             /\ k \in Rows => k \in job[t].visible
  BY <1>1, <1>5 DEF Invs, AloneInv
<1> QED
  BY <1>1, <1>2, <1>3, <1>4, <1>5

LEMMA BeginOthers ==
    ASSUME Typed, NEW s \in Sessions, NEW op, NEW sp, Begins(s, op, sp)
    PROVE  Others(s, AccountOf(sp))
<1>1. ASSUME NEW t \in Sessions \ {s}
      PROVE  job'[t] = Disturb(AccountOf(sp))[t]
  <2>1. job' = [Disturb(AccountOf(sp)) EXCEPT
                  ![s] = [op |-> op, system |-> sp, seen |-> Rows]]
    BY DEF Begins, Begin, AccountOf
  <2>2. DOMAIN Disturb(AccountOf(sp)) = Sessions
    BY DEF Disturb
  <2> QED
    BY <2>1, <2>2
<1>2. Quiet
  BY DEF Begins, Begin, Quiet
<1>3. ASSUME NEW acc \in Accounts
      PROVE  trust'[acc] = trust[acc] \/ trust'[acc] = "raced"
  BY DEF Begins, Begin, Typed, TypeOK
<1> QED
  BY <1>1, <1>2, <1>3 DEF Others

LEMMA BeginInvs ==
    ASSUME Typed, Invs, NEW s \in Sessions, NEW op, NEW sp, Begins(s, op, sp)
    PROVE  Invs'
<1> DEFINE acc == sp.RhAccountID
<1>1. /\ Quiet /\ sp \in SystemPlatform /\ sp \in system_platform
      /\ trust' = IF op = "revive" /\ InRefresh(acc)
                  THEN [trust EXCEPT ![acc] = "raced"] ELSE trust
  BY DEF Begins, Begin, Quiet, Typed, TypeOK
<1>2. acc \in Accounts /\ trust \in [Accounts -> {"unbuilt", "exact", "over", "raced"}]
  BY <1>1 DEF SystemPlatform, Typed, TypeOK
<1>3. PICK accs : accs = AccountOf(sp)
  OBVIOUS
<1>4. Others(s, accs)
  BY <1>3, BeginOthers
<1>5. /\ job'[s] = [op |-> op, system |-> sp, seen |-> Rows]
      /\ op \in {"mark", "revive", "delete"}
  BY BeginJobs DEF Begins
<1>6. Updating(s)' /\ ~Refreshing(s)' /\ job'[s].system = sp /\ job'[s].op = op
  BY <1>5 DEF Updating, Refreshing
<1>7. DataInv'
  BY <1>4, QuietData DEF Invs, Others
<1>8. AloneInv'
  <2>1. ASSUME NEW t \in Sessions, Refreshing(t)', job'[t].alone
        PROVE  /\ \A u \in Sessions :
                    /\ Refreshing(u)' /\ u # t =>
                         AccountsOf(job'[u].scope)
                           \cap AccountsOf(job'[t].scope) = {}
                    /\ Updating(u)' =>
                         job'[u].system.RhAccountID
                           \notin AccountsOf(job'[t].scope)
               /\ job'[t].op = "count" =>
                    \A k \in job'[t].scope :
                      /\ job'[t].counts[k] = current_counts'[k]
                      /\ k \in Rows' => k \in job'[t].visible
    <3>1. t \in Sessions \ {s}
      BY <1>6, <2>1
    <3>2. acc \notin AccountsOf(job'[t].scope)
      BY <1>3, <1>4, <2>1, <3>1, OthersAlone DEF AccountOf
    <3> QED
      BY <1>4, <1>6, <2>1, <3>1, <3>2, OthersAlone
  <2> QED
    BY <2>1 DEF AloneInv, AccountsOf
<1>9. SeenInv'
  <2>1. ASSUME Change(job'[s]) = -1, Known(acc)', NEW sa \in AdvisoriesOf(sp)
        PROVE  Key(sa) \in job'[s].seen
    <3>1. Known(acc)
      BY <1>2, <1>4, <2>1, OthersKnown
    <3>2. Counted(sp)
      BY <1>5, <2>1 DEF Change, Counted, Begins
    <3>3. Key(sa) \in Keys /\ Key(sa)[1] = acc /\ sa \in Affected(Key(sa))
      BY <1>1, <3>2, AffectedIff
      DEF AdvisoriesOf, Key, Keys, Typed, TypeOK, SystemAdvisory
    <3>4. PICK k : k = Key(sa)
      OBVIOUS
    <3>5. current_counts[k].applicable >= 1
      BY <3>3, <3>4, CountsAreTallies, TallyTyped, AffectedFinite
      DEF Typed, PlatformInv
    <3>6. k \in Rows
      BY <3>1, <3>3, <3>4, <3>5, RowIsThere DEF Invs, NoRow
    <3> QED
      BY <1>5, <3>4, <3>6
  <2>2. ASSUME NEW t \in Sessions \ {s}, Updating(t)', Change(job'[t]) = -1,
               Known(job[t].system.RhAccountID)',
               NEW sa \in AdvisoriesOf(job'[t].system)
        PROVE  Key(sa) \in job'[t].seen
    <3>1. Updating(t) /\ job'[t] = job[t]
      BY <1>4, <2>2, OthersKept
    <3>2. job[t].system.RhAccountID \in Accounts
      BY <3>1, JobKinds DEF Updates, SystemPlatform
    <3>3. Known(job[t].system.RhAccountID)
      BY <1>4, <2>2, <3>1, <3>2, OthersKnown DEF Known
    <3> QED
      BY <2>2, <3>1, <3>3 DEF Invs, SeenInv
  <2>3. \A x : AdvisoriesOf(x)' = AdvisoriesOf(x)
    BY <1>1, QuietTables
  <2> QED
    BY <1>6, <2>1, <2>2, <2>3 DEF SeenInv, Known
<1>10. RaceInv'
  <2>1. ASSUME NEW t \in Sessions \ {s}, Refreshing(t)', op = "revive",
               acc \in AccountsOf(job'[t].scope)
        PROVE  ~Known(acc)'
    <3>1. Refreshing(t) /\ job'[t].scope = job[t].scope
      BY <1>4, <2>1, OthersKept
    <3>2. InRefresh(acc)
      BY <2>1, <3>1 DEF InRefresh
    <3> QED
      BY <1>1, <1>2, <2>1, <3>2 DEF Known
  <2>2. ASSUME NEW t \in Sessions \ {s}, Refreshing(t)', NEW u \in Sessions \ {s},
               job'[u].op = "revive",
               job'[u].system.RhAccountID \in AccountsOf(job'[t].scope)
        PROVE  ~Known(job[u].system.RhAccountID)'
    <3>1. Refreshing(t) /\ job'[t].scope = job[t].scope /\ job[u].op = "revive"
      BY <1>4, <2>2, OthersKept
    <3>2. Updating(u) /\ job'[u] = job[u]
      BY <1>4, <3>1, OthersKept DEF Updating
    <3>3. job[u].system.RhAccountID \in Accounts
      BY <3>2, JobKinds DEF Updates, SystemPlatform
    <3>4. ~Known(job[u].system.RhAccountID)
      BY <2>2, <3>1, <3>2 DEF Invs, RaceInv
    <3> QED
      BY <1>4, <3>2, <3>3, <3>4, OthersKnown DEF Known
  <2> QED
    BY <1>6, <2>1, <2>2 DEF RaceInv, Known
<1>11. LockedInv'
  <2>1. ASSUME NEW t \in Sessions, Refreshing(t)', NEW k \in job'[t].scope,
               Known(k[1])'
        PROVE  /\ k \in Rows' => k \in job'[t].locked
               /\ job'[t].op = "count" =>
                    /\ job'[t].counts[k] # NoRow => k \in Rows'
                    /\ AtLeast(job'[t].counts[k], current_counts'[k])
                    /\ trust'[k[1]] = "exact" =>
                         job'[t].counts[k] = current_counts'[k]
    BY <1>4, <1>6, <2>1, OthersLocked
  <2> QED
    BY <2>1 DEF LockedInv
<1> QED
  BY <1>7, <1>8, <1>9, <1>10, <1>11 DEF Invs

LEMMA LockInvs ==
    ASSUME Typed, Invs, NEW s \in Sessions, LockRows(s)
    PROVE  Invs'
<1>1. PICK scope \in Scopes :
        /\ job'[s] = Locking(scope)
        /\ \A t \in Sessions \ {s} : job'[t] = Disturb(AccountsOf(scope))[t]
        /\ trust' = [acc \in Accounts |->
                       IF /\ \E t \in Sessions :
                               /\ job[t].op = "revive"
                               /\ acc = job[t].system.RhAccountID
                          /\ acc \in AccountsOf(scope)
                       THEN "raced" ELSE trust[acc]]
  BY LockJobs
<1>2. PICK accs : accs = AccountsOf(scope)
  OBVIOUS
<1>3. Quiet
  BY DEF LockRows, Quiet
<1>4. Others(s, accs)
  <2>1. \A t \in Sessions \ {s} : job'[t] = Disturb(accs)[t]
    BY <1>1, <1>2
  <2>2. \A a \in Accounts : trust'[a] = trust[a] \/ trust'[a] = "raced"
    BY <1>1
  <2> QED
    BY <1>3, <2>1, <2>2 DEF Others
<1>5. /\ ~Updating(s)' /\ Refreshing(s)' /\ job'[s].op = "lock"
      /\ job'[s].scope = scope /\ job'[s].locked = scope \cap Rows
      /\ job'[s].alone = \A acc \in accs : ~Busy(acc)
  BY <1>1, <1>2 DEF Locking, Updating, Refreshing
<1>6. DataInv'
  BY <1>4, QuietData DEF Invs, Others
<1>7. AloneInv'
  <2>1. ASSUME job'[s].alone, NEW u \in Sessions \ {s}
        PROVE  /\ Refreshing(u)' => AccountsOf(job'[u].scope) \cap accs = {}
               /\ Updating(u)' => job'[u].system.RhAccountID \notin accs
    <3>1. \A acc \in accs : ~Busy(acc)
      BY <1>5, <2>1
    <3>2. Refreshing(u) => AccountsOf(job[u].scope) \cap accs = {}
      BY <3>1 DEF Busy, InRefresh
    <3>3. Updating(u) => job[u].system.RhAccountID \notin accs
      BY <3>1 DEF Busy
    <3> QED
      BY <1>4, <3>2, <3>3, OthersKept
  <2>2. ASSUME NEW t \in Sessions, Refreshing(t)', job'[t].alone
        PROVE  /\ \A u \in Sessions :
                    /\ Refreshing(u)' /\ u # t =>
                         AccountsOf(job'[u].scope)
                           \cap AccountsOf(job'[t].scope) = {}
                    /\ Updating(u)' =>
                         job'[u].system.RhAccountID
                           \notin AccountsOf(job'[t].scope)
               /\ job'[t].op = "count" =>
                    \A k \in job'[t].scope :
                      /\ job'[t].counts[k] = current_counts'[k]
                      /\ k \in Rows' => k \in job'[t].visible
    <3>1. CASE t = s
      BY <1>2, <1>5, <2>1, <2>2, <3>1
    <3>2. CASE t # s
      <4>1. accs \cap AccountsOf(job'[t].scope) = {}
        BY <1>4, <2>2, <3>2, OthersAlone
      <4> QED
        BY <1>2, <1>4, <1>5, <2>2, <3>2, <4>1, OthersAlone
    <3> QED
      BY <3>1, <3>2
  <2> QED
    BY <2>2 DEF AloneInv, AccountsOf
<1>8. SeenInv'
  <2>1. ASSUME NEW t \in Sessions \ {s}, Updating(t)', Change(job'[t]) = -1,
               Known(job[t].system.RhAccountID)',
               NEW sa \in AdvisoriesOf(job'[t].system)
        PROVE  Key(sa) \in job'[t].seen
    <3>1. Updating(t) /\ job'[t] = job[t]
      BY <1>4, <2>1, OthersKept
    <3>2. job[t].system.RhAccountID \in Accounts
      BY <3>1, JobKinds DEF Updates, SystemPlatform
    <3>3. Known(job[t].system.RhAccountID)
      BY <1>4, <2>1, <3>1, <3>2, OthersKnown DEF Known
    <3> QED
      BY <2>1, <3>1, <3>3 DEF Invs, SeenInv
  <2>2. \A x : AdvisoriesOf(x)' = AdvisoriesOf(x)
    BY <1>3, QuietTables
  <2> QED
    BY <1>5, <2>1, <2>2 DEF SeenInv, Known
<1>9. RaceInv'
  <2>1. ASSUME NEW t \in Sessions, Refreshing(t)', NEW u \in Sessions \ {s},
               job'[u].op = "revive",
               job'[u].system.RhAccountID \in AccountsOf(job'[t].scope)
        PROVE  ~Known(job[u].system.RhAccountID)'
    <3>1. job[u].op = "revive"
      BY <1>4, <2>1, OthersKept
    <3>2. Updating(u) /\ job'[u] = job[u]
      BY <1>4, <3>1, OthersKept DEF Updating
    <3>3. job[u].system.RhAccountID \in Accounts
      BY <3>2, JobKinds DEF Updates, SystemPlatform
    <3>4. PICK acc : acc = job[u].system.RhAccountID
      OBVIOUS
    <3>5. CASE t = s
      <4>1. acc \in AccountsOf(scope)
        BY <1>5, <2>1, <3>2, <3>4, <3>5
      <4>2. trust'[acc] = "raced"
        BY <1>1, <3>1, <3>3, <3>4, <4>1
      <4> QED
        BY <3>2, <3>4, <4>2 DEF Known
    <3>6. CASE t # s
      <4>1. Refreshing(t) /\ job'[t].scope = job[t].scope
        BY <1>4, <2>1, <3>6, OthersKept
      <4>2. ~Known(acc)
        BY <2>1, <3>1, <3>2, <3>4, <4>1 DEF Invs, RaceInv
      <4> QED
        BY <1>4, <3>2, <3>3, <3>4, <4>2, OthersKnown DEF Known
    <3> QED
      BY <3>5, <3>6
  <2>2. job'[s].op # "revive"
    BY <1>5
  <2>3. ASSUME NEW u \in Sessions \ {s}, job'[u].op = "revive"
        PROVE  job'[u] = job[u]
    <3>1. Updating(u)
      BY <1>4, <2>3, OthersKept DEF Updating
    <3> QED
      BY <1>4, <3>1, OthersKept
  <2> QED
    BY <2>1, <2>2, <2>3 DEF RaceInv, Known
<1>10. LockedInv'
  <2>1. ASSUME NEW t \in Sessions, Refreshing(t)', NEW k \in job'[t].scope,
               Known(k[1])'
        PROVE  /\ k \in Rows' => k \in job'[t].locked
               /\ job'[t].op = "count" =>
                    /\ job'[t].counts[k] # NoRow => k \in Rows'
                    /\ AtLeast(job'[t].counts[k], current_counts'[k])
                    /\ trust'[k[1]] = "exact" =>
                         job'[t].counts[k] = current_counts'[k]
    <3>1. CASE t = s
      <4>1. Rows' = Rows
        BY <1>3, QuietTables
      <4> QED
        BY <1>5, <2>1, <3>1, <4>1
    <3>2. CASE t # s
      BY <1>4, <2>1, <3>2, OthersLocked
    <3> QED
      BY <3>1, <3>2
  <2> QED
    BY <2>1 DEF LockedInv
<1> QED
  BY <1>6, <1>7, <1>8, <1>9, <1>10 DEF Invs

\* Nobody is affected anew by a deletion, and no account that is not lost.
LEMMA DeleteAffected ==
    ASSUME Typed, NEW gone, NEW updated, Deletes(gone, updated), NEW k
    PROVE  /\ Affected(k)' \in SUBSET Affected(k)
           /\ k[1] \notin Lost(gone) => Affected(k)' = Affected(k)
<1> DEFINE marked == { [sp EXCEPT !.Stale = TRUE] : sp \in updated }
<1>1. /\ gone \in SUBSET system_platform /\ gone \in SUBSET SystemPlatform
      /\ updated \in SUBSET gone
      /\ system_platform' = (system_platform \ gone) \cup marked
      /\ system_advisories' =
           system_advisories \ UNION { AdvisoriesOf(sp) : sp \in gone }
      /\ \A sp1, sp2 \in system_platform : sp1.ID = sp2.ID => sp1 = sp2
  BY DEF Deletes, Typed, TypeOK, PlatformInv
<1>2. \A sp \in marked : ~Counted(sp)
  BY <1>1 DEF Counted, SystemPlatform
<1> HIDE DEF marked
<1>3. ASSUME NEW sa
      PROVE  (sa \in Affected(k))' <=>
               /\ sa \in system_advisories' /\ Key(sa) = k
               /\ \E sp \in system_platform' :
                    /\ Counted(sp)
                    /\ sa.RhAccountID = sp.RhAccountID /\ sa.SystemID = sp.ID
  BY DEF Affected, AdvisoriesOf, Key, Counted
<1>4. ASSUME NEW sa, (sa \in Affected(k))'
      PROVE  sa \in Affected(k)
  BY <1>1, <1>2, <1>3, <1>4, AffectedIff
<1>5. ASSUME k[1] \notin Lost(gone), NEW sa \in Affected(k)
      PROVE  (sa \in Affected(k))'
  <2>1. /\ sa \in system_advisories /\ Key(sa) = k
        /\ \E sp \in system_platform :
             /\ Counted(sp)
             /\ sa.RhAccountID = sp.RhAccountID /\ sa.SystemID = sp.ID
    BY <1>5, AffectedIff
  <2>2. PICK sp \in system_platform :
          /\ Counted(sp)
          /\ sa.RhAccountID = sp.RhAccountID /\ sa.SystemID = sp.ID
    BY <2>1
  <2>3. sa \in AdvisoriesOf(sp) /\ k[1] = sp.RhAccountID
    BY <2>1, <2>2 DEF AdvisoriesOf, Key
  <2>4. sp \notin gone
    BY <1>5, <2>2, <2>3 DEF Lost
  <2>5. \A x \in gone : sa \notin AdvisoriesOf(x)
    BY <1>1, <2>2, <2>4 DEF AdvisoriesOf
  <2>6. sa \in system_advisories' /\ sp \in system_platform'
    BY <1>1, <2>1, <2>4, <2>5
  <2> QED
    BY <1>3, <2>1, <2>2, <2>6
<1> QED
  BY <1>4, <1>5

\* What a deletion does to the counts and to what is known of the counters.
Fewer(gone) ==
    /\ \A k \in Keys :
         /\ AtLeast(current_counts[k], current_counts'[k])
         /\ current_counts'[k] \in Counters
         /\ k[1] \notin Lost(gone) => current_counts'[k] = current_counts[k]
    /\ \A acc \in Accounts :
         /\ Known(acc)' => Known(acc)
         /\ trust'[acc] = "exact" => trust[acc] = "exact" /\ acc \notin Lost(gone)
    /\ advisory_account_data' = advisory_account_data
    /\ Rows' = Rows
    /\ \A sp : AdvisoriesOf(sp)' \in SUBSET AdvisoriesOf(sp)

LEMMA DeleteFewer ==
    ASSUME Typed, NEW gone, NEW updated, Deletes(gone, updated), Deleted(gone)
    PROVE  Fewer(gone)
<1>1. ASSUME NEW k \in Keys
      PROVE  /\ AtLeast(current_counts[k], current_counts'[k])
             /\ current_counts'[k] \in Counters
             /\ k[1] \notin Lost(gone) => current_counts'[k] = current_counts[k]
  <2>1. PICK A, B : A = Affected(k) /\ B = Affected(k)'
    OBVIOUS
  <2>2. B \in SUBSET A /\ (k[1] \notin Lost(gone) => B = A)
    BY <2>1, DeleteAffected
  <2>3. IsFiniteSet(A)
    BY <2>1, AffectedFinite DEF Typed, PlatformInv
  <2>4. IsFiniteSet(B)
    BY <2>2, <2>3, FS_Subset
  <2>5. current_counts[k] = Tally(A) /\ current_counts'[k] = Tally(B)
    BY <2>1 DEF current_counts, Tally
  <2> QED
    BY <2>2, <2>3, <2>4, <2>5, TallyMono, TallyTyped
<1>2. ASSUME NEW acc \in Accounts
      PROVE  /\ Known(acc)' => Known(acc)
             /\ trust'[acc] = "exact" =>
                  trust[acc] = "exact" /\ acc \notin Lost(gone)
  <2>1. trust'[acc] = IF acc \in Lost(gone) /\ trust[acc] = "exact"
                      THEN "over" ELSE trust[acc]
    BY DEF Deleted
  <2> QED
    BY <2>1 DEF Known
<1>3. advisory_account_data' = advisory_account_data /\ Rows' = Rows
  BY DEF Deletes, Rows
<1>4. ASSUME NEW sp PROVE AdvisoriesOf(sp)' \in SUBSET AdvisoriesOf(sp)
  <2>1. system_advisories' \in SUBSET system_advisories
    BY DEF Deletes
  <2> QED
    BY <2>1 DEF AdvisoriesOf
<1> QED
  BY <1>1, <1>2, <1>3, <1>4 DEF Fewer

\* What a deletion leaves of a session's job.
LEMMA DeleteKept ==
    ASSUME Typed, NEW gone, Deleted(gone), NEW t \in Sessions
    PROVE  /\ Updating(t)' <=> Updating(t)
           /\ Refreshing(t)' <=> Refreshing(t)
           /\ job'[t].op = job[t].op
           /\ Updating(t) => job'[t] = job[t]
           /\ Refreshing(t) =>
                /\ job'[t].scope = job[t].scope
                /\ job'[t].locked = job[t].locked
                /\ job'[t].alone =>
                     /\ job[t].alone
                     /\ Lost(gone) \cap AccountsOf(job[t].scope) = {}
                /\ job[t].op = "count" =>
                     /\ job'[t].counts = job[t].counts
                     /\ job'[t].visible = job[t].visible
<1>1. PICK accs : accs = Lost(gone)
  OBVIOUS
<1>2. job'[t] = Disturb(accs)[t]
  BY <1>1 DEF Deleted
<1> QED
  BY <1>1, <1>2, Disturbed, JobKinds DEF Updating, Refreshing

LEMMA AtLeastTransitive ==
    ASSUME NEW c \in Counters, NEW d \in Counters, NEW e \in Counters,
           AtLeast(c, d), AtLeast(d, e)
    PROVE  AtLeast(c, e)
BY DEF AtLeast, Counters

LEMMA DeleteInvs ==
    ASSUME Typed, Invs, delete_systems
    PROVE  Invs'
<1>1. PICK gone, updated : Deletes(gone, updated) /\ Deleted(gone)
  BY DeleteSystems
<1>2. PICK accs : accs = Lost(gone)
  OBVIOUS
<1>3. /\ \A k \in Keys :
           /\ AtLeast(current_counts[k], current_counts'[k])
           /\ current_counts[k] \in Counters /\ current_counts'[k] \in Counters
           /\ k[1] \notin accs => current_counts'[k] = current_counts[k]
      /\ \A acc \in Accounts :
           /\ Known(acc)' => Known(acc)
           /\ trust'[acc] = "exact" => trust[acc] = "exact" /\ acc \notin accs
      /\ advisory_account_data' = advisory_account_data
      /\ Rows' = Rows
      /\ \A sp : AdvisoriesOf(sp)' \in SUBSET AdvisoriesOf(sp)
  BY <1>1, <1>2, DeleteFewer, CountsTyped DEF Fewer
<1>4. ASSUME NEW t \in Sessions
      PROVE  /\ Updating(t)' <=> Updating(t)
             /\ Refreshing(t)' <=> Refreshing(t)
             /\ job'[t].op = job[t].op
             /\ Updating(t) => job'[t] = job[t]
             /\ Refreshing(t) =>
                  /\ job'[t].scope = job[t].scope
                  /\ job'[t].locked = job[t].locked
                  /\ job'[t].alone =>
                       /\ job[t].alone
                       /\ accs \cap AccountsOf(job[t].scope) = {}
                  /\ job[t].op = "count" =>
                       /\ job'[t].counts = job[t].counts
                       /\ job'[t].visible = job[t].visible
  BY <1>1, <1>2, DeleteKept
<1>5. \A t \in Sessions :
        /\ Updating(t) => job[t].system.RhAccountID \in Accounts
        /\ Refreshing(t) =>
             /\ job[t].scope \in SUBSET Keys
             /\ job[t].op = "count" => job[t].counts \in [Keys -> Counters]
  BY JobKinds, RefreshFields DEF Updates, SystemPlatform
<1>6. \A k \in Keys : k[1] \in Accounts
  BY DEF Keys
<1>7. DataInv'
  <2>1. ASSUME NEW k \in Keys PROVE DataOf(k)'
    <3>1. DataOf(k) /\ advisory_account_data[k] \in Counters
      BY DataSplit DEF Invs, Typed, TypeOK
    <3>2. Known(k[1])' => AtLeast(advisory_account_data[k], current_counts'[k])
      BY <1>3, <1>6, <3>1, AtLeastTransitive DEF DataOf
    <3>3. trust'[k[1]] = "exact" =>
            advisory_account_data[k] = current_counts'[k]
      BY <1>3, <1>6, <3>1 DEF DataOf
    <3> QED
      BY <1>3, <3>2, <3>3 DEF DataOf, Known
  <2>2. (DataInv <=> \A k \in Keys : DataOf(k))'
    BY DataSplit, PTL
  <2> QED
    BY <2>1, <2>2
<1>8. AloneInv'
  <2>1. ASSUME NEW t \in Sessions, Refreshing(t), job'[t].alone
        PROVE  /\ \A u \in Sessions :
                    /\ Refreshing(u) /\ u # t =>
                         AccountsOf(job[u].scope)
                           \cap AccountsOf(job[t].scope) = {}
                    /\ Updating(u) =>
                         job[u].system.RhAccountID
                           \notin AccountsOf(job[t].scope)
               /\ job[t].op = "count" =>
                    \A k \in job[t].scope :
                      /\ job[t].counts[k] = current_counts'[k]
                      /\ k \in Rows' => k \in job[t].visible
    <3>1. job[t].alone /\ accs \cap AccountsOf(job[t].scope) = {}
      BY <1>4, <2>1
    <3>2. \A k \in job[t].scope : k \in Keys /\ k[1] \notin accs
      BY <1>5, <2>1, <3>1 DEF AccountsOf
    <3> QED
      BY <1>3, <2>1, <3>1, <3>2 DEF Invs, AloneInv
  <2> QED
    BY <1>4, <2>1 DEF AloneInv, AccountsOf
<1>9. SeenInv'
  <2>1. ASSUME NEW t \in Sessions, Updating(t), Change(job[t]) = -1,
               Known(job[t].system.RhAccountID)',
               NEW sa \in AdvisoriesOf(job[t].system)'
        PROVE  Key(sa) \in job[t].seen
    <3>1. Known(job[t].system.RhAccountID)
      BY <1>3, <1>4, <1>5, <2>1 DEF Known
    <3>2. sa \in AdvisoriesOf(job[t].system)
      <4>1. PICK sp : sp = job[t].system
        OBVIOUS
      <4>2. job'[t].system = sp
        BY <1>4, <2>1, <4>1
      <4> QED
        BY <1>3, <2>1, <4>1, <4>2 DEF AdvisoriesOf
    <3> QED
      BY <2>1, <3>1, <3>2 DEF Invs, SeenInv
  <2> QED
    BY <1>4, <2>1 DEF SeenInv, Known, AdvisoriesOf
<1>10. RaceInv'
  <2>1. ASSUME NEW t \in Sessions, Refreshing(t), NEW u \in Sessions,
               job[u].op = "revive",
               job[u].system.RhAccountID \in AccountsOf(job[t].scope)
        PROVE  /\ trust'[job[u].system.RhAccountID] \notin {"exact", "over"}
               /\ Updating(u)
    <3>1. Updating(u) /\ ~Known(job[u].system.RhAccountID)
      BY <2>1 DEF Updating, Invs, RaceInv
    <3> QED
      BY <1>3, <1>5, <3>1 DEF Known
  <2>2. \A u \in Sessions : job[u].op = "revive" => job'[u] = job[u]
    BY <1>4 DEF Updating
  <2> QED
    BY <1>4, <2>1, <2>2 DEF RaceInv, Known
<1>11. LockedInv'
  <2>1. ASSUME NEW t \in Sessions, Refreshing(t), NEW k \in job[t].scope,
               trust'[k[1]] \in {"exact", "over"}
        PROVE  /\ k \in Rows => k \in job[t].locked
               /\ job[t].op = "count" =>
                    /\ job[t].counts[k] # NoRow => k \in Rows
                    /\ AtLeast(job[t].counts[k], current_counts'[k])
                    /\ trust'[k[1]] = "exact" =>
                         job[t].counts[k] = current_counts'[k]
    <3>1. k \in Keys /\ k[1] \in Accounts
      BY <1>5, <1>6, <2>1
    <3>2. Known(k[1])
      BY <1>3, <2>1, <3>1 DEF Known
    <3>3. /\ k \in Rows => k \in job[t].locked
          /\ job[t].op = "count" =>
               /\ job[t].counts[k] # NoRow => k \in Rows
               /\ AtLeast(job[t].counts[k], current_counts[k])
               /\ trust[k[1]] = "exact" =>
                    job[t].counts[k] = current_counts[k]
      BY <2>1, <3>2 DEF Invs, LockedInv
    <3>4. job[t].op = "count" => AtLeast(job[t].counts[k], current_counts'[k])
      BY <1>3, <1>5, <2>1, <3>1, <3>3, AtLeastTransitive
    <3> QED
      BY <1>3, <3>1, <3>3, <3>4
  <2> QED
    BY <1>3, <1>4, <2>1 DEF LockedInv, Known
<1> QED
  BY <1>7, <1>8, <1>9, <1>10, <1>11 DEF Invs

\* At the start nobody works, and the counters are right or nothing is known.
LEMMA InvsInit == Init => Invs
<1> SUFFICES ASSUME Init PROVE Invs
  OBVIOUS
<1>1. Typed
  BY TypedInit
<1>2. \A s \in Sessions : ~Updating(s) /\ ~Refreshing(s)
  BY DEF Init, Updating, Refreshing, NoJob
<1>3. DataInv
  <2>1. ASSUME NEW k \in Keys PROVE DataOf(k)
    <3>1. k[1] \in Accounts
      BY DEF Keys
    <3>2. CASE advisory_account_data = current_counts
      BY <1>1, <3>2, CountsTyped DEF DataOf, AtLeast, Counters
    <3>3. CASE trust = [acc \in Accounts |-> "unbuilt"]
      BY <3>1, <3>3 DEF DataOf, Known
    <3> QED
      BY <3>2, <3>3 DEF Init
  <2> QED
    BY <2>1, DataSplit
<1>4. AloneInv /\ SeenInv /\ RaceInv /\ LockedInv
  BY <1>2 DEF AloneInv, SeenInv, RaceInv, LockedInv
<1> QED
  BY <1>3, <1>4 DEF Invs

LEMMA InvsNext == Typed /\ Invs /\ [Next]_vars => Invs'
<1> SUFFICES ASSUME Typed, Invs, [Next]_vars PROVE Invs'
  OBVIOUS
<1>1. CASE \E s \in Sessions : Step(s)
  <2>1. PICK s \in Sessions : Step(s)
    BY <1>1
  <2>2. CASE mark_stale_systems(s) \/ delete_system(s) \/ Upload(s)
    <3>1. PICK op \in {"mark", "revive", "delete"}, sp \in system_platform :
            Begins(s, op, sp)
      BY <2>2, BeginnersBegin
    <3> QED
      BY <3>1, BeginInvs
  <2> QED
    BY <2>1, <2>2, FinishInvs, LockInvs, CountInvs, WriteInvs, RollbackInvs
    DEF Step
<1>2. CASE UNCHANGED vars
  <2>1. /\ current_counts' = current_counts /\ Rows' = Rows
        /\ \A sp : AdvisoriesOf(sp)' = AdvisoriesOf(sp)
    BY <1>2, SameTables DEF vars, Rows
  <2>2. /\ trust' = trust /\ job' = job
        /\ advisory_account_data' = advisory_account_data
    BY <1>2 DEF vars
  <2> QED
    BY <2>1, <2>2 DEF Invs, DataInv, CountsExact, NothingMissing, AloneInv,
                      SeenInv, RaceInv, LockedInv, Known, Updating, Refreshing
<1> QED
  BY <1>1, <1>2, DeleteInvs DEF Next

LEMMA InvsHold == Spec => [](Typed /\ Invs)
<1>1. Init => Typed /\ Invs
  BY TypedInit, InvsInit
<1>2. (Typed /\ Invs) /\ [Next]_vars => (Typed /\ Invs)'
  BY TypedNext, InvsNext
<1> QED
  BY <1>1, <1>2, PTL DEF Spec

\* Counters that were right once, because they were built with the systems or
\* by a refresh that had its account to itself, equal a recount ever after,
\* whatever else runs beside them: until delete_systems takes affected systems
\* of the account away, or one is revived while the account is refreshed.
THEOREM CountsCorrect == Spec => []CountsExact
<1>1. Invs => CountsExact
  BY DEF Invs, DataInv
<1> QED
  BY <1>1, InvsHold, PTL

\* delete_systems leaves counters that are too large, and no interleaving makes
\* them too small: every affected system stays counted.
THEOREM NothingMissingCorrect == Spec => []NothingMissing
<1>1. Invs => NothingMissing
  BY DEF Invs, DataInv
<1> QED
  BY <1>1, InvsHold, PTL

=============================================================================
