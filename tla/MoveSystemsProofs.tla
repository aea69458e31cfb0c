------------------------- MODULE MoveSystemsProofs -------------------------
(***************************************************************************)
(* Theorems about MoveSystems, for any accounts, tables, requests and      *)
(* number of movers, with what each of them asks of the moves that may run *)
(* at the same time.                                                       *)
(***************************************************************************)
EXTENDS MoveSystems, FiniteSetTheorems, TLAPS

-----------------------------------------------------------------------------
(* Rows                                                                    *)

LEMMA RowOfTable ==
    /\ TableRows("system_repo") = SystemChild
    /\ TableRows("system_advisories") = SystemChild
    /\ TableRows("system_platform") = SystemPlatform
    /\ TableRows("baseline") = Baseline
BY DEF TableRows

LEMMA TableCases ==
    ASSUME NEW t \in Tables
    PROVE  \/ t = "system_repo" /\ TableRows(t) = SystemChild
           \/ t = "system_advisories" /\ TableRows(t) = SystemChild
           \/ t = "system_platform" /\ TableRows(t) = SystemPlatform
           \/ t = "baseline" /\ TableRows(t) = Baseline
BY RowOfTable DEF Tables

\* A reassigned row belongs to the account and to its table.
LEMMA ReassignRow ==
    ASSUME NEW t \in Tables, NEW r \in TableRows(t), NEW acc \in Accounts
    PROVE  /\ [r EXCEPT !.RhAccountID = acc] \in TableRows(t)
           /\ [r EXCEPT !.RhAccountID = acc].RhAccountID = acc
<1>1. CASE TableRows(t) = SystemChild
  BY <1>1 DEF SystemChild
<1>2. CASE TableRows(t) = SystemPlatform
  BY <1>2 DEF SystemPlatform
<1>3. CASE TableRows(t) = Baseline
  BY <1>3 DEF Baseline
<1> QED
  BY <1>1, <1>2, <1>3, TableCases

\* Its other columns stay.
LEMMA ReassignColumns ==
    ASSUME NEW acc \in Accounts
    PROVE  /\ \A r \in SystemChild :
                [r EXCEPT !.RhAccountID = acc].SystemID = r.SystemID
           /\ \A r \in SystemPlatform :
                /\ [r EXCEPT !.RhAccountID = acc].ID = r.ID
                /\ [r EXCEPT !.RhAccountID = acc].InventoryID = r.InventoryID
           /\ \A r \in Baseline : [r EXCEPT !.RhAccountID = acc].ID = r.ID
BY DEF SystemChild, SystemPlatform, Baseline

LEMMA TableTyped ==
    ASSUME NEW t \in Tables PROVE TableRows(t) \subseteq AnyRow
BY TableCases DEF AnyRow

LEMMA ReassignedTyped ==
    ASSUME NEW t \in Tables, NEW acc \in Accounts,
           NEW rows \in SUBSET TableRows(t),
           NEW matched \in SUBSET rows
    PROVE  Reassigned(rows, matched, acc) \subseteq TableRows(t)
BY ReassignRow DEF Reassigned

-----------------------------------------------------------------------------
(* Types and locks                                                         *)

\* The conjuncts of TypeOK about one variable each, but for SpiceDB, in which
\* the other migration stores relationships of other kinds.
Shapes ==
    /\ db \in [Tables -> SUBSET AnyRow]
    /\ \A t \in Tables : db[t] \subseteq TableRows(t)
    /\ pc \in [Procs -> Tables \cup {"idle", "begin", "write", "commit"}]
    /\ move \in [Procs -> Moves]
    /\ listed \in [Procs -> SUBSET HostsSynced]
    /\ tx \in [Procs -> [Tables -> SUBSET AnyRow]]
    /\ result \in [Procs -> {"none", "nil", "error", "crashed"}]
    /\ unsure \subseteq Hosts
    /\ been \in [Hosts -> SUBSET Accounts]

(***************************************************************************)
(* The others, and that no row is locked twice, which keeps a commit from  *)
(* removing a row another transaction has locked.                          *)
(***************************************************************************)
Locks ==
    /\ \A p \in Procs, t \in Tables : tx[p][t] \subseteq db[t]
    /\ \A p \in Procs : pc[p] \in {"idle", "begin"} => tx[p] = NoRows
    /\ \A p, q \in Procs, t \in Tables : p # q => tx[p][t] \cap tx[q][t] = {}

Typed == Shapes /\ Locks

\* A mover stores nothing but workspaces of hosts.
HostsStored ==
    spicedb \subseteq { HostWorkspace(h, acc) : h \in Hosts, acc \in Accounts }

\* Before the first mover has started.
Idle ==
    /\ db = SeedDB
    /\ pc = [p \in Procs |-> "idle"]
    /\ move \in [Procs -> Moves]
    /\ listed = [p \in Procs |-> {}]
    /\ tx = [p \in Procs |-> NoRows]
    /\ result = [p \in Procs |-> "none"]
    /\ unsure = {}
    /\ been = SeedAccounts

LEMMA InitIdle == Init => Idle /\ HostsStored
<1> SUFFICES ASSUME Init PROVE HostsStored
  BY DEF Init, Idle
<1>1. SeedDB["system_platform"] \subseteq SystemPlatform
  BY MoveAssumption, RowOfTable DEF Tables
<1>2. \A sp \in SeedDB["system_platform"] :
        sp.InventoryID \in Hosts /\ sp.RhAccountID \in Accounts
  BY <1>1 DEF SystemPlatform
<1> QED
  BY <1>2 DEF Init, HostsStored

LEMMA TypedInit == Idle => Typed
<1> SUFFICES ASSUME Idle PROVE Typed
  OBVIOUS
<1>1. \A t \in Tables : NoRows[t] = {}
  BY DEF NoRows
<1>2. NoRows \in [Tables -> SUBSET AnyRow]
  BY DEF NoRows
<1>3. Shapes
  <2>1. /\ db \in [Tables -> SUBSET AnyRow]
        /\ \A t \in Tables : db[t] \subseteq TableRows(t)
    BY MoveAssumption DEF Idle
  <2>2. /\ pc \in [Procs -> Tables \cup {"idle", "begin", "write", "commit"}]
        /\ result \in [Procs -> {"none", "nil", "error", "crashed"}]
    BY DEF Idle
  <2>3. /\ move \in [Procs -> Moves]
        /\ listed \in [Procs -> SUBSET HostsSynced]
        /\ tx \in [Procs -> [Tables -> SUBSET AnyRow]]
        /\ unsure \subseteq Hosts
    BY <1>2 DEF Idle
  <2>4. been \in [Hosts -> SUBSET Accounts]
    <3>1. SeedDB["system_platform"] \subseteq SystemPlatform
      BY MoveAssumption, RowOfTable DEF Tables
    <3>2. \A sp \in SeedDB["system_platform"] : sp.RhAccountID \in Accounts
      BY <3>1 DEF SystemPlatform
    <3> QED
      BY <3>2 DEF Idle, SeedAccounts
  <2> QED
    BY <2>1, <2>2, <2>3, <2>4 DEF Shapes
<1>4. Locks
  BY <1>1 DEF Idle, Locks
<1> QED
  BY <1>3, <1>4 DEF Typed

LEMMA MoveTyped ==
    ASSUME Typed, NEW p \in Procs
    PROVE  from(p) \in Accounts /\ to(p) \in Accounts
BY MoveAssumption DEF Typed, Shapes, Locks, from, to

(***************************************************************************)
(* What one of the four updates does: the process goes on holding exactly  *)
(* the rows of its account, or is rolled back.                             *)
(***************************************************************************)
LEMMA UpdateEffect ==
    ASSUME Typed, NEW p \in Procs, NEW t \in Tables, NEW allowed, NEW next,
           Update(p, t, Matched(p, t), allowed, next)
    PROVE  /\ pc[p] = t
           /\ UNCHANGED <<db, spicedb, move, listed, unsure, been>>
           /\ \A q \in Procs : q # p => pc'[q] = pc[q] /\ tx'[q] = tx[q]
           /\ \/ /\ pc' = [pc EXCEPT ![p] = next]
                 /\ result' = result
                 /\ ~Locked(p, t)
                 /\ tx'[p] \in [Tables -> SUBSET AnyRow]
                 /\ tx'[p][t] = RowsOf(db[t], from(p))
                 /\ \A u \in Tables : u # t => tx'[p][u] = tx[p][u]
              \/ /\ pc' = [pc EXCEPT ![p] = "idle"]
                 /\ result' = [result EXCEPT ![p] = "error"]
                 /\ tx'[p] = NoRows
           /\ tx' \in [Procs -> [Tables -> SUBSET AnyRow]]
<1>1. /\ tx \in [Procs -> [Tables -> SUBSET AnyRow]]
      /\ pc \in [Procs -> Tables \cup {"idle", "begin", "write", "commit"}]
  BY DEF Typed, Shapes, Locks
<1>2. Matched(p, t) \in SUBSET AnyRow
  BY TableTyped DEF Typed, Shapes, Locks, Matched, RowsOf
<1>3. NoRows \in [Tables -> SUBSET AnyRow]
  BY DEF NoRows
<1>4. CASE /\ ~Locked(p, t)
           /\ tx' = [tx EXCEPT ![p] = [@ EXCEPT ![t] = Matched(p, t)]]
           /\ Goto(p, next)
           /\ UNCHANGED result
  <2>1. tx'[p] = [tx[p] EXCEPT ![t] = Matched(p, t)]
    BY <1>1, <1>4
  <2>2. tx'[p] \in [Tables -> SUBSET AnyRow]
    BY <1>1, <1>2, <2>1
  <2> QED
    BY <1>1, <1>2, <1>4, <2>1, <2>2 DEF Update, Goto, Matched
<1>5. CASE Rollback(p) /\ Return(p, "error")
  BY <1>1, <1>3, <1>5 DEF Update, Rollback, Return, Goto
<1> QED
  BY <1>4, <1>5 DEF Update

LEMMA UpdateTyped ==
    ASSUME Typed, NEW p \in Procs, NEW t \in Tables, NEW allowed,
           NEW next \in Tables \cup {"write"},
           Update(p, t, Matched(p, t), allowed, next)
    PROVE  Typed'
<1>1. /\ UNCHANGED <<db, spicedb, move, listed, unsure, been>>
      /\ \A q \in Procs : q # p => pc'[q] = pc[q] /\ tx'[q] = tx[q]
      /\ tx' \in [Procs -> [Tables -> SUBSET AnyRow]]
  BY UpdateEffect
<1>2. CASE /\ pc' = [pc EXCEPT ![p] = next] /\ result' = result
           /\ ~Locked(p, t)
           /\ tx'[p][t] = RowsOf(db[t], from(p))
           /\ \A u \in Tables : u # t => tx'[p][u] = tx[p][u]
  <2>1. \A q \in Procs, u \in Tables : tx'[q][u] \subseteq db[u]
    <3>1. tx'[p][t] \subseteq db[t]
      BY <1>2 DEF RowsOf
    <3> QED
      BY <1>1, <1>2, <3>1 DEF Typed, Locks
  <2>2. \A q \in Procs : q # p => tx'[p][t] \cap tx[q][t] = {}
    BY <1>2 DEF Locked, Matched
  <2>3. \A r, q \in Procs, u \in Tables :
          r # q => tx'[r][u] \cap tx'[q][u] = {}
    BY <1>1, <1>2, <2>2 DEF Typed, Locks
  <2>4. next \notin {"idle", "begin"}
    BY DEF Tables
  <2> QED
    BY <1>1, <1>2, <2>1, <2>3, <2>4 DEF Typed, Shapes, Locks
<1>3. CASE /\ pc' = [pc EXCEPT ![p] = "idle"]
           /\ result' = [result EXCEPT ![p] = "error"]
           /\ tx'[p] = NoRows
  <2>1. \A u \in Tables : tx'[p][u] = {}
    BY <1>3 DEF NoRows
  <2>2. Shapes'
    BY <1>1, <1>3 DEF Typed, Shapes
  <2>3. Locks'
    <3>1. \A q \in Procs : q # p => pc'[q] = pc[q]
      BY <1>1
    <3> QED
      BY <1>1, <1>3, <2>1, <3>1 DEF Typed, Locks
  <2> QED
    BY <2>2, <2>3 DEF Typed
<1> QED
  BY <1>2, <1>3, UpdateEffect

(***************************************************************************)
(* A step that ends the transaction of a process, if it has one.           *)
(***************************************************************************)
LEMMA EndTyped ==
    ASSUME Typed, NEW p \in Procs, Rollback(p)
    PROVE  /\ tx' \in [Procs -> [Tables -> SUBSET AnyRow]]
           /\ \A t \in Tables : tx'[p][t] = {}
           /\ tx'[p] = NoRows
           /\ \A q \in Procs : q # p => tx'[q] = tx[q]
           /\ \A r, q \in Procs, t \in Tables :
                r # q => tx'[r][t] \cap tx'[q][t] = {}
           /\ \A q \in Procs, t \in Tables : tx'[q][t] \subseteq db[t]
<1>1. /\ tx \in [Procs -> [Tables -> SUBSET AnyRow]]
      /\ tx' = [tx EXCEPT ![p] = NoRows]
      /\ NoRows \in [Tables -> SUBSET AnyRow]
      /\ \A t \in Tables : NoRows[t] = {}
  BY DEF Typed, Shapes, Locks, Rollback, NoRows
<1>2. /\ tx' \in [Procs -> [Tables -> SUBSET AnyRow]]
      /\ \A t \in Tables : tx'[p][t] = {}
      /\ tx'[p] = NoRows
      /\ \A q \in Procs : q # p => tx'[q] = tx[q]
  BY <1>1
<1>3. \A r, q \in Procs, t \in Tables :
        r # q => tx'[r][t] \cap tx'[q][t] = {}
  BY <1>2 DEF Typed, Locks
<1>4. \A q \in Procs, t \in Tables : tx'[q][t] \subseteq db[t]
  BY <1>2 DEF Typed, Locks
<1> QED
  BY <1>2, <1>3, <1>4

LEMMA ComeTyped ==
    ASSUME Typed, NEW p \in Procs, NEW moved, Come(p, moved)
    PROVE  been' \in [Hosts -> SUBSET Accounts]
BY MoveTyped DEF Typed, Shapes, Come

\* What a request stores are workspaces of hosts.
LEMMA SendTyped ==
    ASSUME Typed, NEW p \in Procs, Send(p) \/ NotSent
    PROVE  /\ HostsStored => HostsStored'
           /\ unsure' \subseteq Hosts
           /\ been' \in [Hosts -> SUBSET Accounts]
<1>1. listed[p] \subseteq Hosts
  BY MoveAssumption DEF Typed, Shapes, Locks
<1>2. Joining(p) \subseteq
        { HostWorkspace(h, acc) : h \in Hosts, acc \in Accounts }
  BY <1>1, MoveTyped DEF Joining
<1>3. been' \in [Hosts -> SUBSET Accounts]
  BY ComeTyped DEF Typed, Shapes, Send, NotSent
<1> QED
  BY <1>1, <1>2, <1>3 DEF Typed, Shapes, HostsStored, Send, NotSent, Applied

\* The committed rows are rows of their tables, other transactions' among them.
LEMMA CommittedRows ==
    ASSUME Typed, NEW p \in Procs, Committed(p)
    PROVE  /\ db' \in [Tables -> SUBSET AnyRow]
           /\ \A t \in Tables : db'[t] \subseteq TableRows(t)
           /\ \A q \in Procs, t \in Tables : q # p => tx[q][t] \subseteq db'[t]
           /\ unsure' \subseteq Hosts
           /\ been' \in [Hosts -> SUBSET Accounts]
<1>1. \A t \in Tables : db'[t] = Reassigned(db[t], tx[p][t], to(p))
  BY DEF Committed
<1>2. \A t \in Tables : db'[t] \subseteq TableRows(t)
  <2>1. /\ to(p) \in Accounts
        /\ \A t \in Tables : /\ db[t] \subseteq TableRows(t)
                             /\ tx[p][t] \subseteq db[t]
    BY MoveTyped DEF Typed, Shapes, Locks
  <2> QED
    BY <1>1, <2>1, ReassignedTyped
<1>3. db' \in [Tables -> SUBSET AnyRow]
  BY <1>2, TableTyped DEF Committed
<1>4. \A q \in Procs, t \in Tables : q # p => tx[q][t] \subseteq db'[t]
  BY <1>1 DEF Typed, Shapes, Locks, Reassigned
<1>5. MovedHosts(p) \subseteq Hosts
  <2>1. tx[p]["system_platform"] \subseteq SystemPlatform
    BY RowOfTable DEF Typed, Shapes, Locks, Tables
  <2> QED
    BY <2>1 DEF MovedHosts, SystemPlatform
<1>6. unsure' \subseteq Hosts
  BY <1>5, MoveAssumption DEF Typed, Shapes, Locks, Committed
<1>7. been' \in [Hosts -> SUBSET Accounts]
  BY ComeTyped DEF Committed
<1> QED
  BY <1>2, <1>3, <1>4, <1>6, <1>7

LEMMA RegisterRows ==
    ASSUME Typed, Register
    PROVE  /\ db' \in [Tables -> SUBSET AnyRow]
           /\ \A t \in Tables : db[t] \subseteq db'[t]
           /\ \A t \in Tables : db'[t] \subseteq TableRows(t)
           /\ been' \in [Hosts -> SUBSET Accounts]
<1>0. been' \in [Hosts -> SUBSET Accounts]
  <2>1. PICK new \in NewSystems :
          been' = [been EXCEPT ![new.InventoryID] = @ \cup {new.RhAccountID}]
    BY DEF Register
  <2>2. new.InventoryID \in Hosts /\ new.RhAccountID \in Accounts
    BY MoveAssumption DEF SystemPlatform
  <2> QED
    BY <2>1, <2>2 DEF Typed, Shapes
<1>1. PICK new \in NewSystems :
        db' = [db EXCEPT
          !["system_platform"] = @ \cup {new},
          !["system_repo"] =
             @ \cup {[RhAccountID |-> new.RhAccountID, SystemID |-> new.ID]},
          !["system_advisories"] =
             @ \cup {[RhAccountID |-> new.RhAccountID, SystemID |-> new.ID]}]
  BY DEF Register
<1> DEFINE child == [RhAccountID |-> new.RhAccountID, SystemID |-> new.ID]
<1>2. new \in SystemPlatform /\ child \in SystemChild
  BY MoveAssumption DEF SystemPlatform, SystemChild
<1>3. db \in [Tables -> SUBSET AnyRow]
  BY DEF Typed, Shapes, Locks
<1> HIDE DEF child
<1>4. /\ db'["system_platform"] = db["system_platform"] \cup {new}
      /\ db'["system_repo"] = db["system_repo"] \cup {child}
      /\ db'["system_advisories"] = db["system_advisories"] \cup {child}
      /\ db'["baseline"] = db["baseline"]
      /\ DOMAIN db' = Tables /\ db' = [t \in Tables |-> db'[t]]
  BY <1>1, <1>3 DEF Tables, child
<1>5. /\ db["system_platform"] \subseteq SystemPlatform
      /\ db["system_repo"] \subseteq SystemChild
      /\ db["system_advisories"] \subseteq SystemChild
      /\ db["baseline"] \subseteq Baseline
  BY RowOfTable DEF Typed, Shapes, Locks, Tables
<1>6. \A t \in Tables : db[t] \subseteq db'[t] /\ db'[t] \subseteq TableRows(t)
  BY <1>2, <1>4, <1>5, TableCases
<1> QED
  BY <1>0, <1>4, <1>6, TableTyped

\* A row of a committed platform is one there was, in its old account or in
\* the new one.
PlatformHosts == { sp.InventoryID : sp \in db["system_platform"] }

LEMMA CommittedPlatform ==
    ASSUME Typed, NEW p \in Procs, Committed(p)
    PROVE  /\ \A x \in db'["system_platform"] : \E r \in db["system_platform"] :
                /\ x.ID = r.ID /\ x.InventoryID = r.InventoryID
                /\ \/ r \in tx[p]["system_platform"]
                      /\ x = [r EXCEPT !.RhAccountID = to(p)]
                      /\ x.RhAccountID = to(p)
                   \/ r \notin tx[p]["system_platform"] /\ x = r
           /\ PlatformHosts' = PlatformHosts
<1>1. /\ "system_platform" \in Tables
      /\ db["system_platform"] \subseteq SystemPlatform
      /\ tx[p]["system_platform"] \subseteq db["system_platform"]
  BY RowOfTable DEF Typed, Shapes, Locks, Tables
<1>2. db'["system_platform"] =
        Reassigned(db["system_platform"], tx[p]["system_platform"], to(p))
  BY <1>1 DEF Committed
<1>3. \A r \in db["system_platform"] :
        /\ [r EXCEPT !.RhAccountID = to(p)].RhAccountID = to(p)
        /\ [r EXCEPT !.RhAccountID = to(p)].ID = r.ID
        /\ [r EXCEPT !.RhAccountID = to(p)].InventoryID = r.InventoryID
  BY <1>1, MoveTyped, RowOfTable, ReassignRow, ReassignColumns
<1>4. \A x \in db'["system_platform"] : \E r \in db["system_platform"] :
        /\ x.ID = r.ID /\ x.InventoryID = r.InventoryID
        /\ \/ r \in tx[p]["system_platform"]
              /\ x = [r EXCEPT !.RhAccountID = to(p)]
              /\ x.RhAccountID = to(p)
           \/ r \notin tx[p]["system_platform"] /\ x = r
  BY <1>1, <1>2, <1>3 DEF Reassigned
<1>5. \A r \in db["system_platform"] : \E x \in db'["system_platform"] :
        x.InventoryID = r.InventoryID
  <2>1. ASSUME NEW r \in db["system_platform"]
        PROVE  \E x \in db'["system_platform"] : x.InventoryID = r.InventoryID
    <3>1. CASE r \in tx[p]["system_platform"]
      <4>1. [r EXCEPT !.RhAccountID = to(p)] \in db'["system_platform"]
        BY <1>2, <3>1 DEF Reassigned
      <4> QED
        BY <1>3, <4>1
    <3>2. CASE r \notin tx[p]["system_platform"]
      BY <1>2, <3>2 DEF Reassigned
    <3> QED
      BY <3>1, <3>2
  <2> QED
    BY <2>1
<1> QED
  BY <1>4, <1>5 DEF PlatformHosts

\* All other steps leave SpiceDB alone.
LEMMA OnlyWriteSends ==
    ASSUME NEW p \in Procs, Step(p)
    PROVE  (WriteRels(p) /\ Send(p)) \/ UNCHANGED spicedb
BY DEF Step, Query, BeginTx, UpdateSystemRepo, UpdateSystemAdvisories,
       UpdateSystemPlatform, UpdateBaseline, Update, WriteRels, NotSent,
       Commit, Crash

LEMMA TypedStep ==
    ASSUME Typed, NEW p \in Procs, Step(p)
    PROVE  Typed'
<1>1. CASE Query(p)
  <2>1. PICK mv \in Moves :
          /\ move' = [move EXCEPT ![p] = mv]
          /\ \/ /\ \E hosts \in SUBSET HostsOf(mv[1]) :
                     listed' = [listed EXCEPT ![p] = hosts]
                /\ pc' = [pc EXCEPT ![p] = "begin"]
                /\ result' = [result EXCEPT ![p] = "none"]
             \/ /\ listed' = [listed EXCEPT ![p] = {}]
                /\ pc' = [pc EXCEPT ![p] = "idle"]
                /\ result' = [result EXCEPT ![p] = "error"]
    BY <1>1 DEF Query, Return, Goto
  <2>2. listed' \in [Procs -> SUBSET HostsSynced]
    BY <2>1 DEF Typed, Shapes, Locks, HostsOf
  <2>3. UNCHANGED <<db, spicedb, tx, unsure, been>> /\ pc[p] = "idle"
    BY <1>1 DEF Query, Running
  <2>5. /\ pc' \in [Procs -> Tables \cup {"idle", "begin", "write", "commit"}]
        /\ result' \in [Procs -> {"none", "nil", "error", "crashed"}]
    <3>1. \E l \in {"idle", "begin"}, res \in {"none", "nil", "error", "crashed"} :
            /\ pc' = [pc EXCEPT ![p] = l]
            /\ result' \in {result, [result EXCEPT ![p] = res]}
      BY <2>1
    <3> QED
      BY <3>1 DEF Typed, Shapes
  <2>6. Shapes'
    BY <2>1, <2>2, <2>3, <2>5 DEF Typed, Shapes
  <2>7. Locks'
    BY <2>1, <2>2, <2>3 DEF Typed, Shapes, Locks
  <2> QED
    BY <2>6, <2>7 DEF Typed
<1>2. CASE BeginTx(p)
  <2>1. /\ UNCHANGED <<db, spicedb, move, listed, tx, unsure, been>>
        /\ pc[p] = "begin"
        /\ \/ pc' = [pc EXCEPT ![p] = "system_repo"] /\ result' = result
           \/ /\ pc' = [pc EXCEPT ![p] = "idle"]
              /\ result' = [result EXCEPT ![p] = "crashed"]
    BY <1>2 DEF BeginTx, Return, Goto
  <2>2. "system_repo" \in Tables
    BY DEF Tables
  <2>5. /\ pc' \in [Procs -> Tables \cup {"idle", "begin", "write", "commit"}]
        /\ result' \in [Procs -> {"none", "nil", "error", "crashed"}]
    <3>1. \E l \in {"idle", "system_repo"}, res \in {"none", "nil", "error", "crashed"} :
            /\ pc' = [pc EXCEPT ![p] = l]
            /\ result' \in {result, [result EXCEPT ![p] = res]}
      BY <2>1
    <3> QED
      BY <3>1, <2>2 DEF Typed, Shapes
  <2>6. Shapes'
    BY <2>1, <2>2, <2>5 DEF Typed, Shapes
  <2>7. Locks'
    BY <2>1, <2>2 DEF Typed, Shapes, Locks
  <2> QED
    BY <2>6, <2>7 DEF Typed
<1>3. CASE UpdateSystemRepo(p)
  BY <1>3, UpdateTyped DEF UpdateSystemRepo, Tables
<1>4. CASE UpdateSystemAdvisories(p)
  BY <1>4, UpdateTyped DEF UpdateSystemAdvisories, Tables
<1>5. CASE UpdateSystemPlatform(p)
  BY <1>5, UpdateTyped DEF UpdateSystemPlatform, Tables
<1>6. CASE UpdateBaseline(p)
  BY <1>6, UpdateTyped DEF UpdateBaseline, Tables
<1>7. CASE WriteRels(p)
  <2>1. /\ UNCHANGED <<db, move, listed>>
        /\ Send(p) \/ NotSent
        /\ \/ /\ pc' = [pc EXCEPT ![p] = "commit"]
              /\ UNCHANGED <<tx, result>>
           \/ /\ Rollback(p) /\ pc' = [pc EXCEPT ![p] = "idle"]
              /\ result' = [result EXCEPT ![p] = "error"]
    BY <1>7 DEF WriteRels, Return, Goto
  <2>2. unsure' \subseteq Hosts /\ been' \in [Hosts -> SUBSET Accounts]
    BY <2>1, SendTyped
  <2>3. CASE /\ pc' = [pc EXCEPT ![p] = "commit"]
             /\ UNCHANGED <<tx, result>>
    BY <2>1, <2>2, <2>3 DEF Typed, Shapes, Locks
  <2>4. CASE /\ Rollback(p) /\ pc' = [pc EXCEPT ![p] = "idle"]
             /\ result' = [result EXCEPT ![p] = "error"]
    BY <2>1, <2>2, <2>4, EndTyped DEF Typed, Shapes, Locks
  <2> QED
    BY <2>1, <2>3, <2>4
<1>8. CASE Commit(p)
  <2>1. /\ UNCHANGED <<spicedb, move, listed>>
        /\ Rollback(p) /\ pc' = [pc EXCEPT ![p] = "idle"]
        /\ \E res \in {"nil", "error"} : result' = [result EXCEPT ![p] = res]
        /\ Committed(p) \/ UNCHANGED <<db, unsure, been>>
    BY <1>8 DEF Commit, Return, Goto
  <2>2. /\ db' \in [Tables -> SUBSET AnyRow]
        /\ \A t \in Tables : db'[t] \subseteq TableRows(t)
        /\ \A q \in Procs, t \in Tables : q # p => tx[q][t] \subseteq db'[t]
        /\ unsure' \subseteq Hosts /\ been' \in [Hosts -> SUBSET Accounts]
    BY <2>1, CommittedRows DEF Typed, Shapes, Locks
  <2>3. /\ tx' \in [Procs -> [Tables -> SUBSET AnyRow]]
        /\ \A t \in Tables : tx'[p][t] = {}
        /\ tx'[p] = NoRows
        /\ \A q \in Procs : q # p => tx'[q] = tx[q]
        /\ \A r, q \in Procs, t \in Tables :
             r # q => tx'[r][t] \cap tx'[q][t] = {}
    BY <2>1, EndTyped
  <2>4. \A q \in Procs, t \in Tables : tx'[q][t] \subseteq db'[t]
    BY <2>2, <2>3
  <2>5. /\ pc' \in [Procs -> Tables \cup {"idle", "begin", "write", "commit"}]
        /\ result' \in [Procs -> {"none", "nil", "error", "crashed"}]
    BY <2>1 DEF Typed, Shapes
  <2>6. Shapes'
    BY <2>1, <2>2, <2>3, <2>4, <2>5 DEF Typed, Shapes
  <2>7. Locks'
    BY <2>1, <2>2, <2>3, <2>4 DEF Typed, Shapes, Locks
  <2> QED
    BY <2>6, <2>7 DEF Typed
<1>9. CASE Crash(p)
  <2>1. /\ UNCHANGED <<db, spicedb, move, listed, unsure, been>>
        /\ Rollback(p) /\ pc' = [pc EXCEPT ![p] = "idle"]
        /\ result' = [result EXCEPT ![p] = "crashed"]
    BY <1>9 DEF Crash, Return, Goto
  <2> QED
    BY <2>1, EndTyped DEF Typed, Shapes, Locks
<1> QED
  BY <1>1, <1>2, <1>3, <1>4, <1>5, <1>6, <1>7, <1>8, <1>9 DEF Step

LEMMA TypedNext == Typed /\ [Next]_vars => Typed'
<1>1. ASSUME Typed, Register PROVE Typed'
  <2>1. UNCHANGED <<spicedb, pc, move, listed, tx, result, unsure>>
    BY <1>1 DEF Register
  <2>2. \A p \in Procs, t \in Tables : tx[p][t] \subseteq db'[t]
    BY <1>1, RegisterRows DEF Typed, Shapes, Locks
  <2> QED
    BY <1>1, <2>1, <2>2, RegisterRows DEF Typed, Shapes, Locks
<1>2. Typed /\ UNCHANGED vars => Typed'
  BY DEF Typed, Shapes, Locks, vars
<1> QED
  BY <1>1, <1>2, TypedStep DEF Next

(***************************************************************************)
(* Every table keeps rows of its own kind, and every way out of the        *)
(* migration releases the rows it has locked, for any number of movers     *)
(* between any accounts.                                                   *)
(***************************************************************************)
THEOREM TypeCorrect == Spec => []TypeOK
<1>1. Typed /\ HostsStored => TypeOK
  BY DEF Typed, Shapes, Locks, HostsStored, TypeOK
<1>2. Typed /\ HostsStored /\ [Next]_vars => HostsStored'
  BY OnlyWriteSends, SendTyped DEF Next, Register, vars, HostsStored
<1>3. Init => Typed /\ HostsStored
  BY InitIdle, TypedInit
<1> QED
  BY <1>1, <1>2, <1>3, TypedNext, PTL DEF Spec

-----------------------------------------------------------------------------
(* The foreign keys                                                        *)

OneMover == \A p, q \in Procs : p = q

\* All movers take systems out of the same account.
OneSource == \A m, n \in Moves : m[1] = n[1]

\* Movers that run at the same time do not work in different directions.
Directed == OneMover \/ OneSource

Disciplined == Directed /\ KeysHold(SeedDB)

\* The process has updated the table in its open transaction.
Updated(p, t) ==
    \/ pc[p] \in {"write", "commit"}
    \/ /\ t = "system_repo"
       /\ pc[p] \in {"system_advisories", "system_platform", "baseline"}
    \/ t = "system_advisories" /\ pc[p] \in {"system_platform", "baseline"}
    \/ t = "system_platform" /\ pc[p] = "baseline"

(***************************************************************************)
(* A transaction holds all rows its account has now, not only those it had *)
(* when the table was updated: what makes the tables fit together that are *)
(* updated one after the other.                                            *)
(***************************************************************************)
HoldsAll ==
    \A p \in Procs, t \in Tables :
        Updated(p, t) => tx[p][t] = RowsOf(db[t], from(p))

KeysInv == Typed /\ HoldsAll /\ KeysHold(db)

\* Reassigning all rows of an account in all tables keeps the keys.
LEMMA MoveKeepsKeys ==
    ASSUME NEW d, NEW e, KeysHold(d), NEW f, NEW acc \in Accounts,
           \A t \in Tables : d[t] \subseteq TableRows(t),
           \A t \in Tables : e[t] = Reassigned(d[t], RowsOf(d[t], f), acc)
    PROVE  KeysHold(e)
<1>1. /\ d["system_repo"] \subseteq SystemChild
      /\ d["system_advisories"] \subseteq SystemChild
      /\ d["system_platform"] \subseteq SystemPlatform
      /\ d["baseline"] \subseteq Baseline
  BY RowOfTable DEF Tables
<1>2. \A t \in Tables : \A r \in d[t] :
        /\ r.RhAccountID = f => [r EXCEPT !.RhAccountID = acc] \in e[t]
        /\ r.RhAccountID # f => r \in e[t]
  BY DEF Reassigned, RowsOf
<1>3. \A t \in Tables : \A x \in e[t] :
        \/ x \in d[t] /\ x.RhAccountID # f
        \/ \E r \in d[t] :
             r.RhAccountID = f /\ x = [r EXCEPT !.RhAccountID = acc]
  BY DEF Reassigned, RowsOf
<1>4. \A t \in Tables : \A r \in d[t] :
        [r EXCEPT !.RhAccountID = acc].RhAccountID = acc
  BY ReassignRow
<1>5. /\ "system_repo" \in Tables /\ "system_advisories" \in Tables
      /\ "system_platform" \in Tables /\ "baseline" \in Tables
  BY DEF Tables
<1>6. ASSUME NEW t \in {"system_repo", "system_advisories"}, NEW x \in e[t]
      PROVE  \E sp \in e["system_platform"] :
               sp.RhAccountID = x.RhAccountID /\ sp.ID = x.SystemID
  <2>1. \A c \in d[t] : \E sp \in d["system_platform"] :
          sp.RhAccountID = c.RhAccountID /\ sp.ID = c.SystemID
    BY DEF KeysHold, ChildrenFollow
  <2>2. CASE x \in d[t] /\ x.RhAccountID # f
    BY <1>2, <1>5, <2>1, <2>2
  <2>3. ASSUME NEW c \in d[t], c.RhAccountID = f,
               x = [c EXCEPT !.RhAccountID = acc]
        PROVE  \E sp \in e["system_platform"] :
                 sp.RhAccountID = x.RhAccountID /\ sp.ID = x.SystemID
    <3>1. PICK sp \in d["system_platform"] :
            sp.RhAccountID = f /\ sp.ID = c.SystemID
      BY <2>1, <2>3
    <3>2. [sp EXCEPT !.RhAccountID = acc] \in e["system_platform"]
      BY <1>2, <1>5, <3>1
    <3>3. /\ [sp EXCEPT !.RhAccountID = acc].RhAccountID = acc
          /\ x.RhAccountID = acc
      BY <1>4, <1>5, <2>3
    <3>4. /\ [sp EXCEPT !.RhAccountID = acc].ID = sp.ID
          /\ x.SystemID = c.SystemID
      BY <1>1, <2>3, ReassignColumns
    <3> QED
      BY <3>1, <3>2, <3>3, <3>4
  <2> QED
    BY <1>3, <1>5, <2>2, <2>3
<1>7. ASSUME NEW x \in e["system_platform"], BaselineOf[x.ID] # NoBaseline
      PROVE  \E b \in e["baseline"] :
               b.RhAccountID = x.RhAccountID /\ b.ID = BaselineOf[x.ID]
  <2>1. \A sp \in d["system_platform"] : BaselineOf[sp.ID] # NoBaseline =>
          \E b \in d["baseline"] :
            b.RhAccountID = sp.RhAccountID /\ b.ID = BaselineOf[sp.ID]
    BY DEF KeysHold, BaselinesFollow
  <2>2. CASE x \in d["system_platform"] /\ x.RhAccountID # f
    BY <1>2, <1>5, <1>7, <2>1, <2>2
  <2>3. ASSUME NEW sp \in d["system_platform"], sp.RhAccountID = f,
               x = [sp EXCEPT !.RhAccountID = acc]
        PROVE  \E b \in e["baseline"] :
                 b.RhAccountID = x.RhAccountID /\ b.ID = BaselineOf[x.ID]
    <3>1. x.ID = sp.ID /\ x.RhAccountID = acc
      BY <1>1, <1>4, <1>5, <2>3, ReassignColumns
    <3>2. PICK b \in d["baseline"] :
            b.RhAccountID = f /\ b.ID = BaselineOf[x.ID]
      BY <1>7, <2>1, <2>3, <3>1
    <3>3. [b EXCEPT !.RhAccountID = acc] \in e["baseline"]
      BY <1>2, <1>5, <3>2
    <3>4. /\ [b EXCEPT !.RhAccountID = acc].RhAccountID = acc
          /\ [b EXCEPT !.RhAccountID = acc].ID = b.ID
      BY <1>1, <1>4, <1>5, ReassignColumns
    <3> QED
      BY <3>1, <3>2, <3>3, <3>4
  <2> QED
    BY <1>3, <1>5, <2>2, <2>3
<1> QED
  BY <1>6, <1>7 DEF KeysHold, ChildrenFollow, BaselinesFollow

\* An update by one process is the last thing missing for its table.
LEMMA UpdateHolds ==
    ASSUME KeysInv, NEW p \in Procs, NEW t \in Tables, NEW allowed, NEW next,
           Update(p, t, Matched(p, t), allowed, next),
           \/ t = "system_repo" /\ next = "system_advisories"
           \/ t = "system_advisories" /\ next = "system_platform"
           \/ t = "system_platform" /\ next = "baseline"
           \/ t = "baseline" /\ next = "write"
    PROVE  HoldsAll' /\ KeysHold(db)'
<1>0. Typed
  BY DEF KeysInv
<1>1. /\ pc[p] = t
      /\ UNCHANGED <<db, spicedb, move, listed, unsure, been>>
      /\ \A q \in Procs : q # p => pc'[q] = pc[q] /\ tx'[q] = tx[q]
  BY <1>0, UpdateEffect
<1>2. \/ /\ pc'[p] = next
         /\ tx'[p][t] = RowsOf(db[t], from(p))
         /\ \A u \in Tables : u # t => tx'[p][u] = tx[p][u]
      \/ pc'[p] = "idle"
  <2>1. pc \in [Procs -> Tables \cup {"idle", "begin", "write", "commit"}]
    BY <1>0 DEF Typed, Shapes
  <2> QED
    BY <1>0, <2>1, UpdateEffect
<1>3. ASSUME NEW u \in Tables, Updated(p, u)'
      PROVE  tx'[p][u] = RowsOf(db[u], from(p))
  <2>1. /\ pc'[p] = next
        /\ tx'[p][t] = RowsOf(db[t], from(p))
        /\ \A v \in Tables : v # t => tx'[p][v] = tx[p][v]
    BY <1>2, <1>3 DEF Updated
  <2>2. u = t \/ Updated(p, u)
    BY <1>1, <1>3, <2>1 DEF Updated, Tables
  <2> QED
    BY <2>1, <2>2 DEF KeysInv, HoldsAll
<1>4. \A q \in Procs : from(q)' = from(q)
  BY <1>1 DEF from
<1>5. \A q \in Procs, u \in Tables : q # p => (Updated(q, u)' <=> Updated(q, u))
  BY <1>1 DEF Updated
<1>6. HoldsAll'
  BY <1>1, <1>3, <1>4, <1>5 DEF KeysInv, HoldsAll
<1> QED
  BY <1>1, <1>6 DEF KeysInv

\* A step that touches neither the tables nor, unless it ends it, the
\* transaction of its process.
LEMMA OtherHolds ==
    ASSUME KeysInv, NEW p \in Procs, UNCHANGED <<db, move>>,
           \A q \in Procs : q # p => pc'[q] = pc[q] /\ tx'[q] = tx[q],
           \A t \in Tables :
             Updated(p, t)' => Updated(p, t) /\ tx'[p][t] = tx[p][t]
    PROVE  HoldsAll' /\ KeysHold(db)'
<1>1. \A q \in Procs : from(q)' = from(q)
  BY DEF from
<1>2. \A q \in Procs, t \in Tables : q # p => (Updated(q, t)' <=> Updated(q, t))
  BY DEF Updated
<1> QED
  BY <1>1, <1>2 DEF KeysInv, HoldsAll

LEMMA CommitHolds ==
    ASSUME Disciplined, KeysInv, NEW p \in Procs, pc[p] = "commit",
           Committed(p), Rollback(p), UNCHANGED move, pc'[p] = "idle",
           \A q \in Procs : q # p => pc'[q] = pc[q]
    PROVE  HoldsAll' /\ KeysHold(db)'
<1>0. Typed
  BY DEF KeysInv
<1>1. \A t \in Tables : db'[t] = Reassigned(db[t], tx[p][t], to(p))
  BY DEF Committed
<1>2. \A t \in Tables : tx[p][t] = RowsOf(db[t], from(p))
  BY DEF KeysInv, HoldsAll, Updated
<1>3. KeysHold(db')
  <2>1. KeysHold(db) /\ \A t \in Tables : db[t] \subseteq TableRows(t)
    BY <1>0 DEF KeysInv, Typed, Shapes
  <2> QED
    BY <1>0, <1>1, <1>2, <2>1, MoveKeepsKeys, MoveTyped
<1>4. ASSUME NEW q \in Procs, NEW t \in Tables, Updated(q, t)'
      PROVE  tx'[q][t] = RowsOf(db'[t], from(q)')
  <2>1. q # p
    BY <1>4 DEF Updated
  <2>2. /\ Updated(q, t) /\ from(q)' = from(q)
        /\ tx'[q] = tx[q]
    BY <1>0, <1>4, <2>1, EndTyped DEF Updated, from
  <2>3. from(q) = from(p)
    BY <1>0, <2>1 DEF Disciplined, Directed, OneMover, OneSource, Typed, Shapes, from
  <2>4. tx[q][t] = tx[p][t]
    BY <1>2, <2>2, <2>3 DEF KeysInv, HoldsAll
  <2>5. tx[q][t] \cap tx[p][t] = {}
    BY <1>0, <2>1 DEF Typed, Locks
  <2>6. tx[p][t] = {} /\ tx[q][t] = {}
    BY <2>4, <2>5
  <2>7. db'[t] = db[t]
    BY <1>1, <2>6 DEF Reassigned
  <2> QED
    BY <1>2, <2>2, <2>3, <2>6, <2>7
<1> QED
  BY <1>3, <1>4 DEF HoldsAll

LEMMA RegisterRegisters == Typed /\ Register => Registered'
<1> SUFFICES ASSUME Typed, Register PROVE Registered'
  OBVIOUS
<1>1. PICK new \in NewSystems : new \in db'["system_platform"]
  BY DEF Register, Typed, Shapes, Tables
<1> QED
  BY <1>1 DEF Registered

\* A registered system stays, in whatever account.
LEMMA RegisteredStays ==
    ASSUME Typed, Registered, [Next]_vars PROVE Registered'
<1>1. PICK sp \in db["system_platform"], new \in NewSystems : sp.ID = new.ID
  BY DEF Registered
<1>2. ASSUME UNCHANGED db PROVE Registered'
  BY <1>1, <1>2 DEF Registered
<1>3. ASSUME NEW p \in Procs, Commit(p) PROVE Registered'
  <2>1. CASE Committed(p)
    <3>1. /\ db'["system_platform"] =
               Reassigned(db["system_platform"], tx[p]["system_platform"],
                          to(p))
          /\ to(p) \in Accounts
          /\ sp \in SystemPlatform
      BY <1>1, <2>1, MoveAssumption, RowOfTable
      DEF Committed, Typed, Shapes, Tables, to
    <3>2. [sp EXCEPT !.RhAccountID = to(p)].ID = sp.ID
      BY <3>1 DEF SystemPlatform
    <3>3. \/ sp \in db'["system_platform"]
          \/ [sp EXCEPT !.RhAccountID = to(p)] \in db'["system_platform"]
      BY <1>1, <3>1 DEF Reassigned
    <3>4. PICK r \in db'["system_platform"] : r.ID = sp.ID
      BY <3>2, <3>3
    <3> QED
      BY <1>1, <3>4 DEF Registered
  <2> QED
    BY <1>2, <1>3, <2>1 DEF Commit
<1>4. ASSUME NEW p \in Procs, Step(p) PROVE Registered'
  <2>1. UNCHANGED db \/ Commit(p)
    BY <1>4
    DEF Step, Query, BeginTx, UpdateSystemRepo, UpdateSystemAdvisories,
        UpdateSystemPlatform, UpdateBaseline, Update, WriteRels, Crash
  <2> QED
    BY <1>2, <1>3, <2>1
<1> QED
  BY <1>2, <1>4, RegisterRegisters DEF Next, vars

LEMMA KeysNext ==
    ASSUME Disciplined PROVE KeysInv /\ [Next]_vars => KeysInv' \/ Registered'
<1>1. ASSUME KeysInv, NEW p \in Procs, Step(p)
      PROVE  HoldsAll' /\ KeysHold(db)'
  <2>0. /\ Typed
        /\ pc \in [Procs -> Tables \cup {"idle", "begin", "write", "commit"}]
        /\ move \in [Procs -> Moves]
    BY <1>1 DEF KeysInv, Typed, Shapes
  <2>1. CASE Query(p)
    <3>1. /\ UNCHANGED <<db, tx>> /\ pc'[p] \in {"begin", "idle"}
          /\ \A q \in Procs : q # p => pc'[q] = pc[q] /\ move'[q] = move[q]
      BY <2>0, <2>1 DEF Query, Return, Goto
    <3>2. \A t \in Tables : ~Updated(p, t)'
      BY <3>1 DEF Updated
    <3>3. \A q \in Procs, t \in Tables :
            q # p => (Updated(q, t)' <=> Updated(q, t)) /\ from(q)' = from(q)
      BY <3>1 DEF Updated, from
    <3> QED
      BY <1>1, <3>1, <3>2, <3>3 DEF KeysInv, HoldsAll
  <2>2. CASE BeginTx(p)
    <3>1. /\ UNCHANGED <<db, move, tx>> /\ pc'[p] \in {"system_repo", "idle"}
          /\ \A q \in Procs : q # p => pc'[q] = pc[q]
      BY <2>0, <2>2 DEF BeginTx, Return, Goto
    <3>2. \A t \in Tables : ~Updated(p, t)'
      BY <3>1 DEF Updated
    <3> QED
      BY <1>1, <3>1, <3>2, OtherHolds
  <2>3. CASE UpdateSystemRepo(p)
    BY <1>1, <2>3, UpdateHolds DEF UpdateSystemRepo, Tables
  <2>4. CASE UpdateSystemAdvisories(p)
    BY <1>1, <2>4, UpdateHolds DEF UpdateSystemAdvisories, Tables
  <2>5. CASE UpdateSystemPlatform(p)
    BY <1>1, <2>5, UpdateHolds DEF UpdateSystemPlatform, Tables
  <2>6. CASE UpdateBaseline(p)
    BY <1>1, <2>6, UpdateHolds DEF UpdateBaseline, Tables
  <2>7. CASE WriteRels(p)
    <3>1. /\ UNCHANGED <<db, move>> /\ pc[p] = "write"
          /\ \/ pc'[p] = "commit" /\ tx' = tx
             \/ pc'[p] = "idle" /\ Rollback(p)
          /\ \A q \in Procs : q # p => pc'[q] = pc[q]
      BY <2>0, <2>7 DEF WriteRels, Return, Goto
    <3>2. \A q \in Procs : q # p => tx'[q] = tx[q]
      BY <2>0, <3>1, EndTyped
    <3>3. \A t \in Tables :
            Updated(p, t)' => Updated(p, t) /\ tx'[p][t] = tx[p][t]
      BY <3>1 DEF Updated
    <3> QED
      BY <1>1, <3>1, <3>2, <3>3, OtherHolds
  <2>8. CASE Commit(p)
    <3>1. /\ UNCHANGED move /\ pc[p] = "commit" /\ Rollback(p)
          /\ pc'[p] = "idle" /\ \A q \in Procs : q # p => pc'[q] = pc[q]
          /\ Committed(p) \/ UNCHANGED db
      BY <2>0, <2>8 DEF Commit, Return, Goto
    <3>2. CASE Committed(p)
      BY <1>1, <3>1, <3>2, CommitHolds
    <3>3. CASE UNCHANGED db
      <4>1. \A q \in Procs : q # p => tx'[q] = tx[q]
        BY <2>0, <3>1, EndTyped
      <4>2. \A t \in Tables : ~Updated(p, t)'
        BY <3>1 DEF Updated
      <4> QED
        BY <1>1, <3>1, <3>3, <4>1, <4>2, OtherHolds
    <3> QED
      BY <3>1, <3>2, <3>3
  <2>9. CASE Crash(p)
    <3>1. /\ UNCHANGED <<db, move>> /\ Rollback(p)
          /\ pc'[p] = "idle" /\ \A q \in Procs : q # p => pc'[q] = pc[q]
      BY <2>0, <2>9 DEF Crash, Return, Goto
    <3>2. \A q \in Procs : q # p => tx'[q] = tx[q]
      BY <2>0, <3>1, EndTyped
    <3>3. \A t \in Tables : ~Updated(p, t)'
      BY <3>1 DEF Updated
    <3> QED
      BY <1>1, <3>1, <3>2, <3>3, OtherHolds
  <2> QED
    BY <1>1, <2>1, <2>2, <2>3, <2>4, <2>5, <2>6, <2>7, <2>8, <2>9 DEF Step
<1>2. KeysInv /\ Register => Registered'
  BY RegisterRegisters DEF KeysInv
<1>3. KeysInv /\ UNCHANGED vars => HoldsAll' /\ KeysHold(db)'
  BY DEF KeysInv, HoldsAll, Updated, from, vars
<1> QED
  BY <1>1, <1>2, <1>3, TypedNext DEF Next, KeysInv

LEMMA KeysInit == ASSUME Disciplined PROVE Init => KeysInv
<1>1. Init => HoldsAll
  BY DEF Init, HoldsAll, Updated
<1> QED
  BY <1>1, InitIdle, TypedInit DEF Disciplined, Init, KeysInv

(***************************************************************************)
(* As long as concurrent movers take systems out of one account and until  *)
(* one is registered, the keys of readd_foreign_keys.sql hold whenever     *)
(* somebody looks, whatever fails and however often it is run.             *)
(***************************************************************************)
THEOREM KeysCorrect == Disciplined => (Spec => []KeysCanBeReadded)
<1> SUFFICES ASSUME Disciplined PROVE Spec => []KeysCanBeReadded
  OBVIOUS
<1> DEFINE Inv == Typed /\ (Registered \/ KeysInv)
<1>1. Init => Inv
  BY KeysInit, InitIdle, TypedInit
<1>2. Inv /\ [Next]_vars => Inv'
  BY KeysNext, RegisteredStays, TypedNext
<1>3. Inv => KeysCanBeReadded
  BY DEF KeysInv, KeysCanBeReadded
<1> HIDE DEF Inv
<1> QED
  BY <1>1, <1>2, <1>3, PTL DEF Spec

-----------------------------------------------------------------------------
(* Workspaces                                                              *)

TwoAccounts == \E a, b \in Accounts : Accounts = {a, b}

\* No two systems describe the same host.
HostsUnshared ==
    \A x, y \in SeedDB["system_platform"] \cup NewSystems :
        x.InventoryID = y.InventoryID => x = y

LEMMA HostWorkspaceInjective ==
    \A g, h, a, b : HostWorkspace(g, a) = HostWorkspace(h, b) => g = h /\ a = b
BY DEF HostWorkspace, Rel, Host, Ungrouped

\* A request that is accepted takes its hosts out of the one workspace and
\* puts them into the other.
LEMMA SendChanges ==
    ASSUME Typed, NEW p \in Procs, Send(p), NEW h
    PROVE  /\ h \notin listed[p] => WorkspacesOf(h)' = WorkspacesOf(h)
           /\ h \in listed[p] =>
                /\ from(p) # to(p)
                /\ WorkspacesOf(h)' = (WorkspacesOf(h) \ {from(p)}) \cup {to(p)}
<1>1. spicedb' = (spicedb \ Leaving(p)) \cup Joining(p)
  BY DEF Send, Applied
<1>2. \A a : HostWorkspace(h, a) \in Leaving(p) <=> h \in listed[p] /\ a = from(p)
  BY HostWorkspaceInjective DEF Leaving
<1>3. \A a : HostWorkspace(h, a) \in Joining(p) <=> h \in listed[p] /\ a = to(p)
  BY HostWorkspaceInjective DEF Joining
<1>4. CASE h \notin listed[p]
  BY <1>1, <1>2, <1>3, <1>4 DEF WorkspacesOf
<1>5. CASE h \in listed[p]
  <2>1. from(p) # to(p)
    BY <1>2, <1>3, <1>5 DEF Send, AcceptableSets
  <2>2. \A a \in Accounts :
          HostWorkspace(h, a) \in spicedb' <=>
            (HostWorkspace(h, a) \in spicedb /\ a # from(p)) \/ a = to(p)
    BY <1>1, <1>2, <1>3, <1>5, <2>1
  <2> QED
    BY <1>5, <2>1, <2>2, MoveTyped DEF WorkspacesOf
<1> QED
  BY <1>4, <1>5

\* Between two accounts that is from the one to the other.
LEMMA SendMoves ==
    ASSUME TwoAccounts, Typed, NEW p \in Procs, Send(p), NEW h
    PROVE  /\ h \notin listed[p] => WorkspacesOf(h)' = WorkspacesOf(h)
           /\ h \in listed[p] => WorkspacesOf(h)' = {to(p)}
<1>1. ASSUME h \in listed[p] PROVE WorkspacesOf(h)' = {to(p)}
  <2>1. /\ from(p) # to(p)
        /\ WorkspacesOf(h)' = (WorkspacesOf(h) \ {from(p)}) \cup {to(p)}
    BY <1>1, SendChanges
  <2>2. Accounts = {from(p), to(p)}
    BY <2>1, MoveTyped DEF TwoAccounts
  <2> QED
    BY <2>1, <2>2 DEF WorkspacesOf
<1> QED
  BY <1>1, SendChanges

\* The workspaces at the start are those of the accounts.
LEMMA InitialWorkspaces ==
    ASSUME HostsUnshared, Init, NEW sp \in SeedDB["system_platform"]
    PROVE  /\ WorkspacesOf(sp.InventoryID) \subseteq {sp.RhAccountID}
           /\ sp.InventoryID \in HostsSynced =>
                WorkspacesOf(sp.InventoryID) = {sp.RhAccountID}
<1>1. sp.RhAccountID \in Accounts
  <2>1. SeedDB["system_platform"] \subseteq SystemPlatform
    BY MoveAssumption, RowOfTable DEF Tables
  <2> QED
    BY <2>1 DEF SystemPlatform
<1>2. \A a : HostWorkspace(sp.InventoryID, a) \in spicedb =>
               a = sp.RhAccountID
  BY HostWorkspaceInjective DEF Init, HostsUnshared
<1>3. sp.InventoryID \in HostsSynced =>
        HostWorkspace(sp.InventoryID, sp.RhAccountID) \in spicedb
  BY DEF Init
<1> QED
  BY <1>1, <1>2, <1>3 DEF WorkspacesOf

(***************************************************************************)
(* A host has been in the account of its row, in those it is being moved   *)
(* from and in those of its workspaces, which is a single one as long as   *)
(* there are only two of them.                                             *)
(***************************************************************************)
BeenThere ==
    /\ \A sp \in db["system_platform"] : sp.RhAccountID \in been[sp.InventoryID]
    /\ \A p \in Procs : \A h \in listed[p] : from(p) \in been[h]

PlacedOf(h) ==
    /\ WorkspacesOf(h) \subseteq been[h]
    /\ BetweenTwo(h) => \E a \in Accounts : WorkspacesOf(h) = {a}

PlacedInv ==
    /\ Typed
    /\ BeenThere
    /\ \A sp \in SeedDB["system_platform"] :
         sp.InventoryID \in HostsSynced => PlacedOf(sp.InventoryID)

\* Nothing is forgotten of where a host has been.
LEMMA BeenGrows ==
    ASSUME Typed, [Next]_vars, NEW h \in Hosts
    PROVE  been[h] \subseteq been'[h]
<1>1. been \in [Hosts -> SUBSET Accounts]
  BY DEF Typed, Shapes
<1>2. CASE Register
  <2>1. PICK new \in NewSystems :
          been' = [been EXCEPT ![new.InventoryID] = @ \cup {new.RhAccountID}]
    BY <1>2 DEF Register
  <2> QED
    BY <1>1, <2>1
<1>3. ASSUME NEW p \in Procs, NEW moved, Come(p, moved)
      PROVE  been[h] \subseteq been'[h]
  BY <1>1, <1>3 DEF Come
<1>4. ASSUME NEW p \in Procs, Step(p)
      PROVE  been' = been \/ \E moved : Come(p, moved)
  <2>1. WriteRels(p) => been' = been \/ \E moved : Come(p, moved)
    BY DEF WriteRels, Send, NotSent
  <2>2. Commit(p) => been' = been \/ \E moved : Come(p, moved)
    BY DEF Commit, Committed
  <2> QED
    BY <1>4, <2>1, <2>2 DEF Step, Query, BeginTx, UpdateSystemRepo,
       UpdateSystemAdvisories, UpdateSystemPlatform, UpdateBaseline, Update,
       Crash
<1> QED
  BY <1>2, <1>3, <1>4 DEF Next, vars

LEMMA BeenStep ==
    ASSUME Typed, BeenThere, NEW p \in Procs, Step(p)
    PROVE  BeenThere'
<1>0. /\ move \in [Procs -> Moves] /\ listed \in [Procs -> SUBSET HostsSynced]
      /\ been \in [Hosts -> SUBSET Accounts] /\ HostsSynced \subseteq Hosts
      /\ db["system_platform"] \subseteq SystemPlatform
      /\ \A sp \in db["system_platform"] : sp.InventoryID \in Hosts
  <2>1. db["system_platform"] \subseteq SystemPlatform
    BY RowOfTable DEF Typed, Shapes, Tables
  <2> QED
    BY <2>1, MoveAssumption DEF Typed, Shapes, SystemPlatform
<1>1. \A h \in Hosts : been[h] \subseteq been'[h]
  BY BeenGrows DEF Next
<1>2. CASE Query(p)
  <2>1. PICK mv \in Moves :
          /\ move' = [move EXCEPT ![p] = mv]
          /\ \E hosts \in SUBSET HostsOf(mv[1]) :
               listed' = [listed EXCEPT ![p] = hosts]
    BY <1>2 DEF Query
  <2>2. UNCHANGED <<db, been>>
    BY <1>2 DEF Query
  <2>3. \A h \in HostsOf(mv[1]) : mv[1] \in been[h]
    BY DEF HostsOf, RowsOf, BeenThere
  <2>4. \A h \in listed'[p] : from(p)' \in been[h]
    BY <1>0, <2>1, <2>3 DEF from
  <2>5. \A q \in Procs : q # p =>
          listed'[q] = listed[q] /\ from(q)' = from(q)
    BY <1>0, <2>1 DEF from
  <2> QED
    BY <2>2, <2>4, <2>5 DEF BeenThere
<1>3. CASE Commit(p) /\ Committed(p)
  <2>1. been' = [h \in Hosts |-> IF h \in MovedHosts(p)
                                   THEN been[h] \cup {to(p)} ELSE been[h]]
    BY <1>3 DEF Committed, Come
  <2>2. ASSUME NEW x \in db'["system_platform"]
        PROVE  x.RhAccountID \in been'[x.InventoryID]
    <3>1. PICK r \in db["system_platform"] :
            /\ x.InventoryID = r.InventoryID
            /\ \/ r \in tx[p]["system_platform"] /\ x.RhAccountID = to(p)
               \/ x = r
      BY <1>3, CommittedPlatform
    <3>2. CASE r \in tx[p]["system_platform"] /\ x.RhAccountID = to(p)
      <4>1. x.InventoryID \in MovedHosts(p)
        BY <3>1, <3>2 DEF MovedHosts
      <4> QED
        BY <1>0, <2>1, <3>1, <3>2, <4>1
    <3>3. CASE x = r
      BY <1>0, <1>1, <3>3 DEF BeenThere
    <3> QED
      BY <3>1, <3>2, <3>3
  <2>3. UNCHANGED <<move, listed>>
    BY <1>3 DEF Commit
  <2> QED
    BY <1>0, <1>1, <2>2, <2>3 DEF BeenThere, from
<1>4. CASE ~Query(p) /\ ~(Commit(p) /\ Committed(p))
  <2>1. UNCHANGED <<db, move, listed>>
    BY <1>4 DEF Step, BeginTx, UpdateSystemRepo, UpdateSystemAdvisories,
       UpdateSystemPlatform, UpdateBaseline, Update, WriteRels, Commit, Crash
  <2> QED
    BY <1>0, <1>1, <2>1 DEF BeenThere, from
<1> QED
  BY <1>2, <1>3, <1>4

LEMMA BeenRegister ==
    ASSUME Typed, BeenThere, Register
    PROVE  BeenThere'
<1>0. /\ been \in [Hosts -> SUBSET Accounts]
      /\ listed \in [Procs -> SUBSET HostsSynced] /\ HostsSynced \subseteq Hosts
      /\ \A sp \in db["system_platform"] : sp.InventoryID \in Hosts
  <2>1. db["system_platform"] \subseteq SystemPlatform
    BY RowOfTable DEF Typed, Shapes, Tables
  <2> QED
    BY <2>1, MoveAssumption DEF Typed, Shapes, SystemPlatform
<1>1. PICK new \in NewSystems :
        /\ db'["system_platform"] = db["system_platform"] \cup {new}
        /\ been' = [been EXCEPT ![new.InventoryID] = @ \cup {new.RhAccountID}]
  <2>1. db \in [Tables -> SUBSET AnyRow]
    BY DEF Typed, Shapes
  <2> QED
    BY <2>1 DEF Register, Tables
<1>2. new.InventoryID \in Hosts
  BY MoveAssumption DEF SystemPlatform
<1>3. \A h \in Hosts : been[h] \subseteq been'[h]
  BY BeenGrows DEF Next
<1>4. new.RhAccountID \in been'[new.InventoryID]
  BY <1>0, <1>1, <1>2
<1>5. UNCHANGED <<move, listed>>
  BY DEF Register
<1> QED
  BY <1>0, <1>1, <1>3, <1>4, <1>5 DEF BeenThere, from

\* A request to a third account ends what is said of its hosts; any other one
\* takes them from the one workspace they are in, or leaves them there.
LEMMA PlacedSend ==
    ASSUME PlacedInv, NEW p \in Procs, Send(p), NEW h \in Hosts, PlacedOf(h)
    PROVE  PlacedOf(h)'
<1>1. /\ Typed /\ from(p) \in Accounts /\ to(p) \in Accounts
      /\ h \in listed[p] => from(p) \in been[h]
  BY MoveTyped DEF PlacedInv, BeenThere
<1>2. been' = [x \in Hosts |-> IF x \in listed[p] THEN been[x] \cup {to(p)}
                                                 ELSE been[x]]
  BY DEF Send, Come
<1>3. CASE h \notin listed[p]
  BY <1>1, <1>2, <1>3, SendChanges DEF PlacedOf, BetweenTwo
<1>4. CASE h \in listed[p]
  <2>1. /\ from(p) # to(p)
        /\ WorkspacesOf(h)' = (WorkspacesOf(h) \ {from(p)}) \cup {to(p)}
        /\ been'[h] = been[h] \cup {to(p)}
    BY <1>1, <1>2, <1>4, SendChanges
  <2>2. WorkspacesOf(h)' \subseteq been'[h]
    BY <2>1 DEF PlacedOf
  <2>3. ASSUME NEW a \in Accounts, NEW b \in Accounts, been'[h] \subseteq {a, b}
        PROVE  WorkspacesOf(h)' = {to(p)}
    <3>1. /\ {a, b} = {from(p), to(p)}
          /\ WorkspacesOf(h) \subseteq {from(p), to(p)}
      BY <1>1, <1>4, <2>1, <2>3 DEF PlacedOf
    <3> QED
      BY <2>1, <3>1
  <2> QED
    BY <1>1, <2>2, <2>3 DEF PlacedOf, BetweenTwo
<1> QED
  BY <1>3, <1>4

LEMMA PlacedNext == PlacedInv /\ [Next]_vars => PlacedInv'
<1> SUFFICES ASSUME PlacedInv, [Next]_vars PROVE PlacedInv'
  OBVIOUS
<1>1. Typed /\ Typed'
  BY TypedNext DEF PlacedInv
<1>2. BeenThere'
  <2>1. CASE UNCHANGED vars
    BY <2>1 DEF PlacedInv, BeenThere, from, vars
  <2> QED
    BY <2>1, BeenStep, BeenRegister DEF PlacedInv, Next
<1>3. ASSUME NEW h \in Hosts, PlacedOf(h)
      PROVE  PlacedOf(h)'
  <2>1. CASE \E p \in Procs : Send(p)
    BY <1>3, <2>1, PlacedSend
  <2>2. CASE UNCHANGED spicedb
    <3>1. WorkspacesOf(h)' = WorkspacesOf(h) /\ been[h] \subseteq been'[h]
      BY <1>1, <2>2, BeenGrows DEF WorkspacesOf
    <3> QED
      BY <1>3, <3>1 DEF PlacedOf, BetweenTwo
  <2> QED
    BY <2>1, <2>2, OnlyWriteSends DEF Next, Register, vars
<1>4. HostsSynced \subseteq Hosts
  BY MoveAssumption
<1> QED
  BY <1>1, <1>2, <1>3, <1>4 DEF PlacedInv

LEMMA PlacedInit == HostsUnshared /\ Init => PlacedInv
<1> SUFFICES ASSUME HostsUnshared, Init PROVE PlacedInv
  OBVIOUS
<1>1. \A sp \in SeedDB["system_platform"] :
        sp.RhAccountID \in Accounts /\ sp.InventoryID \in Hosts
  <2>1. SeedDB["system_platform"] \subseteq SystemPlatform
    BY MoveAssumption, RowOfTable DEF Tables
  <2> QED
    BY <2>1 DEF SystemPlatform
<1>2. \A sp \in SeedDB["system_platform"] :
        sp.RhAccountID \in been[sp.InventoryID]
  BY <1>1 DEF Init, SeedAccounts
<1>3. BeenThere
  BY <1>2 DEF Init, BeenThere
<1>4. \A sp \in SeedDB["system_platform"] :
        sp.InventoryID \in HostsSynced => PlacedOf(sp.InventoryID)
  BY <1>1, <1>2, InitialWorkspaces DEF PlacedOf
<1> QED
  BY <1>3, <1>4, InitIdle, TypedInit DEF PlacedInv

(***************************************************************************)
(* A host that was placed, and is moved between two accounts, stays in     *)
(* exactly one workspace, for any number of accounts and of movers in any  *)
(* direction, whatever fails and whatever systems arrive.  (A third        *)
(* account ends it: a move to one account that failed after its request    *)
(* and a later move to another one leave the host in both.)                *)
(***************************************************************************)
THEOREM PlacedCorrect == HostsUnshared => (Spec => []PlacedOnce)
<1> SUFFICES ASSUME HostsUnshared PROVE Spec => []PlacedOnce
  OBVIOUS
<1>1. Init => PlacedInv
  BY PlacedInit
<1>2. PlacedInv /\ [Next]_vars => PlacedInv'
  BY PlacedNext
<1>3. PlacedInv => PlacedOnce
  BY FS_Singleton DEF PlacedInv, PlacedOf, PlacedOnce
<1> QED
  BY <1>1, <1>2, <1>3, PTL DEF Spec

-----------------------------------------------------------------------------
(* Agreement of the two stores                                             *)

\* Agreement, about all hosts.
StoresAgree ==
    \A sp \in db["system_platform"] :
        sp.InventoryID \notin unsure =>
            WorkspacesOf(sp.InventoryID) \subseteq {sp.RhAccountID}

(***************************************************************************)
(* Every row is one of those that were seeded or registered, whatever      *)
(* account it has come to, and the only one of its host.                   *)
(***************************************************************************)
RowsKept ==
    /\ \A sp \in db["system_platform"] :
         \E o \in SeedDB["system_platform"] \cup NewSystems :
             o.ID = sp.ID /\ o.InventoryID = sp.InventoryID
    /\ \A x, y \in db["system_platform"] :
         x.InventoryID = y.InventoryID => x = y

\* SpiceDB and the lists know no host that the database does not.
HostsKnown ==
    /\ \A h : WorkspacesOf(h) # {} => h \in PlatformHosts
    /\ \A p \in Procs : listed[p] \subseteq PlatformHosts

\* Before the commit the listed hosts are where they are to be, which is not
\* where they were.
SentBy(p) ==
    \A h \in listed[p] : from(p) # to(p) /\ WorkspacesOf(h) = {to(p)}

Sent == \A p \in Procs : pc[p] = "commit" => SentBy(p)

AgreeInv == Typed /\ StoresAgree /\ RowsKept /\ HostsKnown /\ Sent

LEMMA AgreeCommit ==
    ASSUME AgreeInv, NEW p \in Procs, pc[p] = "commit", Committed(p),
           UNCHANGED <<spicedb, listed, move>>, pc'[p] = "idle",
           \A q \in Procs : q # p => pc'[q] = pc[q]
    PROVE  (StoresAgree /\ RowsKept /\ HostsKnown /\ Sent)'
<1> DEFINE moved == tx[p]["system_platform"]
           P == db["system_platform"]
<1>0. Typed
  BY DEF AgreeInv
<1>1. /\ \A x \in P' : \E r \in P :
           /\ x.ID = r.ID /\ x.InventoryID = r.InventoryID
           /\ \/ /\ r \in moved /\ x = [r EXCEPT !.RhAccountID = to(p)]
                 /\ x.RhAccountID = to(p)
              \/ r \notin moved /\ x = r
      /\ PlatformHosts' = PlatformHosts
  BY <1>0, CommittedPlatform
<1>2. moved \subseteq P
  BY <1>0 DEF Typed, Locks, Tables
<1>3. \A x, y \in P : x.InventoryID = y.InventoryID => x = y
  BY DEF AgreeInv, RowsKept
<1>4. \A h : WorkspacesOf(h)' = WorkspacesOf(h)
  BY DEF WorkspacesOf
<1>5. StoresAgree'
  <2>1. ASSUME NEW x \in P', x.InventoryID \notin unsure'
        PROVE  WorkspacesOf(x.InventoryID) \subseteq {x.RhAccountID}
    <3> DEFINE h == x.InventoryID
    <3>1. PICK r \in P :
            /\ h = r.InventoryID
            /\ \/ r \in moved /\ x.RhAccountID = to(p)
               \/ r \notin moved /\ x = r
      BY <1>1
    <3>2. h \in MovedHosts(p) <=> r \in moved
      BY <1>2, <1>3, <3>1 DEF MovedHosts
    <3>3. unsure' = (unsure \ (listed[p] \cap MovedHosts(p)))
                      \cup (listed[p] \ MovedHosts(p))
                      \cup (MovedHosts(p) \ listed[p])
      BY DEF Committed
    <3>4. h \in listed[p] <=> h \in MovedHosts(p)
      BY <2>1, <3>3
    <3>5. CASE r \in moved
      BY <3>1, <3>2, <3>4, <3>5 DEF AgreeInv, Sent, SentBy
    <3>6. CASE r \notin moved
      <4>1. h \notin unsure /\ x = r
        BY <2>1, <3>1, <3>2, <3>3, <3>6
      <4> QED
        BY <4>1 DEF AgreeInv, StoresAgree
    <3> QED
      BY <3>5, <3>6
  <2> QED
    BY <1>4, <2>1 DEF StoresAgree
<1>6. RowsKept'
  <2>1. ASSUME NEW x \in P', NEW y \in P', x.InventoryID = y.InventoryID
        PROVE  x = y
    BY <1>1, <1>3, <2>1
  <2>2. ASSUME NEW x \in P'
        PROVE  \E o \in SeedDB["system_platform"] \cup NewSystems :
                 o.ID = x.ID /\ o.InventoryID = x.InventoryID
    BY <1>1, <2>2 DEF AgreeInv, RowsKept
  <2> QED
    BY <2>1, <2>2 DEF RowsKept
<1>7. HostsKnown'
  BY <1>1, <1>4 DEF AgreeInv, HostsKnown
<1>8. Sent'
  BY <1>4 DEF AgreeInv, Sent, SentBy, from, to
<1> QED
  BY <1>5, <1>6, <1>7, <1>8

LEMMA AgreeRegister ==
    ASSUME HostsUnshared, AgreeInv, Register
    PROVE  (StoresAgree /\ RowsKept /\ HostsKnown /\ Sent)'
<1>1. PICK new \in NewSystems :
        /\ \A sp \in db["system_platform"] : sp.ID # new.ID
        /\ db' = [db EXCEPT
             !["system_platform"] = @ \cup {new},
             !["system_repo"] =
                @ \cup {[RhAccountID |-> new.RhAccountID, SystemID |-> new.ID]},
             !["system_advisories"] =
                @ \cup {[RhAccountID |-> new.RhAccountID, SystemID |-> new.ID]}]
  BY DEF Register
<1>2. db'["system_platform"] = db["system_platform"] \cup {new}
  <2>1. db \in [Tables -> SUBSET AnyRow]
    BY DEF AgreeInv, Typed, Shapes
  <2> QED
    BY <1>1, <2>1 DEF Tables
<1>3. UNCHANGED <<spicedb, pc, move, listed, tx, result, unsure>>
  BY DEF Register
<1>4. new.InventoryID \notin PlatformHosts
  BY <1>1 DEF AgreeInv, RowsKept, HostsUnshared, PlatformHosts
<1>5. \A h : WorkspacesOf(h)' = WorkspacesOf(h)
  BY <1>3 DEF WorkspacesOf
<1>6. StoresAgree'
  <2>1. WorkspacesOf(new.InventoryID) = {}
    BY <1>4 DEF AgreeInv, HostsKnown
  <2> QED
    BY <1>2, <1>3, <1>5, <2>1 DEF AgreeInv, StoresAgree
<1>7. RowsKept'
  BY <1>2, <1>4 DEF AgreeInv, RowsKept, PlatformHosts
<1>8. HostsKnown'
  BY <1>2, <1>3, <1>5 DEF AgreeInv, HostsKnown, PlatformHosts
<1>9. Sent'
  BY <1>3, <1>5 DEF AgreeInv, Sent, SentBy, from, to
<1> QED
  BY <1>6, <1>7, <1>8, <1>9

\* A request places its own hosts, and those of other requests in the same
\* direction stay where they are.
LEMMA SendSettles ==
    ASSUME Directed, TwoAccounts, Typed, NEW p \in Procs, Send(p),
           UNCHANGED <<move, listed>>
    PROVE  /\ SentBy(p)'
           /\ \A q \in Procs : SentBy(q) => SentBy(q)'
<1>1. \A h : /\ h \notin listed[p] => WorkspacesOf(h)' = WorkspacesOf(h)
             /\ h \in listed[p] => WorkspacesOf(h)' = {to(p)}
  BY SendMoves
<1>2. ASSUME NEW h \in listed[p] PROVE from(p) # to(p)
  BY <1>2 DEF Send, AcceptableSets, Leaving, Joining
<1>3. SentBy(p)'
  BY <1>1, <1>2 DEF SentBy, from, to
<1>4. ASSUME NEW q \in Procs, q # p, SentBy(q), NEW h \in listed[q]
      PROVE  from(q) # to(q) /\ WorkspacesOf(h)' = {to(q)}
  <2>1. from(q) # to(q) /\ WorkspacesOf(h) = {to(q)}
    BY <1>4 DEF SentBy
  <2>2. from(q) = from(p)
    BY <1>4 DEF Directed, OneMover, OneSource, Typed, Shapes, from
  <2>3. h \in listed[p] => to(q) = to(p)
    BY <1>2, <2>1, <2>2, MoveTyped DEF TwoAccounts
  <2> QED
    BY <1>1, <2>1, <2>3
<1> QED
  BY <1>3, <1>4 DEF SentBy, from, to

LEMMA AgreeSend ==
    ASSUME Directed, TwoAccounts, AgreeInv, NEW p \in Procs, Send(p),
           UNCHANGED <<db, move, listed>>,
           \A q \in Procs : q # p => pc'[q] = pc[q]
    PROVE  (StoresAgree /\ RowsKept /\ HostsKnown /\ Sent)'
<1>0. Typed
  BY DEF AgreeInv
<1>1. \A h : /\ h \notin listed[p] => WorkspacesOf(h)' = WorkspacesOf(h)
             /\ h \in listed[p] => WorkspacesOf(h)' = {to(p)}
  BY <1>0, SendMoves
<1>2. unsure' = unsure \cup listed[p]
  BY DEF Send
<1>3. StoresAgree'
  BY <1>1, <1>2 DEF AgreeInv, StoresAgree
<1>4. RowsKept'
  BY DEF AgreeInv, RowsKept
<1>5. HostsKnown'
  BY <1>1 DEF AgreeInv, HostsKnown, PlatformHosts
<1>6. Sent'
  BY <1>0, SendSettles DEF AgreeInv, Sent
<1> QED
  BY <1>3, <1>4, <1>5, <1>6

\* A step that changes neither store.
LEMMA AgreeQuiet ==
    ASSUME AgreeInv, UNCHANGED <<db, spicedb, unsure>>,
           \A p \in Procs :
              /\ listed'[p] \subseteq PlatformHosts
              /\ pc'[p] = "commit" =>
                   /\ pc[p] = "commit" /\ listed'[p] = listed[p]
                   /\ move'[p] = move[p]
    PROVE  (StoresAgree /\ RowsKept /\ HostsKnown /\ Sent)'
<1>1. \A h : WorkspacesOf(h)' = WorkspacesOf(h)
  BY DEF WorkspacesOf
<1>2. StoresAgree' /\ RowsKept'
  BY <1>1 DEF AgreeInv, StoresAgree, RowsKept
<1>3. HostsKnown'
  BY <1>1 DEF AgreeInv, HostsKnown, PlatformHosts
<1>4. Sent'
  BY <1>1 DEF AgreeInv, Sent, SentBy, from, to
<1> QED
  BY <1>2, <1>3, <1>4

LEMMA AgreeStep ==
    ASSUME Directed, TwoAccounts, AgreeInv, NEW p \in Procs, Step(p)
    PROVE  AgreeInv'
<1>0. /\ Typed
      /\ pc \in [Procs -> Tables \cup {"idle", "begin", "write", "commit"}]
      /\ listed \in [Procs -> SUBSET HostsSynced]
      /\ \A q \in Procs : listed[q] \subseteq PlatformHosts
  BY DEF AgreeInv, HostsKnown, Typed, Shapes
<1>1. CASE Query(p)
  <2>1. \A mv \in Moves : HostsOf(mv[1]) \subseteq PlatformHosts
    BY DEF HostsOf, PlatformHosts, RowsOf
  <2>2. /\ UNCHANGED <<db, spicedb, unsure>> /\ pc'[p] \in {"begin", "idle"}
        /\ listed'[p] \subseteq PlatformHosts
        /\ \A q \in Procs : q # p =>
             pc'[q] = pc[q] /\ listed'[q] = listed[q] /\ move'[q] = move[q]
    BY <1>0, <1>1, <2>1 DEF Query, Return, Goto
  <2> QED
    BY <1>0, <2>2, AgreeQuiet, TypedStep DEF AgreeInv
<1>2. CASE BeginTx(p) \/ Crash(p)
  <2>1. /\ UNCHANGED <<db, spicedb, listed, move, unsure>>
        /\ pc'[p] \in {"system_repo", "idle"}
        /\ \A q \in Procs : q # p => pc'[q] = pc[q]
    BY <1>0, <1>2 DEF BeginTx, Crash, Return, Goto
  <2> QED
    BY <1>0, <2>1, AgreeQuiet, TypedStep DEF AgreeInv
<1>3. CASE \/ UpdateSystemRepo(p) \/ UpdateSystemAdvisories(p)
           \/ UpdateSystemPlatform(p) \/ UpdateBaseline(p)
  <2>1. /\ UNCHANGED <<db, spicedb, listed, move, unsure>>
        /\ pc'[p] \in {"system_advisories", "system_platform", "baseline",
                       "write", "idle"}
        /\ \A q \in Procs : q # p => pc'[q] = pc[q]
    BY <1>0, <1>3 DEF UpdateSystemRepo, UpdateSystemAdvisories,
       UpdateSystemPlatform, UpdateBaseline, Update, Return, Goto
  <2> QED
    BY <1>0, <2>1, AgreeQuiet, TypedStep DEF AgreeInv
<1>4. CASE WriteRels(p)
  <2>1. /\ UNCHANGED <<db, move, listed>>
        /\ Send(p) \/ (NotSent /\ pc'[p] = "idle")
        /\ \A q \in Procs : q # p => pc'[q] = pc[q]
    <3>1. Return(p, "error") => pc'[p] = "idle"
      BY <1>0 DEF Return, Goto
    <3> QED
      BY <1>0, <1>4, <3>1 DEF WriteRels, Return, Goto
  <2>2. CASE Send(p)
    BY <2>1, <2>2, AgreeSend, TypedStep DEF AgreeInv
  <2>3. CASE NotSent /\ pc'[p] = "idle"
    BY <1>0, <2>1, <2>3, AgreeQuiet, TypedStep DEF AgreeInv, NotSent
  <2> QED
    BY <2>1, <2>2, <2>3
<1>5. CASE Commit(p)
  <2>1. /\ UNCHANGED <<spicedb, move, listed>> /\ pc[p] = "commit"
        /\ pc'[p] = "idle"
        /\ \A q \in Procs : q # p => pc'[q] = pc[q]
        /\ Committed(p) \/ UNCHANGED <<db, unsure>>
    BY <1>0, <1>5 DEF Commit, Return, Goto
  <2>2. CASE Committed(p)
    BY <2>1, <2>2, AgreeCommit, TypedStep DEF AgreeInv
  <2>3. CASE UNCHANGED <<db, unsure>>
    BY <1>0, <2>1, <2>3, AgreeQuiet, TypedStep DEF AgreeInv
  <2> QED
    BY <2>1, <2>2, <2>3
<1> QED
  BY <1>1, <1>2, <1>3, <1>4, <1>5 DEF Step

LEMMA AgreeNext ==
    ASSUME Directed, TwoAccounts, HostsUnshared
    PROVE  AgreeInv /\ [Next]_vars => AgreeInv'
<1>1. ASSUME AgreeInv, UNCHANGED vars
      PROVE  (StoresAgree /\ RowsKept /\ HostsKnown /\ Sent)'
  <2>1. /\ UNCHANGED <<db, spicedb, unsure>>
        /\ \A p \in Procs :
             /\ listed'[p] = listed[p] /\ listed[p] \subseteq PlatformHosts
             /\ pc'[p] = pc[p] /\ move'[p] = move[p]
    BY <1>1 DEF vars, AgreeInv, HostsKnown
  <2> QED
    BY <1>1, <2>1, AgreeQuiet
<1> QED
  BY <1>1, AgreeStep, AgreeRegister, TypedNext DEF Next, AgreeInv

LEMMA AgreeInit == ASSUME HostsUnshared, Init PROVE AgreeInv
<1>1. StoresAgree
  BY InitialWorkspaces DEF Init, StoresAgree
<1>2. RowsKept
  BY DEF Init, RowsKept, HostsUnshared
<1>3. HostsKnown
  BY HostWorkspaceInjective DEF Init, HostsKnown, WorkspacesOf, PlatformHosts
<1>4. Sent
  BY DEF Init, Sent
<1> QED
  BY <1>1, <1>2, <1>3, <1>4, InitIdle, TypedInit DEF AgreeInv

(***************************************************************************)
(* A single mover between two accounts, or any number of them in the same  *)
(* direction, keeps the stores in step: whatever fails or arrives, they    *)
(* disagree about a host only if its last request has not been committed   *)
(* or it was missing on one side of the move.                              *)
(***************************************************************************)
THEOREM AgreementCorrect ==
    Directed /\ TwoAccounts /\ HostsUnshared => (Spec => []Agreement)
<1> SUFFICES ASSUME Directed, TwoAccounts, HostsUnshared
             PROVE  Spec => []Agreement
  OBVIOUS
<1>1. Init => AgreeInv
  BY AgreeInit
<1>2. AgreeInv /\ [Next]_vars => AgreeInv'
  BY AgreeNext
<1>3. AgreeInv => Agreement
  BY DEF AgreeInv, StoresAgree, Agreement
<1> QED
  BY <1>1, <1>2, <1>3, PTL DEF Spec

-----------------------------------------------------------------------------
(* What nil means                                                          *)

(***************************************************************************)
(* A transaction holds rows of the account it moves from, among them, once *)
(* the platform is updated, those of all listed hosts that are still       *)
(* there.  Rows that are registered later are not listed.                  *)
(***************************************************************************)
Held ==
    \A p \in Procs :
        /\ \A r \in tx[p]["system_platform"] : r.RhAccountID = from(p)
        /\ Updated(p, "system_platform") =>
             \A r \in db["system_platform"] :
                 r.InventoryID \in listed[p] /\ r.RhAccountID = from(p)
                   => r \in tx[p]["system_platform"]

MovedInv == AgreeInv /\ Held

\* A step of one process that changes neither the tables nor, unless it ends
\* its transaction, the rows of system_platform it holds.
LEMMA HeldQuiet ==
    ASSUME Held, NEW p \in Procs, UNCHANGED <<db, move, listed>>,
           \A q \in Procs : q # p => pc'[q] = pc[q] /\ tx'[q] = tx[q],
           tx'[p]["system_platform"] \subseteq tx[p]["system_platform"],
           Updated(p, "system_platform")' =>
             /\ Updated(p, "system_platform")
             /\ tx'[p]["system_platform"] = tx[p]["system_platform"]
    PROVE  Held'
<1>1. \A q \in Procs : q # p =>
        (Updated(q, "system_platform")' <=> Updated(q, "system_platform"))
  BY DEF Updated
<1> QED
  BY <1>1 DEF Held, from

LEMMA HeldUpdate ==
    ASSUME Typed, Held, NEW p \in Procs, NEW t \in Tables, NEW allowed,
           NEW next, Update(p, t, Matched(p, t), allowed, next),
           \/ t \in {"system_platform", "baseline"}
           \/ next \in {"system_advisories", "system_platform"}
    PROVE  Held'
<1>1. /\ pc[p] = t
      /\ UNCHANGED <<db, spicedb, move, listed, unsure, been>>
      /\ \A q \in Procs : q # p => pc'[q] = pc[q] /\ tx'[q] = tx[q]
      /\ \/ /\ pc'[p] = next
            /\ tx'[p][t] = RowsOf(db[t], from(p))
            /\ \A u \in Tables : u # t => tx'[p][u] = tx[p][u]
         \/ /\ pc'[p] = "idle"
            /\ tx'[p] = NoRows
  <2>1. pc \in [Procs -> Tables \cup {"idle", "begin", "write", "commit"}]
    BY DEF Typed, Shapes
  <2> QED
    BY <2>1, UpdateEffect
<1>2. CASE pc'[p] = "idle" /\ tx'[p] = NoRows
  <2>1. tx'[p]["system_platform"] = {}
    BY <1>2 DEF NoRows, Tables
  <2> QED
    BY <1>1, <1>2, <2>1, HeldQuiet DEF Updated
<1>3. CASE /\ t = "system_platform"
           /\ tx'[p][t] = RowsOf(db[t], from(p))
  <2>1. \A q \in Procs : q # p =>
          (Updated(q, "system_platform")' <=> Updated(q, "system_platform"))
    BY <1>1 DEF Updated
  <2> QED
    BY <1>1, <1>3, <2>1 DEF Held, from, RowsOf
<1>4. CASE /\ t # "system_platform" /\ pc'[p] = next
           /\ \A u \in Tables : u # t => tx'[p][u] = tx[p][u]
  <2>1. tx'[p]["system_platform"] = tx[p]["system_platform"]
    BY <1>4 DEF Tables
  <2>2. Updated(p, "system_platform")' => Updated(p, "system_platform")
    BY <1>1, <1>4 DEF Updated
  <2> QED
    BY <1>1, <2>1, <2>2, HeldQuiet
<1> QED
  BY <1>1, <1>2, <1>3, <1>4

LEMMA HeldCommit ==
    ASSUME Directed, Typed, Held, NEW p \in Procs, pc[p] = "commit",
           Committed(p), Rollback(p), UNCHANGED <<move, listed>>,
           pc'[p] = "idle", \A q \in Procs : q # p => pc'[q] = pc[q]
    PROVE  Held'
<1>1. /\ \A q \in Procs : q # p => tx'[q] = tx[q]
      /\ tx'[p]["system_platform"] = {}
  BY EndTyped DEF Tables
<1>2. \A x \in db'["system_platform"] : \E r \in db["system_platform"] :
        /\ x.ID = r.ID /\ x.InventoryID = r.InventoryID
        /\ \/ /\ r \in tx[p]["system_platform"]
              /\ x = [r EXCEPT !.RhAccountID = to(p)]
              /\ x.RhAccountID = to(p)
           \/ r \notin tx[p]["system_platform"] /\ x = r
  BY CommittedPlatform
<1>3. ASSUME NEW q \in Procs, q # p, Updated(q, "system_platform")',
             NEW x \in db'["system_platform"],
             x.InventoryID \in listed[q], x.RhAccountID = from(q)
      PROVE  x \in tx[q]["system_platform"]
  <2>1. Updated(q, "system_platform")
    BY <1>3 DEF Updated
  <2>2. from(q) = from(p)
    BY <1>3 DEF Directed, OneMover, OneSource, Typed, Shapes, from
  <2>3. x \in db["system_platform"]
    <3>1. PICK r \in db["system_platform"] :
            \/ /\ r \in tx[p]["system_platform"]
               /\ x = [r EXCEPT !.RhAccountID = to(p)]
               /\ x.RhAccountID = to(p)
            \/ x = r
      BY <1>2
    <3>2. CASE /\ r \in tx[p]["system_platform"]
               /\ x = [r EXCEPT !.RhAccountID = to(p)]
               /\ x.RhAccountID = to(p)
      <4>1. r.RhAccountID = to(p)
        BY <1>3, <2>2, <3>2 DEF Held
      <4>2. r \in SystemPlatform
        BY RowOfTable DEF Typed, Shapes, Tables
      <4> QED
        BY <3>2, <4>1, <4>2 DEF SystemPlatform
    <3> QED
      BY <3>1, <3>2
  <2> QED
    BY <1>3, <2>1, <2>3 DEF Held
<1>4. ~Updated(p, "system_platform")'
  BY DEF Updated
<1> QED
  BY <1>1, <1>3, <1>4 DEF Held, from

LEMMA HeldRegister ==
    ASSUME HostsUnshared, AgreeInv, Held, Register
    PROVE  Held'
<1>1. PICK new \in NewSystems :
        /\ \A sp \in db["system_platform"] : sp.ID # new.ID
        /\ db'["system_platform"] = db["system_platform"] \cup {new}
  <2>1. db \in [Tables -> SUBSET AnyRow]
    BY DEF AgreeInv, Typed, Shapes
  <2> QED
    BY <2>1 DEF Register, Tables
<1>2. UNCHANGED <<pc, move, listed, tx>>
  BY DEF Register
<1>3. \A p \in Procs : new.InventoryID \notin listed[p]
  BY <1>1 DEF AgreeInv, RowsKept, HostsKnown, HostsUnshared, PlatformHosts
<1> QED
  BY <1>1, <1>2, <1>3 DEF Held, Updated, from

LEMMA HeldStep ==
    ASSUME Directed, Typed, Held, NEW p \in Procs, Step(p)
    PROVE  Held'
<1>0. /\ pc \in [Procs -> Tables \cup {"idle", "begin", "write", "commit"}]
      /\ move \in [Procs -> Moves] /\ listed \in [Procs -> SUBSET HostsSynced]
  BY DEF Typed, Shapes
<1>1. CASE Query(p)
  <2>1. /\ UNCHANGED <<db, tx>> /\ pc[p] = "idle"
        /\ pc'[p] \in {"begin", "idle"}
        /\ \A q \in Procs : q # p =>
             pc'[q] = pc[q] /\ move'[q] = move[q] /\ listed'[q] = listed[q]
    BY <1>0, <1>1 DEF Query, Return, Goto, Running
  <2>2. tx[p]["system_platform"] = {}
    BY <2>1 DEF Typed, Locks, NoRows, Tables
  <2>3. ~Updated(p, "system_platform")'
    BY <2>1 DEF Updated
  <2>4. \A q \in Procs : q # p =>
          /\ from(q)' = from(q)
          /\ Updated(q, "system_platform")' <=> Updated(q, "system_platform")
    BY <2>1 DEF Updated, from
  <2> QED
    BY <2>1, <2>2, <2>3, <2>4 DEF Held
<1>2. CASE BeginTx(p)
  <2>1. /\ UNCHANGED <<db, move, listed, tx>>
        /\ pc'[p] \in {"system_repo", "idle"}
        /\ \A q \in Procs : q # p => pc'[q] = pc[q]
    BY <1>0, <1>2 DEF BeginTx, Return, Goto
  <2> QED
    BY <2>1, HeldQuiet DEF Updated
<1>3. CASE \/ UpdateSystemRepo(p) \/ UpdateSystemAdvisories(p)
           \/ UpdateSystemPlatform(p) \/ UpdateBaseline(p)
  <2>1. /\ UpdateSystemRepo(p) => Held'
        /\ UpdateSystemAdvisories(p) => Held'
    BY HeldUpdate DEF UpdateSystemRepo, UpdateSystemAdvisories, Tables
  <2>2. /\ UpdateSystemPlatform(p) => Held'
        /\ UpdateBaseline(p) => Held'
    BY HeldUpdate DEF UpdateSystemPlatform, UpdateBaseline, Tables
  <2> QED
    BY <1>3, <2>1, <2>2
<1>4. CASE WriteRels(p)
  <2>1. /\ UNCHANGED <<db, move, listed>> /\ pc[p] = "write"
        /\ \/ pc'[p] = "commit" /\ tx' = tx
           \/ pc'[p] = "idle" /\ Rollback(p)
        /\ \A q \in Procs : q # p => pc'[q] = pc[q]
    BY <1>0, <1>4 DEF WriteRels, Return, Goto
  <2>2. CASE pc'[p] = "commit" /\ tx' = tx
    BY <2>1, <2>2, HeldQuiet DEF Updated
  <2>3. CASE pc'[p] = "idle" /\ Rollback(p)
    <3>1. /\ \A q \in Procs : q # p => tx'[q] = tx[q]
          /\ tx'[p]["system_platform"] = {}
      BY <2>3, EndTyped DEF Tables
    <3> QED
      BY <2>1, <2>3, <3>1, HeldQuiet DEF Updated
  <2> QED
    BY <2>1, <2>2, <2>3
<1>5. CASE Commit(p)
  <2>1. /\ UNCHANGED <<move, listed>> /\ pc[p] = "commit" /\ Rollback(p)
        /\ pc'[p] = "idle" /\ \A q \in Procs : q # p => pc'[q] = pc[q]
        /\ Committed(p) \/ UNCHANGED db
    BY <1>0, <1>5 DEF Commit, Return, Goto
  <2>2. /\ \A q \in Procs : q # p => tx'[q] = tx[q]
        /\ tx'[p]["system_platform"] = {}
    BY <2>1, EndTyped DEF Tables
  <2>3. UNCHANGED db => Held'
    BY <2>1, <2>2, HeldQuiet DEF Updated
  <2> QED
    BY <2>1, <2>3, HeldCommit
<1>6. CASE Crash(p)
  <2>1. /\ UNCHANGED <<db, move, listed>> /\ Rollback(p)
        /\ pc'[p] = "idle" /\ \A q \in Procs : q # p => pc'[q] = pc[q]
    BY <1>0, <1>6 DEF Crash, Return, Goto
  <2>2. /\ \A q \in Procs : q # p => tx'[q] = tx[q]
        /\ tx'[p]["system_platform"] = {}
    BY <2>1, EndTyped DEF Tables
  <2> QED
    BY <2>1, <2>2, HeldQuiet DEF Updated
<1> QED
  BY <1>1, <1>2, <1>3, <1>4, <1>5, <1>6 DEF Step

LEMMA MovedNext ==
    ASSUME Directed, TwoAccounts, HostsUnshared
    PROVE  MovedInv /\ [Next]_vars => MovedInv'
<1>1. ASSUME MovedInv, UNCHANGED vars PROVE Held'
  BY <1>1 DEF MovedInv, Held, Updated, from, vars
<1> QED
  BY <1>1, AgreeNext, HeldStep, HeldRegister DEF Next, MovedInv, AgreeInv

\* Only an acknowledged commit returns nil, and it finds every listed host in
\* the workspace it is to be in and its row either there or among those it
\* moves.
LEMMA NilStep ==
    ASSUME TwoAccounts, Typed, Held, NEW p \in Procs, NEW q \in Procs, Step(q),
           pc[p] = "commit" => SentBy(p),
           result[p] # "nil", result'[p] = "nil"
    PROVE  MovedInBoth(p)'
<1>0. result \in [Procs -> {"none", "nil", "error", "crashed"}]
  BY DEF Typed, Shapes
<1>1. /\ q = p /\ pc[p] = "commit" /\ Committed(p)
      /\ UNCHANGED <<spicedb, move, listed>>
  BY <1>0 DEF Step, Query, BeginTx, UpdateSystemRepo, UpdateSystemAdvisories,
     UpdateSystemPlatform, UpdateBaseline, Update, WriteRels, Commit, Crash,
     Return
<1>2. ASSUME NEW h \in listed[p]
      PROVE  /\ WorkspacesOf(h)' = {to(p)}
             /\ \A x \in db'["system_platform"] :
                  x.InventoryID = h => x.RhAccountID = to(p)
  <2>1. from(p) # to(p) /\ WorkspacesOf(h) = {to(p)}
    BY <1>1, <1>2 DEF SentBy
  <2>2. WorkspacesOf(h)' = WorkspacesOf(h)
    BY <1>1 DEF WorkspacesOf
  <2>3. ASSUME NEW x \in db'["system_platform"], x.InventoryID = h
        PROVE  x.RhAccountID = to(p)
    <3>1. PICK r \in db["system_platform"] :
            /\ x.ID = r.ID /\ x.InventoryID = r.InventoryID
            /\ \/ /\ r \in tx[p]["system_platform"] /\ x.RhAccountID = to(p)
               \/ r \notin tx[p]["system_platform"] /\ x = r
      BY <1>0, <1>1, <2>3, CommittedPlatform
    <3>2. CASE r \notin tx[p]["system_platform"] /\ x = r
      <4>1. r.RhAccountID # from(p)
        BY <1>1, <1>2, <2>3, <3>1, <3>2 DEF Held, Updated
      <4>2. r.RhAccountID \in Accounts
        <5>1. db["system_platform"] \subseteq SystemPlatform
          BY <1>0, RowOfTable DEF Typed, Shapes, Tables
        <5> QED
          BY <5>1 DEF SystemPlatform
      <4> QED
        BY <1>0, <2>1, <3>2, <4>1, <4>2, MoveTyped DEF TwoAccounts
    <3> QED
      BY <3>1, <3>2
  <2> QED
    BY <2>1, <2>2, <2>3
<1> QED
  BY <1>1, <1>2 DEF MovedInBoth, to, WorkspacesOf

(***************************************************************************)
(* Between two accounts, with one mover or movers in one direction, nil    *)
(* means that the hosts the query returned have changed accounts in both   *)
(* stores, also if an earlier run has left them half moved and whatever    *)
(* is registered meanwhile.                                                *)
(***************************************************************************)
THEOREM NilCorrect ==
    Directed /\ TwoAccounts /\ HostsUnshared => (Spec => NilMeansMoved)
<1> SUFFICES ASSUME Directed, TwoAccounts, HostsUnshared
             PROVE  Spec => NilMeansMoved
  OBVIOUS
<1> DEFINE Nil ==
      \A p \in Procs :
         result[p] # "nil" /\ result'[p] = "nil" => MovedInBoth(p)'
<1>1. Init => MovedInv
  <2>1. Init => Held
    BY DEF Init, Held, Updated, NoRows, Tables
  <2> QED
    BY <2>1, AgreeInit DEF MovedInv
<1>2. MovedInv /\ [Next]_vars => MovedInv'
  BY MovedNext
<1>3. MovedInv /\ [Next]_vars => [Nil]_vars
  <2>1. MovedInv /\ Register => Nil
    BY DEF Register
  <2>2. MovedInv /\ (\E q \in Procs : Step(q)) => Nil
    BY NilStep DEF MovedInv, AgreeInv, Sent
  <2> QED
    BY <2>1, <2>2 DEF Next
<1>4. NilMeansMoved <=> [][Nil]_vars
  BY DEF NilMeansMoved
<1> HIDE DEF Nil
<1> QED
  BY <1>1, <1>2, <1>3, <1>4, PTL DEF Spec

=============================================================================
