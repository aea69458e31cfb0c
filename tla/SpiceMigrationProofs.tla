------------------------ MODULE SpiceMigrationProofs ------------------------
(***************************************************************************)
(* Theorems about SpiceMigration, for any tables, batch size, limit of     *)
(* SpiceDB and number of processes.                                        *)
(***************************************************************************)
EXTENDS SpiceMigration, TLAPS

-----------------------------------------------------------------------------
(* Relationships                                                           *)

\* Relationships of different kinds, or of different objects, differ.
LEMMA Distinct ==
    /\ \A o, q : RootParent(o) # UngroupedParent(q)
    /\ \A o, h, q : RootParent(o) # HostWorkspace(h, q)
    /\ \A o, s, h : RootParent(o) # SystemHost(s, h)
    /\ \A o, n, s : RootParent(o) # PatchSystem(n, s)
    /\ \A o, h, q : UngroupedParent(o) # HostWorkspace(h, q)
    /\ \A o, s, h : UngroupedParent(o) # SystemHost(s, h)
    /\ \A o, n, s : UngroupedParent(o) # PatchSystem(n, s)
    /\ \A g, o, s, h : HostWorkspace(g, o) # SystemHost(s, h)
    /\ \A g, o, n, s : HostWorkspace(g, o) # PatchSystem(n, s)
    /\ \A s, h, n, t : SystemHost(s, h) # PatchSystem(n, t)
<1>1. \A o, q : RootParent(o) # UngroupedParent(q)
  BY DEF RootParent, UngroupedParent, Rel, Organization, Root
<1>2. \A o, h, q : RootParent(o) # HostWorkspace(h, q)
  BY DEF RootParent, HostWorkspace, Rel
<1>3. \A o, s, h : RootParent(o) # SystemHost(s, h)
  BY DEF RootParent, SystemHost, Rel
<1>4. \A o, n, s : RootParent(o) # PatchSystem(n, s)
  BY DEF RootParent, PatchSystem, Rel
<1>5. \A o, h, q : UngroupedParent(o) # HostWorkspace(h, q)
  BY DEF UngroupedParent, HostWorkspace, Rel
<1>6. \A o, s, h : UngroupedParent(o) # SystemHost(s, h)
  BY DEF UngroupedParent, SystemHost, Rel
<1>7. \A o, n, s : UngroupedParent(o) # PatchSystem(n, s)
  BY DEF UngroupedParent, PatchSystem, Rel
<1>8. \A g, o, s, h : HostWorkspace(g, o) # SystemHost(s, h)
  BY DEF HostWorkspace, SystemHost, Rel
<1>9. \A g, o, n, s : HostWorkspace(g, o) # PatchSystem(n, s)
  BY DEF HostWorkspace, PatchSystem, Rel
<1>10. \A s, h, n, t : SystemHost(s, h) # PatchSystem(n, t)
  BY DEF SystemHost, PatchSystem, Rel
<1> QED
  BY <1>1, <1>2, <1>3, <1>4, <1>5, <1>6, <1>7, <1>8, <1>9, <1>10

LEMMA Injective ==
    /\ \A o, q : UngroupedParent(o) = UngroupedParent(q) => o = q
    /\ \A g, h, o, q :
         HostWorkspace(g, o) = HostWorkspace(h, q) => g = h /\ o = q
    /\ \A s, t, g, h : SystemHost(s, g) = SystemHost(t, h) => s = t /\ g = h
<1>1. \A o, q : UngroupedParent(o) = UngroupedParent(q) => o = q
  BY DEF UngroupedParent, Rel, Root, Ungrouped
<1>2. \A g, h, o, q :
        HostWorkspace(g, o) = HostWorkspace(h, q) => g = h /\ o = q
  BY DEF HostWorkspace, Rel, Host, Ungrouped
<1>3. \A s, t, g, h : SystemHost(s, g) = SystemHost(t, h) => s = t /\ g = h
  BY DEF SystemHost, Rel, System, Host
<1> QED
  BY <1>1, <1>2, <1>3

\* Adding to a closed set a relationship whose support it already has.
LEMMA ClosedAdd ==
    ASSUME NEW S, Closed(S)
    PROVE  /\ \A o : Closed(S \cup {RootParent(o)})
           /\ \A o : RootParent(o) \in S => Closed(S \cup {UngroupedParent(o)})
           /\ \A h, o : UngroupedParent(o) \in S
                         => Closed(S \cup {HostWorkspace(h, o)})
           /\ \A s, h : (\E o \in Accounts : HostWorkspace(h, o) \in S)
                         => Closed(S \cup {SystemHost(s, h)})
           /\ \A n, s : Closed(S \cup {PatchSystem(n, s)})
<1>1. \A o : Closed(S \cup {RootParent(o)})
  BY Distinct DEF Closed
<1>2. ASSUME NEW o, RootParent(o) \in S
      PROVE  Closed(S \cup {UngroupedParent(o)})
  BY <1>2, Distinct, Injective DEF Closed
<1>3. ASSUME NEW h, NEW o, UngroupedParent(o) \in S
      PROVE  Closed(S \cup {HostWorkspace(h, o)})
  BY <1>3, Distinct, Injective DEF Closed
<1>4. ASSUME NEW s, NEW h, NEW o \in Accounts, HostWorkspace(h, o) \in S
      PROVE  Closed(S \cup {SystemHost(s, h)})
  BY <1>4, Distinct, Injective DEF Closed
<1>5. \A n, s : Closed(S \cup {PatchSystem(n, s)})
  BY Distinct DEF Closed
<1> QED
  BY <1>1, <1>2, <1>3, <1>4, <1>5

LEMMA ClosedUnion ==
    ASSUME NEW S, NEW T, Closed(S), Closed(T) PROVE Closed(S \cup T)
BY DEF Closed

-----------------------------------------------------------------------------
(* Batches                                                                 *)

\* The type of the batches, all that the proofs need to know of them.
Batches ==
    /\ updates \in [Procs -> Seq(Update)]
    /\ \A p \in Procs : Len(updates[p]) <= maxBatchSize

\* A request of the migrations only adds relationships.
LEMMA TouchOnly ==
    ASSUME Batches, NEW p \in Procs
    PROVE  WriteRelationships(spicedb, updates[p]) = spicedb \cup Batch(p)
<1>1. ASSUME NEW i \in 1..Len(updates[p])
      PROVE  updates[p][i].op = "TOUCH"
  <2>1. updates[p] \in Seq(Update)
    BY DEF Batches
  <2>2. updates[p][i] \in Update
    BY <2>1
  <2> QED
    BY <2>2 DEF Update
<1> QED
  BY <1>1 DEF WriteRelationships, Applied, Batch

\* What is stored or about to be.
Known(p) == spicedb \cup Batch(p)

LEMMA BatchOfAppend ==
    ASSUME NEW p \in Procs, Batches, NEW rel,
           updates' = [updates EXCEPT ![p] = Append(@, Touch(rel))]
    PROVE  Batch(p)' = Batch(p) \cup {rel}
<1> DEFINE u == updates[p]
           v == updates'[p]
<1>1. u \in Seq(Update) /\ v = Append(u, Touch(rel))
  BY DEF Batches
<1>2. /\ Len(v) = Len(u) + 1 /\ Len(u) \in Nat
      /\ \A i \in 1..Len(u) : v[i] = u[i]
      /\ v[Len(u) + 1] = Touch(rel)
  BY <1>1
<1>3. Touch(rel).rel = rel
  BY DEF Touch
<1>4. Batch(p) = { u[i].rel : i \in 1..Len(u) }
  BY DEF Batch
<1>5. Batch(p)' = { v[i].rel : i \in 1..Len(v) }
  BY DEF Batch
<1> HIDE DEF u, v
<1>6. 1..Len(v) = (1..Len(u)) \cup {Len(u) + 1}
  BY <1>2
<1> QED
  BY <1>2, <1>3, <1>4, <1>5, <1>6

(***************************************************************************)
(* What each process is about: rows of its own query, and a current row of *)
(* the kind its next step needs; a process that is not there has nothing.  *)
(***************************************************************************)
Labels == {"idle", "next", "root", "ungrouped", "host", "system", "patch",
           "flush"}

RowInv ==
    /\ system_platform \subseteq SystemPlatform
    /\ system_package \subseteq SystemPackage
    /\ hosts \subseteq Hosts
    /\ rows \in [Procs -> SUBSET (HostRow \cup PackageRow)]
    /\ row \in [Procs -> HostRow \cup PackageRow \cup {NoRow}]
    /\ action \in [Procs -> {"none", "hosts", "packages"}]
    /\ orgUngrouped \in [Procs -> SUBSET Accounts]
    /\ pc \in [Procs -> Labels]
    /\ \A p \in Procs : Running(p) =>
         /\ \/ action[p] = "hosts" /\ rows[p] \subseteq HostRow
            \/ action[p] = "packages" /\ rows[p] \subseteq PackageRow
         /\ pc[p] \in {"root", "ungrouped", "host", "system"} =>
              row[p] \in HostRow
         /\ pc[p] = "patch" => row[p] \in PackageRow
    /\ \A p \in Procs :
         ~Running(p) => orgUngrouped[p] = {} /\ updates[p] = <<>>

\* A step of one process leaves the other processes alone.
OthersAlone(p) ==
    \A q \in Procs : q # p =>
       /\ pc'[q] = pc[q] /\ updates'[q] = updates[q] /\ row'[q] = row[q]
       /\ rows'[q] = rows[q] /\ action'[q] = action[q]
       /\ orgUngrouped'[q] = orgUngrouped[q]

\* The end of a migration, with whatever result.
LEMMA ReturnEffect ==
    ASSUME RowInv, Batches, NEW p \in Procs, NEW res, Return(p, res),
           UNCHANGED tables
    PROVE  /\ RowInv' /\ Batches' /\ OthersAlone(p)
           /\ pc' = [pc EXCEPT ![p] = "idle"] /\ pc'[p] = "idle"
           /\ updates'[p] = <<>>
<1>1. /\ pc' = [pc EXCEPT ![p] = "idle"]
      /\ action' = [action EXCEPT ![p] = "none"]
      /\ rows' = [rows EXCEPT ![p] = {}]
      /\ row' = [row EXCEPT ![p] = NoRow]
      /\ orgUngrouped' = [orgUngrouped EXCEPT ![p] = {}]
      /\ updates' = [updates EXCEPT ![p] = <<>>]
  BY DEF Return, Goto
<1>2. /\ OthersAlone(p) /\ pc'[p] = "idle"
      /\ updates'[p] = <<>> /\ orgUngrouped'[p] = {}
  BY <1>1 DEF OthersAlone, RowInv, Batches
<1>3. Batches'
  <2>1. Len(<<>>) = 0 /\ 0 <= maxBatchSize /\ <<>> \in Seq(Update)
    BY BatchAssumption
  <2> QED
    BY <1>1, <2>1 DEF Batches
<1>4. RowInv'
  <2>1. /\ rows' \in [Procs -> SUBSET (HostRow \cup PackageRow)]
        /\ row' \in [Procs -> HostRow \cup PackageRow \cup {NoRow}]
        /\ action' \in [Procs -> {"none", "hosts", "packages"}]
        /\ orgUngrouped' \in [Procs -> SUBSET Accounts]
        /\ pc' \in [Procs -> Labels]
    BY <1>1 DEF RowInv, Labels
  <2> QED
    BY <1>2, <2>1 DEF RowInv, OthersAlone, Running, tables
<1> QED
  BY <1>1, <1>2, <1>3, <1>4

(***************************************************************************)
(* What a call of addUpdate does to the relationships: the batch may get   *)
(* stored, and unless the migration ends, the new one becomes known.       *)
(***************************************************************************)
LEMMA AddUpdateEffect ==
    ASSUME RowInv, Batches, NEW p \in Procs, Running(p),
           NEW rel \in Relationships,
           NEW next \in {"next", "ungrouped", "host", "system"},
           next # "next" => row[p] \in HostRow,
           NEW finished, NEW orgs \in SUBSET Accounts,
           addUpdate(p, rel, next, finished, orgs), UNCHANGED tables
    PROVE  /\ RowInv' /\ Batches' /\ OthersAlone(p)
           /\ spicedb' \in {spicedb, Known(p)}
           /\ \/ /\ pc'[p] = next /\ Known(p)' = Known(p) \cup {rel}
                 /\ row' = row /\ rows' = rows /\ result' = result
                 /\ orgUngrouped'[p] = orgUngrouped[p] \cup orgs
                 /\ read' = [read EXCEPT ![p] = @ \cup finished]
              \/ pc'[p] = "idle" /\ Return(p, "error")
<1>0. Touch(rel) \in Update
  BY DEF Touch, Update
<1>1. /\ updates \in [Procs -> Seq(Update)]
      /\ Len(updates[p]) \in Nat
      /\ next \in Labels \ {"idle"}
  BY DEF Batches, Labels
<1>2. ASSUME Added(p, next, finished, orgs),
             NEW u \in Seq(Update), Len(u) <= maxBatchSize,
             updates' = [updates EXCEPT ![p] = u]
      PROVE  /\ RowInv' /\ Batches' /\ OthersAlone(p) /\ pc'[p] = next
             /\ row' = row /\ rows' = rows /\ result' = result
             /\ orgUngrouped'[p] = orgUngrouped[p] \cup orgs
             /\ read' = [read EXCEPT ![p] = @ \cup finished]
  <2>1. /\ pc' = [pc EXCEPT ![p] = next]
        /\ orgUngrouped' = [orgUngrouped EXCEPT ![p] = @ \cup orgs]
        /\ read' = [read EXCEPT ![p] = @ \cup finished]
        /\ UNCHANGED <<action, rows, row, result>>
    BY <1>2 DEF Added, Goto
  <2>2. OthersAlone(p) /\ pc'[p] = next
    BY <1>2, <2>1 DEF OthersAlone, RowInv, Batches
  <2>3. Batches'
    BY <1>1, <1>2 DEF Batches
  <2>4. /\ pc' \in [Procs -> Labels]
        /\ orgUngrouped' \in [Procs -> SUBSET Accounts]
        /\ orgUngrouped'[p] = orgUngrouped[p] \cup orgs
    BY <1>1, <2>1 DEF RowInv
  <2>5. RowInv'
    BY <2>1, <2>2, <2>4 DEF RowInv, OthersAlone, Running, tables
  <2> QED
    BY <2>1, <2>2, <2>3, <2>4, <2>5
<1>3. CASE Fits(p) /\ Appended(p, rel) /\ Added(p, next, finished, orgs)
  <2>1. /\ updates' = [updates EXCEPT ![p] = Append(@, Touch(rel))]
        /\ spicedb' = spicedb
    BY <1>3 DEF Appended, NotStored
  <2>2. Batch(p)' = Batch(p) \cup {rel}
    BY <2>1, BatchOfAppend
  <2>3. /\ Append(updates[p], Touch(rel)) \in Seq(Update)
        /\ Len(Append(updates[p], Touch(rel))) <= maxBatchSize
    BY <1>0, <1>1, <1>3, BatchAssumption DEF Fits
  <2>4. updates' = [updates EXCEPT ![p] = Append(updates[p], Touch(rel))]
    BY <1>1, <2>1
  <2> QED
    BY <1>2, <1>3, <2>1, <2>2, <2>3, <2>4 DEF Known
<1>4. CASE Stored(p) /\ NewBatch(p, rel) /\ Added(p, next, finished, orgs)
  <2>1. /\ updates' = [updates EXCEPT ![p] = <<Touch(rel)>>]
        /\ spicedb' = Known(p)
    BY <1>4, TouchOnly DEF NewBatch, Stored, Known
  <2>2. Batch(p)' = {rel}
    BY <1>1, <2>1 DEF Batch, Touch
  <2>3. <<Touch(rel)>> \in Seq(Update) /\ Len(<<Touch(rel)>>) <= maxBatchSize
    BY <1>0, BatchAssumption
  <2> QED
    BY <1>2, <1>4, <2>1, <2>2, <2>3 DEF Known
<1>5. CASE (Stored(p) \/ NotStored) /\ Return(p, "error")
  <2>1. spicedb' \in {spicedb, Known(p)}
    BY <1>5, TouchOnly DEF Stored, NotStored, Known
  <2> QED
    BY <1>5, <2>1, ReturnEffect
<1> QED
  BY <1>3, <1>4, <1>5 DEF addUpdate

-----------------------------------------------------------------------------
(* The steps of a process                                                  *)

LEMMA RelationshipsTyped ==
    /\ \A r \in HostRow :
         /\ RootParent(r.org) \in Relationships
         /\ UngroupedParent(r.org) \in Relationships
         /\ HostWorkspace(r.host, r.org) \in Relationships
         /\ SystemHost(r.system, r.host) \in Relationships
         /\ r.org \in Accounts
    /\ \A r \in PackageRow : PatchSystem(r.name, r.system) \in Relationships
BY DEF HostRow, PackageRow, Relationships

(***************************************************************************)
(* What a step does to its process and to SpiceDB: it begins a migration,  *)
(* takes a row, finds that there are no more, adds a relationship or ends. *)
(***************************************************************************)
Begins(p) ==
    /\ ~Running(p) /\ pc'[p] = "next"
    /\ \E a \in Actions :
         rows'[p] = IF a = "hosts" THEN HostRows ELSE PackageRows
    /\ orgUngrouped[p] = {} /\ updates[p] = <<>>
    /\ read' = [read EXCEPT ![p] = {}]
    /\ result' = [result EXCEPT ![p] = "none"]
    /\ UNCHANGED <<spicedb, orgUngrouped, updates>>

Takes(p) ==
    /\ pc[p] = "next"
    /\ row'[p] \in rows[p] /\ rows'[p] \subseteq rows[p]
    /\ \/ pc'[p] \in {"patch", "root"}
       \/ pc'[p] = "host" /\ row'[p].org \in orgUngrouped[p]
    /\ UNCHANGED <<spicedb, orgUngrouped, updates, read, result>>

Drains(p) ==
    /\ pc[p] = "next" /\ pc'[p] = "flush"
    /\ UNCHANGED <<spicedb, row, rows, orgUngrouped, updates, read, result>>

Adds(p, l, rel, next, finished, orgs) ==
    /\ pc[p] = l /\ pc'[p] = next
    /\ spicedb' \in {spicedb, Known(p)}
    /\ Known(p)' = Known(p) \cup {rel}
    /\ orgUngrouped'[p] = orgUngrouped[p] \cup orgs
    /\ read' = [read EXCEPT ![p] = @ \cup finished]
    /\ UNCHANGED <<row, rows, result>>

AddsOne(p) ==
    \/ Adds(p, "root", RootParent(row[p].org), "ungrouped", {}, {})
    \/ Adds(p, "ungrouped", UngroupedParent(row[p].org), "host", {},
            {row[p].org})
    \/ Adds(p, "host", HostWorkspace(row[p].host, row[p].org), "system", {}, {})
    \/ Adds(p, "system", SystemHost(row[p].system, row[p].host), "next",
            {row[p]}, {})
    \/ Adds(p, "patch", PatchSystem(row[p].name, row[p].system), "next",
            {row[p]}, {})

Ends(p) ==
    /\ pc'[p] = "idle"
    /\ spicedb' \in {spicedb, Known(p)}
    /\ spicedb' # spicedb => Running(p)
    /\ \E res \in {"nil", "error", "crashed"} :
         /\ result' = [result EXCEPT ![p] = res]
         /\ read' = [read EXCEPT ![p] = IF res = "nil" THEN @ ELSE {}]
         /\ res = "nil" => Running(p) /\ spicedb' = Known(p)

\* A call of addUpdate adds its relationship or ends the migration.
LEMMA AddEffect ==
    ASSUME RowInv, Batches, NEW p \in Procs, NEW l \in Labels \ {"idle"},
           pc[p] = l, NEW rel \in Relationships,
           NEW next \in {"next", "ungrouped", "host", "system"},
           next # "next" => row[p] \in HostRow,
           NEW finished, NEW orgs \in SUBSET Accounts,
           addUpdate(p, rel, next, finished, orgs), UNCHANGED tables
    PROVE  /\ RowInv' /\ Batches' /\ OthersAlone(p)
           /\ Adds(p, l, rel, next, finished, orgs) \/ Ends(p)
<1>1. Running(p)
  BY DEF Running
<1>2. /\ RowInv' /\ Batches' /\ OthersAlone(p)
      /\ spicedb' \in {spicedb, Known(p)}
      /\ \/ /\ pc'[p] = next /\ Known(p)' = Known(p) \cup {rel}
            /\ row' = row /\ rows' = rows /\ result' = result
            /\ orgUngrouped'[p] = orgUngrouped[p] \cup orgs
            /\ read' = [read EXCEPT ![p] = @ \cup finished]
         \/ pc'[p] = "idle" /\ Return(p, "error")
  BY <1>1, AddUpdateEffect
<1>3. CASE pc'[p] = "idle" /\ Return(p, "error")
  BY <1>1, <1>2, <1>3 DEF Ends, Return
<1> QED
  BY <1>2, <1>3 DEF Adds

LEMMA BeginsEffect ==
    ASSUME RowInv, Batches, NEW p \in Procs, Start(p), Goto(p, "next")
    PROVE  RowInv' /\ Batches' /\ OthersAlone(p) /\ Begins(p)
<1>1. /\ UNCHANGED <<tables, spicedb, row, orgUngrouped, updates>>
      /\ read' = [read EXCEPT ![p] = {}]
      /\ result' = [result EXCEPT ![p] = "none"] /\ ~Running(p)
  <2>1. "next" # "idle"
    OBVIOUS
  <2> QED
    BY <2>1 DEF Start, Return, Goto, RowInv
<1>2. PICK a \in Actions :
        /\ action' = [action EXCEPT ![p] = a]
        /\ rows' = [rows EXCEPT ![p] =
                      IF a = "hosts" THEN HostRows ELSE PackageRows]
  BY DEF Start, Return, Goto, RowInv
<1>3. a \in {"hosts", "packages"}
  BY BatchAssumption
<1>4. HostRows \subseteq HostRow
  BY DEF RowInv, HostRows, HostRow, SystemPlatform
<1>5. PackageRows \subseteq PackageRow
  BY NameOfAssumption
  DEF RowInv, PackageRows, PackageRow, SystemPackage, PackageKey
<1>6. /\ rows' \in [Procs -> SUBSET (HostRow \cup PackageRow)]
      /\ action' \in [Procs -> {"none", "hosts", "packages"}]
      /\ pc' \in [Procs -> Labels] /\ pc'[p] = "next"
  BY <1>2, <1>3, <1>4, <1>5 DEF RowInv, Goto, Labels
<1>7. ASSUME NEW q \in Procs, q # p
      PROVE  pc'[q] = pc[q] /\ rows'[q] = rows[q] /\ action'[q] = action[q]
  BY <1>2, <1>7 DEF RowInv, Goto
<1>8. /\ rows'[p] = IF a = "hosts" THEN HostRows ELSE PackageRows
      /\ \/ action'[p] = "hosts" /\ rows'[p] \subseteq HostRow
         \/ action'[p] = "packages" /\ rows'[p] \subseteq PackageRow
  BY <1>2, <1>3, <1>4, <1>5 DEF RowInv
<1>9. RowInv'
  BY <1>1, <1>6, <1>7, <1>8 DEF RowInv, Running, tables
<1>10. Batches' /\ OthersAlone(p)
  BY <1>1, <1>7 DEF Batches, OthersAlone
<1>11. Begins(p)
  BY <1>1, <1>6, <1>8 DEF Begins, RowInv
<1> QED
  BY <1>9, <1>10, <1>11

LEMMA TakesEffect ==
    ASSUME RowInv, Batches, NEW p \in Procs, NextRow(p)
    PROVE  RowInv' /\ Batches' /\ OthersAlone(p) /\ Takes(p)
<1>1. PICK r \in rows[p] :
        /\ row' = [row EXCEPT ![p] = r]
        /\ rows' = [rows EXCEPT ![p] = @ \ {r}]
        /\ \/ action[p] = "packages" /\ Goto(p, "patch")
           \/ /\ action[p] = "hosts" /\ r.org \in orgUngrouped[p]
              /\ Goto(p, "host")
           \/ action[p] = "hosts" /\ Goto(p, "root")
  BY DEF NextRow
<1>2. /\ UNCHANGED <<tables, spicedb, action, orgUngrouped, updates, read,
                     result>>
      /\ Running(p) /\ pc[p] = "next"
  BY DEF NextRow, Running
<1>3. \/ action[p] = "hosts" /\ r \in HostRow /\ rows[p] \subseteq HostRow
      \/ /\ action[p] = "packages" /\ r \in PackageRow
         /\ rows[p] \subseteq PackageRow
  BY <1>2 DEF RowInv
<1>4. \/ /\ action[p] = "packages"
         /\ pc' = [pc EXCEPT ![p] = "patch"]
      \/ /\ action[p] = "hosts" /\ r.org \in orgUngrouped[p]
         /\ pc' = [pc EXCEPT ![p] = "host"]
      \/ /\ action[p] = "hosts"
         /\ pc' = [pc EXCEPT ![p] = "root"]
  BY <1>1 DEF Goto
<1>5. /\ rows' \in [Procs -> SUBSET (HostRow \cup PackageRow)]
      /\ row' \in [Procs -> HostRow \cup PackageRow \cup {NoRow}]
  BY <1>1, <1>3 DEF RowInv
<1>6. pc' \in [Procs -> Labels]
  BY <1>4 DEF RowInv, Labels
<1>7. ASSUME NEW q \in Procs, pc'[q] # "idle"
      PROVE  /\ \/ action'[q] = "hosts" /\ rows'[q] \subseteq HostRow
                \/ action'[q] = "packages" /\ rows'[q] \subseteq PackageRow
             /\ pc'[q] \in {"root", "ungrouped", "host", "system"} =>
                  row'[q] \in HostRow
             /\ pc'[q] = "patch" => row'[q] \in PackageRow
  <2>1. CASE q = p
    BY <1>1, <1>2, <1>3, <1>4, <2>1 DEF RowInv
  <2>2. CASE q # p
    BY <1>1, <1>2, <1>4, <1>7, <2>2 DEF RowInv, Running
  <2> QED
    BY <2>1, <2>2
<1>8. ASSUME NEW q \in Procs, pc'[q] = "idle"
      PROVE  orgUngrouped'[q] = {} /\ updates'[q] = <<>>
  BY <1>2, <1>4, <1>8 DEF RowInv, Running
<1>9. RowInv'
  BY <1>2, <1>5, <1>6, <1>7, <1>8 DEF RowInv, Running, tables
<1>10. Batches' /\ OthersAlone(p)
  BY <1>1, <1>2, <1>4 DEF Batches, OthersAlone, RowInv
<1>11. Takes(p)
  BY <1>1, <1>2, <1>4 DEF Takes, RowInv
<1> QED
  BY <1>9, <1>10, <1>11

LEMMA DrainsEffect ==
    ASSUME RowInv, Batches, NEW p \in Procs, EndOfRows(p)
    PROVE  RowInv' /\ Batches' /\ OthersAlone(p) /\ Drains(p)
<1>1. /\ pc' = [pc EXCEPT ![p] = "flush"] /\ pc[p] = "next"
      /\ UNCHANGED <<tables, spicedb, action, rows, row, orgUngrouped, updates,
                     read, result>>
  BY DEF EndOfRows, Goto
<1>2. pc' \in [Procs -> Labels] /\ Running(p)
  BY <1>1 DEF RowInv, Labels, Running
<1>3. /\ pc'[p] = "flush" /\ \A q \in Procs : q # p => pc'[q] = pc[q]
  BY <1>1 DEF RowInv
<1> QED
  BY <1>1, <1>2, <1>3 DEF RowInv, Batches, Running, tables, OthersAlone, Drains

LEMMA StepEffect ==
    ASSUME RowInv, Batches, NEW p \in Procs, Start(p) \/ Step(p) \/ Crash(p)
    PROVE  /\ RowInv' /\ Batches' /\ OthersAlone(p) /\ UNCHANGED tables
           /\ Begins(p) \/ Takes(p) \/ Drains(p) \/ AddsOne(p) \/ Ends(p)
<1>1. UNCHANGED tables
  BY DEF Start, Step, Crash, NextRow, AddRoot, AddUngrouped, AddHost,
         AddSystem, AddPatch, EndOfRows, BadRow, FinalFlush
<1>2. /\ pc[p] \in {"root", "ungrouped", "host", "system"} => row[p] \in HostRow
      /\ pc[p] = "patch" => row[p] \in PackageRow
  BY DEF RowInv, Running
<1>3. CASE AddRoot(p)
  <2>1. RootParent(row[p].org) \in Relationships /\ row[p] \in HostRow
    BY <1>2, <1>3, RelationshipsTyped DEF AddRoot
  <2> QED
    BY <1>1, <1>3, <2>1, AddEffect DEF AddRoot, AddsOne, Labels
<1>4. CASE AddUngrouped(p)
  <2>1. /\ UngroupedParent(row[p].org) \in Relationships /\ row[p] \in HostRow
        /\ {row[p].org} \in SUBSET Accounts
    BY <1>2, <1>4, RelationshipsTyped DEF AddUngrouped
  <2> QED
    BY <1>1, <1>4, <2>1, AddEffect DEF AddUngrouped, AddsOne, Labels
<1>5. CASE AddHost(p)
  <2>1. /\ HostWorkspace(row[p].host, row[p].org) \in Relationships
        /\ row[p] \in HostRow
    BY <1>2, <1>5, RelationshipsTyped DEF AddHost
  <2> QED
    BY <1>1, <1>5, <2>1, AddEffect DEF AddHost, AddsOne, Labels
<1>6. CASE AddSystem(p)
  <2>1. SystemHost(row[p].system, row[p].host) \in Relationships
    BY <1>2, <1>6, RelationshipsTyped DEF AddSystem
  <2> QED
    BY <1>1, <1>6, <2>1, AddEffect DEF AddSystem, AddsOne, Labels
<1>7. CASE AddPatch(p)
  <2>1. PatchSystem(row[p].name, row[p].system) \in Relationships
    BY <1>2, <1>7, RelationshipsTyped DEF AddPatch
  <2> QED
    BY <1>1, <1>7, <2>1, AddEffect DEF AddPatch, AddsOne, Labels
<1>8. ASSUME NEW res \in {"nil", "error", "crashed"}, Return(p, res),
             spicedb' \in {spicedb, Known(p)}, spicedb' # spicedb => Running(p),
             res = "nil" => Running(p) /\ spicedb' = Known(p)
      PROVE  RowInv' /\ Batches' /\ OthersAlone(p) /\ Ends(p)
  BY <1>1, <1>8, ReturnEffect DEF Ends, Return
<1>9. CASE (Start(p) /\ Return(p, "error")) \/ BadRow(p) \/ Crash(p)
  BY <1>8, <1>9 DEF Start, BadRow, Crash
<1>10. CASE FinalFlush(p)
  <2>1. /\ Running(p)
        /\ Stored(p) => spicedb' = Known(p)
        /\ NotStored => spicedb' = spicedb
    BY <1>10, TouchOnly DEF FinalFlush, Running, Stored, NotStored, Known
  <2> QED
    BY <1>8, <1>10, <2>1 DEF FinalFlush
<1>11. Start(p) => Goto(p, "next") \/ Return(p, "error")
  BY DEF Start
<1> QED
  BY <1>1, <1>3, <1>4, <1>5, <1>6, <1>7, <1>9, <1>10, <1>11, BeginsEffect,
     TakesEffect, DrainsEffect DEF Step

-----------------------------------------------------------------------------
(* The invariant                                                           *)

(***************************************************************************)
(* A batch, together with what is stored, is closed as well, and contains  *)
(* what the next relationship of its process hangs on.                     *)
(***************************************************************************)
Supported(p) ==
    /\ Closed(Known(p))
    /\ \A org \in orgUngrouped[p] : UngroupedParent(org) \in Known(p)
    /\ pc[p] = "ungrouped" => RootParent(row[p].org) \in Known(p)
    /\ pc[p] = "host" => UngroupedParent(row[p].org) \in Known(p)
    /\ pc[p] = "system" => HostWorkspace(row[p].host, row[p].org) \in Known(p)

HierarchyInv ==
    /\ Closed(spicedb)
    /\ \A p \in Procs : Running(p) => Supported(p)

MigrationInv == RowInv /\ Batches /\ HierarchyInv

LEMMA MigrationInit == Init => MigrationInv
<1> SUFFICES ASSUME Init PROVE MigrationInv
  OBVIOUS
<1>1. RowInv
  BY TableAssumption DEF Init, RowInv, Running, Labels
<1>2. Batches
  <2>1. updates \in [Procs -> Seq(Update)] /\ \A p \in Procs : Len(updates[p]) = 0
    BY DEF Init
  <2> QED
    BY <2>1, BatchAssumption DEF Batches
<1>3. Closed(spicedb) /\ \A p \in Procs : ~Running(p)
  BY DEF Init, Closed, Running
<1> QED
  BY <1>1, <1>2, <1>3 DEF MigrationInv, HierarchyInv

\* Another process keeps its support whatever a process stores.
LEMMA OthersSupported ==
    ASSUME MigrationInv, NEW p \in Procs, NEW q \in Procs, q # p,
           OthersAlone(p), spicedb' \in {spicedb, Known(p)},
           spicedb' # spicedb => Running(p), Running(q)'
    PROVE  Supported(q)'
<1>1. Running(q) /\ Supported(q)
  BY DEF OthersAlone, Running, MigrationInv, HierarchyInv
<1>2. Batch(q)' = Batch(q)
  BY DEF OthersAlone, Batch
<1>3. Known(q)' = Known(q) \/ (Running(p) /\ Known(q)' = Known(q) \cup Known(p))
  BY <1>2 DEF Known
<1>4. Closed(Known(q)')
  BY <1>1, <1>3, ClosedUnion DEF MigrationInv, HierarchyInv, Supported
<1>5. Known(q) \subseteq Known(q)'
  BY <1>3
<1> QED
  BY <1>1, <1>4, <1>5 DEF Supported, OthersAlone

(***************************************************************************)
(* The relationship a step adds is supported, so everything stays closed,  *)
(* and it is what the next step hangs on.                                  *)
(***************************************************************************)
LEMMA OwnSupported ==
    ASSUME MigrationInv, NEW p \in Procs,
           Begins(p) \/ Takes(p) \/ Drains(p) \/ AddsOne(p)
    PROVE  Supported(p)'
<1>0. Running(p) => Supported(p) /\ Closed(Known(p))
  BY DEF MigrationInv, HierarchyInv, Supported
<1>1. CASE Begins(p)
  <2>1. Known(p)' = spicedb
    BY <1>1 DEF Begins, Known, Batch
  <2> QED
    BY <1>1, <2>1 DEF Begins, Supported, MigrationInv, HierarchyInv
<1>2. CASE Takes(p)
  <2>1. Known(p)' = Known(p)
    BY <1>2 DEF Takes, Known, Batch
  <2> QED
    BY <1>0, <1>2, <2>1 DEF Takes, Supported, Running
<1>3. CASE Drains(p)
  <2>1. Known(p)' = Known(p)
    BY <1>3 DEF Drains, Known, Batch
  <2> QED
    BY <1>0, <1>3, <2>1 DEF Drains, Supported, Running
<1>4. CASE AddsOne(p)
  <2>1. /\ pc[p] \in {"root", "ungrouped", "host", "system", "patch"}
        /\ row' = row
    BY <1>4 DEF AddsOne, Adds
  <2>2. Supported(p) /\ Running(p)
    BY <1>0, <2>1 DEF Running
  <2>3. pc[p] = "system" => row[p].org \in Accounts
    BY <2>2 DEF MigrationInv, RowInv, HostRow
  <2>4. Closed(Known(p)')
    BY <1>4, <2>2, <2>3, ClosedAdd DEF AddsOne, Adds, Supported
  <2>5. Known(p) \subseteq Known(p)'
    BY <1>4 DEF AddsOne, Adds
  <2> QED
    BY <1>4, <2>1, <2>2, <2>4, <2>5 DEF AddsOne, Adds, Supported
<1> QED
  BY <1>1, <1>2, <1>3, <1>4

LEMMA MigrationStep ==
    ASSUME MigrationInv, NEW p \in Procs, Start(p) \/ Step(p) \/ Crash(p)
    PROVE  MigrationInv'
<1>1. /\ RowInv' /\ Batches' /\ OthersAlone(p)
      /\ Begins(p) \/ Takes(p) \/ Drains(p) \/ AddsOne(p) \/ Ends(p)
  BY StepEffect DEF MigrationInv
<1>2. /\ spicedb' \in {spicedb, Known(p)}
      /\ spicedb' # spicedb => Running(p)
  BY <1>1 DEF Begins, Takes, Drains, AddsOne, Adds, Ends, Running
<1>3. Closed(spicedb')
  BY <1>2 DEF MigrationInv, HierarchyInv, Supported
<1>4. Ends(p) => ~Running(p)'
  BY DEF Ends, Running
<1> QED
  BY <1>1, <1>2, <1>3, <1>4, OthersSupported, OwnSupported
  DEF MigrationInv, HierarchyInv

LEMMA MigrationNext == MigrationInv /\ [Next]_vars => MigrationInv'
<1>1. MigrationInv /\ Next => MigrationInv'
  BY MigrationStep DEF Next
<1>2. MigrationInv /\ UNCHANGED vars => MigrationInv'
  <2> SUFFICES ASSUME MigrationInv, UNCHANGED vars PROVE MigrationInv'
    OBVIOUS
  <2>1. \A p \in Procs : Known(p)' = Known(p)
    BY DEF vars, Known, Batch
  <2> QED
    BY <2>1 DEF MigrationInv, RowInv, Batches, HierarchyInv, Supported, Running,
                vars, tables
<1> QED
  BY <1>1, <1>2

(***************************************************************************)
(* Whatever the batch size, the tables, the failures and the number of     *)
(* migrations that run at once or are killed: SpiceDB never holds a host   *)
(* or a system detached from its organization.                             *)
(***************************************************************************)
THEOREM HierarchyCorrect == Spec => []HierarchyClosed
<1>1. MigrationInv => HierarchyClosed
  BY DEF MigrationInv, HierarchyInv, HierarchyClosed
<1> QED
  BY <1>1, MigrationInit, MigrationNext, PTL DEF Spec

-----------------------------------------------------------------------------
(* Completeness                                                            *)

(***************************************************************************)
(* The rows a process has read are known while it runs and stored once it  *)
(* has returned nil.                                                       *)
(***************************************************************************)
ReadKnown(p) ==
    /\ Running(p) =>
         /\ result[p] = "none"
         /\ \A r \in read[p] : RelationsOf(r) \subseteq Known(p)
    /\ result[p] = "nil" => \A r \in read[p] : RelationsOf(r) \subseteq spicedb

ReadInv ==
    /\ read \in [Procs -> SUBSET (HostRow \cup PackageRow)]
    /\ result \in [Procs -> {"none", "nil", "error", "crashed"}]
    /\ \A p \in Procs : ReadKnown(p)

\* A row with a package key is not one of the host query.
LEMMA RelationsOfPackage ==
    \A r \in PackageRow : RelationsOf(r) = {PatchSystem(r.name, r.system)}
<1> SUFFICES ASSUME NEW r \in PackageRow
             PROVE  RelationsOf(r) = {PatchSystem(r.name, r.system)}
  OBVIOUS
<1>1. "key" \in DOMAIN r
  BY DEF PackageRow
<1>2. \A h \in HostRow : "key" \notin DOMAIN h
  BY DEF HostRow
<1> QED
  BY <1>1, <1>2 DEF RelationsOf

\* A placed host and its system complete a row of the host query.
LEMMA RelationsOfHost ==
    ASSUME NEW r \in HostRow, NEW S, Closed(S),
           HostWorkspace(r.host, r.org) \in S
    PROVE  RelationsOf(r) \subseteq S \cup {SystemHost(r.system, r.host)}
<1>1. r.host \in Hosts /\ r.org \in Accounts
  BY DEF HostRow
<1>2. UngroupedParent(r.org) \in S
  BY <1>1 DEF Closed
<1>3. RootParent(r.org) \in S
  BY <1>1, <1>2 DEF Closed
<1> QED
  BY <1>2, <1>3 DEF RelationsOf

(***************************************************************************)
(* A step of one process that removes nothing from SpiceDB leaves what the *)
(* other processes have read known.                                        *)
(***************************************************************************)
LEMMA ReadStep ==
    ASSUME ReadInv, NEW p \in Procs, spicedb \subseteq spicedb',
           read' \in [Procs -> SUBSET (HostRow \cup PackageRow)],
           result' \in [Procs -> {"none", "nil", "error", "crashed"}],
           \A q \in Procs : q # p =>
              /\ pc'[q] = pc[q] /\ updates'[q] = updates[q]
              /\ read'[q] = read[q] /\ result'[q] = result[q],
           ReadKnown(p)'
    PROVE  ReadInv'
<1>1. ASSUME NEW q \in Procs, q # p PROVE ReadKnown(q)'
  <2>1. Batch(q)' = Batch(q) /\ (Running(q)' <=> Running(q))
    BY <1>1 DEF Batch, Running
  <2>2. Known(q) \subseteq Known(q)'
    BY <2>1 DEF Known
  <2> QED
    BY <1>1, <2>1, <2>2 DEF ReadInv, ReadKnown
<1> QED
  BY <1>1 DEF ReadInv

LEMMA ReadNext ==
    ASSUME MigrationInv, ReadInv, NEW p \in Procs,
           Start(p) \/ Step(p) \/ Crash(p)
    PROVE  ReadInv'
<1>0. /\ RowInv' /\ OthersAlone(p)
      /\ Begins(p) \/ Takes(p) \/ Drains(p) \/ AddsOne(p) \/ Ends(p)
      /\ Running(p) => Supported(p)
  BY StepEffect DEF MigrationInv, HierarchyInv
<1>1. spicedb \subseteq spicedb'
  BY <1>0 DEF Begins, Takes, Drains, AddsOne, Adds, Ends, Known
<1>2. CASE Begins(p)
  <2>1. ReadKnown(p)'
    BY <1>2 DEF Begins, ReadInv, ReadKnown, Running
  <2> QED
    BY <1>0, <1>1, <1>2, <2>1, ReadStep DEF Begins, ReadInv, OthersAlone
<1>3. CASE Takes(p) \/ Drains(p)
  <2>1. /\ pc[p] = "next" /\ UNCHANGED <<spicedb, updates, read, result>>
        /\ pc'[p] \in {"patch", "root", "host", "flush"}
    BY <1>3 DEF Takes, Drains
  <2>2. Known(p)' = Known(p)
    BY <2>1 DEF Known, Batch
  <2>3. ReadKnown(p)'
    BY <2>1, <2>2 DEF ReadInv, ReadKnown, Running
  <2> QED
    BY <1>0, <1>1, <2>1, <2>3, ReadStep DEF ReadInv, OthersAlone
<1>4. CASE AddsOne(p)
  <2>1. PICK rel, finished :
          /\ Known(p)' = Known(p) \cup {rel} /\ pc'[p] # "idle"
          /\ read' = [read EXCEPT ![p] = @ \cup finished]
          /\ UNCHANGED result /\ Running(p)
          /\ \/ finished = {}
             \/ /\ pc[p] = "system" /\ finished = {row[p]}
                /\ rel = SystemHost(row[p].system, row[p].host)
             \/ /\ pc[p] = "patch" /\ finished = {row[p]}
                /\ rel = PatchSystem(row[p].name, row[p].system)
    BY <1>4 DEF AddsOne, Adds, Running
  <2>2. /\ pc[p] = "system" => row[p] \in HostRow
        /\ pc[p] = "patch" => row[p] \in PackageRow
    BY DEF MigrationInv, RowInv, Running
  <2>3. \A r \in finished : RelationsOf(r) \subseteq Known(p)'
    <3>1. CASE pc[p] = "system"
      BY <1>0, <2>1, <2>2, <3>1, RelationsOfHost DEF Supported
    <3>2. CASE pc[p] = "patch"
      BY <2>1, <2>2, <3>2, RelationsOfPackage
    <3> QED
      BY <2>1, <3>1, <3>2
  <2>4. /\ finished \subseteq HostRow \cup PackageRow
        /\ result'[p] = "none" /\ read'[p] = read[p] \cup finished
    BY <2>1, <2>2 DEF ReadInv, ReadKnown
  <2>5. ReadKnown(p)'
    BY <2>1, <2>3, <2>4 DEF ReadInv, ReadKnown
  <2> QED
    BY <1>0, <1>1, <2>1, <2>4, <2>5, ReadStep DEF ReadInv, OthersAlone
<1>5. CASE Ends(p)
  <2>1. PICK res \in {"nil", "error", "crashed"} :
          /\ result' = [result EXCEPT ![p] = res]
          /\ read' = [read EXCEPT ![p] = IF res = "nil" THEN @ ELSE {}]
          /\ res = "nil" => Running(p) /\ spicedb' = Known(p)
    BY <1>5 DEF Ends
  <2>2. result'[p] = res /\ (res = "nil" => read'[p] = read[p])
    BY <2>1 DEF ReadInv
  <2>3. ReadKnown(p)'
    BY <1>5, <2>1, <2>2 DEF Ends, ReadInv, ReadKnown, Running
  <2> QED
    BY <1>0, <1>1, <2>1, <2>3, ReadStep DEF ReadInv, OthersAlone
<1> QED
  BY <1>0, <1>2, <1>3, <1>4, <1>5

(***************************************************************************)
(* A nil result is to be trusted: every row the migration got to see is in *)
(* SpiceDB then, whatever else ran or failed next to it, and stays there.  *)
(***************************************************************************)
THEOREM CompleteCorrect == Spec => []CompleteOnNil
<1>1. Init => ReadInv
  BY DEF Init, ReadInv, ReadKnown, Running
<1>2. MigrationInv /\ ReadInv /\ [Next]_vars => ReadInv'
  <2>1. MigrationInv /\ ReadInv /\ Next => ReadInv'
    BY ReadNext DEF Next
  <2>2. ReadInv /\ UNCHANGED vars => ReadInv'
    BY DEF ReadInv, ReadKnown, Running, Known, Batch, vars
  <2> QED
    BY <2>1, <2>2
<1>3. ReadInv => CompleteOnNil
  BY DEF ReadInv, ReadKnown, CompleteOnNil
<1> QED
  BY <1>1, <1>2, <1>3, MigrationInit, MigrationNext, PTL DEF Spec

-----------------------------------------------------------------------------
(* Types                                                                   *)

StoredInv == spicedb \subseteq Relationships

\* A step writes nothing but relationships of the five kinds.
LEMMA StoredTyped ==
    ASSUME MigrationInv, spicedb \subseteq Relationships, NEW p \in Procs,
           Start(p) \/ Step(p) \/ Crash(p)
    PROVE  spicedb' \subseteq Relationships
<1>1. Batch(p) \subseteq Relationships
  <2>1. updates[p] \in Seq(Update)
    BY DEF MigrationInv, Batches
  <2>2. ASSUME NEW i \in 1..Len(updates[p])
        PROVE  updates[p][i].rel \in Relationships
    <3>1. updates[p][i] \in Update
      BY <2>1
    <3> QED
      BY <3>1 DEF Update
  <2> QED
    BY <2>2 DEF Batch
<1>2. spicedb' \in {spicedb, Known(p)}
  BY StepEffect
  DEF MigrationInv, Begins, Takes, Drains, AddsOne, Adds, Ends
<1> QED
  BY <1>1, <1>2 DEF Known

(***************************************************************************)
(* Every process, batch and stored relationship has its type, whatever the *)
(* tables and the number of processes; a batch never outgrows the limit    *)
(* the code sets itself.                                                   *)
(***************************************************************************)
THEOREM TypeCorrect == Spec => []TypeOK
<1>1. Init => ReadInv /\ StoredInv
  BY DEF StoredInv, Init, ReadInv, ReadKnown, Running
<1>2. MigrationInv /\ ReadInv /\ StoredInv /\ [Next]_vars
        => ReadInv' /\ StoredInv'
  <2>1. MigrationInv /\ ReadInv /\ StoredInv /\ Next
          => ReadInv' /\ StoredInv'
    BY ReadNext, StoredTyped DEF Next, StoredInv
  <2>2. ReadInv /\ StoredInv /\ UNCHANGED vars => ReadInv' /\ StoredInv'
    BY DEF StoredInv, ReadInv, ReadKnown, Running, Known, Batch, vars
  <2> QED
    BY <2>1, <2>2
<1>3. MigrationInv /\ ReadInv /\ StoredInv => TypeOK
  BY DEF MigrationInv, RowInv, Batches, ReadInv, StoredInv, TypeOK, Labels
<1> QED
  BY <1>1, <1>2, <1>3, MigrationInit, MigrationNext, PTL DEF Spec

-----------------------------------------------------------------------------
(* The end of a migration: what of its liveness is a matter of steps       *)

\* Whatever its batch, addUpdate goes on to the next relationship or ends.
LEMMA AddMoves ==
    ASSUME RowInv, NEW p \in Procs, NEW rel, NEW next, NEW finished, NEW orgs,
           addUpdate(p, rel, next, finished, orgs)
    PROVE  \/ pc'[p] = next /\ rows'[p] = rows[p]
           \/ pc'[p] = "idle" /\ rows'[p] = {}
BY DEF addUpdate, Added, Return, Goto, RowInv

\* Where the steps of a migration lead.
LEMMA StepMoves ==
    ASSUME RowInv, NEW p \in Procs, Step(p)
    PROVE  \/ \E r \in rows[p] : rows'[p] = rows[p] \ {r}
           \/ pc[p] # "idle" /\ pc'[p] = "idle" /\ rows'[p] = {}
           \/ /\ rows'[p] = rows[p]
              /\ <<pc[p], pc'[p]>> \in
                   {<<"root", "ungrouped">>, <<"ungrouped", "host">>,
                    <<"host", "system">>, <<"system", "next">>,
                    <<"patch", "next">>, <<"next", "flush">>}
<1>1. CASE NextRow(p)
  <2>1. PICK r \in rows[p] : rows' = [rows EXCEPT ![p] = @ \ {r}]
    BY <1>1 DEF NextRow
  <2> QED
    BY <2>1 DEF RowInv
<1>2. CASE AddRoot(p)
  BY <1>2, AddMoves DEF AddRoot
<1>3. CASE AddUngrouped(p)
  BY <1>3, AddMoves DEF AddUngrouped
<1>4. CASE AddHost(p)
  BY <1>4, AddMoves DEF AddHost
<1>5. CASE AddSystem(p)
  BY <1>5, AddMoves DEF AddSystem
<1>6. CASE AddPatch(p)
  BY <1>6, AddMoves DEF AddPatch
<1>7. CASE EndOfRows(p)
  BY <1>7 DEF EndOfRows, Goto, RowInv
<1>8. CASE BadRow(p) \/ FinalFlush(p)
  BY <1>8 DEF BadRow, FinalFlush, Return, Goto, RowInv
<1> QED
  BY <1>1, <1>2, <1>3, <1>4, <1>5, <1>6, <1>7, <1>8 DEF Step

LEMMA AdvanceStep ==
    ASSUME RowInv, NEW p \in Procs, Step(p)
    PROVE  Nearer(p)
<1> DEFINE left(l) == StepsLeft[l]
<1>1. /\ left("root") = 6 /\ left("ungrouped") = 5 /\ left("host") = 4
      /\ left("system") = 3 /\ left("patch") = 3 /\ left("next") = 2
      /\ left("flush") = 1 /\ left("idle") = 0
  BY DEF StepsLeft
<1>2. Nearer(p) <=>
        \/ rows'[p] \subseteq rows[p] /\ rows'[p] # rows[p]
        \/ rows'[p] = rows[p] /\ left(pc'[p]) < left(pc[p])
  BY DEF Nearer
<1> HIDE DEF left
<1>3. ASSUME NEW r \in rows[p], rows'[p] = rows[p] \ {r}
      PROVE  Nearer(p)
  BY <1>2, <1>3
<1>4. CASE pc[p] # "idle" /\ pc'[p] = "idle" /\ rows'[p] = {}
  <2>1. left(pc[p]) > 0
    <3>1. pc[p] \in Labels \ {"idle"}
      BY <1>4 DEF RowInv
    <3> QED
      BY <1>1, <3>1 DEF Labels
  <2> QED
    BY <1>1, <1>2, <1>4, <2>1
<1>5. CASE /\ rows'[p] = rows[p]
           /\ <<pc[p], pc'[p]>> \in
                {<<"root", "ungrouped">>, <<"ungrouped", "host">>,
                 <<"host", "system">>, <<"system", "next">>,
                 <<"patch", "next">>, <<"next", "flush">>}
  <2>1. left(pc'[p]) < left(pc[p])
    BY <1>1, <1>5
  <2> QED
    BY <1>2, <1>5, <2>1
<1> QED
  BY <1>3, <1>4, <1>5, StepMoves

(***************************************************************************)
(* Every step of a migration brings it nearer to its end, for any tables,  *)
(* batches and failures, beside any other migrations: what                 *)
(* MigrationReturns owes to the code.                                      *)
(***************************************************************************)
THEOREM AdvancesCorrect == Spec => MigrationAdvances
<1> DEFINE Advances(p) == Step(p) => Nearer(p)
<1>1. MigrationInv => [\A p \in Procs : Advances(p)]_vars
  BY AdvanceStep DEF MigrationInv
<1> QED
  BY <1>1, MigrationInit, MigrationNext, PTL DEF Spec, MigrationAdvances

-----------------------------------------------------------------------------
(* Requests: why SpiceDB never refuses one of the host migration for what  *)
(* is in it                                                                *)

(***************************************************************************)
(* What the identity column id and UNIQUE (rh_account_id, inventory_id) of *)
(* system_platform give: neither an id nor a host of an account occurs     *)
(* twice.                                                                  *)
(***************************************************************************)
SystemsUnique ==
    \A x, y \in SeedPlatform :
        \/ x.ID = y.ID
        \/ x.RhAccountID = y.RhAccountID /\ x.InventoryID = y.InventoryID
        => x = y

\* The rows of the host query inherit both keys.
LEMMA RowsUnique ==
    ASSUME SystemsUnique, system_platform = SeedPlatform,
           NEW r \in HostRows, NEW t \in HostRows,
           \/ r.system = t.system
           \/ r.host = t.host /\ r.org = t.org
    PROVE  r = t
<1>1. PICK x \in SeedPlatform :
        r = [system |-> x.ID, host |-> x.InventoryID, org |-> x.RhAccountID]
  BY DEF HostRows
<1>2. PICK y \in SeedPlatform :
        t = [system |-> y.ID, host |-> y.InventoryID, org |-> y.RhAccountID]
  BY DEF HostRows
<1>3. x = y
  BY <1>1, <1>2 DEF SystemsUnique
<1> QED
  BY <1>1, <1>2, <1>3

-----------------------------------------------------------------------------
(* The invariant                                                           *)

\* Between rows.Next() and the last addUpdate of a row.
Open(p) == pc[p] \in {"root", "ungrouped", "host", "system"}

\* The rows a process has finished.
Past(p) == HostRows \ (rows[p] \cup {r \in {row[p]} : Open(p)})

\* The relationships that can be in the batch: those added so far.
Accounted(p, rel) ==
    \/ \E o \in orgUngrouped[p] : rel \in {RootParent(o), UngroupedParent(o)}
    \/ \E r \in Past(p) :
         rel \in {HostWorkspace(r.host, r.org), SystemHost(r.system, r.host)}
    \/ pc[p] = "ungrouped" /\ rel = RootParent(row[p].org)
    \/ pc[p] = "system" /\ rel = HostWorkspace(row[p].host, row[p].org)

Repeatless(p) ==
    \A i, j \in 1..Len(updates[p]) :
        updates[p][i].rel = updates[p][j].rel => i = j

HostInv(p) ==
    /\ rows[p] \subseteq HostRows
    /\ pc[p] # "patch"
    /\ Open(p) => row[p] \in HostRows /\ row[p] \notin rows[p]
    /\ pc[p] \in {"root", "ungrouped"} => row[p].org \notin orgUngrouped[p]
    /\ Repeatless(p)
    /\ \A rel \in Batch(p) : Accounted(p, rel)

RequestInv ==
    /\ system_platform = SeedPlatform
    /\ \A p \in Procs : action[p] = "hosts" => HostInv(p)

-----------------------------------------------------------------------------
(* addUpdate                                                               *)

\* A relationship that is not in the batch keeps it free of repetitions.
LEMMA AppendRepeatless ==
    ASSUME Batches, NEW p \in Procs, NEW rel, rel \notin Batch(p),
           Repeatless(p),
           updates' = [updates EXCEPT ![p] = Append(@, Touch(rel))]
    PROVE  Repeatless(p)'
<1> DEFINE u == updates[p]
           v == updates'[p]
<1>1. u \in Seq(Update) /\ v = Append(u, Touch(rel))
  BY DEF Batches
<1>2. /\ Len(v) = Len(u) + 1 /\ Len(u) \in Nat
      /\ \A i \in 1..Len(u) : v[i] = u[i]
      /\ v[Len(u) + 1] = Touch(rel)
  BY <1>1
<1>3. Touch(rel).rel = rel
  BY DEF Touch
<1>4. \A i \in 1..Len(u) : u[i].rel # rel
  BY DEF Batch
<1>5. \A i, j \in 1..Len(u) : u[i].rel = u[j].rel => i = j
  BY DEF Repeatless
<1> HIDE DEF u, v
<1>6. 1..Len(v) = (1..Len(u)) \cup {Len(u) + 1}
  BY <1>2
<1>7. \A i, j \in 1..Len(v) : v[i].rel = v[j].rel => i = j
  BY <1>2, <1>3, <1>4, <1>5, <1>6
<1> QED
  BY <1>7 DEF Repeatless, v

(***************************************************************************)
(* The batch after a call of addUpdate that does not end the migration: it *)
(* has the new relationship, and otherwise only what it had.               *)
(***************************************************************************)
LEMMA AddKeepsRepeatless ==
    ASSUME Batches, NEW p \in Procs, NEW rel, rel \notin Batch(p),
           Repeatless(p), NEW next, NEW finished, NEW orgs,
           addUpdate(p, rel, next, finished, orgs)
    PROVE  \/ /\ Added(p, next, finished, orgs)
              /\ Repeatless(p)' /\ Batch(p)' \subseteq Batch(p) \cup {rel}
           \/ Return(p, "error")
<1>1. CASE Appended(p, rel) /\ Added(p, next, finished, orgs)
  BY <1>1, AppendRepeatless, BatchOfAppend DEF Appended
<1>2. CASE NewBatch(p, rel) /\ Added(p, next, finished, orgs)
  <2>1. updates'[p] = <<Touch(rel)>>
    BY <1>2 DEF NewBatch, Batches
  <2>2. Len(<<Touch(rel)>>) = 1 /\ <<Touch(rel)>>[1] = Touch(rel)
    OBVIOUS
  <2>3. Repeatless(p)'
    BY <2>1, <2>2 DEF Repeatless
  <2>4. Batch(p)' = {rel}
    BY <2>1, <2>2 DEF Batch, Touch
  <2> QED
    BY <1>2, <2>3, <2>4
<1> QED
  BY <1>1, <1>2 DEF addUpdate

-----------------------------------------------------------------------------
(* The steps                                                               *)

\* The roots of two organizations differ.
LEMMA RootInjective ==
    \A o, q : RootParent(o) = RootParent(q) => o = q
BY DEF RootParent, Rel, Root, Organization

\* A process that has ended promises nothing.
LEMMA EndedInv ==
    ASSUME NEW p \in Procs, NEW res, Return(p, res),
           action \in [Procs -> {"none", "hosts", "packages"}]
    PROVE  action'[p] # "hosts"
BY DEF Return

\* No step changes the tables, nor what another process holds.
LEMMA OthersKeepInv ==
    ASSUME NEW q \in Procs, HostInv(q), UNCHANGED tables,
           pc'[q] = pc[q], row'[q] = row[q], rows'[q] = rows[q],
           orgUngrouped'[q] = orgUngrouped[q], updates'[q] = updates[q]
    PROVE  HostInv(q)'
<1>1. HostRows' = HostRows
  BY DEF HostRows, tables
<1>2. Open(q)' = Open(q)
  BY DEF Open
<1>3. Past(q)' = Past(q)
  BY <1>1, <1>2 DEF Past
<1>4. Batch(q)' = Batch(q) /\ Repeatless(q)' = Repeatless(q)
  BY DEF Batch, Repeatless
<1>5. \A rel : Accounted(q, rel)' = Accounted(q, rel)
  BY <1>3 DEF Accounted
<1> QED
  BY <1>1, <1>2, <1>4, <1>5 DEF HostInv

(***************************************************************************)
(* A call of addUpdate with a relationship that was not accounted for and  *)
(* is afterwards.                                                          *)
(***************************************************************************)
LEMMA AddKeepsInv ==
    ASSUME RowInv, Batches, NEW p \in Procs, HostInv(p),
           NEW rel, NEW next \in {"next", "ungrouped", "host", "system"},
           NEW finished, NEW orgs \in SUBSET Accounts,
           addUpdate(p, rel, next, finished, orgs), UNCHANGED tables,
           Open(p), ~Accounted(p, rel),
           pc'[p] = next =>
              /\ Accounted(p, rel)'
              /\ \A x : Accounted(p, x) => Accounted(p, x)',
           next = "ungrouped" => orgs = {} /\ pc[p] = "root"
    PROVE  action'[p] = "hosts" => HostInv(p)'
<1>1. rel \notin Batch(p) /\ Repeatless(p)
  BY DEF HostInv
<1>2. CASE Return(p, "error")
  BY <1>2, EndedInv DEF RowInv
<1>3. CASE /\ Added(p, next, finished, orgs)
           /\ Repeatless(p)' /\ Batch(p)' \subseteq Batch(p) \cup {rel}
  <2>1. /\ pc'[p] = next /\ row' = row /\ rows' = rows
        /\ orgUngrouped'[p] = orgUngrouped[p] \cup orgs
    BY <1>3 DEF Added, Goto, RowInv
  <2>2. HostRows' = HostRows
    BY DEF HostRows, tables
  <2>3. \A x \in Batch(p)' : Accounted(p, x)'
    BY <1>3, <2>1 DEF HostInv
  <2>4. /\ rows'[p] \subseteq HostRows'
        /\ Open(p)' => row'[p] \in HostRows' /\ row'[p] \notin rows'[p]
    BY <2>1, <2>2 DEF HostInv, Open
  <2>5. pc'[p] \in {"root", "ungrouped"} => row'[p].org \notin orgUngrouped'[p]
    BY <2>1 DEF HostInv
  <2> QED
    BY <1>3, <2>1, <2>3, <2>4, <2>5 DEF HostInv
<1> QED
  BY <1>1, <1>2, <1>3, AddKeepsRepeatless

\* The rows of a process are finished one by one.
LEMMA PastStays ==
    ASSUME NEW p \in Procs, UNCHANGED tables, Open(p), Open(p)',
           row' = row, rows' = rows
    PROVE  Past(p)' = Past(p)
<1>1. HostRows' = HostRows
  BY DEF HostRows, tables
<1> QED
  BY <1>1 DEF Past

\* Nothing is accounted for twice: the four relationships of a row.
LEMMA AddRootInv ==
    ASSUME RowInv, Batches, NEW p \in Procs, HostInv(p), AddRoot(p)
    PROVE  action'[p] = "hosts" => HostInv(p)'
<1>0. PICK rel : rel = RootParent(row[p].org)
  OBVIOUS
<1>1. pc[p] = "root" /\ UNCHANGED tables /\ Open(p)
  BY DEF AddRoot, Open
<1>2. addUpdate(p, rel, "ungrouped", {}, {})
  BY <1>0 DEF AddRoot
<1>3. ~Accounted(p, rel)
  BY <1>0, <1>1, Distinct, RootInjective DEF Accounted, HostInv
<1>4. ASSUME pc'[p] = "ungrouped"
      PROVE  Accounted(p, rel)' /\ \A x : Accounted(p, x) => Accounted(p, x)'
  <2>1. row' = row /\ rows' = rows /\ orgUngrouped' = orgUngrouped
    <3>1. ~Return(p, "error")
      BY <1>4 DEF Return, Goto, RowInv
    <3>2. Added(p, "ungrouped", {}, {})
      BY <1>2, <3>1 DEF addUpdate
    <3> QED
      BY <1>0, <3>2 DEF Added, RowInv
  <2>2. Past(p)' = Past(p)
    BY <1>1, <1>4, <2>1, PastStays DEF Open
  <2> QED
    BY <1>0, <1>1, <1>4, <2>1, <2>2 DEF Accounted
<1> QED
  BY <1>1, <1>2, <1>3, <1>4, AddKeepsInv

LEMMA AddUngroupedInv ==
    ASSUME RowInv, Batches, NEW p \in Procs, Running(p), HostInv(p),
           AddUngrouped(p)
    PROVE  action'[p] = "hosts" => HostInv(p)'
<1>0. PICK rel, orgs : rel = UngroupedParent(row[p].org) /\ orgs = {row[p].org}
  OBVIOUS
<1>1. pc[p] = "ungrouped" /\ UNCHANGED tables /\ Open(p)
  BY DEF AddUngrouped, Open
<1>2. addUpdate(p, rel, "host", {}, orgs) /\ orgs \in SUBSET Accounts
  BY <1>0 DEF AddUngrouped, RowInv, HostRow
<1>3. ~Accounted(p, rel)
  BY <1>0, <1>1, Distinct, Injective DEF Accounted, HostInv
<1>4. ASSUME pc'[p] = "host"
      PROVE  Accounted(p, rel)' /\ \A x : Accounted(p, x) => Accounted(p, x)'
  <2>1. /\ row' = row /\ rows' = rows
        /\ orgUngrouped'[p] = orgUngrouped[p] \cup {row[p].org}
    <3>1. ~Return(p, "error")
      BY <1>4 DEF Return, Goto, RowInv
    <3>2. Added(p, "host", {}, orgs)
      BY <1>2, <3>1 DEF addUpdate
    <3> QED
      BY <1>0, <3>2 DEF Added, RowInv
  <2>2. Past(p)' = Past(p)
    BY <1>1, <1>4, <2>1, PastStays DEF Open
  <2> QED
    BY <1>0, <1>1, <1>4, <2>1, <2>2 DEF Accounted
<1> QED
  BY <1>1, <1>2, <1>3, <1>4, AddKeepsInv

\* A host of an account occurs in one row.
LEMMA AddHostInv ==
    ASSUME SystemsUnique, system_platform = SeedPlatform,
           RowInv, Batches, NEW p \in Procs, HostInv(p), AddHost(p)
    PROVE  action'[p] = "hosts" => HostInv(p)'
<1>0. PICK rel : rel = HostWorkspace(row[p].host, row[p].org)
  OBVIOUS
<1>1. pc[p] = "host" /\ UNCHANGED tables /\ Open(p)
  BY DEF AddHost, Open
<1>2. addUpdate(p, rel, "system", {}, {})
  BY <1>0 DEF AddHost
<1>3. ~Accounted(p, rel)
  <2>1. ASSUME NEW r \in Past(p), HostWorkspace(r.host, r.org) = rel
        PROVE  FALSE
    <3>1. r.host = row[p].host /\ r.org = row[p].org
      BY <1>0, <2>1, Injective
    <3>2. r \in HostRows /\ row[p] \in HostRows /\ r # row[p]
      BY <1>1 DEF Past, HostInv
    <3> QED
      BY <3>1, <3>2, RowsUnique
  <2> QED
    BY <1>0, <1>1, <2>1, Distinct DEF Accounted
<1>4. ASSUME pc'[p] = "system"
      PROVE  Accounted(p, rel)' /\ \A x : Accounted(p, x) => Accounted(p, x)'
  <2>1. row' = row /\ rows' = rows /\ orgUngrouped' = orgUngrouped
    <3>1. ~Return(p, "error")
      BY <1>4 DEF Return, Goto, RowInv
    <3>2. Added(p, "system", {}, {})
      BY <1>2, <3>1 DEF addUpdate
    <3> QED
      BY <1>0, <3>2 DEF Added, RowInv
  <2>2. Past(p)' = Past(p)
    BY <1>1, <1>4, <2>1, PastStays DEF Open
  <2> QED
    BY <1>0, <1>1, <1>4, <2>1, <2>2 DEF Accounted
<1> QED
  BY <1>1, <1>2, <1>3, <1>4, AddKeepsInv

\* A system occurs in one row; with it the row is finished.
LEMMA AddSystemInv ==
    ASSUME SystemsUnique, system_platform = SeedPlatform,
           RowInv, Batches, NEW p \in Procs, HostInv(p), AddSystem(p)
    PROVE  action'[p] = "hosts" => HostInv(p)'
<1>0. PICK rel, finished : /\ rel = SystemHost(row[p].system, row[p].host)
                           /\ finished = {row[p]}
  OBVIOUS
<1>1. pc[p] = "system" /\ UNCHANGED tables /\ Open(p)
  BY DEF AddSystem, Open
<1>2. addUpdate(p, rel, "next", finished, {})
  BY <1>0 DEF AddSystem
<1>3. ~Accounted(p, rel)
  <2>1. ASSUME NEW r \in Past(p), SystemHost(r.system, r.host) = rel
        PROVE  FALSE
    <3>1. r.system = row[p].system
      BY <1>0, <2>1, Injective
    <3>2. r \in HostRows /\ row[p] \in HostRows /\ r # row[p]
      BY <1>1 DEF Past, HostInv
    <3> QED
      BY <3>1, <3>2, RowsUnique
  <2> QED
    BY <1>0, <1>1, <2>1, Distinct DEF Accounted
<1>4. ASSUME pc'[p] = "next"
      PROVE  Accounted(p, rel)' /\ \A x : Accounted(p, x) => Accounted(p, x)'
  <2>1. row' = row /\ rows' = rows /\ orgUngrouped' = orgUngrouped
    <3>1. ~Return(p, "error")
      BY <1>4 DEF Return, Goto, RowInv
    <3>2. Added(p, "next", finished, {})
      BY <1>2, <3>1 DEF addUpdate
    <3> QED
      BY <1>0, <3>2 DEF Added, RowInv
  <2>2. HostRows' = HostRows /\ ~Open(p)'
    BY <1>1, <1>4 DEF HostRows, tables, Open
  <2>3. Past(p)' = Past(p) \cup {row[p]}
    BY <1>1, <2>1, <2>2 DEF Past, HostInv
  <2> QED
    BY <1>0, <1>1, <1>4, <2>1, <2>3 DEF Accounted
<1> QED
  BY <1>1, <1>2, <1>3, <1>4, AddKeepsInv

(***************************************************************************)
(* Taking the next row accounts for nothing: it is neither finished nor    *)
(* left to be read, and its organization decides whether the workspaces    *)
(* are added.                                                              *)
(***************************************************************************)
LEMMA NextRowInv ==
    ASSUME RowInv, NEW p \in Procs, action[p] = "hosts", HostInv(p),
           NextRow(p)
    PROVE  HostInv(p)'
<1>1. PICK r \in rows[p] :
        /\ row' = [row EXCEPT ![p] = r]
        /\ rows' = [rows EXCEPT ![p] = @ \ {r}]
        /\ \/ r.org \in orgUngrouped[p] /\ Goto(p, "host")
           \/ r.org \notin orgUngrouped[p] /\ Goto(p, "root")
  BY DEF NextRow
<1>2. /\ pc[p] = "next" /\ HostRows' = HostRows
      /\ UNCHANGED <<orgUngrouped, updates>>
  BY DEF NextRow, HostRows, tables
<1>3. /\ row'[p] = r /\ rows'[p] = rows[p] \ {r}
      /\ pc'[p] \in {"host", "root"}
      /\ pc'[p] = "root" => r.org \notin orgUngrouped[p]
  BY <1>1 DEF Goto, RowInv
<1>4. Past(p)' = Past(p)
  BY <1>2, <1>3 DEF Past, Open
<1>5. \A rel : Accounted(p, rel) => Accounted(p, rel)'
  BY <1>2, <1>4 DEF Accounted
<1>6. Batch(p)' = Batch(p) /\ Repeatless(p)' = Repeatless(p)
  BY <1>2 DEF Batch, Repeatless
<1> QED
  BY <1>2, <1>3, <1>5, <1>6 DEF HostInv, Open

\* The end of the rows only changes where the process is.
LEMMA EndOfRowsInv ==
    ASSUME RowInv, NEW p \in Procs, HostInv(p), EndOfRows(p)
    PROVE  HostInv(p)'
<1>1. /\ pc[p] = "next" /\ pc'[p] = "flush" /\ HostRows' = HostRows
      /\ UNCHANGED <<row, rows, orgUngrouped, updates>>
  BY DEF EndOfRows, Goto, RowInv, HostRows, tables
<1>2. Past(p)' = Past(p)
  BY <1>1 DEF Past, Open
<1>3. \A rel : Accounted(p, rel) => Accounted(p, rel)'
  BY <1>1, <1>2 DEF Accounted
<1>4. Batch(p)' = Batch(p) /\ Repeatless(p)' = Repeatless(p)
  BY <1>1 DEF Batch, Repeatless
<1> QED
  BY <1>1, <1>3, <1>4 DEF HostInv, Open

\* A new migrator has an empty batch and all rows before it.
LEMMA StartInv ==
    ASSUME RowInv, Batches, NEW p \in Procs, Start(p), action'[p] = "hosts"
    PROVE  HostInv(p)'
<1>1. ~Return(p, "error")
  BY EndedInv DEF RowInv
<1>2. PICK a \in Actions :
        /\ action' = [action EXCEPT ![p] = a]
        /\ rows' = [rows EXCEPT ![p] =
                      IF a = "hosts" THEN HostRows ELSE PackageRows]
  BY <1>1 DEF Start
<1>3. /\ a = "hosts" /\ rows'[p] = HostRows /\ pc'[p] = "next"
      /\ orgUngrouped'[p] = {} /\ updates'[p] = <<>>
  BY <1>1, <1>2 DEF Start, Goto, RowInv
<1>4. HostRows' = HostRows
  BY DEF Start, HostRows, tables
<1>5. Len(<<>>) = 0
  OBVIOUS
<1>6. Batch(p)' = {} /\ Repeatless(p)'
  BY <1>3, <1>5 DEF Batch, Repeatless
<1> QED
  BY <1>3, <1>4, <1>6 DEF HostInv, Open

-----------------------------------------------------------------------------
(* Theorem                                                                 *)

\* What the process of a step still promises after it.
LEMMA OwnStep ==
    ASSUME SystemsUnique, RowInv, Batches, RequestInv, NEW p \in Procs,
           Start(p) \/ Step(p) \/ Crash(p)
    PROVE  action'[p] = "hosts" => HostInv(p)'
<1> USE DEF RequestInv
<1>1. ASSUME NEW res, Return(p, res) PROVE action'[p] # "hosts"
  BY <1>1, EndedInv DEF RowInv
<1>2. CASE Start(p)
  BY <1>2, StartInv
<1>3. CASE BadRow(p) \/ FinalFlush(p) \/ Crash(p)
  BY <1>1, <1>3 DEF BadRow, FinalFlush, Crash
<1>4. CASE Step(p) /\ action[p] = "hosts" /\ ~BadRow(p) /\ ~FinalFlush(p)
  <2>1. HostInv(p)
    BY <1>4
  <2>2. ~AddPatch(p)
    BY <2>1 DEF HostInv, AddPatch
  <2>3. CASE AddUngrouped(p)
    BY <2>1, <2>3, AddUngroupedInv DEF AddUngrouped, Running
  <2> QED
    BY <1>4, <2>1, <2>2, <2>3, AddRootInv, AddHostInv, AddSystemInv,
       NextRowInv, EndOfRowsInv DEF Step
<1>5. CASE Step(p) /\ action[p] # "hosts" /\ ~BadRow(p) /\ ~FinalFlush(p)
  <2>1. ASSUME NEW rel, NEW next, NEW finished, NEW orgs,
               addUpdate(p, rel, next, finished, orgs)
        PROVE  action'[p] # "hosts"
    BY <1>1, <1>5, <2>1 DEF addUpdate, Added
  <2> QED
    BY <1>5, <2>1 DEF Step, AddRoot, AddUngrouped, AddHost, AddSystem,
                      AddPatch, NextRow, EndOfRows
<1> QED
  BY <1>2, <1>3, <1>4, <1>5

LEMMA RequestNext ==
    ASSUME SystemsUnique, MigrationInv, RequestInv, [Next]_vars
    PROVE  RequestInv'
<1>1. RowInv /\ Batches
  BY DEF MigrationInv
<1>2. CASE Next
  <2>1. PICK p \in Procs : Start(p) \/ Step(p) \/ Crash(p)
    BY <1>2 DEF Next
  <2>2. UNCHANGED tables /\ OthersAlone(p)
    BY <1>1, <2>1, StepEffect
  <2>3. ASSUME NEW q \in Procs, action'[q] = "hosts" PROVE HostInv(q)'
    <3>1. CASE q = p
      BY <1>1, <2>1, <2>3, <3>1, OwnStep
    <3>2. CASE q # p
      BY <2>2, <2>3, <3>2, OthersKeepInv DEF RequestInv, OthersAlone
    <3> QED
      BY <3>1, <3>2
  <2> QED
    BY <2>2, <2>3 DEF RequestInv, tables
<1>3. CASE UNCHANGED vars
  <2>1. UNCHANGED tables
    BY <1>3 DEF vars, tables
  <2> QED
    BY <1>3, <2>1, OthersKeepInv DEF RequestInv, vars, tables
<1> QED
  BY <1>2, <1>3

(***************************************************************************)
(* If a batch is no longer than SpiceDB allows, no request of the host     *)
(* migration is refused: a relationship is added when it was not accounted *)
(* for before, and only those accounted for can be in the batch.           *)
(***************************************************************************)
THEOREM HostRequestsCorrect ==
    ASSUME SystemsUnique, maxBatchSize <= MaxUpdatesPerCall
    PROVE  Spec => []HostRequestsAccepted
<1>1. Init => RequestInv
  BY DEF Init, RequestInv
<1>2. MigrationInv /\ RequestInv /\ [Next]_vars => RequestInv'
  BY RequestNext
<1>3. MigrationInv /\ RequestInv => HostRequestsAccepted
  <2> SUFFICES ASSUME MigrationInv, RequestInv, NEW p \in Procs,
                      action[p] = "hosts"
               PROVE  Acceptable(updates[p])
    BY DEF HostRequestsAccepted
  <2>1. Len(updates[p]) <= maxBatchSize /\ Len(updates[p]) \in Nat
    BY DEF MigrationInv, Batches
  <2>2. Len(updates[p]) <= MaxUpdatesPerCall
    BY <2>1, BatchAssumption, LimitAssumption
  <2>3. Repeatless(p)
    BY DEF RequestInv, HostInv
  <2> QED
    BY <2>2, <2>3 DEF Acceptable, Repeatless
<1> QED
  BY <1>1, <1>2, <1>3, MigrationInit, MigrationNext, PTL DEF Spec

=============================================================================
