-------------------------- MODULE ContentDBProofs --------------------------
(***************************************************************************)
(* What the proofs about the refresh and about the content service need to *)
(* know of the counting query they share, for any tables.                  *)
(***************************************************************************)
EXTENDS ContentDB, FiniteSetTheorems, TLAPS

\* A statement that changes every row of a table leaves it finite.
LEMMA ImageFinite ==
    ASSUME NEW S, IsFiniteSet(S), NEW f
    PROVE  IsFiniteSet({ f[x] : x \in S })
<1> DEFINE image == { f[x] : x \in S }
           g == [x \in S |-> f[x]]
<1>1. g \in Surjection(S, image)
  BY DEF Surjection
<1> QED
  BY <1>1, FS_Surjection DEF ExistsSurjection

\* A join is finite, being part of the product of two finite tables.
LEMMA JoinFinite ==
    ASSUME NEW P, IsFiniteSet(P), NEW K, IsFiniteSet(K), NEW H, NEW a
    PROVE  IsFiniteSet(PackageJoin(P, K, H, a))
<1>1. IsFiniteSet(P \X K)
  BY FS_Product
<1>2. PackageJoin(P, K, H, a) \in SUBSET (P \X K)
  BY DEF PackageJoin
<1> QED
  BY <1>1, <1>2, FS_Subset

\* The three aggregates of a group are ordered, and a group that has a row
\* counts something.
LEMMA CountsOrdered ==
    ASSUME NEW a \in Accounts, NEW n \in Names, NEW G, IsFiniteSet(G)
    PROVE  /\ CountsOf(a, n, G) \in PackageAccountData
           /\ CountsOf(a, n, G).SysInstallable <= CountsOf(a, n, G).SysApplicable
           /\ CountsOf(a, n, G).SysApplicable <= CountsOf(a, n, G).SysInstalled
           /\ G # {} => CountsOf(a, n, G).SysInstalled # 0
<1> DEFINE I == WithStatus(G, {"Installable"})
           A == WithStatus(G, {"Installable", "Applicable"})
<1>1. I \in SUBSET A /\ A \in SUBSET G
  BY DEF WithStatus
<1>2. IsFiniteSet(A) /\ Cardinality(A) <= Cardinality(G)
  BY <1>1, FS_Subset
<1>3. IsFiniteSet(I) /\ Cardinality(I) <= Cardinality(A)
  BY <1>1, <1>2, FS_Subset
<1>4. Cardinality(G) \in Nat /\ Cardinality(A) \in Nat /\ Cardinality(I) \in Nat
  BY <1>2, <1>3, FS_CardinalityType
<1>5. G # {} => Cardinality(G) # 0
  BY FS_EmptySet
<1> HIDE DEF I, A
<1>6. CountsOf(a, n, G) = [AccID |-> a, PkgNameID |-> n,
                           SysInstalled |-> Cardinality(G),
                           SysInstallable |-> Cardinality(I),
                           SysApplicable |-> Cardinality(A)]
  BY DEF CountsOf, I, A
<1> QED
  BY <1>2, <1>3, <1>4, <1>5, <1>6 DEF PackageAccountData

\* GROUP BY: a row of the result counts a non-empty group of the rows.
LEMMA GroupOfCount ==
    ASSUME NEW a, NEW rows, NEW c \in GroupCounts(a, rows)
    PROVE  \E n \in { NameOfRow(row) : row \in rows } :
             /\ InGroup(rows, n) # {} /\ InGroup(rows, n) \in SUBSET rows
             /\ c = CountsOf(a, n, InGroup(rows, n))
<1>1. PICK row \in rows :
        c = CountsOf(a, NameOfRow(row), InGroup(rows, NameOfRow(row)))
  BY DEF GroupCounts
<1>2. row \in InGroup(rows, NameOfRow(row))
  BY DEF InGroup
<1>3. InGroup(rows, NameOfRow(row)) \in SUBSET rows
  BY DEF InGroup
<1> QED
  BY <1>1, <1>2, <1>3

\* The query returns statistics of the one account it is asked for.
LEMMA GroupCountsTyped ==
    ASSUME NEW a, NEW rows, IsFiniteSet(rows),
           \A row \in rows : a \in Accounts /\ NameOfRow(row) \in Names
    PROVE  \A c \in GroupCounts(a, rows) :
             /\ c \in PackageAccountData /\ c.AccID = a
             /\ c.SysInstallable <= c.SysApplicable
             /\ c.SysApplicable <= c.SysInstalled /\ c.SysInstalled # 0
<1> SUFFICES ASSUME NEW c \in GroupCounts(a, rows)
             PROVE  /\ c \in PackageAccountData /\ c.AccID = a
                    /\ c.SysInstallable <= c.SysApplicable
                    /\ c.SysApplicable <= c.SysInstalled /\ c.SysInstalled # 0
  OBVIOUS
<1>1. PICK n \in { NameOfRow(row) : row \in rows } :
        /\ InGroup(rows, n) # {} /\ InGroup(rows, n) \in SUBSET rows
        /\ c = CountsOf(a, n, InGroup(rows, n))
  BY GroupOfCount
<1>2. a \in Accounts /\ n \in Names
  OBVIOUS
<1>3. IsFiniteSet(InGroup(rows, n))
  BY <1>1, FS_Subset
<1>4. c.AccID = a
  BY <1>1 DEF CountsOf
<1> QED
  BY <1>1, <1>2, <1>3, <1>4, CountsOrdered

\* A row of the join has a name, and an account if it is that of a system.
LEMMA JoinTyped ==
    ASSUME NEW P \in SUBSET SystemPlatform, NEW K \in SUBSET SystemPackage,
           NEW H, NEW a
    PROVE  \A row \in PackageJoin(P, K, H, a) :
             /\ a \in Accounts /\ NameOfRow(row) \in Names
             /\ row[1] \in P /\ row[2] \in K
             /\ row[1].InventoryID \in H /\ row[1].RhAccountID = a
BY NameOfAssumption
DEF PackageJoin, NameOfRow, SystemPackage, SystemPlatform

=============================================================================
