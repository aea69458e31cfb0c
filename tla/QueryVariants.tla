--------------------------- MODULE QueryVariants ---------------------------
(***************************************************************************)
(* The other forms of the pre-filter's query that the experiments keep     *)
(* beside packagesByHostIDs.  They take the list of host ids as it is,     *)
(* with its repetitions, and leave out the account; a result has a row for *)
(* every account and package name found.                                   *)
(***************************************************************************)
EXTENDS ContentServer, SequencesExt

CONSTANT NoName     \* the zero of PkgNameID

\* A row of the join, tagged with the id of the list that selected it.
AllRows == UNION { AccountRows(a) : a \in Accounts }

Selected(ids) ==
    { <<row[1], row[2], i>> : row \in AllRows, i \in DOMAIN ids }

\* WHERE ih.id IN ?: a repeated id selects a row once.
InList(ids) ==
    { row \in AllRows : row[1].InventoryID \in ToSet(ids) }

\* JOIN ... ON ih.id = th.id: a repeated id selects a row repeatedly.
JoinList(ids) ==
    { row \in Selected(ids) : row[1].InventoryID = ids[row[3]] }

GroupOf(row) == <<row[1].RhAccountID, NameOfRow(row)>>

Counted(rows) ==
    [g \in { GroupOf(row) : row \in rows } |->
        CountsOf(g[1], g[2], { row \in rows : GroupOf(row) = g })]

\* gorm finds no field for the column name_id, which has no alias, and leaves
\* PkgNameID zero.
packagesByHostIDsCTE(ids) ==
    LET counts == Counted(InList(ids))
    IN  [g \in DOMAIN counts |-> [counts[g] EXCEPT !.PkgNameID = NoName]]

(***************************************************************************)
(* The temporary table is created, filled id by id, joined and dropped in  *)
(* one transaction, so that the pooled connection is left without it also  *)
(* when a statement fails, and the next call can create it again.          *)
(***************************************************************************)
TempHostIDs(ids) == JoinList(ids)

TempTableOfIn(ids) == Counted(InList(ids))

packagesByHostIDsTempTable(ids) == Counted(TempHostIDs(ids))

\* The ids are one parameter, an array, unnested to the rows of a CTE.
HostIDCTE(ids) == JoinList(ids)

packagesByHostCTEinsteadOfTempTable(ids) == Counted(HostIDCTE(ids))

\* Only the groups are selected; the counts stay zero.
packagesByHostIDsNoCounts(ids) ==
    LET counts == Counted(InList(ids))
    IN  [g \in DOMAIN counts |->
            [counts[g] EXCEPT !.SysInstalled = 0, !.SysInstallable = 0,
                              !.SysApplicable = 0]]

-----------------------------------------------------------------------------
OfAccount(result, accID) ==
    { result[g] : g \in { k \in DOMAIN result : k[1] = accID } }

\* What is left of rows when the columns a variant does not fill are ignored.
Unnamed(rows) == { [c EXCEPT !.PkgNameID = NoName] : c \in rows }

Uncounted(rows) ==
    { [c EXCEPT !.SysInstalled = 0, !.SysInstallable = 0,
                !.SysApplicable = 0] : c \in rows }

\* The account and name of a package one of the listed hosts has.
HasPackage(ids, acc, n) ==
    \E sp \in system_platform, spkg \in system_package :
        /\ sp.InventoryID \in ToSet(ids) \cap hosts
        /\ sp.RhAccountID = acc /\ spkg.RhAccountID = acc
        /\ spkg.SystemID = sp.ID /\ NameOf[spkg.PackageID] = n

Foreign(result, accID) == { g \in DOMAIN result : g[1] # accID }

\* What the four variants return for a list.
Results(ids) ==
    [CTE |-> packagesByHostIDsCTE(ids),
     TempTable |-> packagesByHostIDsTempTable(ids),
     HostCTE |-> packagesByHostCTEinsteadOfTempTable(ids),
     NoCounts |-> packagesByHostIDsNoCounts(ids)]

Twice(c) == [c EXCEPT !.SysInstalled = 2 * @, !.SysInstallable = 2 * @,
                      !.SysApplicable = 2 * @]

TwiceCounted(result) == [g \in DOMAIN result |-> Twice(result[g])]

(***************************************************************************)
(* For the hosts a user may read, each listed once, the rows a variant     *)
(* returns for the account of the request are those of packagesByHostIDs,  *)
(* but for the names the CTE loses and the counts NoCounts does not ask    *)
(* for.  Each of the four has rows of another account exactly when a       *)
(* listed host is a system of that account with a package of the name, so  *)
(* that the variants measure the same query while permissions stay within  *)
(* accounts.  A list written twice changes nothing for the two that use    *)
(* IN, and doubles each of the three counts of the two that join.          *)
(***************************************************************************)
SameRows(res, accID, ids) ==
    LET rows == packagesByHostIDs(accID, ToSet(ids))
    IN  /\ OfAccount(res.CTE, accID) = Unnamed(rows)
        /\ OfAccount(res.TempTable, accID) = rows
        /\ OfAccount(res.HostCTE, accID) = rows
        /\ OfAccount(res.NoCounts, accID) = Uncounted(rows)

OtherAccounts(res, accID, ids) ==
    LET others == { g \in (Accounts \ {accID}) \X Names :
                      HasPackage(ids, g[1], g[2]) }
    IN  \A variant \in DOMAIN res : Foreign(res[variant], accID) = others

Doubled(res, twice) ==
    /\ twice.CTE = res.CTE
    /\ twice.NoCounts = res.NoCounts
    /\ twice.TempTable = TwiceCounted(res.TempTable)
    /\ twice.HostCTE = TwiceCounted(res.HostCTE)

VariantsAgree ==
    \A u \in Users :
        LET ids == SetToSeq(ReadableNow(u) \ BadHosts)
            res == Results(ids)
        IN  /\ Doubled(res, Results(ids \o ids))
            /\ \A accID \in Accounts : /\ SameRows(res, accID, ids)
                                       /\ OtherAccounts(res, accID, ids)

=============================================================================
