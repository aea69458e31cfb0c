--------------------------- MODULE MCPackageCache ---------------------------
(***************************************************************************)
(* Small instances of PackageCache.  Two systems of account 1 and one of   *)
(* account 2; two versions of one package name and one of another; the     *)
(* cache starts with a row left over from an earlier refresh.              *)
(***************************************************************************)
EXTENDS BulkInsert

CONSTANTS a1, a2, s1, s2, s3, h1, h2, h3, k1, k2, b1, kernel, bash

MCNameOf == [p \in {k1, k2, b1} |-> IF p = b1 THEN bash ELSE kernel]

Row(acc, sys, pkg, upd) ==
    [RhAccountID |-> acc, SystemID |-> sys, PackageID |-> pkg,
     UpdateData |-> upd]

System(id, acc, host) ==
    [ID |-> id, RhAccountID |-> acc, InventoryID |-> host, Stale |-> FALSE,
     PackagesInstalled |-> TRUE]

OldRow(acc, name) ==
    [AccID |-> acc, PkgNameID |-> name, SysInstalled |-> 1,
     SysInstallable |-> 0, SysApplicable |-> 1]

\* Two systems in account 1, with two kernels on one of them.
ThreeSystems == {System(s1, a1, h1), System(s2, a2, h2), System(s3, a1, h3)}
ThreePackages ==
    {Row(a1, s1, k1, {}), Row(a1, s1, k2, {"Applicable"}),
     Row(a1, s3, k1, {"Installable", "Applicable"}), Row(a2, s2, b1, {})}

MCCache == {OldRow(a1, bash), OldRow(a2, kernel)}
=============================================================================
