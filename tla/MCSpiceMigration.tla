-------------------------- MODULE MCSpiceMigration --------------------------
(***************************************************************************)
(* A small instance of SpiceMigration: two systems of one account, one of  *)
(* which has two versions of a package, so that the package migration      *)
(* succeeds in some orders of the rows and is refused in others.           *)
(***************************************************************************)
EXTENDS SpiceMigration

CONSTANTS a1, s1, s2, h1, h2, k1, k2, b1, kernel, bash

MCNameOf == [p \in {k1, k2, b1} |-> IF p = b1 THEN bash ELSE kernel]

Platform(id, acc, host) ==
    [ID |-> id, RhAccountID |-> acc, InventoryID |-> host, Stale |-> FALSE,
     PackagesInstalled |-> TRUE]

Package(acc, sys, pkg) ==
    [RhAccountID |-> acc, SystemID |-> sys, PackageID |-> pkg,
     UpdateData |-> {}]

MCPlatform == {Platform(s1, a1, h1), Platform(s2, a1, h2)}

MCPackages ==
    {Package(a1, s1, k1), Package(a1, s1, k2), Package(a1, s2, b1)}
=============================================================================
