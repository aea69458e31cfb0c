----------------------------- MODULE ContentDB -----------------------------
(***************************************************************************)
(* The content database: the rows of the PostgreSQL tables that the        *)
(* program reads and writes, and the query that both the cache refresh and *)
(* the content service run over them.  The tables themselves are variables *)
(* of the modules that use this one; here they are parameters.             *)
(*                                                                         *)
(* A table is a set of rows.  Columns no query or update of the program    *)
(* looks at are left out; packages_installed is kept as "is it > 0?", the  *)
(* only question asked about it.                                           *)
(***************************************************************************)
EXTENDS Integers, FiniteSets

CONSTANTS
    Accounts,       \* rh_account.id
    Systems,        \* system_platform.id
    Hosts,          \* inventory.hosts.id, a uuid
    Packages,       \* package.id: one version of a named package
    Names,          \* package_name.id
    NameOf          \* the name_id column that goes with a package_id

ASSUME NameOfAssumption == NameOf \in [Packages -> Names]

(***************************************************************************)
(* system_platform: a system belongs to one account and is linked to the   *)
(* host of the inventory it describes.                                     *)
(***************************************************************************)
SystemPlatform ==
    [ID : Systems, RhAccountID : Accounts, InventoryID : Hosts,
     Stale : BOOLEAN, PackagesInstalled : BOOLEAN]

(***************************************************************************)
(* system_package: a package installed on a system.  UpdateData is the     *)
(* JSON array of available updates, kept as the set of their statuses;     *)
(* NULL and the empty array are both {}.                                   *)
(***************************************************************************)
UpdateStatuses == {"Installable", "Applicable"}

SystemPackage ==
    [RhAccountID : Accounts, SystemID : Systems, PackageID : Packages,
     UpdateData : SUBSET UpdateStatuses]

\* Primary key (rh_account_id, id) of system_platform.
PlatformKey(sp) == <<sp.RhAccountID, sp.ID>>

\* Primary key (rh_account_id, system_id, package_id) of system_package.
PackageKey(spkg) == <<spkg.RhAccountID, spkg.SystemID, spkg.PackageID>>

(***************************************************************************)
(* package_account_data: one row of per-account statistics of a package    *)
(* name, also the row type of every package query.                         *)
(***************************************************************************)
PackageAccountData ==
    [AccID : Accounts, PkgNameID : Names, SysInstalled : Nat,
     SysInstallable : Nat, SysApplicable : Nat]

\* Primary key (rh_account_id, package_name_id) of package_account_data.
CacheKey(row) == <<row.AccID, row.PkgNameID>>

(***************************************************************************)
(* The SQL function that classifies the update_data of an installed        *)
(* package.                                                                *)
(***************************************************************************)
update_status(updateData) ==
    CASE updateData = {} -> "None"
      [] "Installable" \in updateData -> "Installable"
      [] OTHER -> "Applicable"

(***************************************************************************)
(* system_platform sp JOIN system_package spkg ON sp.id = spkg.system_id   *)
(* AND sp.rh_account_id = spkg.rh_account_id JOIN inventory.hosts ih ON    *)
(* sp.inventory_id = ih.id, for one account.  rh_account is joined by its  *)
(* primary key, which drops no row.                                        *)
(***************************************************************************)
PackageJoin(platform, package, hosts, accID) ==
    { row \in platform \X package :
        /\ row[1].ID = row[2].SystemID
        /\ row[1].RhAccountID = row[2].RhAccountID
        /\ row[1].InventoryID \in hosts
        /\ row[1].RhAccountID = accID }

NameOfRow(row) == NameOf[row[2].PackageID]

InGroup(rows, n) == { row \in rows : NameOfRow(row) = n }

WithStatus(rows, statuses) ==
    { row \in rows : update_status(row[2].UpdateData) \in statuses }

(***************************************************************************)
(* One group of GROUP BY sp.rh_account_id, spkg.name_id, with its three    *)
(* count aggregates.  They count joined rows, so a system with two versions *)
(* of a package counts twice.                                              *)
(***************************************************************************)
CountsOfDisjointStatuses(accID, n, rows) ==
    [AccID |-> accID,
     PkgNameID |-> n,
     SysInstalled |-> Cardinality(rows),
     SysInstallable |-> Cardinality(WithStatus(rows, {"Installable"})),
     SysApplicable |-> Cardinality(WithStatus(rows, {"Applicable"}))]

CountsOf(accID, n, rows) ==
    [AccID |-> accID,
     PkgNameID |-> n,
     SysInstalled |-> Cardinality(rows),
     SysInstallable |-> Cardinality(WithStatus(rows, {"Installable"})),
     SysApplicable |->
        Cardinality(WithStatus(rows, {"Installable", "Applicable"}))]

GroupCounts(accID, rows) ==
    { CountsOf(accID, n, InGroup(rows, n)) :
        n \in { NameOfRow(row) : row \in rows } }

=============================================================================
