-------------------------- MODULE MCContentServer --------------------------
(***************************************************************************)
(* Small instances of ContentServer: account 1 has two systems, one of     *)
(* them stale, account 2 one or none; one user may read account 1.  A host *)
(* that came with SpiceDB's bootstrap file has an id that is no uuid.      *)
(***************************************************************************)
EXTENDS QueryVariants, TLC

CONSTANTS a1, a2, s1, s2, s3, h1, h2, h3, bad, k1, kernel, u1

MCNameOf == [p \in {k1} |-> kernel]

Platform(id, acc, host, stale) ==
    [ID |-> id, RhAccountID |-> acc, InventoryID |-> host, Stale |-> stale,
     PackagesInstalled |-> TRUE]

Package(acc, sys, upd) ==
    [RhAccountID |-> acc, SystemID |-> sys, PackageID |-> k1, UpdateData |-> upd]

MCPlatform ==
    { sp \in {Platform(s1, a1, h1, FALSE), Platform(s2, a1, h2, TRUE),
              Platform(s3, a2, h3, FALSE)} : sp.ID \in Systems }

MCPackages ==
    { spkg \in {Package(a1, s1, {"Installable"}), Package(a1, s2, {}),
                Package(a2, s3, {})} : spkg.SystemID \in Systems }

AllInGroupNone == [h \in Hosts |-> "[]"]

\* As in test_data.sql: a grouped host and one whose groups are NULL.
TestGroups ==
    [h \in {h1, h2, h3} |-> IF h = h1 THEN "some"
                            ELSE IF h = h3 THEN "NULL" ELSE "[]"]

\* What the migration of hosts writes, and the bootstrap file.
MCRelations ==
    UNION { {RootParent(a), UngroupedParent(a)} : a \in {a1, a2} }
    \cup {HostWorkspace(h1, a1), HostWorkspace(h2, a1)}
    \cup { HostWorkspace(h, a2) : h \in Hosts \ {h1, h2} }
    \cup {Rel(Host(bad), "workspace", Root(a2))}

MCGrants == {<<u1, Root(a1)>>}

=============================================================================
