-------------------------- MODULE MCTwoMigrations --------------------------
(***************************************************************************)
(* A small instance of TwoMigrations: account 1 has two systems, accounts 2*)
(* and 3 have none, so that a move gives them the first hosts they have.   *)
(***************************************************************************)
EXTENDS TwoMigrations

CONSTANTS a1, a2, a3, s1, s2, h1, h2, none, k1, kernel

MCNameOf == [p \in {k1} |-> kernel]

MCBaselineOf == [s \in Systems |-> none]

Platform(id, acc, host) ==
    [ID |-> id, RhAccountID |-> acc, InventoryID |-> host, Stale |-> FALSE,
     PackagesInstalled |-> TRUE]

MCSeedDB ==
    [t \in Tables |->
       IF t = "system_platform"
       THEN { sp \in {Platform(s1, a1, h1), Platform(s2, a1, h2)} :
                sp.ID \in Systems }
       ELSE {}]

\* A half move to one account can be followed by a move to the other.
AllMoves == {<<a1, a2>>, <<a2, a1>>, <<a1, a3>>}
=============================================================================
