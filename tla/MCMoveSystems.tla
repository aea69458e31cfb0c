--------------------------- MODULE MCMoveSystems ---------------------------
(***************************************************************************)
(* Small instances of MoveSystems.  Account 1 has a system with a baseline,*)
(* one without, and one whose host is not in inventory.hosts; account 2    *)
(* has one system.  Systems can come to account 3 but not leave it, for    *)
(* system_package2 refers to one of its own.  Account 4 refuses those of   *)
(* account 1 as long as they have a baseline of the same name.             *)
(***************************************************************************)
EXTENDS MoveSystems, TLC

CONSTANTS a1, a2, a3, a4, s1, s2, s3, s4, s5, s6, h1, h2, h3, h4, h5, h6, b1,
          b4, gold, none, k1, kernel

MCNameOf == [p \in {k1} |-> kernel]

MCBaselineOf == [s \in Systems |-> IF s = s1 THEN b1 ELSE none]

Platform(id, acc, host) ==
    [ID |-> id, RhAccountID |-> acc, InventoryID |-> host, Stale |-> FALSE,
     PackagesInstalled |-> TRUE]

Child(acc, sys) == [RhAccountID |-> acc, SystemID |-> sys]

MCSeedDB ==
    [t \in Tables |->
       CASE t = "system_repo" -> {Child(a1, s1), Child(a1, s2), Child(a2, s3)}
         [] t = "system_advisories" -> {Child(a1, s1), Child(a2, s3)}
         [] t = "system_platform" ->
              {Platform(s1, a1, h1), Platform(s2, a1, h2), Platform(s3, a2, h3),
               Platform(s5, a1, h5), Platform(s6, a3, h6)}
         [] t = "baseline" ->
              {[RhAccountID |-> a1, ID |-> b1, Name |-> gold],
               [RhAccountID |-> a4, ID |-> b4, Name |-> gold]}]

MCSeedPackage2 == {<<a3, s6>>}

MCNewSystems == {Platform(s4, a1, h4)}

BothWays == {<<a1, a2>>, <<a2, a1>>}

AllMoves ==
    BothWays \cup {<<a1, a1>>, <<a1, a3>>, <<a3, a1>>, <<a1, a4>>}

OneWay == {<<a1, a2>>}
=============================================================================
