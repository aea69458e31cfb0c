-------------------------- MODULE MCOverlappingJobs --------------------------
(***************************************************************************)
(* A small instance of OverlappingJobs: one account, whose system has one  *)
(* package, and a row left over in the cache from an earlier refresh.      *)
(***************************************************************************)
EXTENDS MCPackageCache, OverlappingJobs, TLC

OneSystem == {System(s1, a1, h1)}
OnePackage == {Row(a1, s1, k1, {"Applicable"})}
OneOldRow == {OldRow(a1, bash)}
MCNameOfOne == [p \in {k1} |-> kernel]

JobSymmetry == Permutations(Jobs)
=============================================================================
