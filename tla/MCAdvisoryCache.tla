-------------------------- MODULE MCAdvisoryCache --------------------------
(***************************************************************************)
(* A small instance of AdvisoryCache: a fresh and a stale system share an  *)
(* advisory with different statuses, a third was never evaluated.          *)
(***************************************************************************)
EXTENDS AdvisoryCache, TLC

CONSTANTS a1, s1, s2, s3, adv1, adv2

Platform(id, acc, stale, evaluated) ==
    [ID |-> id, RhAccountID |-> acc, Stale |-> stale, Evaluated |-> evaluated]

Affects(acc, sys, adv, status) ==
    [RhAccountID |-> acc, SystemID |-> sys, AdvisoryID |-> adv,
     StatusID |-> status]

MCPlatform ==
    {Platform(s1, a1, FALSE, TRUE), Platform(s2, a1, TRUE, TRUE),
     Platform(s3, a1, FALSE, FALSE)}

MCAdvisories ==
    {Affects(a1, s1, adv1, 0), Affects(a1, s2, adv1, 1),
     Affects(a1, s2, adv2, 0), Affects(a1, s3, adv2, 1)}

Symmetry == Permutations(Sessions)
=============================================================================
