----------------------- MODULE MC_FilterContinuation -----------------------
(* Two configurations, two particle counts and two observations; the .cfg   *)
(* files bound the boundaries and the runs.                                 *)
EXTENDS FilterContinuation, TLC

Symmetry == Permutations(Observations)
============================================================================
