---------------------------- MODULE MC_MpiFilter ----------------------------
(* Three particles in worlds of one to four ranks, so that intervals differ  *)
(* in length and one may be empty; two boundaries, from a new filter or      *)
(* resumed after the first; observations that fit some roots better than     *)
(* others, fit one only, or fit none.                                        *)
EXTENDS MpiFilter, TLC

CONSTANT MaxWorldSize

Fit(a, b, c) == 0 :> a @@ 1 :> b @@ 2 :> c
MCLikelihoods ==
  {Fit(1, 1, 1), Fit(0, 0, 1), Fit(4, 1, 0), Fit(1, 0, 4), Fit(0, 0, 0)}
MCJobs ==
  [world : 1 .. MaxWorldSize, from : 0 .. 1,
   likelihood : [1 .. BoundaryCount -> MCLikelihoods],
   draw : [0 .. BoundaryCount - 1 -> 0 .. DrawUnits - 1]]
MCCanonical ==
  [j \in MCJobs |->
     LET run[b \in 0 .. BoundaryCount] ==
           IF b = 0 THEN Start ELSE Updated(j, run[b - 1], b)
     IN run]
=============================================================================
