----------------------------- MODULE MC_ParticlePool -----------------------------
(* Instances of the resident particle pool and of the study that uses it.  *)
EXTENDS FilteredForecast

MCKeys == 1..3

\* Parents by slot: none due; one that takes over, whose worker sends two children
\* and one to the others; and two on full workers that both send to the first.
Takes(a, b, c, d) == (0 :> a) @@ (1 :> b) @@ (2 :> c) @@ (3 :> d)
MCDraws == {<<>>, Takes(1, 1, 1, 1), Takes(1, 1, 2, 2)}

MCSelections == {<<0, 3, 1, 1, 2, 0, 3, 3>>}

\* One week without resampling, and one batch of forecasts.
TeardownKeys == 1..2
NoDraws == {<<>>}
TeardownSelections == {<<0, 1, 1>>}
=============================================================================
