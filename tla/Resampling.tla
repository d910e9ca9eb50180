----------------------------- MODULE Resampling -----------------------------
(***************************************************************************)
(* Weights and systematic resampling                                        *)
(* (rust/pineland-inference/src/resampling.rs).  A particle weight is a     *)
(* natural number: a log weight of minus infinity is 0, adding a log        *)
(* likelihood multiplies, and only ratios of weights matter.  The           *)
(* arithmetic is exact; rounding of f64 is not modelled.                    *)
(***************************************************************************)
EXTENDS Integers

\* cumulative, before each particle and after the last.
Prefix(w, N) ==
  LET sum[i \in 0 .. N] == IF i = 0 THEN 0 ELSE sum[i - 1] + w[i - 1] IN sum

Total(w, N) == Prefix(w, N)[N]

\* normalize_log_weights refuses weights without support.
Normalizable(w, N) == Total(w, N) > 0

\* ess < N * ess_fraction with the fraction one half; ess is T * T / sum w * w.
EssBelowHalf(w, N) ==
  2 * Total(w, N) * Total(w, N) < N * Total([i \in 0 .. N - 1 |-> w[i] * w[i]], N)

\* Variant of Target: each child steps by a whole weight unit.
TargetByUnit(s, c, t) == s + c

\* The position, in units of one N-th of a weight unit, at which child c looks
\* up its parent: start is below one step, and a step is total / N.
Target(start, c, total) == start + c * total

\* What systematic_resample is to return: the particle whose share of the
\* cumulative weight holds the child's position.
ParentAt(position, P, N) ==
  CHOOSE i \in 0 .. N - 1 : N * P[i] <= position /\ position < N * P[i + 1]

Parents(start, w, N) ==
  [c \in 0 .. N - 1 |-> ParentAt(Target(start, c, Total(w, N)), Prefix(w, N), N)]
=============================================================================
