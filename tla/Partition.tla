------------------------------ MODULE Partition ------------------------------
(***************************************************************************)
(* DeterministicPartition of rust/pineland-hpc/src/distribution.rs: which  *)
(* MPI rank owns which logical particle.  The owner of one particle and    *)
(* the interval of one rank are computed by two different formulas; every  *)
(* exchange of particle states uses both.  Products are u128 in the code,  *)
(* so nothing overflows for usize inputs.                                  *)
(***************************************************************************)
EXTENDS Integers

\* canonical_owner
Owner(p, N, R) == IF R = 0 \/ N = 0 THEN 0 ELSE (p * R) \div N

\* u128::div_ceil
DivCeil(a, b) == (a + b - 1) \div b

\* The first logical particle of rank r.
RankStart(r, N, R) == DivCeil(r * N, R)

\* rank_particles: a rank outside the partition owns nothing.
RankParticles(r, N, R) ==
  IF r < R THEN RankStart(r, N, R) .. RankStart(r + 1, N, R) - 1 ELSE {}
==============================================================================
