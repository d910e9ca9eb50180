--------------------------- MODULE CanonicalFilter ---------------------------
(***************************************************************************)
(* The particle filter of one process as a function of the observations    *)
(* (NativeParticleFilter of rust/pineland-inference/src/filter.rs): what    *)
(* every distributed run of the same job must reproduce.                   *)
(*                                                                         *)
(* A particle is its identity: which root it descends from, through which  *)
(* children, with which random stream, up to which boundary, in which      *)
(* geography.  Equal identities have equal trajectories, because a         *)
(* trajectory draws from its own stream only.                              *)
(***************************************************************************)
EXTENDS Resampling, Sequences

CONSTANTS
  ParticleCount,  \* logical particles
  BoundaryCount,  \* bound: boundaries of one run
  DrawUnits,      \* bound: the draws 0, 1 / DrawUnits, ... of the filter RNG
  LocalityCount   \* config.locality_count

ASSUME ParticleCountAssumption == ParticleCount \in Nat \ {0}
ASSUME BoundaryCountAssumption == BoundaryCount \in Nat
ASSUME DrawUnitsAssumption == DrawUnits \in Nat \ {0}
ASSUME LocalityCountAssumption == LocalityCount \in Nat

Particles == 0 .. ParticleCount - 1

\* DISTRICTS.len()
DistrictCount == 17

\* StaticTopology::pineland: the registry geography, or for few localities the
\* synthetic one.
PinelandTopology == IF LocalityCount < DistrictCount THEN "synthetic" ELSE "registry"

\* NativeParticleFilter::new, for one particle.
NewParticle(i) ==
  [logical_id |-> i, lineage |-> <<i>>, rng |-> [seed |-> i, forks |-> <<>>],
   time |-> 0, filter_boundary |-> 0, weights_log |-> 1,
   topology |-> PinelandTopology]

\* advance_until, one boundary further.
Advanced(p) == [p EXCEPT !.time = @ + 1]

\* observation_log_likelihood, by the root the particle descends from: some
\* roots fit an observation better than others, and some not at all.
Likelihood(j, b, p) == j.likelihood[b][p.lineage[1]]

\* The weights of the particles ps after the observation of boundary b.
Reweighted(j, b, w, ps) ==
  [i \in DOMAIN ps |-> w[i] * Likelihood(j, b, ps[i])]

\* rng.random() * step for the filter RNG's next draw.
ResampleStart(j, draws, total) == (j.draw[draws] * total) \div DrawUnits

\* Normalization and the choice of parents: update_propagated and
\* canonical_boundary decide alike.
Decision(j, w, draws) ==
  IF EssBelowHalf(w, ParticleCount)
  THEN [resampled |-> TRUE, weights |-> w,
        parents |-> Parents(ResampleStart(j, draws, Total(w, ParticleCount)),
                            w, ParticleCount)]
  ELSE [resampled |-> FALSE, weights |-> w, parents |-> [c \in Particles |-> c]]

\* Child c of particle p at boundary b: a branch of the lineage and a fork of
\* the random stream that no sibling shares.
Branch(p, b, c, parent) ==
  [p EXCEPT !.logical_id = c, !.lineage = Append(@, c),
            !.rng.forks = Append(@, [boundary |-> b, child |-> c, parent |-> parent]),
            !.filter_boundary = b, !.weights_log = 1]

\* A particle that stays keeps its weight.
Stay(p, b, weight) == [p EXCEPT !.filter_boundary = b, !.weights_log = weight]

\* The posterior statistic of a boundary, one term per particle.
Contribution(p, weight) == [weight |-> weight, of |-> p.lineage, time |-> p.time]

\* A new filter.
Start ==
  [particles |-> [i \in Particles |-> NewParticle(i)],
   weights |-> [i \in Particles |-> 1],
   draws |-> 0, mcse |-> <<>>, updates |-> <<>>, failed |-> FALSE]

\* update_observation at boundary b of a filter in state s.
Updated(j, s, b) ==
  LET moved == [i \in Particles |-> Advanced(s.particles[i])]
      w == Reweighted(j, b, s.weights, moved)
      decision == Decision(j, w, s.draws)
      next == IF decision.resampled
              THEN [c \in Particles |->
                      Branch(moved[decision.parents[c]], b, c, decision.parents[c])]
              ELSE [i \in Particles |-> Stay(moved[i], b, w[i])]
  IN IF s.failed \/ ~Normalizable(w, ParticleCount)
     THEN [s EXCEPT !.failed = TRUE]
     ELSE [particles |-> next,
           weights |-> IF decision.resampled THEN [i \in Particles |-> 1] ELSE w,
           draws |-> IF decision.resampled THEN s.draws + 1 ELSE s.draws,
           mcse |-> Append(s.mcse, [i \in Particles |-> Contribution(moved[i], w[i])]),
           updates |-> Append(s.updates,
                         [boundary |-> b, decision |-> decision,
                          ancestry |-> [i \in Particles |-> next[i].lineage]]),
           failed |-> FALSE]
=============================================================================
