------------------------- MODULE SystematicResample -------------------------
(***************************************************************************)
(* The loop of systematic_resample                                         *)
(* (rust/pineland-inference/src/resampling.rs): one pass over the children *)
(* that never moves the parent back.  The input weights are given by their *)
(* prefix sums, from which a weight is the difference of two neighbours.   *)
(***************************************************************************)
EXTENDS Resampling, FiniteSets

CONSTANTS
  N,          \* particles
  MaxWeight   \* bound: the largest weight

ASSUME NAssumption == N \in Nat \ {0}
ASSUME MaxWeightAssumption == MaxWeight \in Nat

VARIABLES
  prefix,     \* prefix sums of the input weights
  start,      \* rng.random() * step
  child,      \* loop counter
  parent,
  cumulative,
  result      \* child -> parent, for the children done

passVars == <<prefix, start, child, parent, cumulative, result>>

Indices == 0 .. N - 1
total == prefix[N]
Weight(i) == prefix[i + 1] - prefix[i]

\* The accepted inputs: weights with finite support, and a start below a step.
PassInit ==
  /\ prefix \in [0 .. N -> 0 .. N * MaxWeight]
  /\ prefix[0] = 0
  /\ \A i \in Indices : Weight(i) \in 0 .. MaxWeight
  /\ total > 0
  /\ start \in 0 .. total - 1
  /\ child = 0
  /\ parent = 0
  /\ cumulative = 0
  /\ result = [c \in {} |-> 0]

\* The condition of the inner while.
Beyond ==
  /\ parent + 1 < N
  /\ Target(start, child, total) >= N * (cumulative + Weight(parent))

\* Variant of NextParent: the parent moves and its weight is not counted.
NextParentUncounted ==
  /\ child < N
  /\ Beyond
  /\ parent' = parent + 1
  /\ UNCHANGED <<prefix, start, child, cumulative, result>>

NextParent ==
  /\ child < N
  /\ Beyond
  /\ cumulative' = cumulative + Weight(parent)
  /\ parent' = parent + 1
  /\ UNCHANGED <<prefix, start, child, result>>

Assign ==
  /\ child < N
  /\ ~Beyond
  /\ result' = [c \in 0 .. child |-> IF c = child THEN parent ELSE result[c]]
  /\ child' = child + 1
  /\ UNCHANGED <<prefix, start, parent, cumulative>>

PassNext == NextParent \/ Assign

PassSpec == PassInit /\ [][PassNext]_passVars

-----------------------------------------------------------------------------

\* Type invariant.
PassTypeOK ==
  /\ prefix \in [0 .. N -> Nat]
  /\ start \in Nat
  /\ child \in 0 .. N
  /\ parent \in Indices
  /\ cumulative \in Nat
  /\ result \in [0 .. child - 1 -> Indices]

\* No child descends from a particle that the observations ruled out.
NoDeadParent == \A c \in 0 .. child - 1 : Weight(result[c]) > 0

\* Every child has the parent whose share of the cumulative weight holds its
\* position, however the positions fall on the borders between shares: the
\* single pass finds what a search from the first particle would find.
ParentsAreExact ==
  \A c \in 0 .. child - 1 :
    /\ N * prefix[result[c]] <= Target(start, c, total)
    /\ Target(start, c, total) < N * prefix[result[c] + 1]

\* When the pass ends, a particle of weight w has the floor or the ceiling of
\* N * w / total children: resampling follows the weights as closely as whole
\* children can.
Offspring(i) == Cardinality({c \in Indices : result[c] = i})
OffspringFollowsWeight ==
  child = N =>
    \A i \in Indices :
      /\ (Offspring(i) - 1) * total < N * Weight(i)
      /\ N * Weight(i) < (Offspring(i) + 1) * total

=============================================================================
