------------------------------ MODULE MpiFilter ------------------------------
(***************************************************************************)
(* One job of the distributed filter: run_on_world of                      *)
(* rust/pineland-hpc/src/mpi_runtime.rs on every rank of an MPI world.      *)
(* A rank holds its own interval of the particles; ranks meet in           *)
(* collective calls.  MPI matches the k-th collective call of one rank     *)
(* with the k-th of every other, whatever those calls are, and a rank that *)
(* returns an error makes no further call.  Consecutive collectives with   *)
(* one root, or of the lengths and the bytes of one exchange, are one.     *)
(***************************************************************************)
EXTENDS CanonicalFilter, Migration

CONSTANTS
  Jobs,      \* world, first boundary, likelihoods and filter draws of a job
  Canonical  \* job -> boundary -> the state of the single-process filter

ASSUME JobsAssumption ==
  \A j \in Jobs :
    /\ j.world \in Nat \ {0}
    /\ j.from \in 0 .. BoundaryCount
    /\ \A b \in 1 .. BoundaryCount, i \in Particles : j.likelihood[b][i] \in Nat
    /\ \A d \in 0 .. BoundaryCount - 1 : j.draw[d] \in 0 .. DrawUnits - 1

ASSUME CanonicalAssumption ==
  Canonical = [j \in Jobs |-> [b \in 0 .. BoundaryCount |->
                 IF b = 0 THEN Start ELSE Updated(j, Canonical[j][b - 1], b)]]

VARIABLES
  job,
  pc,        \* rank -> where it is in run_on_world
  boundary,  \* rank -> boundary_index
  particles, \* rank -> its particles
  weights,   \* rank -> local_weights
  decision,  \* rank -> what it last received of root's decision
  draws,     \* draws taken from root's filter_rng
  mcse,      \* rank -> samples of its monitor
  updates,   \* root's updates
  calls      \* rank -> its collective calls, with what it contributes

vars == <<job, pc, boundary, particles, weights, decision, draws, mcse, updates, calls>>

Ranks == 0 .. job.world - 1
Interval(r) == RankParticles(r, ParticleCount, job.world)
IntervalStart(r) == RankStart(r, ParticleCount, job.world)

Undecided == [resampled |-> FALSE, weights |-> <<>>, parents |-> <<>>]

\* A job starts with a new filter, or resumes a checkpoint of the canonical
\* filter in a world of any size.
Init ==
  /\ job \in Jobs
  /\ ~Canonical[job][job.from].failed
  /\ pc = [r \in Ranks |-> "loop"]
  /\ boundary = [r \in Ranks |-> job.from]
  /\ particles = [r \in Ranks |-> [i \in Interval(r) |-> Canonical[job][job.from].particles[i]]]
  /\ weights = [r \in Ranks |-> [i \in Interval(r) |-> Canonical[job][job.from].weights[i]]]
  /\ decision = [r \in Ranks |-> Undecided]
  /\ draws = Canonical[job][job.from].draws
  /\ mcse = [r \in Ranks |-> Canonical[job][job.from].mcse]
  /\ updates = <<>>
  /\ calls = [r \in Ranks |-> <<>>]

-----------------------------------------------------------------------------

\* Rank r enters a collective call with its contribution.
Enter(r, kind, value) ==
  /\ calls' = [calls EXCEPT ![r] = Append(@, [kind |-> kind, value |-> value])]
  /\ pc' = [pc EXCEPT ![r] = kind]

\* The gather or exchange rank r is in completes: every rank has entered it.
Gathered(r) == \A s \in Ranks : Len(calls[s]) >= Len(calls[r])

\* What rank s contributes to the call rank r is in.
From(s, r) == calls[s][Len(calls[r])].value

\* all_gather_f64: the contributions of all ranks in logical order.
Global(r) ==
  [i \in Particles |-> From(Owner(i, ParticleCount, job.world), r)[i]]

Fail(r, why) ==
  /\ pc' = [pc EXCEPT ![r] = why]
  /\ UNCHANGED calls

\* Variant of Propagate: the weights that are gathered precede the observation.
PropagateUnweighted(r) ==
  /\ pc[r] = "loop"
  /\ boundary[r] < BoundaryCount
  /\ LET moved == [i \in Interval(r) |-> Advanced(particles[r][i])]
         w == Reweighted(job, boundary[r] + 1, weights[r], moved)
     IN /\ particles' = [particles EXCEPT ![r] = moved]
        /\ weights' = [weights EXCEPT ![r] = w]
        /\ Enter(r, "weights", weights[r])
  /\ UNCHANGED <<job, boundary, decision, draws, mcse, updates>>

\* The rank advances its particles to the next boundary, weighs them and enters
\* the gather of the weights.
Propagate(r) ==
  /\ pc[r] = "loop"
  /\ boundary[r] < BoundaryCount
  /\ LET moved == [i \in Interval(r) |-> Advanced(particles[r][i])]
         w == Reweighted(job, boundary[r] + 1, weights[r], moved)
     IN /\ particles' = [particles EXCEPT ![r] = moved]
        /\ weights' = [weights EXCEPT ![r] = w]
        /\ Enter(r, "weights", w)
  /\ UNCHANGED <<job, boundary, decision, draws, mcse, updates>>

\* An engine reports an error; the rank returns it.
PropagateFails(r) ==
  /\ pc[r] = "loop"
  /\ boundary[r] < BoundaryCount
  /\ Interval(r) # {}
  /\ Fail(r, "engine error")
  /\ UNCHANGED <<job, boundary, particles, weights, decision, draws, mcse, updates>>

\* Root decides the boundary from the gathered weights and broadcasts.
Decide(r) ==
  /\ r = 0
  /\ pc[r] = "weights"
  /\ Gathered(r)
  /\ IF Normalizable(Global(r), ParticleCount)
     THEN LET d == Decision(job, Global(r), draws)
          IN /\ decision' = [decision EXCEPT ![r] = d]
             /\ draws' = IF d.resampled THEN draws + 1 ELSE draws
             /\ Enter(r, "decision", d)
     ELSE /\ Fail(r, "no support")
          /\ UNCHANGED <<decision, draws>>
  /\ UNCHANGED <<job, boundary, particles, weights, mcse, updates>>

\* The other ranks wait for the broadcast.
AwaitDecision(r) ==
  /\ r # 0
  /\ pc[r] = "weights"
  /\ Gathered(r)
  /\ Enter(r, "decision", Undecided)
  /\ UNCHANGED <<job, boundary, particles, weights, decision, draws, mcse, updates>>

\* With the decision, a rank contributes to the posterior statistic.
Contribute(r) ==
  /\ pc[r] = "decision"
  /\ Len(calls[0]) >= Len(calls[r])
  /\ decision' = [decision EXCEPT ![r] = From(0, r)]
  /\ Enter(r, "contributions",
           [i \in Interval(r) |-> Contribution(particles[r][i], From(0, r).weights[i])])
  /\ UNCHANGED <<job, boundary, particles, weights, draws, mcse, updates>>

\* At a resampling boundary the rank packs its parents and enters the exchange.
SendParents(r) ==
  /\ pc[r] = "contributions"
  /\ Gathered(r)
  /\ decision[r].resampled
  /\ mcse' = [mcse EXCEPT ![r] = Append(@, Global(r))]
  /\ boundary' = [boundary EXCEPT ![r] = @ + 1]
  /\ Enter(r, "parents",
           [d \in Ranks |-> Bucket(r, d, particles[r], decision[r].parents,
                                   ParticleCount, job.world)])
  /\ UNCHANGED <<job, particles, weights, decision, draws, updates>>

\* Variant of KeepParticles: only root asks for the lineages.
KeepParticlesSilently(r) ==
  /\ pc[r] = "contributions"
  /\ Gathered(r)
  /\ ~decision[r].resampled
  /\ mcse' = [mcse EXCEPT ![r] = Append(@, Global(r))]
  /\ boundary' = [boundary EXCEPT ![r] = @ + 1]
  /\ LET stay == [i \in Interval(r) |->
                    Stay(particles[r][i], boundary[r] + 1, weights[r][i])]
     IN /\ particles' = [particles EXCEPT ![r] = stay]
        /\ IF r = 0 THEN Enter(r, "lineages", [i \in Interval(r) |-> stay[i].lineage])
                    ELSE /\ pc' = [pc EXCEPT ![r] = "loop"]
                         /\ UNCHANGED calls
  /\ UNCHANGED <<job, weights, decision, draws, updates>>

\* At any other boundary the particles stay, with their weights, and the rank
\* enters the gather of the lineages.
KeepParticles(r) ==
  /\ pc[r] = "contributions"
  /\ Gathered(r)
  /\ ~decision[r].resampled
  /\ mcse' = [mcse EXCEPT ![r] = Append(@, Global(r))]
  /\ boundary' = [boundary EXCEPT ![r] = @ + 1]
  /\ LET stay == [i \in Interval(r) |->
                    Stay(particles[r][i], boundary[r] + 1, weights[r][i])]
     IN /\ particles' = [particles EXCEPT ![r] = stay]
        /\ Enter(r, "lineages", [i \in Interval(r) |-> stay[i].lineage])
  /\ UNCHANGED <<job, weights, decision, draws, updates>>

\* The geography in which run_on_world installs children.
JobTopology == "synthetic"

\* SimulationEngine::from_particle: a particle must have the dimensions of the
\* geography.
Fits(p) == p.topology = JobTopology

\* The rank makes its children of the packets it received.
InstallChildren(r) ==
  /\ pc[r] = "parents"
  /\ Gathered(r)
  /\ LET packets == Received([s \in Ranks |-> From(s, r)], r)
         children == Children(packets, Interval(r), IntervalStart(r), boundary[r])
     IN IF Accepted(packets, Interval(r)) /\ \A i \in Interval(r) : Fits(children[i])
        THEN /\ particles' = [particles EXCEPT ![r] = children]
             /\ weights' = [weights EXCEPT ![r] = [i \in Interval(r) |-> 1]]
             /\ Enter(r, "lineages", [i \in Interval(r) |-> children[i].lineage])
        ELSE /\ Fail(r, "transfer error")
             /\ UNCHANGED <<particles, weights>>
  /\ UNCHANGED <<job, boundary, decision, draws, mcse, updates>>

\* The boundary ends; root records the update.
EndBoundary(r) ==
  /\ pc[r] = "lineages"
  /\ Gathered(r)
  /\ pc' = [pc EXCEPT ![r] = "loop"]
  /\ updates' = IF r = 0
                THEN Append(updates, [boundary |-> boundary[r], decision |-> decision[r],
                                      ancestry |-> Global(r)])
                ELSE updates
  /\ UNCHANGED <<job, boundary, particles, weights, decision, draws, mcse, calls>>

\* Variant of Finish: only root, which returns the global weights, gathers them.
FinishByRoot(r) ==
  /\ pc[r] = "loop"
  /\ boundary[r] = BoundaryCount
  /\ IF r = 0 THEN Enter(r, "result", weights[r])
     ELSE /\ pc' = [pc EXCEPT ![r] = "done"]
          /\ UNCHANGED calls
  /\ UNCHANGED <<job, boundary, particles, weights, decision, draws, mcse, updates>>

\* After the last boundary the weights are gathered once more.
Finish(r) ==
  /\ pc[r] = "loop"
  /\ boundary[r] = BoundaryCount
  /\ Enter(r, "result", weights[r])
  /\ UNCHANGED <<job, boundary, particles, weights, decision, draws, mcse, updates>>

Return(r) ==
  /\ pc[r] = "result"
  /\ Gathered(r)
  /\ pc' = [pc EXCEPT ![r] = "done"]
  /\ UNCHANGED <<job, boundary, particles, weights, decision, draws, mcse, updates, calls>>

Step(r) ==
  \/ Propagate(r) \/ Decide(r) \/ AwaitDecision(r) \/ Contribute(r)
  \/ SendParents(r) \/ KeepParticles(r) \/ InstallChildren(r) \/ EndBoundary(r)
  \/ Finish(r) \/ Return(r)

Next == \E r \in Ranks : Step(r) \/ PropagateFails(r)

Spec == Init /\ [][Next]_vars

\* While some rank can go on, some rank does: the operating system runs them,
\* and MPI completes a collective that every rank has entered.
FairSpec == Spec /\ WF_vars(\E r \in Ranks : Step(r))

-----------------------------------------------------------------------------

Errors == {"engine error", "no support", "transfer error"}

\* Type invariant.
TypeOK ==
  /\ pc \in [Ranks -> {"loop", "weights", "decision", "contributions", "parents",
                       "lineages", "result", "done"} \cup Errors]
  /\ boundary \in [Ranks -> job.from .. BoundaryCount]
  /\ draws \in 0 .. BoundaryCount
  /\ \A r \in Ranks :
       /\ DOMAIN particles[r] = Interval(r)
       /\ weights[r] \in [Interval(r) -> Nat]
       /\ Len(mcse[r]) = boundary[r]
       /\ \A i \in Interval(r) : particles[r][i].logical_id = i

\* Calls that MPI matches are calls of the same exchange: no rank takes a
\* broadcast for a gather, however far apart the ranks are.
CollectivesMatch ==
  \A r, s \in Ranks : \A k \in 1 .. Len(calls[r]) :
    k <= Len(calls[s]) => calls[r][k].kind = calls[s][k].kind

\* Between boundaries the ranks of every world hold, in their intervals, the
\* particles, weights and monitor samples of the single-process filter, and root
\* its updates and its random draws: the result does not depend on how many
\* ranks there are, on their order, or on where the job was resumed.
AtBoundary(r) == pc[r] \in {"loop", "result", "done"}
FollowsCanonicalFilter ==
  \A r \in Ranks : AtBoundary(r) =>
    LET s == Canonical[job][boundary[r]]
    IN /\ ~s.failed
       /\ \A i \in Interval(r) : /\ particles[r][i] = s.particles[i]
                              /\ weights[r][i] = s.weights[i]
       /\ mcse[r] = s.mcse
       /\ r = 0 => /\ updates = SubSeq(s.updates, job.from + 1, boundary[r])
                   /\ draws = s.draws

\* The exchange of parents hands every rank its children, each once and as the
\* single-process filter has it, whatever the world and whatever the geography; only a
\* geography other than the job's makes a rank refuse them, and a rank finds no support
\* only where the single-process filter does.
ChildrenDelivered ==
  \A r \in Ranks :
    /\ pc[r] = "parents" /\ Gathered(r) =>
         LET packets == Received([s \in Ranks |-> From(s, r)], r)
             children == Children(packets, Interval(r), IntervalStart(r), boundary[r])
         IN /\ Accepted(packets, Interval(r))
            /\ \A i \in Interval(r) : children[i] = Canonical[job][boundary[r]].particles[i]
    /\ pc[r] = "transfer error" => Interval(r) # {} /\ PinelandTopology # JobTopology
    /\ pc[r] = "no support" => Canonical[job][boundary[r] + 1].failed

\* Children that are handed over are installed: no rank fails at a boundary that the
\* single-process filter passes, unless an engine does.
TransfersSucceed ==
  \A r \in Ranks :
    /\ pc[r] # "transfer error"
    /\ pc[r] = "no support" => Canonical[job][boundary[r] + 1].failed

\* Every job ends: its ranks return together, or one of them returns an error
\* (the others then wait for the launcher to end the job).
JobEnds == <>(\/ \A r \in Ranks : pc[r] = "done"
              \/ \E r \in Ranks : pc[r] \in Errors)
=============================================================================
