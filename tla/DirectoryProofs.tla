--------------------------- MODULE DirectoryProofs ---------------------------
(***************************************************************************)
(* Three components keep their promises in directories that outlive the    *)
(* processes that write them.                                              *)
(*                                                                         *)
(* CheckpointDirectory, for any number of particles, ranks, results and    *)
(* jobs, on platforms whose rename replaces the old file and on those      *)
(* where replace_file removes it first.                                    *)
(*                                                                         *)
(* FilterContinuation, for any configurations, particle counts,            *)
(* observations and number of runs, wherever the runs stop: a directory    *)
(* that one filter only ever continues in keeps, next to                   *)
(* filter_state.json, the particles it belongs to; the two parts a resume  *)
(* puts together are of one configuration and count; and the checkpoint a  *)
(* run reports can be continued as reported.                               *)
(*                                                                         *)
(* ArcCampaign, for any number of tasks, array elements and attempts: what *)
(* a success marker names is never written again.                          *)
(***************************************************************************)
EXTENDS CheckpointDirectory, FilterContinuation, ArcCampaign, TLAPS

-----------------------------------------------------------------------------
(* The partition.                                                          *)

\* What integer division returns.
LEMMA Division ==
  ASSUME NEW a \in Nat, NEW b \in Nat \ {0}
  PROVE  /\ a \div b \in Nat
         /\ b * (a \div b) <= a
         /\ a < b * (a \div b) + b
OBVIOUS

\* Multiplying by a natural number is monotonic.
LEMMA TimesMonotonic ==
  ASSUME NEW a \in Int, NEW b \in Int, NEW c \in Nat, a <= b
  PROVE  c * a <= c * b
OBVIOUS

\* A rank's interval starts at the first particle p with r * N <= p * R.
LEMMA StartsAt ==
  ASSUME NEW N \in Nat \ {0}, NEW R \in Nat \ {0}, NEW r \in Nat, NEW p \in Nat
  PROVE  /\ RankStart(r, N, R) \in Nat
         /\ RankStart(r, N, R) <= p <=> r * N <= p * R
<1>. DEFINE c == RankStart(r, N, R)
<1>1. /\ r * N \in Nat /\ p * R \in Nat
      /\ r * N + R - 1 \in Nat
  OBVIOUS
<1>2. /\ c \in Nat
      /\ R * c <= r * N + R - 1
      /\ r * N + R - 1 < R * c + R
  BY <1>1, Division DEF RankStart, DivCeil
<1>. HIDE DEF c
<1>3. ASSUME c <= p PROVE r * N <= p * R
  <2>1. R * c <= R * p
    BY <1>2, <1>3, TimesMonotonic
  <2>2. r * N <= R * c
    BY <1>1, <1>2
  <2>. QED  BY <2>1, <2>2, <1>1, <1>2
<1>4. ASSUME ~(c <= p) PROVE ~(r * N <= p * R)
  <2>1. p <= c - 1 /\ c - 1 \in Int
    BY <1>2, <1>4
  <2>2. R * p <= R * (c - 1)
    BY <2>1, TimesMonotonic
  <2>3. R * (c - 1) = R * c - R
    BY <1>2
  <2>. QED  BY <2>2, <2>3, <1>1, <1>2
<1>. QED  BY <1>2, <1>3, <1>4 DEF c

\* The intervals of the ranks tile the particles: they cover 0 .. N - 1, they are
\* disjoint, and they follow each other in rank order.
THEOREM RangesTile ==
  ASSUME NEW N \in Nat \ {0}, NEW R \in Nat \ {0}
  PROVE  /\ UNION {RankParticles(r, N, R) : r \in 0 .. R - 1} = 0 .. N - 1
         /\ \A q, r \in 0 .. R - 1 :
              q < r => \A i \in RankParticles(q, N, R), j \in RankParticles(r, N, R) : i < j
<1>1. ASSUME NEW q \in Nat, NEW r \in Nat, q <= r
      PROVE  RankStart(q, N, R) <= RankStart(r, N, R)
  <2>1. /\ RankStart(r, N, R) \in Nat
        /\ r * N <= RankStart(r, N, R) * R
    BY StartsAt
  <2>2. N * q <= N * r
    BY <1>1, TimesMonotonic
  <2>3. q * N <= RankStart(r, N, R) * R
    BY <2>1, <2>2
  <2> QED
    BY <2>1, <2>3, StartsAt
<1>2. RankStart(R, N, R) <= N
  <2>1. R * N <= N * R
    OBVIOUS
  <2> QED
    BY <2>1, StartsAt
<1>3. \A r \in 0 .. R : RankStart(r, N, R) \in Nat
  BY StartsAt
<1>4. ASSUME NEW r \in 0 .. R - 1, NEW p \in RankParticles(r, N, R)
      PROVE  p \in 0 .. N - 1
  <2>1. RankStart(r + 1, N, R) <= RankStart(R, N, R)
    BY <1>1
  <2> QED
    BY <1>2, <1>3, <2>1 DEF RankParticles
<1>5. ASSUME NEW p \in 0 .. N - 1
      PROVE  \E r \in 0 .. R - 1 : p \in RankParticles(r, N, R)
  <2>1. p * R \in Nat
    OBVIOUS
  <2>2. PICK r \in Nat : N * r <= p * R /\ p * R < N * r + N
    BY <2>1, Division
  <2>3. r * N <= p * R /\ ~((r + 1) * N <= p * R)
    BY <2>1, <2>2
  <2>4. r \in 0 .. R - 1
    <3>1. CASE R <= r
      <4>1. N * R <= N * r
        BY <3>1, TimesMonotonic
      <4>2. R * p <= R * (N - 1)
        BY TimesMonotonic
      <4> QED
        BY <2>2, <4>1, <4>2
    <3> QED
      BY <3>1
  <2>5. RankStart(r, N, R) <= p /\ ~(RankStart(r + 1, N, R) <= p)
    BY <2>3, StartsAt
  <2>6. p \in RankParticles(r, N, R)
    BY <1>3, <2>4, <2>5 DEF RankParticles
  <2> QED
    BY <2>4, <2>6
<1>6. ASSUME NEW q \in 0 .. R - 1, NEW r \in 0 .. R - 1, q < r,
             NEW i \in RankParticles(q, N, R), NEW j \in RankParticles(r, N, R)
      PROVE  i < j
  <2>1. RankStart(q + 1, N, R) <= RankStart(r, N, R)
    BY <1>1, <1>6
  <2> QED
    BY <1>3, <2>1 DEF RankParticles
<1> QED
  BY <1>4, <1>5, <1>6

-----------------------------------------------------------------------------
(* The directory.                                                          *)

\* The ranks of the running job that are done have their own shard on disk.
DoneRanksOnDisk ==
  job # Missing =>
    \A r \in RanksOf(job.world) :
      job.status[r] = "written" => shard[r] = Shard(job.result, r, job.world)

\* A manifest records the checksums of one result cut up for one world.
ManifestNamesOneRun ==
  manifest # Missing =>
    \E x \in Results : \A r \in RanksOf(manifest.world) :
      manifest.checksum[r] = Shard(x, r, manifest.world)

\* An outcome is reported only once the job has ended.
RunningHasNoOutcome == job # Missing => outcome = "running"

Inv ==
  /\ TypeOK
  /\ DoneRanksOnDisk
  /\ ManifestNamesOneRun
  /\ RunningHasNoOutcome
  /\ PublishedIsReadable

\* A running job has one of the worlds, whose ranks are ranks.
LEMMA JobWorld ==
  ASSUME TypeOK, job # Missing
  PROVE  /\ job.world \in Worlds
         /\ job \in JobOf(job.world)
         /\ RanksOf(job.world) \subseteq Ranks
         /\ 0 \in RanksOf(job.world)
<1>1. PICK w \in Worlds : job \in JobOf(w)
  BY DEF TypeOK
<1>2. job.world = w
  BY <1>1 DEF JobOf
<1>3. RanksOf(w) \subseteq Ranks /\ 0 \in RanksOf(w)
  BY MaxWorldSizeAssumption DEF RanksOf, Ranks, Worlds
<1> QED
  BY <1>1, <1>2, <1>3

\* The same of the world of a manifest.
LEMMA ManifestWorld ==
  ASSUME TypeOK, manifest # Missing
  PROVE  /\ manifest.world \in Worlds
         /\ manifest \in ManifestOf(manifest.world)
         /\ RanksOf(manifest.world) \subseteq Ranks
<1>1. PICK w \in Worlds : manifest \in ManifestOf(w)
  BY DEF TypeOK
<1>2. manifest.world = w
  BY <1>1 DEF ManifestOf
<1>3. RanksOf(w) \subseteq Ranks
  BY MaxWorldSizeAssumption DEF RanksOf, Ranks, Worlds
<1> QED
  BY <1>1, <1>2, <1>3

\* The shards of one result, read rank by rank, are in logical order.
LEMMA WholeRunInOrder ==
  ASSUME NEW x, NEW w \in Worlds, NEW sums,
         \A r \in RanksOf(w) : sums[r] = Shard(x, r, w)
  PROVE  InLogicalOrder(sums, w)
<1> DEFINE all == UNION {sums[r].particles : r \in RanksOf(w)}
<1>1. ParticleCount \in Nat \ {0} /\ w \in Nat \ {0}
  BY ParticleCountAssumption, MaxWorldSizeAssumption DEF Worlds
<1>2. \A r \in 0 .. w - 1 : sums[r].particles = RankParticles(r, ParticleCount, w)
  <2> SUFFICES ASSUME NEW r \in 0 .. w - 1
               PROVE  sums[r].particles = RankParticles(r, ParticleCount, w)
    OBVIOUS
  <2>1. sums[r] = [result |-> x, particles |-> RankParticles(r, ParticleCount, w)]
    BY DEF Shard, RanksOf
  <2> QED
    BY <2>1
<1>3. /\ UNION {RankParticles(r, ParticleCount, w) : r \in 0 .. w - 1} = 0 .. ParticleCount - 1
      /\ \A q, r \in 0 .. w - 1 :
           q < r => \A i \in RankParticles(q, ParticleCount, w), j \in RankParticles(r, ParticleCount, w) : i < j
  BY <1>1, RangesTile
<1>4. all = 0 .. ParticleCount - 1
  <2>1. {sums[r].particles : r \in RanksOf(w)} = {RankParticles(r, ParticleCount, w) : r \in 0 .. w - 1}
    BY <1>2 DEF RanksOf
  <2> QED
    BY <2>1, <1>3
<1>5. \A i \in all : 0 .. i \subseteq all
  BY <1>4, <1>1
<1>6. \A q, r \in RanksOf(w) : q < r =>
        \A i \in sums[q].particles, j \in sums[r].particles : i < j
  BY <1>2, <1>3 DEF RanksOf
<1> HIDE DEF all
<1> QED
  BY <1>5, <1>6 DEF InLogicalOrder, all

\* The manifest of a job whose ranks are all done describes that job's result
\* and matches the shards on disk.
LEMMA CommittedManifest ==
  ASSUME Inv, job # Missing, AllWritten
  PROVE  LET m == Manifest(job.world) IN
         /\ m \in ManifestOf(job.world)
         /\ m # Missing
         /\ m.world = job.world
         /\ \A r \in RanksOf(job.world) :
              m.checksum[r] = shard[r] /\ m.checksum[r] = Shard(job.result, r, job.world)
<1> DEFINE m == Manifest(job.world)
<1>1. /\ job.world \in Worlds
      /\ RanksOf(job.world) \subseteq Ranks
      /\ job.result \in Results
  BY JobWorld DEF Inv, JobOf
<1>2. \A r \in RanksOf(job.world) : shard[r] = Shard(job.result, r, job.world)
  BY DEF Inv, DoneRanksOnDisk, AllWritten
<1>3. \A r \in RanksOf(job.world) : shard[r] \in ShardType
  BY <1>1, <1>2 DEF ShardType
<1>4. /\ m.world = job.world
      /\ m.checksum = [r \in RanksOf(job.world) |-> shard[r]]
  BY DEF Manifest
<1>5. m \in ManifestOf(job.world)
  BY <1>3 DEF Manifest, ManifestOf
<1>6. m # Missing
  BY <1>1, <1>5, MissingAssumption
<1> QED
  BY <1>2, <1>4, <1>5, <1>6

\* A manifest that stays, or is lost, keeps its type and what it describes.
LEMMA ManifestKept ==
  ASSUME Inv, manifest' \in {manifest, Missing}
  PROVE  /\ (manifest # Missing => \E w \in Worlds : manifest \in ManifestOf(w))'
         /\ ManifestNamesOneRun'
<1>1. CASE manifest' = manifest
  BY <1>1 DEF Inv, TypeOK, ManifestNamesOneRun
<1>2. CASE manifest' = Missing
  BY <1>2 DEF ManifestNamesOneRun
<1> QED
  BY <1>1, <1>2

\* The manifest of a finished job, once renamed, keeps the invariant's parts
\* that speak of the manifest, and makes the directory readable.
LEMMA ManifestCommitted ==
  ASSUME Inv, job # Missing, AllWritten,
         manifest' = Manifest(job.world), shard' = shard
  PROVE  /\ (manifest # Missing => \E w \in Worlds : manifest \in ManifestOf(w))'
         /\ ManifestNamesOneRun'
         /\ Readable'
<1>1. /\ manifest' \in ManifestOf(job.world)
      /\ manifest' # Missing
      /\ manifest'.world = job.world
      /\ \A r \in RanksOf(job.world) :
           /\ manifest'.checksum[r] = shard[r]
           /\ manifest'.checksum[r] = Shard(job.result, r, job.world)
  BY CommittedManifest
<1>2. job.world \in Worlds /\ job.result \in Results
  BY JobWorld DEF Inv, JobOf
<1>3. InLogicalOrder(manifest'.checksum, manifest'.world)
  BY <1>1, <1>2, WholeRunInOrder
<1>4. (manifest # Missing => \E w \in Worlds : manifest \in ManifestOf(w))'
  BY <1>1, <1>2
<1>5. ManifestNamesOneRun'
  BY <1>1, <1>2 DEF ManifestNamesOneRun
<1>6. Readable'
  BY <1>1, <1>3 DEF Readable
<1> QED
  BY <1>4, <1>5, <1>6

LEMMA InitInv == Init => Inv
<1> SUFFICES ASSUME Init PROVE Inv
  OBVIOUS
<1>1. TypeOK
  BY MaxJobsAssumption DEF Init, TypeOK
<1> QED
  BY <1>1 DEF Init, Inv, DoneRanksOnDisk, ManifestNamesOneRun, RunningHasNoOutcome,
               PublishedIsReadable

LEMMA NextInv == Inv /\ [Next]_vars => Inv'
<1> SUFFICES ASSUME Inv, [Next]_vars PROVE Inv'
  OBVIOUS
<1> USE DEF Inv
<1>1. ASSUME NEW kind \in {"mpi", "local"}, NEW x \in Results, NEW w \in Worlds,
             Start(kind, x, w)
      PROVE  Inv'
  <2>1. job' \in JobOf(w)
    BY <1>1 DEF Start, JobOf
  <2>2. started' \in 0 .. MaxJobs
    BY <1>1, MaxJobsAssumption DEF Start, TypeOK
  <2>3. TypeOK'
    BY <1>1, <2>1, <2>2 DEF Start, TypeOK
  <2>4. DoneRanksOnDisk'
    BY <1>1 DEF Start, DoneRanksOnDisk
  <2>5. ManifestNamesOneRun' /\ RunningHasNoOutcome' /\ PublishedIsReadable'
    BY <1>1 DEF Start, ManifestNamesOneRun, RunningHasNoOutcome, PublishedIsReadable
  <2> QED
    BY <2>3, <2>4, <2>5
<1>2. ASSUME NEW r \in Ranks, WriteShard(r)
      PROVE  Inv'
  <2>1. /\ job.world \in Worlds
        /\ job \in JobOf(job.world)
        /\ r \in RanksOf(job.world)
        /\ RanksOf(job.world) \subseteq Ranks
    BY <1>2, JobWorld DEF WriteShard
  <2>2. job' \in JobOf(job.world) /\ job'.world = job.world /\ job'.result = job.result
    BY <1>2, <2>1 DEF WriteShard, JobOf
  <2>3. Shard(job.result, r, job.world) \in ShardType
    BY <2>1 DEF JobOf, ShardType
  <2>4. TypeOK'
    BY <1>2, <2>1, <2>2, <2>3 DEF WriteShard, TypeOK
  <2>5. DoneRanksOnDisk'
    <3> SUFFICES ASSUME NEW q \in RanksOf(job.world), job'.status[q] = "written"
                 PROVE  shard'[q] = Shard(job.result, q, job.world)
      BY <2>2 DEF DoneRanksOnDisk
    <3>1. CASE q = r
      BY <1>2, <2>1, <3>1 DEF WriteShard, TypeOK
    <3>2. CASE q # r
      <4>1. job'.status[q] = job.status[q]
        BY <1>2, <2>1, <3>2 DEF WriteShard, JobOf
      <4>2. shard'[q] = shard[q]
        BY <1>2, <2>1, <3>2 DEF WriteShard, TypeOK
      <4> QED
        BY <1>2, <4>1, <4>2 DEF WriteShard, DoneRanksOnDisk
    <3> QED
      BY <3>1, <3>2
  <2>6. ManifestNamesOneRun'
    BY <1>2 DEF WriteShard, ManifestNamesOneRun
  <2>7. RunningHasNoOutcome' /\ PublishedIsReadable'
    BY <1>2 DEF WriteShard, RunningHasNoOutcome, PublishedIsReadable
  <2> QED
    BY <2>4, <2>5, <2>6, <2>7
<1>3. ASSUME NEW r \in Ranks, WriteShardFails(r)
      PROVE  Inv'
  <2>1. /\ job.world \in Worlds
        /\ job \in JobOf(job.world)
        /\ r \in RanksOf(job.world)
    BY <1>3, JobWorld DEF WriteShardFails
  <2>2. job' \in JobOf(job.world) /\ job'.world = job.world /\ job'.result = job.result
    BY <1>3, <2>1 DEF WriteShardFails, JobOf
  <2>3. PICK left \in {shard[r], Missing} : shard' = [shard EXCEPT ![r] = left]
    BY <1>3 DEF WriteShardFails, Interrupted
  <2>4. TypeOK'
    BY <1>3, <2>1, <2>2, <2>3 DEF WriteShardFails, TypeOK
  <2>5. DoneRanksOnDisk'
    <3> SUFFICES ASSUME NEW q \in RanksOf(job.world), job'.status[q] = "written"
                 PROVE  shard'[q] = Shard(job.result, q, job.world)
      BY <2>2 DEF DoneRanksOnDisk
    <3>1. q # r /\ job'.status[q] = job.status[q]
      BY <1>3, <2>1 DEF WriteShardFails, JobOf
    <3>2. q \in Ranks
      BY <1>3, JobWorld DEF WriteShardFails
    <3>3. shard'[q] = shard[q]
      BY <2>3, <3>1, <3>2 DEF TypeOK
    <3> QED
      BY <1>3, <3>1, <3>3 DEF WriteShardFails, DoneRanksOnDisk
  <2>6. ManifestNamesOneRun' /\ RunningHasNoOutcome' /\ PublishedIsReadable'
    BY <1>3 DEF WriteShardFails, ManifestNamesOneRun, RunningHasNoOutcome,
                PublishedIsReadable
  <2> QED
    BY <2>4, <2>5, <2>6
<1>4. CASE GiveUp \/ FinalizeRefuses
  <2>1. /\ job' = Missing /\ UNCHANGED <<shard, manifest, started>>
        /\ outcome' \in {"failed", "refused"}
    BY <1>4 DEF GiveUp, FinalizeRefuses
  <2> QED
    BY <2>1 DEF TypeOK, DoneRanksOnDisk, ManifestNamesOneRun, RunningHasNoOutcome,
                PublishedIsReadable
<1>5. CASE Finalize
  <2>1. /\ job' = Missing /\ UNCHANGED <<shard, started>>
        /\ outcome' = "published"
        /\ job # Missing /\ AllWritten /\ manifest' = Manifest(job.world)
    BY <1>5 DEF Finalize
  <2>2. /\ (manifest # Missing => \E w \in Worlds : manifest \in ManifestOf(w))'
        /\ ManifestNamesOneRun'
        /\ Readable'
    BY <2>1, ManifestCommitted
  <2>3. TypeOK'
    BY <2>1, <2>2 DEF TypeOK
  <2> QED
    BY <2>1, <2>2, <2>3 DEF DoneRanksOnDisk, RunningHasNoOutcome, PublishedIsReadable
<1>6. CASE FinalizeFails
  <2>1. /\ job' = Missing /\ UNCHANGED <<shard, started>>
        /\ outcome' = "failed"
        /\ manifest' \in {manifest, Missing}
    BY <1>6 DEF FinalizeFails, Interrupted
  <2>2. /\ (manifest # Missing => \E w \in Worlds : manifest \in ManifestOf(w))'
        /\ ManifestNamesOneRun'
    BY <2>1, ManifestKept
  <2>3. TypeOK'
    BY <2>1, <2>2 DEF TypeOK
  <2> QED
    BY <2>1, <2>2, <2>3 DEF DoneRanksOnDisk, RunningHasNoOutcome, PublishedIsReadable
<1>7. CASE Kill
  <2>1. /\ job' = Missing /\ UNCHANGED started
        /\ outcome' = "killed"
    BY <1>7 DEF Kill
  <2>2. shard' \in [Ranks -> ShardType \cup {Missing}]
    <3>1. PICK lost : shard' = [r \in Ranks |-> IF r \in lost THEN Missing ELSE shard[r]]
      BY <1>7 DEF Kill
    <3> QED
      BY <3>1 DEF TypeOK
  <2>3. /\ (manifest # Missing => \E w \in Worlds : manifest \in ManifestOf(w))'
        /\ ManifestNamesOneRun'
    <3>1. \/ manifest' \in {manifest, Missing}
          \/ job # Missing /\ AllWritten /\ manifest' = Manifest(job.world)
      BY <1>7 DEF Kill, Interrupted
    <3>2. CASE manifest' \in {manifest, Missing}
      BY <3>2, ManifestKept
    <3>3. CASE job # Missing /\ AllWritten /\ manifest' = Manifest(job.world)
      <4>1. /\ manifest' \in ManifestOf(job.world)
            /\ manifest'.world = job.world
            /\ \A r \in RanksOf(job.world) :
                 manifest'.checksum[r] = Shard(job.result, r, job.world)
        BY <3>3, CommittedManifest
      <4>2. job.world \in Worlds /\ job.result \in Results
        BY <3>3, JobWorld DEF JobOf
      <4> QED
        BY <4>1, <4>2 DEF ManifestNamesOneRun
    <3> QED
      BY <3>1, <3>2, <3>3
  <2>4. TypeOK'
    BY <2>1, <2>2, <2>3 DEF TypeOK
  <2> QED
    BY <2>1, <2>3, <2>4 DEF DoneRanksOnDisk, RunningHasNoOutcome, PublishedIsReadable
<1>8. CASE UNCHANGED vars
  BY <1>8 DEF vars, TypeOK, DoneRanksOnDisk, ManifestNamesOneRun, RunningHasNoOutcome,
              PublishedIsReadable, Readable, InLogicalOrder
<1> QED
  BY <1>1, <1>2, <1>3, <1>4, <1>5, <1>6, <1>7, <1>8 DEF Next

LEMMA Invariance == Spec => []Inv
BY InitInv, NextInv, PTL DEF Spec

\* Every directory a run of jobs can leave has the shape TypeOK describes.
THEOREM TypeCorrect == Spec => []TypeOK
<1>1. Inv => TypeOK
  BY DEF Inv
<1> QED
  BY <1>1, Invariance, PTL

\* read_directory never accepts shards of two jobs, whatever failed or was
\* killed over the directory.
THEOREM NeverMixed == Spec => []AcceptedIsOneRun
<1>1. Inv => AcceptedIsOneRun
  BY DEF Inv, ManifestNamesOneRun, AcceptedIsOneRun, Readable, WholeRun
<1> QED
  BY <1>1, Invariance, PTL

\* A job that reports a checkpoint has left one that read_directory accepts.
THEOREM Durable == Spec => []PublishedIsReadable
<1>1. Inv => PublishedIsReadable
  BY DEF Inv
<1> QED
  BY <1>1, Invariance, PTL

\* Where the rename replaces the old file, repeating a published job never
\* makes its checkpoint unreadable.
THEOREM Repeatable == Spec => RerunKeepsCheckpoint
<1>1. ASSUME Inv, [Next]_vars, ~RemoveBeforeRename, Rerun, Readable
      PROVE  Readable'
  <2> USE <1>1
  <2>1. /\ job # Missing /\ manifest # Missing /\ manifest.world = job.world
        /\ \A r \in RanksOf(job.world) :
             /\ manifest.checksum[r] = Shard(job.result, r, job.world)
             /\ shard[r] = Shard(job.result, r, job.world)
    BY DEF Rerun, Readable
  <2>2. RanksOf(job.world) \subseteq Ranks /\ job \in JobOf(job.world)
    BY <2>1, JobWorld DEF Inv
  <2>3. /\ InLogicalOrder(manifest.checksum, manifest.world)
        /\ shard \in [Ranks -> ShardType \cup {Missing}]
    BY DEF Readable, Inv, TypeOK
  <2>4. CASE UNCHANGED <<shard, manifest>>
    BY <2>4 DEF Readable, InLogicalOrder
  <2>5. ASSUME NEW r \in Ranks, WriteShard(r) \/ WriteShardFails(r)
        PROVE  Readable'
    <3>1. \A q \in RanksOf(job.world) : shard'[q] = shard[q]
      BY <2>1, <2>2, <2>3, <2>5 DEF WriteShard, WriteShardFails, Interrupted
    <3>2. manifest' = manifest
      BY <2>5 DEF WriteShard, WriteShardFails
    <3> QED
      BY <2>1, <2>3, <3>1, <3>2 DEF Readable
  <2>6. ASSUME AllWritten, manifest' = Manifest(job.world), shard' = shard
        PROVE  Readable'
    BY <2>1, <2>6, ManifestCommitted
  <2>7. CASE Kill
    <3>1. PICK lost : /\ lost = {}
                      /\ shard' = [r \in Ranks |-> IF r \in lost THEN Missing ELSE shard[r]]
      BY <2>7 DEF Kill
    <3>2. shard' = shard
      BY <2>3, <3>1
    <3> QED
      BY <2>4, <2>6, <2>7, <3>2 DEF Kill, Interrupted
  <2> QED
    BY <2>1, <2>4, <2>5, <2>6, <2>7
       DEF Next, vars, Start, GiveUp, Finalize, FinalizeRefuses, FinalizeFails, Interrupted
<1>2. Inv /\ [Next]_vars =>
        [~RemoveBeforeRename /\ Rerun /\ Readable => Readable']_vars
  BY <1>1
<1> QED
  BY <1>2, Invariance, PTL DEF Spec, RerunKeepsCheckpoint

-----------------------------------------------------------------------------
(* The output directory of the native filter.                              *)

Stages == {"start", "config", "shard", "manifest", "state"}

\* The files a run has replaced when it is about to write the given one.
ShardDone(kind, file) ==
  file \in IF kind = "local" THEN {"manifest", "state"} ELSE {"manifest", "config", "state"}
ManifestDone(kind, file) ==
  file \in IF kind = "local" THEN {"state"} ELSE {"config", "state"}

\* A process has all its fields, and a boundary once it has updated.
ProcessShape ==
  process # None =>
    /\ process = [kind |-> process.kind, setup |-> process.setup,
                  boundary |-> process.boundary, particles |-> process.particles,
                  filter |-> process.filter, updates |-> process.updates,
                  file |-> process.file]
    /\ process.kind \in {"local", "mpi"}
    /\ process.file \in Stages
    /\ process.boundary \in 0 .. MaxBoundary
    /\ process.updates \in Nat
    /\ process.updates > 0 => process.boundary \in Boundaries

FilesShape ==
  /\ DOMAIN shards = Boundaries /\ shards = [b \in Boundaries |-> shards[b]]
  /\ DOMAIN manifests = Boundaries /\ manifests = [b \in Boundaries |-> manifests[b]]
  /\ state # None => state.boundary \in Boundaries

\* Both parts of a filter that has updated come from that update, and what a
\* saving run has written so far is its own.
SavesItsOwn ==
  process # None =>
    /\ process.updates > 0 => process.particles = process.filter
    /\ process.file # "start" => process.updates > 0
    /\ ShardDone(process.kind, process.file) =>
         shards[process.boundary] = ParticlesOf(process)
    /\ ManifestDone(process.kind, process.file) =>
         manifests[process.boundary] = ParticlesOf(process)

\* Nothing runs or is saved before the first fresh run.
NothingBefore == freshRuns = 0 => process = None /\ state = None

\* A run that has updated is ahead of the saved state.
Ahead ==
  freshRuns <= 1 /\ process # None /\ state # None =>
    /\ process.boundary >= state.boundary
    /\ process.updates > 0 => process.boundary > state.boundary

FilterInv ==
  /\ freshRuns \in Nat
  /\ ProcessShape
  /\ FilesShape
  /\ SavesItsOwn
  /\ NothingBefore
  /\ Ahead
  /\ StateHasItsParticles

LEMMA FilterInitInv == FilterInit => FilterInv
BY DEF FilterInit, FilterInv, ProcessShape, FilesShape, SavesItsOwn, NothingBefore, Ahead,
       StateHasItsParticles

LEMMA FilterNextInv == FilterInv /\ [FilterNext]_filterVars => FilterInv'
<1> SUFFICES ASSUME FilterInv, [FilterNext]_filterVars PROVE FilterInv'
  OBVIOUS
<1> USE DEF FilterInv
<1>1. ASSUME NEW kind \in {"local", "mpi"}, NEW setup \in Setups, StartFresh(kind, setup)
      PROVE  FilterInv'
  <2>1. /\ process = None
        /\ process' = [kind |-> kind, setup |-> setup, boundary |-> 0,
                       particles |-> Root(setup), filter |-> Root(setup),
                       updates |-> 0, file |-> "start"]
        /\ freshRuns' = freshRuns + 1
        /\ UNCHANGED <<shards, manifests, state>>
    BY <1>1 DEF StartFresh, Begin
  <2>2. freshRuns' \in Nat /\ freshRuns' # 0
    BY <2>1
  <2>3. ProcessShape'
    BY <2>1, MaxBoundaryAssumption DEF ProcessShape, Stages
  <2>4. FilesShape'
    BY <2>1 DEF FilesShape
  <2>5. SavesItsOwn'
    BY <2>1 DEF SavesItsOwn, ShardDone, ManifestDone
  <2>6. freshRuns' <= 1 => state' = None
    BY <2>1 DEF NothingBefore
  <2> QED
    BY <2>2, <2>3, <2>4, <2>5, <2>6 DEF NothingBefore, Ahead, StateHasItsParticles
<1>2. ASSUME NEW kind \in {"local", "mpi"}, NEW b \in Boundaries,
             NEW given \in Configs \cup {None}, Resume(kind, b, given)
      PROVE  FilterInv'
  <2>1. /\ process = None /\ state # None
        /\ process' = [kind |-> kind, setup |-> Checkpoint(b).setup,
                       boundary |-> state.boundary,
                       particles |-> Checkpoint(b).token, filter |-> state.token,
                       updates |-> 0, file |-> "start"]
        /\ UNCHANGED <<shards, manifests, state, freshRuns>>
    BY <1>2 DEF Resume, ResumeAccepts, Begin
  <2>2. state.boundary \in Boundaries /\ state.boundary \in 0 .. MaxBoundary
    BY <2>1 DEF FilesShape, Boundaries
  <2>3. ProcessShape'
    BY <2>1, <2>2 DEF ProcessShape, Stages
  <2>4. FilesShape'
    BY <2>1 DEF FilesShape
  <2>5. SavesItsOwn'
    BY <2>1 DEF SavesItsOwn, ShardDone, ManifestDone
  <2>6. NothingBefore' /\ Ahead'
    <3>1. process'.boundary = state.boundary /\ process'.updates = 0
      BY <2>1
    <3> QED
      BY <2>1, <2>2, <3>1 DEF NothingBefore, Ahead, Boundaries
  <2>7. StateHasItsParticles'
    BY <2>1 DEF StateHasItsParticles, Checkpoint
  <2> QED
    BY <2>1, <2>3, <2>4, <2>5, <2>6, <2>7
<1>3. ASSUME NEW o \in Observations, Update(o)
      PROVE  FilterInv'
  <2> DEFINE new == Updated(process.particles, process.filter, o)
  <2>1. /\ process # None /\ process.file = "start"
        /\ process.boundary < MaxBoundary
        /\ UNCHANGED <<shards, manifests, state, freshRuns>>
    BY <1>3 DEF Update
  <2>2. process' = [kind |-> process.kind, setup |-> process.setup,
                    boundary |-> process.boundary + 1, particles |-> new,
                    filter |-> new, updates |-> process.updates + 1,
                    file |-> process.file]
    BY <1>3, <2>1 DEF Update, ProcessShape
  <2>3. ProcessShape'
    BY <2>1, <2>2, MaxBoundaryAssumption DEF ProcessShape, Boundaries
  <2>4. FilesShape'
    BY <2>1 DEF FilesShape
  <2>5. SavesItsOwn'
    BY <2>1, <2>2 DEF SavesItsOwn, ShardDone, ManifestDone
  <2>6. NothingBefore'
    BY <2>1 DEF NothingBefore
  <2>7. Ahead'
    BY <2>1, <2>2 DEF Ahead, ProcessShape, FilesShape, Boundaries
  <2>8. StateHasItsParticles'
    BY <2>1 DEF StateHasItsParticles, Checkpoint
  <2> QED
    BY <2>1, <2>3, <2>4, <2>5, <2>6, <2>7, <2>8
<1>4. CASE StartSaving
  <2>1. /\ process # None /\ process.updates > 0
        /\ UNCHANGED <<shards, manifests, state, freshRuns>>
    BY <1>4 DEF StartSaving
  <2>2. /\ process' = [kind |-> process.kind, setup |-> process.setup,
                       boundary |-> process.boundary, particles |-> process.particles,
                       filter |-> process.filter, updates |-> process.updates,
                       file |-> SaveOrder(process.kind).start]
        /\ SaveOrder(process.kind).start = IF process.kind = "local" THEN "config" ELSE "shard"
    BY <1>4, <2>1 DEF StartSaving, ProcessShape, SaveOrder
  <2>3. ProcessShape'
    BY <2>1, <2>2 DEF ProcessShape, Stages
  <2>4. FilesShape' /\ NothingBefore'
    BY <2>1 DEF FilesShape, NothingBefore
  <2>5. SavesItsOwn'
    BY <2>1, <2>2 DEF SavesItsOwn, ShardDone, ManifestDone, ProcessShape
  <2>6. Ahead'
    BY <2>1, <2>2 DEF Ahead
  <2>7. StateHasItsParticles'
    BY <2>1 DEF StateHasItsParticles, Checkpoint
  <2> QED
    BY <2>1, <2>3, <2>4, <2>5, <2>6, <2>7
<1>5. CASE WriteNext
  <2> DEFINE k == process.kind
             f == process.file
             b == process.boundary
             own == ParticlesOf(process)
  <2>1. /\ process # None /\ f # "start" /\ process.updates > 0
        /\ k \in {"local", "mpi"} /\ f \in Stages
        /\ b \in Boundaries
        /\ freshRuns' = freshRuns
        /\ process.particles = process.filter
    BY <1>5 DEF WriteNext, ProcessShape, SavesItsOwn
  <2>2. /\ shards' = IF f = "shard" THEN [shards EXCEPT ![b] = own] ELSE shards
        /\ manifests' = IF f = "manifest" THEN [manifests EXCEPT ![b] = own] ELSE manifests
        /\ state' = IF f = "state" THEN ContinuationOf(process) ELSE state
        /\ process' = IF SaveOrder(k)[f] = "done" THEN None
                      ELSE [process EXCEPT !.file = SaveOrder(k)[f]]
    BY <1>5 DEF WriteNext
  <2>3. FilesShape'
    <3>1. DOMAIN shards' = Boundaries /\ shards' = [c \in Boundaries |-> shards'[c]]
      BY <2>2 DEF FilesShape
    <3>2. DOMAIN manifests' = Boundaries /\ manifests' = [c \in Boundaries |-> manifests'[c]]
      BY <2>2 DEF FilesShape
    <3>3. state' # None => state'.boundary \in Boundaries
      BY <2>1, <2>2 DEF FilesShape, ContinuationOf
    <3> QED
      BY <3>1, <3>2, <3>3 DEF FilesShape
  <2>4. NothingBefore'
    BY <2>1 DEF NothingBefore
  <2>5. CASE f # "state"
    <3>1. /\ SaveOrder(k)[f] \in Stages \ {"start"}
          /\ state' = state
      BY <2>1, <2>2, <2>5 DEF SaveOrder, Stages
    <3>2. process' = [kind |-> k, setup |-> process.setup, boundary |-> b,
                      particles |-> process.particles, filter |-> process.filter,
                      updates |-> process.updates, file |-> SaveOrder(k)[f]]
      <4>1. process' = [process EXCEPT !.file = SaveOrder(k)[f]]
        BY <2>2, <3>1 DEF Stages
      <4> QED
        BY <2>1, <4>1 DEF ProcessShape
    <3>3. ProcessShape'
      BY <2>1, <3>1, <3>2 DEF ProcessShape
    <3>4. shards'[b] = IF f = "shard" THEN own ELSE shards[b]
      BY <2>1, <2>2 DEF FilesShape
    <3>5. manifests'[b] = IF f = "manifest" THEN own ELSE manifests[b]
      BY <2>1, <2>2 DEF FilesShape
    <3>6. ParticlesOf(process') = own
      BY <3>2 DEF ParticlesOf
    <3>7. ShardDone(k, SaveOrder(k)[f]) => f = "shard" \/ ShardDone(k, f)
      BY <2>1, <2>5 DEF ShardDone, SaveOrder, Stages
    <3>8. ManifestDone(k, SaveOrder(k)[f]) => f = "manifest" \/ ManifestDone(k, f)
      BY <2>1, <2>5 DEF ManifestDone, SaveOrder, Stages
    <3>9. SavesItsOwn'
      <4>1. ShardDone(k, SaveOrder(k)[f]) => shards'[b] = own
        BY <2>1, <3>4, <3>7 DEF SavesItsOwn
      <4>2. ManifestDone(k, SaveOrder(k)[f]) => manifests'[b] = own
        BY <2>1, <3>5, <3>8 DEF SavesItsOwn
      <4>3. /\ process'.kind = k /\ process'.file = SaveOrder(k)[f]
            /\ process'.boundary = b /\ process'.updates = process.updates
            /\ process'.particles = process'.filter
        BY <2>1, <3>2
      <4> QED
        BY <2>1, <3>6, <4>1, <4>2, <4>3 DEF SavesItsOwn
    <3>10. Ahead'
      BY <2>1, <3>1, <3>2 DEF Ahead
    <3>11. StateHasItsParticles'
      <4> SUFFICES ASSUME freshRuns <= 1, state # None
                   PROVE  Checkpoint(state.boundary)' =
                            [setup |-> state.setup, token |-> state.token]
        BY <2>1, <3>1 DEF StateHasItsParticles
      <4>1. b > state.boundary /\ state.boundary \in Boundaries
        BY <2>1 DEF Ahead, FilesShape
      <4>2. b # state.boundary
        BY <2>1, <4>1 DEF Boundaries
      <4>3. /\ shards'[state.boundary] = shards[state.boundary]
            /\ manifests'[state.boundary] = manifests[state.boundary]
        BY <2>1, <2>2, <4>1, <4>2 DEF FilesShape
      <4> QED
        BY <3>1, <4>3 DEF StateHasItsParticles, Checkpoint
    <3> QED
      BY <2>1, <2>3, <2>4, <3>3, <3>9, <3>10, <3>11
  <2>6. CASE f = "state"
    <3>1. SaveOrder(k)[f] = "done"
      BY <2>1, <2>6 DEF SaveOrder
    <3>2. /\ process' = None
          /\ state' = ContinuationOf(process)
          /\ shards' = shards /\ manifests' = manifests
      BY <2>2, <2>6, <3>1
    <3>3. ShardDone(k, f) /\ ManifestDone(k, f)
      BY <2>6 DEF ShardDone, ManifestDone
    <3>4. shards[b] = own /\ manifests[b] = own
      BY <2>1, <3>3 DEF SavesItsOwn
    <3>5. state'.boundary = b /\ own = [setup |-> state'.setup, token |-> state'.token]
      BY <2>1, <3>2 DEF ContinuationOf, ParticlesOf
    <3>6. StateHasItsParticles'
      BY <3>2, <3>4, <3>5 DEF StateHasItsParticles, Checkpoint
    <3> QED
      BY <2>1, <2>3, <2>4, <3>2, <3>6 DEF ProcessShape, SavesItsOwn, Ahead
  <2> QED
    BY <2>5, <2>6
<1>6. CASE Stop
  <2>1. process' = None /\ UNCHANGED <<shards, manifests, state, freshRuns>>
    BY <1>6 DEF Stop
  <2> QED
    BY <2>1 DEF ProcessShape, FilesShape, SavesItsOwn, NothingBefore, Ahead,
                StateHasItsParticles, Checkpoint
<1>7. CASE UNCHANGED filterVars
  BY <1>7 DEF filterVars, ProcessShape, FilesShape, SavesItsOwn, NothingBefore, Ahead,
              StateHasItsParticles, Checkpoint, ParticlesOf
<1> QED
  BY <1>1, <1>2, <1>3, <1>4, <1>5, <1>6, <1>7 DEF FilterNext

\* filter_state.json always has its particles beside it in a directory that one
\* filter only continues in.
THEOREM StateKeepsItsParticles == FilterSpec => []StateHasItsParticles
<1>1. FilterInv => StateHasItsParticles
  BY DEF FilterInv
<1> QED
  BY <1>1, FilterInitInv, FilterNextInv, PTL DEF FilterSpec

-----------------------------------------------------------------------------
(* The setups that files and processes are of.                             *)

SetupsAreSetups ==
  /\ \A b \in Boundaries :
       /\ shards[b] # None => shards[b].setup \in Setups
       /\ manifests[b] # None => manifests[b].setup \in Setups
  /\ state # None => state.setup \in Setups
  /\ process # None => process.setup \in Setups

LEMMA InitSetups == FilterInit => SetupsAreSetups
BY DEF FilterInit, SetupsAreSetups

LEMMA NextSetups == FilterInv /\ SetupsAreSetups /\ [FilterNext]_filterVars => SetupsAreSetups'
<1> SUFFICES ASSUME FilterInv, SetupsAreSetups, [FilterNext]_filterVars PROVE SetupsAreSetups'
  OBVIOUS
<1>1. ASSUME NEW kind \in {"local", "mpi"}, NEW setup \in Setups, StartFresh(kind, setup)
      PROVE  SetupsAreSetups'
  <2>1. /\ process' = [kind |-> kind, setup |-> setup, boundary |-> 0,
                       particles |-> Root(setup), filter |-> Root(setup),
                       updates |-> 0, file |-> "start"]
        /\ UNCHANGED <<shards, manifests, state>>
    BY <1>1 DEF StartFresh, Begin
  <2>2. process'.setup = setup /\ process'.boundary = 0
    BY <2>1
  <2> QED
    BY <2>1, <2>2 DEF SetupsAreSetups
<1>2. ASSUME NEW kind \in {"local", "mpi"}, NEW b \in Boundaries,
             NEW given \in Configs \cup {None}, Resume(kind, b, given)
      PROVE  SetupsAreSetups'
  <2> DEFINE c == IF given = None THEN config ELSE given
  <2>1. /\ ResumeAccepts(b, c)
        /\ process' = [kind |-> kind, setup |-> Checkpoint(b).setup,
                       boundary |-> state.boundary,
                       particles |-> Checkpoint(b).token, filter |-> state.token,
                       updates |-> 0, file |-> "start"]
        /\ UNCHANGED <<shards, manifests, state>>
    BY <1>2 DEF Resume, Begin
  <2>2. process'.setup = Checkpoint(b).setup
    BY <2>1
  <2>3. Checkpoint(b).setup \in Setups
    BY <2>1 DEF ResumeAccepts, Checkpoint, SetupsAreSetups
  <2> QED
    BY <2>1, <2>2, <2>3 DEF SetupsAreSetups
<1>3. ASSUME NEW o \in Observations, Update(o)
      PROVE  SetupsAreSetups'
  <2>1. /\ process # None
        /\ UNCHANGED <<shards, manifests, state>>
    BY <1>3 DEF Update
  <2>2. /\ process'.setup = process.setup
        /\ process'.updates = process.updates + 1
        /\ process.updates \in Nat
    BY <1>3, <2>1 DEF Update, FilterInv, ProcessShape
  <2> QED
    BY <2>1, <2>2 DEF SetupsAreSetups
<1>4. CASE StartSaving
  <2>1. /\ process # None /\ process.updates > 0
        /\ UNCHANGED <<shards, manifests, state>>
    BY <1>4 DEF StartSaving
  <2>2. /\ process'.setup = process.setup /\ process'.updates = process.updates
        /\ process.updates \in Nat
    BY <1>4, <2>1 DEF StartSaving, FilterInv, ProcessShape
  <2> QED
    BY <2>1, <2>2 DEF SetupsAreSetups
<1>5. CASE WriteNext
  <2> DEFINE own == ParticlesOf(process)
             next == SaveOrder(process.kind)[process.file]
  <2>1. /\ process # None /\ process.updates > 0 /\ process.updates \in Nat
        /\ own.setup = process.setup /\ process.setup \in Setups
        /\ ContinuationOf(process).setup = process.setup
    BY <1>5 DEF WriteNext, FilterInv, ProcessShape, SavesItsOwn, ParticlesOf,
                ContinuationOf, SetupsAreSetups
  <2>2. ASSUME NEW b \in Boundaries
        PROVE  /\ shards'[b] \in {own, shards[b]}
               /\ manifests'[b] \in {own, manifests[b]}
    BY <1>5, <2>2 DEF WriteNext, FilterInv, FilesShape
  <2>3. state' \in {ContinuationOf(process), state}
    BY <1>5 DEF WriteNext
  <2>4. process' # None => process'.setup = process.setup /\ process'.updates > 0
    <3> SUFFICES ASSUME process' # None
                 PROVE  process'.setup = process.setup /\ process'.updates > 0
      OBVIOUS
    <3>1. process' = [process EXCEPT !.file = next]
      BY <1>5 DEF WriteNext
    <3>2. process'.setup = process.setup /\ process'.updates = process.updates
      BY <2>1, <3>1 DEF FilterInv, ProcessShape
    <3> QED
      BY <2>1, <3>2
  <2> QED
    BY <2>1, <2>2, <2>3, <2>4 DEF SetupsAreSetups
<1>6. CASE Stop
  <2>1. process' = None /\ UNCHANGED <<shards, manifests, state>>
    BY <1>6 DEF Stop
  <2> QED
    BY <2>1 DEF SetupsAreSetups
<1>7. CASE UNCHANGED filterVars
  BY <1>7 DEF filterVars, SetupsAreSetups
<1> QED
  BY <1>1, <1>2, <1>3, <1>4, <1>5, <1>6, <1>7 DEF FilterNext

-----------------------------------------------------------------------------
(* What a run reports when it has written its last file.                   *)

\* The absent file is not one of the two records a run writes.
MissingIsNoFile ==
  \A setup, boundary, token :
    /\ None # [setup |-> setup, token |-> token]
    /\ None # [setup |-> setup, boundary |-> boundary, token |-> token]

ConfigDone(kind, file) ==
  file \in IF kind = "local" THEN {"shard", "manifest", "state"} ELSE {"state"}

\* A run reports when it has nothing left to write, and config.json is its own
\* from the moment it has replaced it.
ReportsLast ==
  process # None =>
    /\ reported = None
    /\ ConfigDone(process.kind, process.file) => config = process.setup.config

ReportInv == ReportsLast /\ ReportedIsResumable

LEMMA InitReportInv == FilterInit => ReportInv
BY DEF FilterInit, ReportInv, ReportsLast, ReportedIsResumable

LEMMA NextReportInv ==
  MissingIsNoFile => (FilterInv /\ SetupsAreSetups /\ ReportInv /\ [FilterNext]_filterVars => ReportInv')
<1> SUFFICES ASSUME MissingIsNoFile, FilterInv, SetupsAreSetups, ReportInv, [FilterNext]_filterVars
             PROVE  ReportInv'
  OBVIOUS
<1> USE DEF ReportInv
<1>1. ASSUME NEW kind \in {"local", "mpi"}, NEW setup, NEW boundary, NEW particles,
             NEW filter, Begin(kind, setup, boundary, particles, filter)
      PROVE  ReportInv'
  <2>1. reported' = None /\ process'.kind = kind /\ process'.file = "start"
    BY <1>1 DEF Begin
  <2> QED
    BY <2>1 DEF ReportsLast, ReportedIsResumable, ConfigDone
<1>2. ASSUME NEW o \in Observations, Update(o)
      PROVE  ReportInv'
  <2>1. /\ process # None /\ process.file = "start"
        /\ UNCHANGED <<config, reported>>
    BY <1>2 DEF Update
  <2>2. reported = None /\ process'.kind = process.kind /\ process'.file = "start"
    BY <1>2, <2>1 DEF Update, FilterInv, ProcessShape, ReportsLast
  <2> QED
    BY <2>1, <2>2 DEF ReportsLast, ReportedIsResumable, ConfigDone
<1>3. CASE StartSaving
  <2>1. /\ process # None
        /\ UNCHANGED <<config, reported>>
    BY <1>3 DEF StartSaving
  <2>2. /\ reported = None /\ process'.kind = process.kind
        /\ process'.file = IF process.kind = "local" THEN "config" ELSE "shard"
    BY <1>3, <2>1 DEF StartSaving, FilterInv, ProcessShape, ReportsLast, SaveOrder
  <2> QED
    BY <2>1, <2>2 DEF ReportsLast, ReportedIsResumable, ConfigDone
<1>4. CASE WriteNext
  <2> DEFINE k == process.kind
             f == process.file
             b == process.boundary
             own == ParticlesOf(process)
  <2>1. /\ process # None /\ f # "start" /\ reported = None
        /\ k \in {"local", "mpi"} /\ f \in Stages
        /\ process.setup \in Setups
        /\ process.updates > 0 /\ process.particles = process.filter
    BY <1>4 DEF WriteNext, FilterInv, ProcessShape, SavesItsOwn, ReportsLast,
                SetupsAreSetups
  <2>2. config' = IF f = "config" THEN process.setup.config ELSE config
    BY <1>4 DEF WriteNext
  <2>3. CASE f # "state"
    <3>1. SaveOrder(k)[f] \in Stages \ {"start"}
      BY <2>1, <2>3 DEF SaveOrder, Stages
    <3>2. process' = [process EXCEPT !.file = SaveOrder(k)[f]] /\ reported' = None
      BY <1>4, <2>1, <3>1 DEF WriteNext, Stages
    <3>3. /\ process'.kind = k /\ process'.file = SaveOrder(k)[f]
          /\ process'.setup = process.setup
      BY <2>1, <3>2 DEF FilterInv, ProcessShape
    <3>4. ConfigDone(k, SaveOrder(k)[f]) => f = "config" \/ ConfigDone(k, f)
      BY <2>1, <2>3 DEF ConfigDone, SaveOrder, Stages
    <3> QED
      BY <2>1, <2>2, <3>2, <3>3, <3>4 DEF ReportsLast, ReportedIsResumable
  <2>4. CASE f = "state"
    <3>1. SaveOrder(k)[f] = "done"
      BY <2>1, <2>4 DEF SaveOrder
    <3>2. /\ process' = None
          /\ reported' = [boundary |-> b, token |-> process.filter]
          /\ state' = ContinuationOf(process)
          /\ UNCHANGED <<config, shards, manifests>>
      BY <1>4, <2>4, <3>1 DEF WriteNext
    <3>3. ConfigDone(k, f) /\ ShardDone(k, f) /\ ManifestDone(k, f)
      BY <2>4 DEF ConfigDone, ShardDone, ManifestDone
    <3>4. config = process.setup.config /\ shards[b] = own /\ manifests[b] = own
      BY <2>1, <3>3 DEF ReportsLast, FilterInv, SavesItsOwn
    <3>5. config # None
      BY <2>1, <3>4, NoneAssumption DEF Setups
    <3>6. shards'[b] = own /\ manifests'[b] = own /\ config' = config
      BY <3>2, <3>4
    <3>7. /\ own.setup = process.setup /\ own.token = process.filter /\ own # None
          /\ state'.setup = process.setup /\ state'.boundary = b
          /\ state'.token = process.filter /\ state' # None
      BY <2>1, <3>2 DEF ParticlesOf, ContinuationOf, MissingIsNoFile
    <3>8. reported'.boundary = b /\ reported'.token = process.filter
      BY <3>2
    <3>9. Checkpoint(reported.boundary)' = own
      BY <3>6, <3>8 DEF Checkpoint
    <3>10. ResumeAccepts(reported.boundary, config)'
      BY <3>4, <3>5, <3>6, <3>7, <3>9 DEF ResumeAccepts
    <3>11. ReportedIsResumable'
      BY <3>7, <3>8, <3>9, <3>10 DEF ReportedIsResumable
    <3> QED
      BY <3>2, <3>11 DEF ReportsLast
  <2> QED
    BY <2>3, <2>4
<1>5. CASE Stop
  <2>1. process # None /\ process' = None /\ reported' = reported
    BY <1>5 DEF Stop
  <2> QED
    BY <2>1 DEF ReportsLast, ReportedIsResumable
<1>6. CASE UNCHANGED filterVars
  BY <1>6 DEF filterVars, ReportsLast, ReportedIsResumable, ResumeAccepts, Checkpoint
<1> QED
  BY <1>1, <1>2, <1>3, <1>4, <1>5, <1>6 DEF FilterNext, StartFresh, Resume

\* The checkpoint a run reports can be continued with the files beside it, and
\* gives back exactly the filter the run saved: for both orders in which the
\* front ends write the files, and whatever earlier runs, complete or stopped
\* anywhere, have left in the directory.
THEOREM ReportedCanBeResumed ==
  ASSUME MissingIsNoFile PROVE FilterSpec => []ReportedIsResumable
<1>1. ReportInv => ReportedIsResumable
  BY DEF ReportInv
<1>2. FilterInv /\ SetupsAreSetups /\ ReportInv /\ [FilterNext]_filterVars => ReportInv'
  BY NextReportInv
<1> QED
  BY <1>1, <1>2, FilterInitInv, FilterNextInv, InitSetups, NextSetups, InitReportInv,
     PTL DEF FilterSpec

-----------------------------------------------------------------------------
(* The directory of a campaign.                                            *)

\* Where an element is in run_task, and what it carries.
Places == {"idle", "binary", "config", "verify", "choose", "make",
           "run", "hash", "recheck", "publish"}
Record == [pc : Places, task : Tasks, attempt : Attempts \cup {Absent},
           files : Outputs \cup {Absent}]

\* From mkdir to its marker an element has its directory to itself, ...
Owning == {"run", "hash", "recheck", "publish"}
Owns(e, t, a) == element[e].pc \in Owning /\ element[e].task = t /\ element[e].attempt = a

\* ... and once it has hashed it, what it has hashed is there, or was lost.
Hashed == {"recheck", "publish"}
There(t, a, files) ==
  \/ attempt[t][a] = files
  \/ attempt[t][a] = Empty /\ losses > 0

\* A strengthening of the type invariant: an element with a directory knows which.
Shape ==
  /\ inputs \in [Files -> {"locked", "edited"}]
  /\ attempt \in [Tasks -> [Attempts -> Outputs \cup {Absent, Empty}]]
  /\ marker \in [Tasks -> [attempt : Attempts, files : Outputs] \cup {Absent}]
  /\ element \in [Elements -> Record]
  /\ losses \in Nat
  /\ \A e \in Elements :
       /\ element[e].pc \in {"make"} \cup Owning => element[e].attempt \in Attempts
       /\ element[e].pc \in Hashed => element[e].files \in Outputs

\* mkdir gives a directory to one element only.
Apart ==
  \A e, f \in Elements : \A t \in Tasks, a \in Attempts : Owns(e, t, a) /\ Owns(f, t, a) => e = f

\* What an element owns exists, and no marker names it.
Owned ==
  \A e \in Elements : element[e].pc \in Owning =>
    /\ attempt[element[e].task][element[e].attempt] # Absent
    /\ element[e].pc \in Hashed => There(element[e].task, element[e].attempt, element[e].files)
    /\ marker[element[e].task] # Absent => marker[element[e].task].attempt # element[e].attempt

\* What a marker's hashes stand for is there, or was lost on scratch.
Evident == \A t \in Tasks : marker[t] # Absent => There(t, marker[t].attempt, marker[t].files)

CampaignInv == Shape /\ Apart /\ Owned /\ Evident

\* What may become of an element that stays, or begins or ends something else than owning.
Proceeds(e, r) ==
  /\ element' = [element EXCEPT ![e] = r]
  /\ r \in Record
  /\ r.pc = "make" => r.attempt \in Attempts
  /\ r.pc \in Owning => /\ element[e].pc \in Owning
                        /\ r.task = element[e].task /\ r.attempt = element[e].attempt
  /\ r.pc \in Hashed => r.files \in Outputs /\ There(r.task, r.attempt, r.files)

\* A step that only moves an element keeps the invariant.
LEMMA Quiet ==
  ASSUME CampaignInv, NEW e \in Elements, NEW r, Proceeds(e, r), UNCHANGED <<attempt, marker, losses>>,
         inputs' = inputs
  PROVE  CampaignInv'
<1>1. element'[e] = r /\ \A f \in Elements : f # e => element'[f] = element[f]
  BY DEF CampaignInv, Shape, Proceeds
<1>2. r.pc \in Owning => r.attempt \in Attempts
  BY DEF Proceeds, CampaignInv, Shape
<1>3. Shape'
  BY <1>1, <1>2 DEF Proceeds, CampaignInv, Shape
<1>4. \A f \in Elements : \A t \in Tasks, a \in Attempts : Owns(f, t, a)' => Owns(f, t, a)
  BY <1>1 DEF Owns, Proceeds
<1>5. Apart'
  BY <1>4 DEF CampaignInv, Apart
<1>6. Owned'
  BY <1>1 DEF CampaignInv, Owned, There, Proceeds
<1>7. Evident'
  BY DEF CampaignInv, Evident, There
<1> QED
  BY <1>3, <1>5, <1>6, <1>7 DEF CampaignInv

\* An element that gives up takes its own directory with it.
LEMMA GivesUp ==
  ASSUME CampaignInv, NEW e \in Elements, element[e].pc \in Owning, NEW r, Proceeds(e, r),
         r.pc \notin Owning, Abandon(e), UNCHANGED <<marker, losses, inputs>>
  PROVE  CampaignInv'
<1> DEFINE t0 == element[e].task
           a0 == element[e].attempt
<1>1. t0 \in Tasks /\ a0 \in Attempts /\ a0 # Absent
  BY AbsentAssumption DEF CampaignInv, Shape, Record
<1>2. attempt' = [attempt EXCEPT ![t0][a0] = Absent]
  BY <1>1 DEF Abandon
<1>3. \A t \in Tasks, a \in Attempts :
        attempt'[t][a] = IF t = t0 /\ a = a0 THEN Absent ELSE attempt[t][a]
  BY <1>1, <1>2 DEF CampaignInv, Shape
<1>4. attempt' \in [Tasks -> [Attempts -> Outputs \cup {Absent, Empty}]]
  BY <1>1, <1>2 DEF CampaignInv, Shape
<1>5. element'[e] = r /\ \A f \in Elements : f # e => element'[f] = element[f]
  BY DEF CampaignInv, Shape, Proceeds
<1>6. r.pc \notin Hashed
  BY DEF Owning, Hashed
<1>7. Shape'
  BY <1>4, <1>5, <1>6 DEF Proceeds, CampaignInv, Shape
<1>8. \A f \in Elements : element'[f].pc \in Owning =>
        /\ f # e /\ element[f].task \in Tasks /\ element[f].attempt \in Attempts
        /\ ~(element[f].task = t0 /\ element[f].attempt = a0)
  BY <1>1, <1>5 DEF CampaignInv, Shape, Apart, Owns, Record
<1>9. Apart'
  BY <1>5, <1>8 DEF CampaignInv, Apart, Owns
<1>10. Owned'
  BY <1>3, <1>5, <1>8 DEF CampaignInv, Owned, There
<1>11. Evident'
  <2>1. ASSUME NEW t \in Tasks, marker[t] # Absent
        PROVE  ~(t = t0 /\ marker[t].attempt = a0) /\ marker[t].attempt \in Attempts
    BY <2>1 DEF CampaignInv, Owned, Shape
  <2> QED
    BY <1>3, <2>1 DEF CampaignInv, Evident, There
<1> QED
  BY <1>7, <1>9, <1>10, <1>11 DEF CampaignInv

\* An element that is not running.
LEMMA IdleIs == Idle \in Record /\ Idle.pc = "idle"
  BY TaskCountAssumption DEF Idle, Record, Places, Tasks

\* The task a bundle goes on with.
LEMMA NextTaskIs ==
  ASSUME CampaignInv, NEW e \in Elements, NextTask(e)
  PROVE  \E r : Proceeds(e, r) /\ r.pc \notin Owning /\ r.pc # "make"
<1>1. PICK n : n = element[e].task
  OBVIOUS
<1>2. n \in Tasks
  BY <1>1 DEF CampaignInv, Shape, Record
<1>3. n < LastTask(e) => n + 1 \in Tasks
  <2>1. FirstTask(e) \in Int
    BY ElementsAssumption, BundleSizeAssumption DEF FirstTask
  <2> QED
    BY <1>2, <2>1, TaskCountAssumption, BundleSizeAssumption DEF LastTask, Tasks
<1>4. PICK r : r = IF n < LastTask(e) THEN [Idle EXCEPT !.pc = "binary", !.task = n + 1] ELSE Idle
  OBVIOUS
<1>5. element' = [element EXCEPT ![e] = r]
  BY <1>1, <1>4 DEF NextTask
<1>6. r \in Record /\ r.pc \in {"binary", "idle"}
  BY <1>3, <1>4, IdleIs DEF Idle, Record, Places
<1> QED
  BY <1>5, <1>6 DEF Proceeds, Owning, Hashed

\* An element that ends.
LEMMA ExitIs ==
  ASSUME NEW e, Exit(e)
  PROVE  Proceeds(e, Idle) /\ Idle.pc \notin Owning
  BY IdleIs DEF Exit, Proceeds, Owning, Hashed

\* An element that goes on as it is.
LEMMA GoIs ==
  ASSUME CampaignInv, NEW e \in Elements, NEW pc \in Places, Go(e, pc)
  PROVE  LET r == [element[e] EXCEPT !.pc = pc] IN
         /\ element' = [element EXCEPT ![e] = r]
         /\ r \in Record /\ r.pc = pc /\ r.task = element[e].task
         /\ r.attempt = element[e].attempt /\ r.files = element[e].files
  BY DEF CampaignInv, Shape, Record, Go

\* Every step of run_task keeps the invariant.
LEMMA StepKeeps ==
  ASSUME CampaignInv, NEW e \in Elements, Step(e)
  PROVE  CampaignInv'
<1>1. ASSUME StartElement(e) PROVE CampaignInv'
  <2>1. FirstTask(e) \in Tasks
    BY ElementsAssumption, BundleSizeAssumption, TaskCountAssumption DEF FirstTask, Tasks
  <2>2. PICK r : r = [Idle EXCEPT !.pc = "binary", !.task = FirstTask(e)]
    OBVIOUS
  <2>3. r \in Record /\ r.pc = "binary"
    BY <2>1, <2>2, IdleIs DEF Idle, Record, Places
  <2>4. element' = [element EXCEPT ![e] = r]
    BY <1>1, <2>2 DEF StartElement
  <2>5. r.pc \notin Owning \cup Hashed \cup {"make"}
    BY <2>3 DEF Owning, Hashed
  <2>6. Proceeds(e, r)
    BY <2>3, <2>4, <2>5 DEF Proceeds
  <2> QED
    BY <1>1, <2>6, Quiet DEF StartElement
<1>2. ASSUME NEW f \in Files, NEW next \in {"config", "verify"}, CheckInput(e, f, next) PROVE CampaignInv'
  <2>1. CASE Go(e, next)
    <3>1. PICK r : r = [element[e] EXCEPT !.pc = next]
      OBVIOUS
    <3> next \in Places
      BY DEF Places
    <3>2. element' = [element EXCEPT ![e] = r] /\ r \in Record /\ r.pc = next
      BY <2>1, <3>1, GoIs
    <3>3. r.pc \notin Owning \cup Hashed \cup {"make"}
      BY <3>2 DEF Owning, Hashed
    <3>4. Proceeds(e, r)
      BY <3>2, <3>3 DEF Proceeds
    <3> QED
      BY <1>2, <3>4, Quiet DEF CheckInput
  <2>2. CASE Exit(e)
    BY <1>2, <2>2, ExitIs, Quiet DEF CheckInput
  <2> QED
    BY <1>2, <2>1, <2>2 DEF CheckInput
<1>3. ASSUME SkipCompleted(e) PROVE CampaignInv'
  <2>1. CASE Go(e, "choose")
    <3>1. PICK r : r = [element[e] EXCEPT !.pc = "choose"]
      OBVIOUS
    <3>2. element' = [element EXCEPT ![e] = r] /\ r \in Record /\ r.pc = "choose"
      BY <2>1, <3>1, GoIs DEF Places
    <3>3. r.pc \notin Owning \cup Hashed \cup {"make"}
      BY <3>2 DEF Owning, Hashed
    <3>4. Proceeds(e, r)
      BY <3>2, <3>3 DEF Proceeds
    <3> QED
      BY <1>3, <3>4, Quiet DEF SkipCompleted
  <2>2. CASE Exit(e)
    BY <1>3, <2>2, ExitIs, Quiet DEF SkipCompleted
  <2>3. CASE NextTask(e)
    BY <1>3, <2>3, NextTaskIs, Quiet DEF SkipCompleted
  <2>4. Go(e, "choose") \/ Exit(e) \/ NextTask(e)
    BY <1>3 DEF SkipCompleted, Verdict
  <2> QED
    BY <2>1, <2>2, <2>3, <2>4
<1>4. ASSUME ChooseAttempt(e) PROVE CampaignInv'
  <2>1. PICK a \in Attempts : element' = [element EXCEPT ![e].pc = "make", ![e].attempt = a]
    BY <1>4 DEF ChooseAttempt
  <2>2. PICK r : r = [element[e] EXCEPT !.pc = "make", !.attempt = a]
    OBVIOUS
  <2>3. element' = [element EXCEPT ![e] = r] /\ r \in Record /\ r.pc = "make" /\ r.attempt = a
    BY <2>1, <2>2 DEF CampaignInv, Shape, Record, Places
  <2>4. Proceeds(e, r)
    BY <2>3 DEF Proceeds, Owning, Hashed
  <2> QED
    BY <1>4, <2>4, Quiet DEF ChooseAttempt
<1>5. ASSUME MakeAttempt(e) PROVE CampaignInv'
  <2> DEFINE t0 == element[e].task
             a0 == element[e].attempt
  <2>1. t0 \in Tasks /\ a0 \in Attempts /\ element[e].pc = "make"
    BY <1>5 DEF MakeAttempt, At, CampaignInv, Shape, Record
  <2>2. CASE attempt[t0][a0] # Absent
    BY <1>5, <2>2, ExitIs, Quiet DEF MakeAttempt
  <2>3. CASE attempt[t0][a0] = Absent
    <3>1. attempt' = [attempt EXCEPT ![t0][a0] = Empty] /\ Go(e, "run")
      BY <1>5, <2>3 DEF MakeAttempt
    <3>2. PICK r : r = [element[e] EXCEPT !.pc = "run"]
      OBVIOUS
    <3>3. /\ element' = [element EXCEPT ![e] = r] /\ r \in Record /\ r.pc = "run"
          /\ r.task = t0 /\ r.attempt = a0
      BY <3>1, <3>2, GoIs DEF Places
    <3>4. element'[e] = r /\ \A f \in Elements : f # e => element'[f] = element[f]
      BY <3>3 DEF CampaignInv, Shape
    <3>5. \A t \in Tasks, a \in Attempts :
            attempt'[t][a] = IF t = t0 /\ a = a0 THEN Empty ELSE attempt[t][a]
      BY <2>1, <3>1 DEF CampaignInv, Shape
    <3>6. \A f \in Elements : element[f].pc \in Owning =>
            /\ element[f].task \in Tasks /\ element[f].attempt \in Attempts
            /\ ~(element[f].task = t0 /\ element[f].attempt = a0)
      BY <2>3 DEF CampaignInv, Owned, Shape, Record
    <3>7. \A t \in Tasks : marker[t] # Absent =>
            marker[t].attempt \in Attempts /\ ~(t = t0 /\ marker[t].attempt = a0)
      BY <2>3, AbsentAssumption DEF CampaignInv, Evident, There, Shape
    <3>8. Shape'
      <4>1. attempt' \in [Tasks -> [Attempts -> Outputs \cup {Absent, Empty}]]
        BY <2>1, <3>1 DEF CampaignInv, Shape
      <4> QED
        BY <1>5, <2>1, <3>3, <3>4, <4>1 DEF CampaignInv, Shape, MakeAttempt, Hashed, Owning
    <3>9. Apart'
      BY <3>3, <3>4, <3>6 DEF CampaignInv, Apart, Owns
    <3>10. Empty # Absent
      BY AbsentAssumption
    <3>11. Owned'
      <4>1. ASSUME NEW f \in Elements, f # e, element'[f].pc \in Owning
            PROVE  attempt'[element'[f].task][element'[f].attempt]
                     = attempt[element[f].task][element[f].attempt]
        BY <3>4, <3>5, <3>6, <4>1
      <4>2. attempt'[t0][a0] = Empty /\ (marker[t0] # Absent => marker[t0].attempt # a0)
        BY <2>1, <3>5, <3>7
      <4> QED
        BY <1>5, <3>3, <3>4, <3>10, <4>1, <4>2 DEF CampaignInv, Owned, There, MakeAttempt, Hashed
    <3>12. Evident'
      BY <1>5, <3>5, <3>7 DEF CampaignInv, Evident, There, MakeAttempt
    <3> QED
      BY <3>8, <3>9, <3>11, <3>12 DEF CampaignInv
  <2> QED
    BY <2>2, <2>3
<1>6. ASSUME RunProcess(e) PROVE CampaignInv'
  <2> DEFINE t0 == element[e].task
             a0 == element[e].attempt
  <2>1. t0 \in Tasks /\ a0 \in Attempts /\ element[e].pc = "run"
    BY <1>6 DEF RunProcess, At, CampaignInv, Shape, Record, Owning
  <2>2. CASE t0 \in failing
    BY <1>6, <2>1, <2>2, ExitIs, GivesUp DEF RunProcess, Owning
  <2>3. CASE t0 \notin failing
    <3>1. attempt' = [attempt EXCEPT ![t0][a0] = Output(inputs)] /\ Go(e, "hash")
      BY <1>6, <2>3 DEF RunProcess
    <3>2. PICK r : r = [element[e] EXCEPT !.pc = "hash"]
      OBVIOUS
    <3>3. /\ element' = [element EXCEPT ![e] = r] /\ r \in Record /\ r.pc = "hash"
          /\ r.task = t0 /\ r.attempt = a0
      BY <3>1, <3>2, GoIs DEF Places
    <3>4. element'[e] = r /\ \A f \in Elements : f # e => element'[f] = element[f]
      BY <3>3 DEF CampaignInv, Shape
    <3>5. \A t \in Tasks, a \in Attempts :
            attempt'[t][a] = IF t = t0 /\ a = a0 THEN Output(inputs) ELSE attempt[t][a]
      BY <2>1, <3>1 DEF CampaignInv, Shape
    <3>6. \A f \in Elements : f # e /\ element[f].pc \in Owning =>
            /\ element[f].task \in Tasks /\ element[f].attempt \in Attempts
            /\ ~(element[f].task = t0 /\ element[f].attempt = a0)
      BY <2>1 DEF CampaignInv, Apart, Owns, Shape, Record, Owning
    <3>7. \A t \in Tasks : marker[t] # Absent =>
            marker[t].attempt \in Attempts /\ ~(t = t0 /\ marker[t].attempt = a0)
      BY <2>1 DEF CampaignInv, Owned, Shape, Owning
    <3>8. Output(inputs) \in Outputs /\ Output(inputs) # Absent
      BY AbsentAssumption DEF CampaignInv, Shape, Outputs
    <3>9. Shape'
      <4>1. attempt' \in [Tasks -> [Attempts -> Outputs \cup {Absent, Empty}]]
        BY <2>1, <3>1, <3>8 DEF CampaignInv, Shape
      <4> QED
        BY <1>6, <2>1, <3>3, <3>4, <4>1 DEF CampaignInv, Shape, RunProcess, Hashed, Owning
    <3>10. Apart'
      BY <2>1, <3>3, <3>4, <3>6 DEF CampaignInv, Apart, Owns
    <3>11. Owned'
      <4>1. ASSUME NEW f \in Elements, f # e, element'[f].pc \in Owning
            PROVE  attempt'[element'[f].task][element'[f].attempt]
                     = attempt[element[f].task][element[f].attempt]
        BY <3>4, <3>5, <3>6, <4>1
      <4>2. attempt'[t0][a0] # Absent /\ (marker[t0] # Absent => marker[t0].attempt # a0)
        BY <2>1, <3>5, <3>7, <3>8
      <4> QED
        BY <1>6, <3>3, <3>4, <4>1, <4>2 DEF CampaignInv, Owned, There, RunProcess, Hashed
    <3>12. Evident'
      BY <1>6, <3>5, <3>7 DEF CampaignInv, Evident, There, RunProcess
    <3> QED
      BY <3>9, <3>10, <3>11, <3>12 DEF CampaignInv
  <2> QED
    BY <2>2, <2>3
<1>7. ASSUME HashFiles(e) PROVE CampaignInv'
  <2>1. PICK found : found = attempt[element[e].task][element[e].attempt]
    OBVIOUS
  <2>2. element[e].pc = "hash"
    BY <1>7 DEF HashFiles, At
  <2>3. CASE found = Empty
    BY <1>7, <2>1, <2>2, <2>3, ExitIs, GivesUp DEF HashFiles, Owning
  <2>4. CASE found # Empty
    <3>1. PICK r : r = [element[e] EXCEPT !.pc = "recheck", !.files = found]
      OBVIOUS
    <3>2. found \in Outputs
      BY <2>1, <2>2, <2>4 DEF CampaignInv, Shape, Owned, Record, Owning
    <3>3. /\ element' = [element EXCEPT ![e] = r] /\ r \in Record /\ r.pc = "recheck"
          /\ r.task = element[e].task /\ r.attempt = element[e].attempt /\ r.files = found
      BY <1>7, <2>1, <2>4, <3>1, <3>2 DEF HashFiles, CampaignInv, Shape, Record, Places
    <3>4. element[e].pc \in Owning
      BY <2>2 DEF Owning
    <3>5. There(r.task, r.attempt, r.files)
      BY <2>1, <3>3 DEF There
    <3>6. Proceeds(e, r)
      BY <3>2, <3>3, <3>4, <3>5 DEF Proceeds
    <3> QED
      BY <1>7, <2>1, <2>4, <3>6, Quiet DEF HashFiles
  <2> QED
    BY <2>3, <2>4
<1>8. ASSUME Recheck(e) PROVE CampaignInv'
  <2>1. element[e].pc = "recheck"
    BY <1>8 DEF Recheck, At
  <2>2. CASE Verdict(element[e].task) = "none"
    <3>1. Go(e, "publish") /\ attempt' = attempt
      BY <1>8, <2>2 DEF Recheck
    <3>2. PICK r : r = [element[e] EXCEPT !.pc = "publish"]
      OBVIOUS
    <3>3. /\ element' = [element EXCEPT ![e] = r] /\ r \in Record /\ r.pc = "publish"
          /\ r.task = element[e].task /\ r.attempt = element[e].attempt
          /\ r.files = element[e].files
      BY <3>1, <3>2, GoIs DEF Places
    <3>4. element[e].files \in Outputs
          /\ There(element[e].task, element[e].attempt, element[e].files)
      BY <2>1 DEF CampaignInv, Owned, Shape, Owning, Hashed
    <3>5. Proceeds(e, r)
      BY <2>1, <3>3, <3>4 DEF Proceeds, Owning, There
    <3> QED
      BY <1>8, <3>1, <3>5, Quiet DEF Recheck
  <2>3. CASE Verdict(element[e].task) # "none"
    <3>1. Abandon(e) /\ (NextTask(e) \/ Exit(e)) /\ UNCHANGED <<marker, losses, inputs>>
      BY <1>8, <2>3 DEF Recheck
    <3>2. \E r : Proceeds(e, r) /\ r.pc \notin Owning
      BY <3>1, NextTaskIs, ExitIs
    <3> QED
      BY <2>1, <3>1, <3>2, GivesUp DEF Owning
  <2> QED
    BY <2>2, <2>3
<1>9. ASSUME Publish(e) PROVE CampaignInv'
  <2> DEFINE t0 == element[e].task
             a0 == element[e].attempt
  <2>1. /\ t0 \in Tasks /\ a0 \in Attempts /\ element[e].pc = "publish"
        /\ element[e].files \in Outputs
    BY <1>9 DEF Publish, At, CampaignInv, Shape, Record, Owning, Hashed
  <2>2. PICK r : Proceeds(e, r) /\ r.pc \notin Owning
    BY <1>9, NextTaskIs DEF Publish
  <2>3. element'[e] = r /\ \A f \in Elements : f # e => element'[f] = element[f]
    BY <2>2 DEF CampaignInv, Shape, Proceeds
  <2>4. PICK m : m = [attempt |-> a0, files |-> element[e].files]
    OBVIOUS
  <2>5. marker' = [marker EXCEPT ![t0] = m]
    BY <1>9, <2>4 DEF Publish
  <2>6. m \in [attempt : Attempts, files : Outputs] /\ m # Absent
        /\ m.attempt = a0 /\ m.files = element[e].files
    BY <2>1, <2>4, AbsentAssumption
  <2>7. \A t \in Tasks : marker'[t] = IF t = t0 THEN m ELSE marker[t]
    BY <2>1, <2>5 DEF CampaignInv, Shape
  <2>8. r.pc \notin Hashed
    BY <2>2 DEF Hashed, Owning
  <2>9. Shape'
    <3>1. marker' \in [Tasks -> [attempt : Attempts, files : Outputs] \cup {Absent}]
      BY <2>1, <2>5, <2>6 DEF CampaignInv, Shape
    <3>2. element' \in [Elements -> Record]
      BY <2>2 DEF CampaignInv, Shape, Proceeds
    <3>3. \A f \in Elements :
            /\ element'[f].pc \in {"make"} \cup Owning => element'[f].attempt \in Attempts
            /\ element'[f].pc \in Hashed => element'[f].files \in Outputs
      BY <2>2, <2>3, <2>8 DEF CampaignInv, Shape, Proceeds
    <3> QED
      BY <1>9, <3>1, <3>2, <3>3 DEF CampaignInv, Shape, Publish
  <2>10. Apart'
    BY <2>2, <2>3 DEF CampaignInv, Apart, Owns
  <2>11. \A f \in Elements : element'[f].pc \in Owning =>
           f # e /\ element[f].task \in Tasks /\ element[f].attempt \in Attempts
           /\ ~(element[f].task = t0 /\ element[f].attempt = a0)
    BY <2>1, <2>2, <2>3 DEF CampaignInv, Apart, Owns, Shape, Record, Owning
  <2>12. Owned'
    BY <1>9, <2>3, <2>6, <2>7, <2>11 DEF CampaignInv, Owned, There, Publish
  <2>13. There(t0, a0, element[e].files)
    BY <2>1 DEF CampaignInv, Owned, Owning, Hashed
  <2>14. Evident'
    BY <1>9, <2>6, <2>7, <2>13 DEF CampaignInv, Evident, There, Publish
  <2> QED
    BY <2>9, <2>10, <2>12, <2>14 DEF CampaignInv
<1>10. "binary" \in Files /\ "config" \in Files
  BY DEF Files
<1> QED
  BY <1>1, <1>2, <1>3, <1>4, <1>5, <1>6, <1>7, <1>8, <1>9, <1>10 DEF Step

\* So do a preemption ...
LEMMA PreemptKeeps ==
  ASSUME CampaignInv, NEW e \in Elements, Preempt(e)
  PROVE  CampaignInv'
<1>1. Exit(e) /\ UNCHANGED <<marker, losses, inputs>>
  BY DEF Preempt
<1>2. CASE element[e].pc \in Owning
  BY <1>1, <1>2, ExitIs, GivesUp DEF Preempt, Owning
<1>3. CASE element[e].pc \notin Owning
  BY <1>1, <1>3, ExitIs, Quiet DEF Preempt, Owning
<1> QED
  BY <1>2, <1>3

\* ... and a loss.
LEMMA LoseKeeps ==
  ASSUME CampaignInv, NEW t0 \in Tasks, NEW a0 \in Attempts, Lose(t0, a0)
  PROVE  CampaignInv'
<1>1. attempt' = [attempt EXCEPT ![t0][a0] = Empty] /\ losses' = losses + 1
  BY DEF Lose
<1>2. \A t \in Tasks, a \in Attempts :
        attempt'[t][a] = IF t = t0 /\ a = a0 THEN Empty ELSE attempt[t][a]
  BY <1>1 DEF CampaignInv, Shape
<1>3. losses' \in Nat /\ losses' > 0
  BY <1>1 DEF CampaignInv, Shape
<1>4. attempt' \in [Tasks -> [Attempts -> Outputs \cup {Absent, Empty}]]
  BY <1>1 DEF CampaignInv, Shape
<1>5. Shape'
  BY <1>3, <1>4 DEF CampaignInv, Shape, Lose
<1>6. Apart'
  BY DEF CampaignInv, Apart, Owns, Lose
<1>7. Empty # Absent
  BY AbsentAssumption
<1>8. Owned'
  <2>1. ASSUME NEW f \in Elements, element[f].pc \in Owning
        PROVE  element[f].task \in Tasks /\ element[f].attempt \in Attempts
    BY <2>1 DEF CampaignInv, Shape, Record
  <2> QED
    BY <1>2, <1>3, <1>7, <2>1 DEF CampaignInv, Owned, There, Lose
<1>9. Evident'
  <2>1. ASSUME NEW t \in Tasks, marker[t] # Absent PROVE marker[t].attempt \in Attempts
    BY <2>1 DEF CampaignInv, Shape
  <2> QED
    BY <1>2, <1>3, <2>1 DEF CampaignInv, Evident, There, Lose
<1> QED
  BY <1>5, <1>6, <1>8, <1>9 DEF CampaignInv

LEMMA CampaignNextInv == CampaignInv /\ [CampaignNext]_campaignVars => CampaignInv'
<1> SUFFICES ASSUME CampaignInv, [CampaignNext]_campaignVars PROVE CampaignInv'
  OBVIOUS
<1>1. ASSUME NEW f \in Files, Edit(f) PROVE CampaignInv'
  <2>1. inputs' \in [Files -> {"locked", "edited"}]
    BY <1>1 DEF Edit, CampaignInv, Shape
  <2> QED
    BY <1>1, <2>1 DEF Edit, CampaignInv, Shape, Apart, Owned, Evident, There, Owns
<1>2. CASE UNCHANGED campaignVars
  BY <1>2 DEF campaignVars, CampaignInv, Shape, Apart, Owned, Evident, There, Owns
<1> QED
  BY <1>1, <1>2, StepKeeps, PreemptKeeps, LoseKeeps DEF CampaignNext

LEMMA CampaignInitInv == CampaignInit => CampaignInv
<1> SUFFICES ASSUME CampaignInit PROVE CampaignInv
  OBVIOUS
<1>1. \A e \in Elements : element[e] = Idle
  BY DEF CampaignInit
<1>2. Shape
  BY <1>1, IdleIs DEF CampaignInit, Shape, Locked, Owning, Hashed
<1>3. \A e \in Elements : element[e].pc \notin Owning
  BY <1>1, IdleIs DEF Owning
<1>4. Evident
  BY DEF CampaignInit, Evident
<1> QED
  BY <1>2, <1>3, <1>4 DEF CampaignInv, Apart, Owned, Owns

\* For any number of tasks, bundles, submissions and attempts: directories of
\* running elements are their own, and what the markers name is left alone.
THEOREM CampaignInvariant == CampaignSpec => []CampaignInv
<1> QED
  BY CampaignInitInv, CampaignNextInv, PTL DEF CampaignSpec

\* No element ever writes into the attempt that a task's marker names, however
\* many submissions run the task and wherever they are preempted: what the
\* marker's hashes stand for is there, or was lost on scratch.
THEOREM MarkersKeepTheirEvidence == CampaignSpec => []EvidenceKept
<1>1. CampaignInv => EvidenceKept
  BY DEF CampaignInv, Evident, There, EvidenceKept
<1> QED
  BY <1>1, CampaignInvariant, PTL

\* What is complete stays so, as long as nothing is lost.
Stays == \A t \in Tasks : Verdict(t) = "complete" => Verdict(t)' = "complete" \/ losses' > 0

\* A step with nothing lost leaves a verifiable marker to a complete task.
LEMMA StepStays == CampaignInv /\ CampaignInv' /\ [CampaignNext]_campaignVars => [Stays]_campaignVars
<1> SUFFICES ASSUME CampaignInv, CampaignInv', CampaignNext PROVE Stays
  BY DEF campaignVars
<1> SUFFICES ASSUME NEW t \in Tasks, Verdict(t) = "complete", ~(losses' > 0)
             PROVE  Verdict(t)' = "complete"
  BY DEF Stays
<1>1. marker[t] # Absent
  BY DEF Verdict
<1>2. marker'[t] # Absent
  <2>1. CASE marker' = marker
    BY <1>1, <2>1
  <2>2. ASSUME NEW e \in Elements, Publish(e) PROVE marker'[t] # Absent
    <3>1. PICK m : m = [attempt |-> element[e].attempt, files |-> element[e].files]
      OBVIOUS
    <3>2. m \in [attempt : Attempts, files : Outputs] /\ element[e].task \in Tasks
      BY <2>2, <3>1 DEF Publish, At, CampaignInv, Shape, Record, Owning, Hashed
    <3>3. m # Absent
      BY <3>2, AbsentAssumption
    <3>4. marker' = [marker EXCEPT ![element[e].task] = m]
      BY <2>2, <3>1 DEF Publish
    <3> QED
      BY <1>1, <3>2, <3>3, <3>4 DEF CampaignInv, Shape
  <2>3. marker' = marker \/ \E e \in Elements : Publish(e)
    BY DEF CampaignNext, Step, Preempt, Edit, Lose, StartElement, CheckInput, SkipCompleted, ChooseAttempt,
           MakeAttempt, RunProcess, HashFiles, Recheck
  <2> QED
    BY <2>1, <2>2, <2>3
<1>3. attempt'[t][marker'[t].attempt] = marker'[t].files
  BY <1>2 DEF CampaignInv, Evident, There
<1> QED
  BY <1>2, <1>3 DEF Verdict

\* Reruns, preemptions and second submissions leave complete what was complete,
\* until scratch loses an output.
THEOREM CompletionLasts == CampaignSpec => CompleteStays
<1>1. CampaignInv /\ CampaignInv' /\ [CampaignNext]_campaignVars => [Stays]_campaignVars
  BY StepStays
<1> QED
  BY <1>1, CampaignInvariant, PTL DEF CampaignSpec, CompleteStays, Stays
==============================================================================
