------------------------- MODULE CheckpointDirectory -------------------------
(***************************************************************************)
(* One checkpoint directory, as CheckpointStore                            *)
(* (rust/pineland-core/src/checkpoint.rs) and publish_checkpoint           *)
(* (rust/pineland-hpc/src/mpi_runtime.rs) write and read it.  Jobs follow   *)
(* one another in the directory: an MPI job of any world size writes one   *)
(* shard per rank and lets rank 0 commit the manifest, a single-process    *)
(* job writes both itself, and each may fail or be killed at any write and *)
(* be started again with another world size or another result.            *)
(*                                                                         *)
(* Every file is written to a temporary name, synced and renamed, so a     *)
(* file is seen whole or not at all.  A SHA-256 checksum is modelled by    *)
(* the content it stands for.                                              *)
(***************************************************************************)
EXTENDS Partition

CONSTANTS
  ParticleCount,     \* logical particles of the filter
  MaxWorldSize,      \* bound: largest MPI world
  Results,           \* the states a run may reach at this boundary
  MaxJobs,           \* bound: jobs started in this directory
  RemoveBeforeRename,\* TRUE on Windows: replace_file removes the old file first
  Missing            \* an absent file, and the absence of a running job

ASSUME ParticleCountAssumption == ParticleCount \in Nat \ {0}
ASSUME MaxWorldSizeAssumption == MaxWorldSize \in Nat \ {0}
ASSUME MaxJobsAssumption == MaxJobs \in Nat
ASSUME RemoveBeforeRenameAssumption == RemoveBeforeRename \in BOOLEAN

VARIABLES
  shard,    \* rank -> content of rank_<r>.pld, or Missing
  manifest, \* content of manifest.json, or Missing
  job,      \* the job writing the directory, or Missing
  started,  \* number of jobs started so far
  outcome   \* how the last job ended

vars == <<shard, manifest, job, started, outcome>>

Ranks == 0 .. MaxWorldSize - 1
RanksOf(w) == 0 .. w - 1
Worlds == 1 .. MaxWorldSize

\* Variant of Shard: an interval that forgets where the rank starts.
ShardFromZero(x, r, w) ==
  [result |-> x, particles |-> 0 .. RankStart(r + 1, ParticleCount, w) - 1]

\* encode_shard: rank r's interval of the particles of one result.
Shard(x, r, w) == [result |-> x, particles |-> RankParticles(r, ParticleCount, w)]

ShardType ==
  {Shard(x, r, w) : x \in Results, r \in Ranks, w \in Worlds}

\* The manifest that lists the shards of w ranks with their checksums.
Manifest(w) == [world |-> w, checksum |-> [r \in RanksOf(w) |-> shard[r]]]

\* Variant of Interrupted: the destination is removed first on every platform.
InterruptedAfterRemove(old) == {old, Missing}

\* The states replace_file may leave behind when it does not complete.
Interrupted(old) == IF RemoveBeforeRename THEN {old, Missing} ELSE {old}

Init ==
  /\ shard = [r \in Ranks |-> Missing]
  /\ manifest = Missing
  /\ job = Missing
  /\ started = 0
  /\ outcome = "none"

\* A job reaches this boundary: an MPI filter of w ranks, or a single process.
Start(kind, x, w) ==
  /\ job = Missing
  /\ started < MaxJobs
  /\ kind = "local" => w = 1
  /\ job' = [kind |-> kind, result |-> x, world |-> w,
             status |-> [r \in RanksOf(w) |-> "writing"]]
  /\ started' = started + 1
  /\ outcome' = "running"
  /\ UNCHANGED <<shard, manifest>>

WriteShard(r) ==
  /\ job # Missing
  /\ r \in RanksOf(job.world)
  /\ job.status[r] = "writing"
  /\ shard' = [shard EXCEPT ![r] = Shard(job.result, r, job.world)]
  /\ job' = [job EXCEPT !.status[r] = "written"]
  /\ UNCHANGED <<manifest, started, outcome>>

WriteShardFails(r) ==
  /\ job # Missing
  /\ r \in RanksOf(job.world)
  /\ job.status[r] = "writing"
  /\ \E left \in Interrupted(shard[r]) : shard' = [shard EXCEPT ![r] = left]
  /\ job' = [job EXCEPT !.status[r] = "failed"]
  /\ UNCHANGED <<manifest, started, outcome>>

\* Variant of AllWritten: rank 0 looks at its own status only.
WrittenByRoot == job.status[0] = "written"

AllReported == \A r \in RanksOf(job.world) : job.status[r] # "writing"
AllWritten == \A r \in RanksOf(job.world) : job.status[r] = "written"

\* The gathered statuses show a failure: every rank returns an error.
GiveUp ==
  /\ job # Missing
  /\ AllReported
  /\ ~AllWritten
  /\ job' = Missing
  /\ outcome' = "failed"
  /\ UNCHANGED <<shard, manifest, started>>

\* finalize_directory lists rank_*.pld and wants exactly those of its world;
\* write_directory, the single-process path, lists its own shard only.
ShardSetAccepted ==
  \/ job.kind = "local"
  \/ {r \in Ranks : shard[r] # Missing} = RanksOf(job.world)

\* The manifest is the last file written.
Finalize ==
  /\ job # Missing
  /\ AllWritten
  /\ ShardSetAccepted
  /\ manifest' = Manifest(job.world)
  /\ job' = Missing
  /\ outcome' = "published"
  /\ UNCHANGED <<shard, started>>

FinalizeRefuses ==
  /\ job # Missing
  /\ AllWritten
  /\ ~ShardSetAccepted
  /\ job' = Missing
  /\ outcome' = "refused"
  /\ UNCHANGED <<shard, manifest, started>>

FinalizeFails ==
  /\ job # Missing
  /\ AllWritten
  /\ ShardSetAccepted
  /\ manifest' \in Interrupted(manifest)
  /\ job' = Missing
  /\ outcome' = "failed"
  /\ UNCHANGED <<shard, started>>

\* The job is killed: ranks still writing leave what an unfinished replace_file
\* leaves, and rank 0 may already have renamed the manifest.
Kill ==
  /\ job # Missing
  /\ \E lost \in SUBSET {r \in RanksOf(job.world) : job.status[r] = "writing"} :
       /\ ~RemoveBeforeRename => lost = {}
       /\ shard' = [r \in Ranks |-> IF r \in lost THEN Missing ELSE shard[r]]
  /\ \/ manifest' = manifest
     \/ /\ AllWritten
        /\ ShardSetAccepted
        /\ manifest' \in Interrupted(manifest) \cup {Manifest(job.world)}
  /\ job' = Missing
  /\ outcome' = "killed"
  /\ UNCHANGED started

Next ==
  \/ \E kind \in {"mpi", "local"}, x \in Results, w \in Worlds :
       Start(kind, x, w)
  \/ \E r \in Ranks : WriteShard(r) \/ WriteShardFails(r)
  \/ GiveUp
  \/ Finalize
  \/ FinalizeRefuses
  \/ FinalizeFails
  \/ Kill

Spec == Init /\ [][Next]_vars

-----------------------------------------------------------------------------

\* read_directory accepts the directory: the manifest is there, every shard it
\* lists has the recorded checksum, and the particles read rank by rank come
\* in logical order from 0 (not asked of a single particle).
InLogicalOrder(sums, w) ==
  LET all == UNION {sums[r].particles : r \in RanksOf(w)} IN
    \/ \A i, j \in all : i = j
    \/ /\ \A i \in all : 0 .. i \subseteq all
       /\ \A q, r \in RanksOf(w) : q < r =>
            \A i \in sums[q].particles, j \in sums[r].particles : i < j

Readable ==
  /\ manifest # Missing
  /\ \A r \in RanksOf(manifest.world) : shard[r] = manifest.checksum[r]
  /\ InLogicalOrder(manifest.checksum, manifest.world)

-----------------------------------------------------------------------------

ManifestOf(w) == [world : {w}, checksum : [RanksOf(w) -> ShardType]]

ASSUME MissingAssumption == \A w \in Worlds : Missing \notin ManifestOf(w)

JobOf(w) ==
  [kind : {"mpi", "local"}, result : Results, world : {w},
   status : [RanksOf(w) -> {"writing", "written", "failed"}]]

\* Type invariant; a manifest lists, and a job has, one entry per rank.
TypeOK ==
  /\ shard \in [Ranks -> ShardType \cup {Missing}]
  /\ manifest # Missing => \E w \in Worlds : manifest \in ManifestOf(w)
  /\ job # Missing => \E w \in Worlds : job \in JobOf(w)
  /\ started \in 0 .. MaxJobs
  /\ outcome \in {"none", "running", "failed", "killed", "refused", "published"}

WholeRun(x) ==
  \A r \in RanksOf(manifest.world) : shard[r] = Shard(x, r, manifest.world)

\* A directory that read_directory accepts holds every particle of one result,
\* cut up for one world size: whatever jobs were killed or failed over it,
\* shards of two jobs never pass for a checkpoint.
AcceptedIsOneRun == Readable => \E x \in Results : WholeRun(x)

\* A job that reports its checkpoint leaves a directory a restart can read.
PublishedIsReadable == outcome = "published" => Readable

Rerun ==
  /\ job # Missing
  /\ manifest # Missing
  /\ manifest.world = job.world
  /\ \A r \in RanksOf(job.world) :
       manifest.checksum[r] = Shard(job.result, r, job.world)

\* Running a job again over the checkpoint it published never makes that
\* checkpoint unreadable, wherever the job fails or is killed, as long as the
\* rename replaces the old file.
RerunKeepsCheckpoint ==
  [][~RemoveBeforeRename /\ Rerun /\ Readable => Readable']_vars

==============================================================================
