------------------------- MODULE FilterContinuation -------------------------
(***************************************************************************)
(* The output directory of the native particle filter, as filter_local,    *)
(* filter_mpi and filter_from_checkpoint (rust/pineland-cli/src/main.rs)    *)
(* write it and continue from it.  A run leaves config.json, a directory   *)
(* checkpoint_<boundary> with the particles, and one filter_state.json     *)
(* with the filter's own part: boundary, weights, RNG, MCSE samples.  Runs  *)
(* follow one another in the directory and may stop at any point.          *)
(*                                                                         *)
(* Both parts of a filter after an update are determined by both parts     *)
(* before it and by the observation, so they are modelled by one token,    *)
(* the update they came from.  A checkpoint directory is the pair of its   *)
(* shard and its manifest; CheckpointDirectory models it in detail.  The   *)
(* option --filter-state, which names a file elsewhere, is left out.       *)
(***************************************************************************)
EXTENDS Integers

CONSTANTS
  Configs,       \* simulation configurations, by their canonical hash
  Counts,        \* particle counts a run may be started with
  Observations,  \* what a boundary may observe
  MaxBoundary,   \* bound: boundaries of one filter
  MaxRuns,       \* bound: runs in the directory
  MaxFreshRuns,  \* how many of them start a new filter
  None           \* an absent file, option or process

ASSUME NoneAssumption == None \notin Configs
ASSUME MaxBoundaryAssumption == MaxBoundary \in Nat
ASSUME MaxRunsAssumption == MaxRuns \in Nat
ASSUME MaxFreshRunsAssumption == MaxFreshRuns \in Nat

VARIABLES
  config,      \* config.json
  shards,      \* boundary -> what rank_0000.pld .. of checkpoint_<boundary> hold
  manifests,   \* boundary -> what its manifest.json describes
  state,       \* filter_state.json
  process,     \* the running filter, or Missing
  runs,        \* runs started
  freshRuns,   \* those of them that started a new filter
  reported     \* what the last run printed before it exited

filterVars == <<config, shards, manifests, state, process, runs, freshRuns, reported>>

Boundaries == 1 .. MaxBoundary
Setups == [config : Configs, count : Counts]

\* The filter before its first update, and after one.
Root(setup) == <<setup>>
Updated(particles, filter, o) == <<particles, filter, o>>

\* read_directory of checkpoint_<b>: what the manifest describes, if the shard
\* still is that.
Checkpoint(b) ==
  IF shards[b] = manifests[b] THEN manifests[b] ELSE None

FilterInit ==
  /\ config = None
  /\ shards = [b \in Boundaries |-> None]
  /\ manifests = [b \in Boundaries |-> None]
  /\ state = None
  /\ process = None
  /\ runs = 0
  /\ freshRuns = 0
  /\ reported = None

Begin(kind, setup, boundary, particles, filter) ==
  /\ process = None
  /\ runs < MaxRuns
  /\ process' = [kind |-> kind, setup |-> setup, boundary |-> boundary,
                 particles |-> particles, filter |-> filter,
                 updates |-> 0, file |-> "start"]
  /\ runs' = runs + 1
  /\ reported' = None
  /\ UNCHANGED <<config, shards, manifests, state>>

\* filter without --checkpoint.
StartFresh(kind, setup) ==
  /\ freshRuns < MaxFreshRuns
  /\ freshRuns' = freshRuns + 1
  /\ Begin(kind, setup, 0, Root(setup), Root(setup))

\* filter --checkpoint checkpoint_<b> [--config given]: the configuration must be
\* the one of the manifest and of filter_state.json, and the particle counts of
\* the two must agree.  The boundary is the one filter_state.json records.
ResumeAccepts(b, c) ==
  /\ Checkpoint(b) # None
  /\ c # None
  /\ Checkpoint(b).setup.config = c
  /\ state # None
  /\ state.setup.config = c
  /\ state.setup.count = Checkpoint(b).setup.count

Resume(kind, b, given) ==
  /\ ResumeAccepts(b, IF given = None THEN config ELSE given)
  /\ Begin(kind, Checkpoint(b).setup, state.boundary, Checkpoint(b).token, state.token)
  /\ UNCHANGED freshRuns

\* One pass through the boundary loop.
Update(o) ==
  /\ process # None
  /\ process.file = "start"
  /\ process.boundary < MaxBoundary
  /\ LET new == Updated(process.particles, process.filter, o) IN
       process' = [process EXCEPT !.particles = new, !.filter = new,
                                  !.boundary = @ + 1, !.updates = @ + 1]
  /\ UNCHANGED <<config, shards, manifests, state, runs, freshRuns, reported>>

\* Variant of SaveOrder: the small files first.
SaveStateFirst(kind) ==
  [start |-> "config", config |-> "state", state |-> "shard", shard |-> "manifest",
   manifest |-> "done"]

\* The files of a run, each with the one the front end writes next.
SaveOrder(kind) ==
  IF kind = "local"
  THEN [start |-> "config", config |-> "shard", shard |-> "manifest",
        manifest |-> "state", state |-> "done"]
  ELSE [start |-> "shard", shard |-> "manifest", manifest |-> "config",
        config |-> "state", state |-> "done"]

\* Every run makes at least one update before it saves.
StartSaving ==
  /\ process # None
  /\ process.file = "start"
  /\ process.updates > 0
  /\ process' = [process EXCEPT !.file = SaveOrder(process.kind).start]
  /\ UNCHANGED <<config, shards, manifests, state, runs, freshRuns, reported>>

ParticlesOf(p) == [setup |-> p.setup, token |-> p.particles]

\* Variant of ContinuationOf: a resumed run counts its own updates only.
ContinuationOfRun(p) == [setup |-> p.setup, boundary |-> p.updates, token |-> p.filter]

\* continuation_json
ContinuationOf(p) == [setup |-> p.setup, boundary |-> p.boundary, token |-> p.filter]

\* Each file is replaced as a whole.
WriteNext ==
  /\ process # None
  /\ process.file # "start"
  /\ LET file == process.file
         next == SaveOrder(process.kind)[file]
     IN
       /\ config' = IF file = "config" THEN process.setup.config ELSE config
       /\ shards' = IF file = "shard"
                    THEN [shards EXCEPT ![process.boundary] = ParticlesOf(process)]
                    ELSE shards
       /\ manifests' = IF file = "manifest"
                       THEN [manifests EXCEPT ![process.boundary] = ParticlesOf(process)]
                       ELSE manifests
       /\ state' = IF file = "state" THEN ContinuationOf(process) ELSE state
       /\ process' = IF next = "done" THEN None ELSE [process EXCEPT !.file = next]
       /\ reported' = IF next = "done"
                      THEN [boundary |-> process.boundary, token |-> process.filter]
                      ELSE reported
  /\ UNCHANGED <<runs, freshRuns>>

\* An error return, or a crash, between any two steps.
Stop ==
  /\ process # None
  /\ process' = None
  /\ UNCHANGED <<config, shards, manifests, state, runs, freshRuns, reported>>

FilterNext ==
  \/ \E kind \in {"local", "mpi"} :
       \/ \E setup \in Setups : StartFresh(kind, setup)
       \/ \E b \in Boundaries, given \in Configs \cup {None} : Resume(kind, b, given)
  \/ \E o \in Observations : Update(o)
  \/ StartSaving
  \/ WriteNext
  \/ Stop

FilterSpec == FilterInit /\ [][FilterNext]_filterVars

-----------------------------------------------------------------------------

\* Type invariant; the tokens are of no interest to it.
FilterTypeOK ==
  /\ config \in Configs \cup {None}
  /\ DOMAIN shards = Boundaries /\ DOMAIN manifests = Boundaries
  /\ \A b \in Boundaries :
       /\ shards[b] # None => shards[b].setup \in Setups
       /\ manifests[b] # None => manifests[b].setup \in Setups
  /\ state # None => state.setup \in Setups /\ state.boundary \in Boundaries
  /\ process # None =>
       /\ process.setup \in Setups
       /\ process.boundary \in 0 .. MaxBoundary
       /\ process.updates \in 0 .. process.boundary
       /\ process.file \in {"start", "config", "shard", "manifest", "state"}
  /\ runs \in 0 .. MaxRuns
  /\ freshRuns \in 0 .. MaxFreshRuns
  /\ reported # None => reported.boundary \in Boundaries

\* The checkpoint a run reports can be continued with the files beside it, and
\* continues exactly the filter that was saved, whichever front end saved it
\* and whatever earlier runs left in the directory.
ReportedIsResumable ==
  reported # None /\ process = None =>
    /\ ResumeAccepts(reported.boundary, config)
    /\ state.boundary = reported.boundary
    /\ Checkpoint(reported.boundary).token = reported.token
    /\ state.token = reported.token

\* In a directory that one filter only ever continues in, filter_state.json
\* always has the particles it belongs to beside it: a run that stops anywhere
\* while it saves leaves the previous pair, or its own, intact.
StateHasItsParticles ==
  freshRuns <= 1 /\ state # None =>
    Checkpoint(state.boundary) = [setup |-> state.setup, token |-> state.token]

==============================================================================
