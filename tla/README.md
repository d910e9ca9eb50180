# Pineland: a verification development

Pineland simulates an insurgency in a synthetic country. A Python package
(`src/src/pineland_sim`) is the reference runtime; a Rust workspace (`src/rust`)
carries the same process model at high performance, a particle filter over it,
an MPI version of that filter and a campaign runner for a cluster. This directory
holds TLA+ models of the parts whose correctness depends on *order*: what is
scheduled when, what is written before what, which rank waits for which, what is
left behind by something that stopped. TLC checks the models on small instances,
TLAPS proves the most important results for every instance.

Paths below are relative to the repository root; `PROJECT.json` has the same
information per definition (`map`), per check (`runs`), per risk (`hazards`) and
per theorem (`theorems`), with paths that start with `src/`.

Contents

1. [The system](#1-the-system): components, their state, interactions, risks
2. [The modules](#2-the-modules) and how they correspond to the code
3. [What each run checks](#3-what-each-run-checks), with its bounds
4. [Fairness and deadlock](#4-fairness-and-deadlock)
5. [What is proved](#5-what-is-proved)
6. [Disagreements found](#6-disagreements-found)
7. [What is not modelled](#7-what-is-not-modelled)
8. [Plan](#8-plan)

## 1. The system

### Event schedulers
`src/pineland_sim/events.py`. `EventScheduler` is a binary heap ordered by
(time, priority, sequence) with *lazy* deletion: `cancel` only records a sequence
number, and later calls drop the recorded events when they reach the head.
`CalendarEventScheduler` keeps a heap of timestamps beside a dictionary of
buckets and a live count that four methods maintain by hand.
`configure_execution` lets a simulation use either.
*State*: heap, `_cancelled`, `_replacement`, `_next_sequence`; or `_times`,
`_buckets`, `_size`. *Operations*: schedule, schedule_replacing, cancel, pop_next,
pop_time_batch, peek_time, `__len__`. *Hard*: a tombstone that outlives its event,
or is forgotten before it, shows only many calls later; two containers that must
agree; a cancel that happens before the schedule that replaces it is refused.
*Correct when*: the heap with tombstones behaves as a plain set of pending events,
and the two schedulers cannot be told apart.

### Simulation run loop (Python)
`src/pineland_sim/simulation.py`. One thread pops events and calls handlers; a
handler reschedules its own clock, so each recurring clock lives on as one
pending event. `run` may be called again and again with later horizons, with
`max_events` and with checkpoints on or off. With `burn_in_days` a first phase
before time zero is executed unrecorded, and the calendar is populated a second
time. *Hard*: what lands exactly on time zero or on a horizon; a clock that starts
late (recruitment, with the first insurgent organization); a patrol whose interval
is whatever its last route left in the payload; recurrences that lose the priority
of their first tick; a limit that stops a run with events still due.
*Correct when*: the trajectory depends on the world only, not on how callers divide
the run; no clock is lost or doubled; time never goes back; run returns at its
horizon.

### Native engine loop (Rust)
`rust/pineland-model/src/lib.rs`, `SimulationEngine`. The same calendar in Rust:
`run` (with burn-in, for the command line) and `advance_until` /
`advance_until_limited` (without, for the filters). *Correct when*: it makes the
trajectory of the Python reference.

### Checkpoint directories
`rust/pineland-core/src/checkpoint.rs` and `publish_checkpoint` in
`rust/pineland-hpc/src/mpi_runtime.rs`. A directory is one shard per rank and a
manifest with their checksums; a file is replaced by temporary file, sync and
rename. Jobs of different sizes follow one another in one directory. *Hard*: a
kill between two files over an older checkpoint; one rank failing; shards left by
a wider job; platforms whose rename does not replace.
*Correct when*: what a reader accepts is one whole result.

### Filter continuation
`rust/pineland-cli/src/main.rs`. A filter run writes `config.json`,
`checkpoint_<boundary>` and the single `filter_state.json`; a later run continues
from them. Two front ends write them in different orders. *Hard*: a stop between
two of the files; a directory reused by other configurations; an older checkpoint
named on the command line. *Correct when*: what is put together belongs together.

### Systematic resampling
`rust/pineland-inference/src/resampling.rs`. One pass over cumulative weights finds
the parent of every child. *Hard*: positions exactly on a border, zero weights at
either end, the cap at the last particle. *Correct when*: each child gets the
particle that its position falls into, and nobody descends from a weightless one.

### Native particle filter
`rust/pineland-inference/src/filter.rs`. Advance, weigh, normalize, decide by
effective sample size, resample, record. It is sequential; it is modelled as the
function that every distributed run has to reproduce.

### MPI filter and migration
`rust/pineland-hpc/src/mpi_runtime.rs`, `migration.rs`, `distribution.rs`. Every
rank holds an interval of the particles; ranks meet in gathers, broadcasts and the
exchange of parents. *Hard*: MPI matches calls by their count, not by their
meaning; a rank that fails leaves the others waiting; packets for a child come
from whichever rank holds the parent; empty intervals; the geography that children
are installed in. *Correct when*: the result is that of the single-process filter
for any number of ranks and from any resumed boundary, and all ranks end together.

### In-process distribution
`rust/pineland-hpc/src` (thread fork-join). Shards without shared state, joined in
order; nothing for a model checker to interleave.

### ARC campaign runner
`rust/hpc/arc_campaign.py`, `arc_array.sbatch`. Array elements run the tasks of
their bundle, each in a fresh attempt directory, and publish `_SUCCESS.json` with
hashes. Elements are preempted and resubmitted, submissions overlap, inputs are
edited, scratch loses files. *Correct when*: a marker keeps naming what its hashes
stand for, a complete task stays complete, and what can complete does.

### The process model
What the handlers compute. It is shared by both runtimes and is, by
`docs/subsystem-status.md`: *process engine* (`processes.py`), *world state and
stock ledger*, *physical presence and territorial control*, *logistics and
readiness*, *organization ecology and mobilization*, *information, observation and
beliefs*, *Python state estimation*, *organized action and combat*, *political order
and governance*, *foreign affairs and external support*, *peace process*, and the
*historical case adapters*. Much of it is arithmetic on real-valued stocks and
indices. What is modelled is where one subsystem keeps a reference to, or a
commitment about, an object that another one changes. Handlers run to their end one
after the other, but each of the following takes many of them:

- **Logistics** (`logistics.py`, engagements in `processes.py`). *State*: formations
  with a stock and its capacity, sources, movement orders, shipments. *Hard*: several
  orders for one formation, which is destroyed, withdrawn abroad or already marching
  when one falls due; a shipment whose addressee is gone; casualties that shrink the
  capacity below the stock. *Correct when*: at most one order and one shipment is under
  way per formation, every order ends, and no unit of supply appears or disappears.
- **Foreign affairs** (`foreign_affairs.py`). A state supports, intervenes and withdraws.
  *Hard*: combat, the command tick and old orders move the force that is to leave.
  *Correct when*: a force leaves over its border and stays out, and "withdrawn" means out.
- **Organization ecology** (`organization_ecology.py`). Recruitment, exit and defection,
  births, splits, mergers, collapses. *Hard*: each of them moves formations, sources,
  pools, reserves, resources and members one after the other; membership is kept twice.
  *Correct when*: what ended owns nothing, both records of membership agree.
- **Peace process** (`peace_process.py`). Talks, agreements, implementation, failure.
  *Hard*: who signed may since have merged, split or collapsed. *Correct when*: political
  organizations and ceasefires each rest on an agreement, and demobilization loses nobody.
- **The ledger** (`world.py`, `assert_invariants`): fighters, resources and supply are
  what came in less what was recorded as lost, over all of the above.
- **Information** (`information.py`, `ensemble.py`, `compact_particle_information_state`
  of `world.py`). A report is fused where it is made and relayed to headquarters, where
  it is fused when it arrives; reports that are close in time corroborate each other.
  *State*: reports, relays, a heap of arrivals, a history per target; or numeric rows of
  the same. *Hard*: three execution modes keep, prune and compact them differently while
  relays still name them; relays overtake one another; arrivals are floating-point sums
  compared with a tolerance; burn-in ends with relays under way and restarts the
  numbers. *Correct when*: the modes come to the same beliefs.

### Resident particles and the filtered study
`src/pineland_sim/state_estimation.py` (`PersistentParticlePool`,
`_resident_particle_worker`) and
`studies/research_program/scripts/run_afghanistan_filtered_prospective_2005.py`. Particle
states live in worker processes; a coordinator sends a command to each and takes the
replies in worker order; in a balanced resampling workers send one another children over
the same queues. The study filters weekly, saves restarts and a posterior, forecasts from
it in concurrent batches until the error is small enough, and closes the pool. *Hard*: the
order of bundles and commands in a queue; a worker that raises while others wait for it;
a table of owners that must follow a resampling; a kill between payloads and manifest; a
stopping rule that falls in the middle of a batch; teardown after an error. *Correct
when*: the pool is one collection of particles to its caller, every call returns, worker
processes end, and a run that goes on from a cache makes the forecast of an uninterrupted one.

### Around it
Ensembles and vectorised execution backends (but for their relay buffer, above), native kernels, configuration and
random streams, Rust input/output and Python bindings, certification commands and
the analysis, auditing and validation tools. They hold no state of their own across
steps, or only pure functions of it.

### How the parts interact

```
configuration ─► Simulation ── owns ──► scheduler        (calls, one thread)
                    │ calls handler ─► process model ─► schedules opportunities
                    │      organizations, formations, orders, agreements, relays
                    │                                   (shared objects, one thread)
                    └ saves ─► world.checkpoints
command line ─► SimulationEngine (native)                (calls)
particle filter ─► one SimulationEngine per particle     (calls, advance_until)
    │ resampling ─► parents ─► children
    └ writes ─► checkpoint directory + filter_state.json (files, crash in between)
MPI ranks ◄─ collectives ─► MPI ranks                    (messages, lockstep by count)
    └ publish ─► checkpoint directory                    (files, many writers)
study ─► coordinator ◄─ queues ─► resident workers       (messages, kills)
    │           workers ─► workers (children of a resampling)
    └ saves ─► restarts, posterior                       (files, several writers)
array elements ─► attempt directories, markers           (files, many writers, kills)
```

## 2. The modules

| module | models | state and actions against the code |
|---|---|---|
| `ScheduledEvent` | the event, its ordering key, constants of the schedulers | `Event` is the dataclass without payload; keys of `schedule_replacing` are model values |
| `EventQueue` | *abstract*: a set of pending events | what a scheduler promises; one action per public method |
| `EventScheduler` | the heap scheduler | the heap is the set `queue` with `IsFirst` by key; `cancelled`, `replacement`, `nextSequence` are the fields of the same names; each method one action, including its `_discard_cancelled_head` |
| `CalendarEventScheduler` | the bucketed scheduler | `times`, `buckets`, `size` and their upkeep in push, take and trim |
| `CalendarClocks` | vocabulary of the two calendar loops | clocks, intervals, first priorities, the answers of the world |
| `RecurringClocks` | *abstract*: the trajectory as a function of the world | no queue, horizon, limit or checkpoint: the next tick follows from the ticks so far |
| `SimulationRun` | `class Simulation` | `Run` (entry of run), `BurnInStep`, `BurnInEnds`, `Step`, `DropCheckpoint`, `Return`; a step is pop, handler, late recruitment, `_reschedule`; `insurgents` is what the loop's `any(...)` finds after a handler |
| `NativeEngine` | `SimulationEngine` | `Run`, `Advance`, `Step`, `BurnInEnds`, `Return`; `Departed` is `patrols.next_available` |
| `Partition` | `distribution.rs` | the interval of a rank and the owner of a particle, as integer division |
| `CheckpointDirectory` | checkpoint.rs, publish_checkpoint | `shard`, `manifest` are files; every job write and every failure or kill is an action; a checksum is the content it stands for |
| `FilterContinuation` | the filter commands | the files of one output directory and the running process; the state of a filter after an update is a token of both parts before it and the observation |
| `Resampling` | what resampling should give | the parent by position, as a reference definition on exact weights |
| `SystematicResample` | the single pass | `NextParent` and `Assign` are the inner `while` and the assignment of the loop |
| `CanonicalFilter` | the single-process filter | `Updated` is one `update`: advance, weigh, decide, resample or keep, record |
| `Migration` | migration.rs | `Bucket`, `Received`, `Accepted`, `Children`: packing, exchanging and installing |
| `MpiFilter` | run_on_world on every rank | `pc` is the collective a rank is in, `calls` the calls it has made; EXTENDS the two above |
| `ArcCampaign` | run_bundle, run_task | the program counter of an element between its file system accesses |
| `ConflictState` | what the conflict handlers share | organizations, formations, sources, pools and reserves in whole units; `handler` is the handler running, `pending` what its loop has still to visit; `expected` are the totals of the ledger |
| `Logistics` | update_logistics, orders, engagements | `UpdateLogistics` and its visits, `Advance` (an order falls due), `Block`, `Depart`, arrival, `Deliver`; due times are arbitrary |
| `ForeignAffairs` | process_foreign_affairs | one action per visit of the loop over states and interventions; EXTENDS `Logistics` |
| `OrganizationEcology` | recruit_and_retain, process_organization_ecology | recruitment, exit, defection per visit; birth, split, collapse, merger; whether a hazard strikes is arbitrary |
| `PeaceProcess` | process_peace | talks, signature, implementation by stages, completion, failure; EXTENDS `OrganizationEcology` |
| `ConflictWorld` | the composition of the five | any handler may be next; each runs to its end |
| `ParticleStore` | *abstract*: one collection of particles | a request and its return, at once |
| `ParticlePool` | the pool, its workers and queues | a worker step per command taken, a coordinator step per reply taken; queues between every pair; a worker whose function returned has "ended", its process is `gone` or exits once its queues are empty of large messages |
| `FilteredForecast` | the study on the pool | `stage` is where `run()` is; caches are metadata, payload files and manifests; `Rerun` after a kill |
| `CommandRelays` | *abstract*: what headquarters comes to believe | reports are sent and heard; nothing of how they are kept |
| `InformationRelays` | reports and relays in the three modes | `Patrol`, `ProcessInformation`, `ProcessNumeric`, `BeginObserved`; containers under their own names |
| `*Proofs` | the theorems | see [5](#5-what-is-proved) |
| `MC_*` | instances for TLC | constants, the composites `MC_Schedulers`, `MC_Engines`, and the small worlds of `MC_Conflict` |

Three composites deserve a word. `MC_Schedulers` makes every call to both schedulers
in one step, so that their replies can be compared. `MC_Engines` chooses one of the
two engines in its initial state; both share the state they have in common, so one
instance answers for both loops, and `EnginesAgree` says of both that they implement
`RecurringClocks`. `MC_Conflict` puts the four process modules on one world and chooses in its
initial state which of their handlers run on which small world, since all on every world
at once are beyond TLC. Refinements: `EventScheduler` implements `EventQueue` (the live
events of the heap are the queue), `SimulationRun` and `NativeEngine` implement
`RecurringClocks` (burn-in and observed ticks are the traces of the two phases),
`MpiFilter` follows `CanonicalFilter` at its boundaries, `ParticlePool` implements
`ParticleStore` (the particles are those the workers hold, the children under way
included), `InformationRelays` implements `CommandRelays` (what is in transit is what the
active relays, or the rows, refer to).

What is abstracted throughout: the payload of an event, the state of a particle
(its identity: root, children, random stream, boundary, geography), the bytes of a
file (what they encode), hashes (the content hashed), names of temporary files.

## 3. What each run checks

Run times are for two workers.

**`schedulers`** (`MC_Schedulers.cfg`, ~34 000 states). Every sequence of calls to
both schedulers at once with three timestamps (one negative, so that the refusal in
the constructor happens, one zero), two priorities, two replacement keys and three
events: ties at each level of the ordering key, replacement of a live, a cancelled
and a popped event. `LengthExact`: `__len__` counts the live events. `CalendarExact`:
the calendar scheduler's timestamps and buckets correspond and its size is exact.
`SameReplies`: the two cannot be told apart. `ImplementsEventQueue`: the heap
scheduler implements the plain queue. Three events are enough for a dead head,
a dead event behind a live one and a batch of two with a tombstone among them; all four are
also theorems, for any number of events.

**`engines`** (`MC_Engines.cfg`, ~32 000 states). Four clocks with intervals of one
and two days that meet on one day; burn-ins of none and of three days, so that a
scan's window is cut at zero; horizons 0 to 4; limits 0 and 2 and none; insurgents
from the start, from the middle or the last tick of burn-in, or never, or there from the
start and gone before day zero, for good or until day two (the second calendar must then do
without a recruitment clock that the first one had); patrols on a long route, moving or without a formation. Callers may run again with any horizon,
limit and checkpoint setting. `NeverBackward` is the assertion of `run`;
`OneEventPerClock`, `ReturnsAtHorizon` and `RunReturns` are what a caller relies
on; `EnginesAgree` is the refinement. The native engine is compared only where it is
meant to agree and does: no burn-in, every patrol with its formation, and the insurgency there
throughout or never (the native calendar takes the recruitment clock from the
configuration, the Python one starts it with the first insurgent organization). Two of the
disagreements of [6](#6-disagreements-found) are the reason for the first two. Four days contain two ticks of the slower clocks, a return from a long
route and a cut in each place relative to them.

**`checkpoint_directory`** (`MC_CheckpointDirectory.cfg`). Up to three jobs of one to
three ranks over three particles with two different results, each failing or killed
at any write. `AcceptedIsOneRun`: a directory a reader accepts holds every particle
of one result. `PublishedIsReadable`: success reported means readable.
`RerunKeepsCheckpoint`: repeating the job that published it cannot take a checkpoint
away. Two results are enough to be mixed; three jobs are an old checkpoint, an
interrupted overwrite and a repetition of either.

**`filter_continuation`** (`MC_FilterContinuation.cfg`). Three runs of either front
end, two of them fresh, in one output directory; two configurations, particle counts
and observations, three boundaries; a stop between any two files.
`ReportedIsResumable`: what a finished run reports continues exactly what it saved.
`StateHasItsParticles`: while one filter continues in the directory, `filter_state.json`
always has its particles beside it. Configurations, counts and observations are symmetric: no formula
names one.

**`systematic_resample`** (`MC_SystematicResample.cfg`, ~12 000 states). Four
particles, all weights from 0 to 3, every start. The position of a child is compared
with integers (N times the cumulative weight), which is exact. `ParentsAreExact` and
`OffspringFollowsWeight` (the number of children is the share rounded down or up).

**`mpi_filter`** (`MC_MpiFilter.cfg`, ~81 000 states). Worlds of one to four ranks over
three particles (intervals of different lengths, one empty), two boundaries, new or
resumed after the first, observations that resample, do not, and leave no support;
an engine may fail anywhere. All interleavings of the ranks. `CollectivesMatch`: calls
MPI will pair are of one kind. `FollowsCanonicalFilter`: at a boundary each rank holds
its part of the single-process filter's state, root its draws and updates.
`ChildrenDelivered`: the exchange of parents hands every rank one packet for each child of
its interval and for no other, and what it makes of them is what the single-process filter
has; it refuses them only if its geography is not the particles', and finds no support only
where the single-process filter does. `JobEnds`. The number of localities is one for which
both geographies coincide; **`mpi_filter_registry`** is the same with the default
number and the stronger `TransfersSucceed`, that no rank refuses its children: violation.

**`arc_campaign`** (`MC_ArcCampaign.cfg`, ~600 000 states). Two submissions of one bundle
of two tasks with two attempt directories each; a kill, two edits (so an input can be
changed and restored), one lost output, any tasks failing. `EvidenceKept`,
`CompleteStays`, `EveryReachableTaskCompletes`. Two elements meet in every pair of
steps; a bundle size above the task count exercises the last, shorter bundle.

**`conflict`** (`MC_Conflict.cfg`, ~953 000 states). Eight small worlds: *combat* (two government
formations against one insurgent), *supply* (a source and a formation away from it),
*foreign* (a state that supports, intervenes twice and withdraws), *births*, *ecology*
(two organizations that split, merge and collapse), *attrition* (recruits that fall and
leave), *peace* (two organizations, up to two agreements) and *spoilers* (the same while
they divide and merge). Two places, two persons, units of one. `AccountsBalance`:
fighters, resources and supply are what the ledger expects, and no stock exceeds its
capacity. `OneUnderWay`: a formation is moving exactly while one order of its is, and
has at most one shipment coming. `WithdrawalIsFinal`: a force leaves over its border and
nothing moves or uses it abroad. `NothingOrphaned`: organizations that split or merged
own nothing, pools belong to the active. `MembershipReciprocal`, `SettlementsStand`:
persons and lists agree; political organizations and ceasefires rest on an agreement.
`OrdersEnd`: no order stays under way for ever. Five organizations hold two of a split,
its original, the government and a rival; two orders and two shipments meet each other;
two persons are one on each side of a split, and one each of two that merge; what differs
between worlds is which handlers interleave, and each property is about handlers that
share one of them.

**`particle_pool`** (`MC_ParticlePool.cfg`, ~235 000 states). Four particles on three
workers (shares of two, one and one); a caller that makes any two calls, and the study
with two weeks, a restart after each, resamplings drawn or not, forecasts of up to eight
in batches, one callback that raises anywhere and one kill anywhere.
`ImplementsParticleStore`: the caller cannot tell the pool from one collection.
`LayoutKept`: the table of owners is what workers hold and a balanced resampling moves
the fewest children. `SameForecast`: whatever was killed and resumed, the forecast is
that of an uninterrupted serial run. `PublishedIsLoadable`: a published cache can be
loaded by every later run. `CallsReturn`: only a worker that ended can keep a call from
returning. `WorkersExit`: after `close()` every worker *process* exits, except one that waits
for a reader of a large message which nobody will read (`HeldUp`). A process whose function
has returned joins the feeder threads of its queues, and a message larger than a pipe stays
with its thread until it is read; `Oversize` names the messages that may be so large (bundles
and replies with states). Three workers are needed for
a worker to get children from one peer before, and from another after, its own command;
two weeks for a restart to be older than the posterior; one raise and one kill because
nothing in the pool goes on after either. **`pool_teardown`** (two particles): violation.

**`information`** (`MC_InformationRelays.cfg`, ~201 000 states). Three reports at most,
singly by patrols at any instant between clocks and up to two at a clock; latencies of
none, one interval, and a rounding error more; the standard mode with pruning and
burn-in, the particle mode with burn-in and with pruning, the ensemble mode.
`ImplementsCommandRelays`: each mode comes to the beliefs of the abstract network: every
report once in the field, once or never at headquarters, in order, with the weight its
neighbours give it. `WorkingSet`: a relay under way has its report, and the two modes for
particles keep nothing beside these. `RelaysEnd`: a relay that is not late by the
rounding error is settled. Three reports are one that waits, one that supports it and
one that overtakes; the memory is one interval and the retention three, so within the
sixteen units a history expires and an archive is pruned while a relay is under way. The
abstract network lets a relay that is late by the tolerance be heard at that clock or
never, since the modes differ there ([6](#6-disagreements-found)). The retention is
longer than memory and latency together, which the code does not require.

## 4. Fairness and deadlock

- `engines`: weak fairness of the loop of the engine that runs. The loop is one thread
  that waits for nothing; nothing is assumed of callers.
- `mpi_filter`: weak fairness of "some rank's step". The operating system runs the
  ranks and MPI completes a collective that all have entered. Failures are not fair.
- `arc_campaign`: weak fairness of every element's step, `Begin` included. It stands
  for the procedure of `ARC.md`: the campaign is submitted until it is complete.
  Kills, edits and losses are bounded and not fair.
- `conflict`: weak fairness of the running handler's next visit (a handler waits for
  nothing), and strong fairness of each order's falling due: movement clocks recur, but
  between two movement ticks other handlers run. Nothing is assumed of combat, hazards or
  decisions.
- `particle_pool`, `pool_teardown`: weak fairness of the program, of the coordinator and of
  each worker, which are processes of their own. Raises, kills and the caller that makes
  any calls are not fair. A kill takes the whole process group.
- `information`: weak fairness of the information clock (it recurs up to the horizon) and
  of the end of burn-in. Patrols are not fair.

Deadlock is checked in `schedulers`, `engines`, `arc_campaign` and `conflict`, where
something is always possible. It is off where the modelled activity ends: after the last
of a bounded number of jobs or runs (`checkpoint_directory`, `filter_continuation`), when
the pass has found the last parent (`systematic_resample`), when all ranks have returned or
the remaining ones wait for the launcher (`mpi_*`), when the program is over or waits for
a worker that ended (`particle_pool`, `pool_teardown`), and at the horizon
(`information`). Who may wait for whom is then what `JobEnds` and `CallsReturn` say.

## 5. What is proved

All theorems hold for every value of the constants under the `ASSUME`s of the modules
(which TLC evaluates in the runs), and cite no unproved fact.

**`EventSchedulerProofs`**: `TypeCorrect`, `StrictKey`, `NoStrayTombstone`,
`LenCountsLive`, `Refinement`. Inductive invariant: types, unique issued sequences and
queued tombstones. The first two alone are not enough: a number recorded for an event
that is gone would make `__len__` wrong. The proof has one idea, `Discarding`: every
method that takes tombstones and live events off the heap removes exactly the live
ones it hands out. `Refinement` is the step simulation against `EventQueue`;
`LenCountsLive` adds that tombstones and recorded numbers are in bijection. `TypeCorrect`,
`StrictKey` and `NoStrayTombstone` are parts of the invariant and are not run on their own.
`CalendarStaysExact` and `IndistinguishableReplies` are about both schedulers under the same
calls (`BothSpec`). `Wellformed` says what the calendar's containers keep: a bucket for
each timestamp and only those, no bucket empty, each with events of its timestamp, numbers unique,
tombstones stored. Each method is then a lemma on the containers as one value: `Discards`
removes dead events only and leaves a live head or nothing, `HandsOut` takes what a pop or a
batch returns, `Opens` puts an event in a new or an old bucket. The joint invariant adds that
`_size` counts the live events and that both schedulers hold the same live ones under the
same numbers and replacement keys; equal replies follow from equal live events because the
first of the head bucket is the first of the heap.

**`SimulationRunProofs`**: `AssertionHolds`, `NoClockLostOrDoubled`, `RunsEndWhereTheySay`,
`TrajectoryIsTheWorlds`, `BothKeepTheCalendar`, `OneTrajectory`. `NeverBackward` is not inductive: that time does not pass an event
needs the order of the scheduler, that a clock does not double needs unique sequence
numbers, that one is not lost needs the link between the recruitment flag and the calendar,
across the second population after burn-in. Insurgencies may end and come back: `Standing`
ties the flag and the insurgents to the ticks (who is active follows from the last tick that
raised or disbanded; recruitment runs exactly if some have been active since the phase began). The invariant is their conjunction with the
bounds of each phase. `NextExists` (a non-empty finite calendar has a first event, by
well-founded induction on its keys) makes "the loop ended" mean "nothing is due".
`TrajectoryIsTheWorlds` is the refinement: the run implements `RecurringClocks`, in which
the next tick follows from the ticks so far. Its invariant `Whole` adds `History` (what the
calendar can still tell of the trajectory), `Exposed` (an open contact is alone and before
the next scan) and `Mirror`: each pending event other than a checkpoint was scheduled by one
tick of the trajectory or at its start (its *origin*), the promise expects exactly those
events, and origins are in the order of the sequence numbers, so the two orders agree. A
step then has one lemma per effect: what a tick adds to what the promise expects
(`PendingAfter`) and what the code schedules for it (`HandledAdds`) are the same, and the
first of the calendar is the next of the promise (`NextIsNext`). The attempt corrected the
promise twice, in cases no instance had reached: an unavailable patrol that has had no
interval takes the base one (processes.py:640-643), which the world with patrols absent from
day zero now exercises; and a burn-in with no clock at all ends.
`BothKeepTheCalendar` and `OneTrajectory` say the same of the two engines together
(`BothSpec`): `OneTrajectory` is `EnginesAgree`, both implement the one promise. The native
engine needs no second refinement proof. While it is compared, its `run` and `advance_until`
take a step that the Python `Run` can take (`NativeRuns`, `NativeAdvances`), and its turn is
the Python `Handle` of the same event (`NativeHandles`), so the lemmas of the Python loop apply;
what differs are checkpoint ticks, which the promise does not see. `NativeInv` says what the
native engine never changes: checkpoints are on, and recruitment and insurgency are as
configured. Where it is not compared, it is still shown to keep `NeverBackward`,
`OneEventPerClock` and `ReturnsAtHorizon`, with its own burn-in and its own patrols.

**`DirectoryProofs`** is about the three components whose state is a directory.
*Checkpoints*: `NeverMixed`, `Durable`, `Repeatable`, for either semantics of rename
(`Repeatable` where it replaces). The invariant adds to the types that ranks which are done
have their shard on disk and that a manifest names the checksums of *one* result. It rests
on `RangesTile`: the intervals of the ranks, in rank order, list the particles in logical order.
*Continuation*: `StateKeepsItsParticles`, `ReportedCanBeResumed`. The
invariant says what the running process has written so far (by front end), and that it is
ahead of the saved state, so the checkpoint it overwrites is never the saved one;
`ReportedCanBeResumed` adds that the setup a run takes from files is one of the setups and that a
run reports last. The last has one hypothesis,
`MissingIsNoFile`: the value that stands for an absent file is not one of the records a run
writes (true of any value that is not such a record).
*Campaign*: `MarkersKeepTheirEvidence` and `CompletionLasts`, for any number of tasks,
elements, attempts, preemptions, edits and losses. `EvidenceKept` is not inductive: it is
about the attempt a marker names, while any element may be about to write into one.
`CampaignInvariant` adds that no two elements own one attempt directory (`Apart`), that what
an element owns exists, holds what it has hashed unless scratch lost it, and is named by no
marker yet (`Owned`), and that a marker names an attempt that holds what it says, or did
(`Evident`). `Apart` is what making the directory atomically gives, and everything rests on it.

**`MpiFilterProofs`** is about the pass, the partition and the job of ranks.
*Resampling*: `Exact`, and `NoDead`: no child descends from a particle of weight zero. The
pass keeps `cumulative` equal to the prefix sum and the next child beyond it.
`SharesAreWhole`: a particle has the floor or the ceiling of its share of the children. The
children whose positions lie before a bound are a prefix of all children (`FirstBeyond`, by
the least natural beyond the bound), so the offspring of a particle are an interval whose
ends lie within one step of its weight's.
*Partition and exchange*: `OwnerIffInRange` (the two roundings of one ratio agree),
`OwnerIsARank`, and for any ranks and parents `ExchangeAccepted`, `ChildrenOfTheirParents` (a
rank receives one packet per child and makes each from its own parent).
*The job*: `CollectivesAlwaysMatch`, `RunsFollowTheFilter`, `EveryChildDelivered`. Ranks are at
different places in different boundaries, so the invariant speaks of each rank alone. A job
determines a *script*, the calls a rank makes from its boundary on, with what each carries; a
rank's calls are a prefix of it, and what it holds is what the single-process filter holds
where the rank is. Two ranks are then on prefixes of the same script, and a collective
completes only when every rank entered it, so the payloads a rank reads are those the script
says. A rank that fails keeps the calls it has made, still a prefix, and whoever needs a later
one stays in that collective. `EveryChildDelivered` is `ChildrenDelivered` for every number of
localities: a packet per child and the right child from each, from the script and
`ExchangeAccepted`; a refusal only where the two geographies differ. Below `DistrictCount`
localities they are one, so it then implies `TransfersSucceed`; `mpi_filter_registry` shows
that above a rank does refuse.

**`ConflictProofs`**: `WorldInvariant`, and from it `OneMarch`, `NobodyIsOrphaned`,
`MembersAgree`, `SettlementsHold`, `WithdrawnIsOut`. They are about `WorldSpec`: any world
as `initialize_organization_ecology` leaves it (`Founded`: all organizations active and
without party or branches, formations at rest inside the country with no more supply than
they can carry), every handler, with any interleaving of events and any outcome of combat,
hazards and decisions. The worlds `MC_Conflict` opens with are among them and its steps are
steps of `WorldNext`. The invariant has eight parts:

- `Sound`: the lists of the ledger are lists, of records with their fields, that name
  organizations and places which exist;
- `Clean`: who is not active has nothing unfielded, and who split or merged has nothing;
- `Belong`: a person with a fraction is on the list of an organization that exists, *active or
  not*; an active organization lists no one else, outside of ecology ticks and as long as
  no two agreements share a signatory. The exception is the one of `MembershipReciprocal` and
  a real one ([6](#6-disagreements-found)); inside an ecology tick a birth takes people from lists;
- `Marches`: a formation is moving exactly if an order of its is, only one is, and one
  shipment is under way to each;
- `Forced`: a force consists of formations of foreign organizations, each in one
  intervention only, and who is out stands behind its border at rest. Without it a recruit, a
  defector or a casualty could be taken from a formation that is out;
- `Seated`: negotiators and signatories are insurgents, so no settlement reaches a foreign force;
- `Visits`: what a running handler has still to visit is there, each once: an agreement
  signed or completed in the tick is not carried out twice, an organization that ended in it is not split;
- `SettlementsStand` itself.

A handler composes operators on a whole ledger (`AddFighters`, `RemoveFighters`, `Divided`,
`Merged`, ...), so each operator has its lemmas, stated on any ledger: it keeps `Sound` and
`Clean`, `Grows` it (no formation or organization is taken from a list, none changes its
place or march, those of foreign organizations keep owner and strength) or keeps its `Ranks`
(status of the organizations). A step then needs only the lemmas of what it calls.
The operators add up stocks with the community modules' folds; that such a sum of integers is an
integer is proved by induction over finite sets, which the module derives from the
well-foundedness of the naturals (`Smallest`, `Induction`, `FoldExists`, `SumType`).

**`ConflictAccountsProofs`**: `NothingIsLost`, which is `AccountsBalance` for the same
worlds. Its invariant is that of `ConflictProofs` and `Books`: the men of formations, pools
and the demobilized are those expected, the supply of sources and formations and what is on
the road is that expected, and so are the resources of organizations and their branches;
stocks are numbers within capacities, who has no party has no branches, and every shipment
goes to a formation that exists. The same induction over finite sets gives that sums are
additive (`SumAny`: any element may be added last), hence what a sum becomes when one or two
terms change or a list grows. Between the operators of one handler the books are open, so
their lemmas are stated with `Short(w, men, goods, wealth)`: the ledger `w` is short of so
many of each. An operator says by how much it changes what is missing (a casualty leaves a
man missing, the recorded loss closes it) and a step ends where nothing is; a shipment is
the one entry that stays open between steps. That no stock exceeds its capacity is needed
for the rest: the room of a formation that merged or was resized would be negative, and its
next delivery take supply away.

**`InformationRelaysProofs`**: `RelaysKeepTheirReports`, which is `WorkingSet` in all three
modes, for any events, latencies, memory, retention, tolerance and horizon. `Objects`: an
active relay exists, is in transit, and its report has its own number and is still there; the
mode for particles has no other report. `NumericRows`: rows carry different reports, all
handed out, and what is recorded is what they carry. The steps it is for are pruning
(whatever is pending stays), compaction of the archive, and compaction of the rows, whose
columns must all be moved by the same selection. A scenario has burn-in or the ensemble
mode, never both (`ScenariosAssumption`; [6](#6-disagreements-found) says why the property
would fail).

`OneNetwork` is `ImplementsCommandRelays`: in each mode every step of `process_information`, of a
patrol and of the end of burn-in is a step of the abstract network. It has two hypotheses about
constants, which the instance of the run satisfies:

- `LongRetention`: a scenario prunes nothing, or archives for at least the memory and the longest
  latency together. The defaults do (90 days against three and a latency of hours), but the
  configuration does not ask for it, and without it the statement is false
  ([6](#6-disagreements-found)). A report pruned at a clock is then too old to support any
  report that a relay still carries (`ForgetsAtClock`).
- `NoRoundedLatency`: no latency is positive and within the tolerance of 1e-12 days. A patrol
  can send such a relay one interval before a clock: late by rounding, yet never popped early.

`NetworkInv` adds to the invariant of `WorkingSet` how what is under way stands to the clock.
For objects, `InFlight`: an active relay is in the due heap *unless* it was late by no more than
the tolerance at a clock that has passed, and then is never heard. Events and clocks are
multiples of an instant larger than the tolerance, so whether a relay is late does not depend
on which clock is asked (`StillLate`, `LateAtTheNext`), and none is late when it is sent
(`SentOnTime`). `ReadyAtClock` concludes that a clock settles exactly the relays of the network
that have arrived and are not late. For rows, `RowsInFlight`: they stand in the order of their
numbers, and no row whose time has come is late. The rest is order and weight. The relays of
one clock are heard by number, out of the heap by sorting (`Ordered`) and out of the rows by
position; both are the order in which they were sent (`NthOf`, `BelievedAtHeadquarters`). A
history is the set of reports that the network remembers (`HistoryIsRemembered`), and the
weight of a report is a function of that set (`SameWeight`).

**`FilteredForecastProofs`**: `OwnersAndMoves`, `CachesStayLoadable`, `ForecastIsSerial` and
`PoolIsOneCollection`, all from one invariant, `StudyOnPoolInvariant`, for any number of
particles, workers, weeks, trajectories, batch sizes, raises and kills.

- *The layout*, without any state: `SharesAreEven` and `MovesAreFewest`. A balanced
  resampling keeps a child at its parent's worker while there is room and deals the others,
  in order of their slots, into what is left. That every worker then has its capacity needs
  that there are as many that leave as places left (`LeaversCounted`: both are the count of
  slots less those that stay); that no even layout moves fewer, that in any of them at most
  the capacity of a worker stays with it. Both are counts of disjoint unions of finite sets.
- *The pool*, `PoolInv`. A call is a value that says what each slot is to hold afterwards and
  which worker has which part of it. Each worker in a call is somewhere between taking its
  command and having answered it, or has ended with an exception: `LiveInv` gives what it
  holds, has got from others and has answered in each of these, and `InTransit` what is in the
  queues between two workers: no child twice, and none that its addressee has got. A worker
  that has its share is therefore owed nothing, so no bundle of one call is left for the
  next. `CallInv` speaks of what the coordinator may have asked, `BrokenInv` of a pool in
  which something raised: a worker is gone from which nothing comes, and the coordinator does
  not get past it.
- *The study*, `RunInv`. `Reference` is the filter after a week as a function of the
  particles and the draws alone. `StudyInv` and `FilterInv` say at which stage the pool holds
  which week of it, or will when the call under way returns; `PublishedInv` that a manifest
  names files on disk that hold it; `FrontInv` that what a run is about to publish is
  ahead of all that is published, so the file it overwrites is not a published one;
  `ForecastInv` and `BatchInv` that what was consumed is a prefix of the serial forecast, and
  the batch asked for the next piece of it.
- `Stopped`: before a run opens its pool no worker of an earlier one is left to write files.
- *The refinement*, `PoolIsOneCollection`. The particles of the collection are `content`, what
  the workers held when the coordinator last knew; a broken pool has no request. Asking is
  `Request`, the last reply of a call `Return`, an exception or a kill in a call `Raise`, and
  whatever workers and queues do in between is invisible (`NothingSeen`). `HeardReturns` goes
  through the calls one by one: what the replies together say, and where every slot now is, is
  what one collection would give. For a balanced resampling the three numbers returned must
  agree: `ClassesCounted` adds up what the workers exported, and what they imported, to the
  children that moved (`MovedCounted`). A pool opened from files begins with particles that
  are contents of the collection, which `ReferenceContents` has from `PublishedInv`.

`SameForecast` alone says nothing of a run that is killed before its forecast; what has to
survive the kill is the part about files. The runs on the pool as any caller uses it are
covered by `PoolInv`: there the study is idle.

*Only model-checked*: everything about liveness (`RunReturns`, `JobEnds`,
`EveryReachableTaskCompletes`, `OrdersEnd`, `CallsReturn`, `WorkersExit`, `RelaysEnd`;
temporal reasoning with ENABLED is beyond the provers).

## 6. Disagreements found

Two are runs that TLC ends with a violation of the one property stated:

- **`mpi_filter_registry`**: with the default 72 localities the particles live in the
  Pineland registry geography, but `run_on_world` (mpi_runtime.rs:228) installs children
  in the synthetic one: the first resampling boundary ends the job with an error.
- **`pool_teardown`**: a worker that raised in a forecast is gone; the `finally` of the study
  (run_afghanistan_filtered_prospective_2005.py:2618) asks it for its CPU time before
  `close()` and waits for ever (state_estimation.py:427). `close()` itself says that teardown
  "must not strand the coordinator on a dead IPC endpoint" (state_estimation.py:721-724).

The following were met while modelling. Some were once runs of this project; a run stands
for a question and their number is limited, so they are kept as text. Where a property
would meet one of them, its statement or the instance says what is excluded.

*Checkpoints and continuation.*

- `rust/README.md:66-68` promises a restart with a different number of ranks; with fewer
  ranks over a directory that holds shards of a wider job, `finalize_directory`
  (checkpoint.rs:425-433) refuses. Nothing deletes the old shards.
- `filter_state.json` exists once per directory, checkpoints once per boundary; continuing
  an older one silently joins it with the newest filter part (main.rs:665).
  `rust/README.md:57-61` names the two files as sufficient.

*Calendar loops.*

- The native burn-in executes the clocks of day zero and keeps its calendar (lib.rs:2608);
  Python starts the observed run with them on a new calendar (simulation.py:257-263).
- An unavailable patrol repeats its last interval in Python (processes.py:640-643), its base
  interval in Rust (lib.rs:2449-2454), whose comment says that this is what Python does.
- A 30-day checkpoint tick may run before other events of its day; at an aligned
  horizon `run` then counts it as the final checkpoint (simulation.py:576).
- `run(checkpoint=...)` changes the setting after initialization, which
  `configure_execution` refuses (simulation.py:81, :501). A checkpoint clock that ticks
  while it is off is gone for good; `EnginesAgree` shows that nothing else changes.
- After burn-in, clocks begin again with `elapsed` 0: their last partial window is
  neither observed nor executed.
- `max_events` reached with nothing due is "stopped" in Python when later events are
  pending (simulation.py:514), and "done" in Rust (lib.rs:2076).
- The native filters use `advance_until` and so never have a burn-in, whatever
  `burn_in_days` says.

*Conflict.*

- An organization bound by two agreements: one settles it, others recruit its people, the
  recurrence of the other makes it active again with the members it had
  (peace_process.py:477). Two active organizations then list one person, which
  `assert_invariants` refuses until the next synchronization. `MembershipReciprocal`
  excludes overlapping agreements.
- A merger in the tick of a birth, before memberships are synchronized, takes over founders
  who belong to another organization.
- Who signs is settled when talks open (peace_process.py:404): an organization that ended
  meanwhile signs, becomes political, and may become active again, although
  `docs/organization-ecology.md` calls such organizations inactive nodes of a genealogy.
  A completed agreement may fail in the same tick.
- A reinforcement may be ordered for a formation that has a pending order; it then departs
  from elsewhere than its order's origin.
- A foreign withdrawal marches as a "reallocation": a force that is ineffective cannot
  march and never leaves; a command tick may send a withdrawing force elsewhere; a second
  intervention finds the command made and has an empty force (foreign_affairs.py:509).
- Formations of a collapsed organization, set ineffective, may be restored by the recovery
  of `update_logistics`; the index of formations per organization is not updated by splits
  and mergers until it is rebuilt.

*Resident particles.*

- A worker that raises in a balanced resampling strands the peers that wait for its
  children, and with them the coordinator (state_estimation.py:218); `CallsReturn` says
  that nothing else does.
- After a call that raised, `close()` may take a stale reply for its own and raise
  (state_estimation.py:719): no worker after it is joined or terminated. These still get
  their commands and return, but a process ends only when the feeder threads of its queues
  have written everything (no queue has `cancel_join_thread`). One that has put a bundle
  larger than a pipe for a peer that is gone (state_estimation.py:211), or a large reply that
  nobody reads, never ends, and the interpreter, which joins its children at exit, waits
  for it. `WorkersExit` names exactly these (`HeldUp`).
- A failure in training or summarizing leaves the pool unclosed (`keep_resident`).
- A posterior is restored with an ESS fraction of 0.5 whatever the configuration says
  (`_restore_filter`).

*Information.*

- The due heap hands out relays up to 1e-12 after the clock (information.py:1681), but
  `process_information` skips what arrives after it (:2305): such a relay has left the heap
  and is never looked at again, while `_deliver` of the numeric backend (ensemble.py:3272)
  hears it. `RelaysEnd` and `CommandRelays!Late` name exactly this case.
- The end of burn-in restarts relay numbers but keeps the numeric runtime
  (simulation.py:319-329), although information.py:64-68 says that it must not survive: with
  the ensemble backend and a burn-in, a relay under way meets a new one of its number and
  `append_codes` raises (ensemble.py:552). No scenario of the model has both.
- A retention shorter than the three-day memory and the longest latency changes
  corroboration weights, although `_prune_information_history` promises to change no
  belief (information.py:2360) and the configuration asks only for a number of at least
  zero (config.py:330).
- `configure_execution(execution_backend=...)` is not refused after initialization
  (simulation.py:96-110); switching then strands the relays under way.
- The compact column store, which only a test enables, keeps live values of removed rows and
  forgets what is discarded during a batch; `on_information` reads reports that delivery has
  discarded.

*Campaign.*

- The input hashes of a campaign task are taken before its process opens the files
  (arc_campaign.py:462, :525); an edit in between is recorded under the locked hash,
  although `ARC.md:85-88` describes markers as evidence of the locked inputs. The model
  contains the race; no property forbids it.
- A failing task ends its bundle (arc_campaign.py:588), and so do all resubmissions: the
  tasks behind it are never tried (`ARC.md:125`). `EveryReachableTaskCompletes` has this
  exception.

## 7. What is not modelled

- **Rounding.** Weights, times and stocks are exact. The cap of the last parent, the
  tolerance of 1e-12 in the native comparison of times and clocks with fractional
  intervals are not exercised.
- **Random streams**: which number is drawn. A trajectory draws from its own stream, so
  a particle's identity stands for its state.
- **More of one kind**: one opportunity per contact scan and one patrol formation stand
  for several; the clocks of `CalendarClocks` are all recurring clocks, TLC runs four.
  `recording_noise`, timing and the fields of the execution environment are left out, and
  so is `policy_hook` (simulation.py:526), a caller's function that may change the world
  before a handler: what it does would be part of the answers of the world. Insurgencies that
  end are compared in the Python engine only.
- **What the trajectories of particles do not share.** `run_on_world` makes fresh particles and
  children without `configure_particle_execution` (mpi_runtime.rs:258-272, against
  filter.rs:82 and :101), so these keep event logs, counters and the clocks of recording noise
  and checkpoints. A particle's identity stands for what it computes, not for these.
  Likewise a resumed state is taken to be of the job's dimensions: `topology_for_particle`
  (mpi_runtime.rs:142-145, :450-468; main.rs:656, :1149) infers a geography from its totals.
- **Capacities of supply sources** grow on reconciliation (logistics.py:389-450); the constant
  `SourceCapacity` is the highest that a source comes to have, and a source makes any
  amount up to it.
- **Temporary files**: their names and collisions (arc_campaign.py:65 uses the process id
  alone) and their debris.
- **Storage that lies**: a write that was synced stays.
- Of the *process model*: every probability and every index (a hazard strikes or does not, a
  side is or is not willing), readiness and routes, leaders and relations, sanctuary and
  refugees, guarantors and monitoring, government recruitment, local order and governance,
  the civilian economy, and organized action against targets other than forces. Personnel,
  supply and resources are counted in whole units where the code has real numbers. The Rust versions of the same
  handlers are not compared with the Python ones.
- Of *information*: the arithmetic of beliefs and their decay, who reports with which
  probability, languages and trust; batches of deferred fusions, which keep the order inside
  one event; the compact column store. One organization and one target stand for many:
  histories are kept per target. A report made at headquarters itself has no relay and is
  left out, so reports and relays share one counter.
- Of the *pool and the study*: likelihoods (they decide which parents are drawn), timings
  (`propagate_profiled`), `import_resampled`, which nobody sends, the number of a resampling,
  the legacy forecast with a fixed branch count, the cache of finished forecasts
  (run_afghanistan_filtered_prospective_2005.py:940-1000, :2591-2613: a forecast found in it
  is not made again), and the in-process executor. A worker that `close()` terminates in the
  middle of a write may leave part of a message or a held lock in a queue nobody reads any
  more, and the coordinator's own feeder threads at exit are left out.
- *Political order* and *physical presence* are continuous updates of indices.
- *In-process distribution* (no shared state), *kernels*, *adapters*, *configuration*,
  *bindings*, *analysis tools*: pure functions or readers. Of the *execution backends*, which
  repeat the handlers on arrays, only the relay buffer is modelled.

## 8. Plan

Order of work, most important behaviour first. Done:

1. Schedulers, with the abstract queue and the refinement proof.
2. The two calendar loops against their common promise; safety and refinement proof of the Python
   one.
3. Checkpoints and continuation on disk, with proofs.
4. Resampling, partition, migration, and the MPI filter composed of them.
5. The campaign runner.
6. The process model as one composite, `ConflictWorld`: logistics, foreign affairs,
   organization ecology and the peace process on one set of organizations and formations.
7. The resident pool with its abstract store, and the filtered study on it with kills and
   restarts.
8. Information relays in three execution modes against the abstract network.
9. Proofs of the filter continuation, the MPI filter, the identities and the accounts of
   the conflict world, the calendar scheduler, the offspring counts, and the refinement of
   the Python run.
10. Proofs of the campaign, of the information relays, and of the resident pool with the
    study on it, the refinement of its abstract store included. Every safety invariant that
    a run checks is now a theorem.
11. Proofs of the native engine: both engines keep one calendar, and both implement
    `RecurringClocks`.

12. The refinement of the command network by the information relays, under assumptions that
    relate the latencies to the retention and to the tolerance of the clock. Every invariant,
    action property and refinement that a run checks is now a theorem.

Later, as models: the political order's elections and local order where they schedule, the
Rust handlers against the Python ones on one conflict world, and likelihood caches of the
in-process filter.

Recursive definitions in these modules are recursive functions, not operators, so
that the provers can use them.
