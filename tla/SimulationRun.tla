---------------------------- MODULE SimulationRun ----------------------------
(***************************************************************************)
(* class Simulation of src/src/pineland_sim/simulation.py: the calendar     *)
(* that run() advances, the unrecorded burn-in before it, the clocks that   *)
(* handlers reschedule and the checkpoints.  The scheduler is the set of    *)
(* its pending events (EventQueue is its promise).  Insertion order matters *)
(* only between events of equal time and priority; the priorities of first  *)
(* ticks differ, so _populate_scheduler numbers them by priority here.      *)
(***************************************************************************)
EXTENDS CalendarClocks

CONSTANTS
  Horizon, \* the horizons callers ask for are 0 .. Horizon
  Limits   \* the values of max_events callers pass, None among them

ASSUME HorizonAssumption == Horizon \in Nat
ASSUME LimitsAssumption == Limits \subseteq Nat \cup {None}

VARIABLES
  world,         \* the world's answers
  trace,         \* the ticks handled in each phase (history)
  queue,         \* scheduler: pending events
  nextSequence,  \* scheduler._next_sequence
  now,           \* world.time
  mode,          \* "new", "burn_in", "running" or "idle"
  until,         \* horizon of the current or last run
  left,          \* max_events - processed, None without a limit
  checkpointing, \* _checkpointing
  saved,         \* world.checkpoints[-1]["time"], None when there is none
  recruiting,    \* _recruitment_clock_started
  insurgents,    \* some active organization is insurgent
  outcome        \* what the last run returned

vars == <<world, trace, queue, nextSequence, now, mode, until, left,
          checkpointing, saved, recruiting, insurgents, outcome>>

Init ==
  /\ world \in Worlds
  /\ trace = [p \in {"burn_in", "observed"} |-> <<>>]
  /\ queue = {}
  /\ nextSequence = 0
  /\ now = 0
  /\ mode = "new"
  /\ until = 0
  /\ left = None
  /\ checkpointing \in BOOLEAN
  /\ saved = None
  /\ recruiting = FALSE
  /\ insurgents = world.founded
  /\ outcome = None

Phase == IF world.burnIn > 0 /\ mode \in {"new", "burn_in"} THEN "burn_in" ELSE "observed"

-----------------------------------------------------------------------------

\* _populate_scheduler at time t into an empty scheduler.
Populated(t, withCheckpoints) ==
  LET first == (Clocks \ (IF insurgents THEN {} ELSE {"recruitment"}))
                 \cup (IF withCheckpoints THEN {"checkpoint"} ELSE {})
      rank(c) == Cardinality({d \in first : Priority[d] < Priority[c]})
  IN {Entry(c, t, Priority[c], rank(c), 0) : c \in first}

\* Variant: the flag is not reset when the calendar is populated anew.
PopulateKeeping(t, withCheckpoints) ==
  /\ queue' = Populated(t, withCheckpoints)
  /\ nextSequence' = Cardinality(Populated(t, withCheckpoints))
  /\ recruiting' = (recruiting \/ insurgents)

\* The flag is reset first: it is set again if there is somebody to recruit for.
Populate(t, withCheckpoints) ==
  /\ queue' = Populated(t, withCheckpoints)
  /\ nextSequence' = Cardinality(Populated(t, withCheckpoints))
  /\ recruiting' = insurgents

\* next_interval of the payload once on_patrol returns; an event's `elapsed`
\* is the interval that led to it, which is what the payload still holds.
PatrolInterval(e) ==
  IF e.time \in world.absences
  THEN IF e.elapsed = 0 THEN Interval["patrol"] ELSE e.elapsed
  ELSE IF e.time \in world.transits THEN Interval["patrol"]
  ELSE IF e.time \in world.longs THEN LongRoute
  ELSE Interval["patrol"]

\* _reschedule: everything that has an interval comes back, without a priority.
Rescheduled(e, s) ==
  IF e.clock = "contact" THEN {}
  ELSE LET d == IF e.clock = "patrol" THEN PatrolInterval(e) ELSE Interval[e.clock]
       IN {Entry(e.clock, e.time + d, DefaultPriority, s, d)}

\* Variant: the window is cut at the horizon the caller asked for.
ExposureToHorizon(e) ==
  LET d == Interval["contact_scan"]
      bound == IF Phase = "burn_in" THEN -e.time ELSE until - e.time
  IN IF bound < d THEN (IF bound < 0 THEN 0 ELSE bound) ELSE d

\* exposure_days of a contact scan: clipped at zero in burn-in, never after.
Exposure(e) ==
  LET d == Interval["contact_scan"]
  IN IF Phase = "burn_in" /\ -e.time < d THEN -e.time ELSE d

\* _schedule_contacts or _schedule_organized_actions.
Opportunities(e, s) ==
  IF e.clock = "contact_scan" /\ e.time \in world.meetings /\ Exposure(e) > 0
  THEN {Entry("contact", e.time + Exposure(e), ContactPriority, s, Exposure(e))}
  ELSE {}

\* Whether some insurgent organization is active once e is handled.
ActiveOnce(e) == (insurgents /\ ~Disbands(world, e)) \/ Raises(world, e)

\* The recruitment clock starts with the first active insurgent organization;
\* it then goes on whether or not one stays active.
StartsRecruiting(e) == e.clock # "contact_scan" /\ ~recruiting /\ ActiveOnce(e)

\* One event: schedule its opportunities or execute its handler, start the
\* recruitment clock, reschedule.
Handle(e) ==
  LET before == Opportunities(e, nextSequence) \cup
        (IF StartsRecruiting(e) /\ "recruitment" \in Clocks
         THEN {Entry("recruitment", e.time, Priority["recruitment"], nextSequence, 0)}
         ELSE {})
      after == Rescheduled(e, nextSequence + Cardinality(before))
  IN /\ queue' = (queue \ {e}) \cup before \cup after
     /\ nextSequence' = nextSequence + Cardinality(before) + Cardinality(after)
     /\ insurgents' = ActiveOnce(e)
     /\ recruiting' = (recruiting \/ StartsRecruiting(e))

\* The event enters the trajectory; on_checkpoint saves instead.
Record(e) ==
  IF e.clock = "checkpoint"
  THEN saved' = now' /\ UNCHANGED trace
  ELSE trace' = [trace EXCEPT ![Phase] = Append(@, Tick(e))] /\ UNCHANGED saved

-----------------------------------------------------------------------------

\* run(until=u, max_events=m, checkpoint=c), up to its loop.  A first call
\* initializes; a later one with an earlier horizon raises, with
\* _checkpointing already changed.
Run(u, m, c) ==
  /\ mode \in {"new", "idle"}
  /\ checkpointing' = IF c = None THEN checkpointing ELSE c
  /\ UNCHANGED <<world, trace, saved, insurgents>>
  /\ \/ /\ mode = "new"
        /\ now' = -world.burnIn
        /\ Populate(-world.burnIn, checkpointing')
        /\ mode' = IF world.burnIn > 0 THEN "burn_in" ELSE "running"
        /\ until' = u
        /\ left' = m
        /\ outcome' = None
     \/ /\ mode = "idle" /\ u < now
        /\ outcome' = "refused"
        /\ UNCHANGED <<queue, nextSequence, now, mode, until, left, recruiting>>
     \/ /\ mode = "idle" /\ u >= now
        /\ mode' = "running"
        /\ until' = u
        /\ left' = m
        /\ outcome' = None
        /\ UNCHANGED <<queue, nextSequence, now, recruiting>>

\* The break of the burn-in loop, negated.
BurnInTakes(e) == e.time < 0 \/ (e.time = 0 /\ e.clock = "contact")

BurnInStep ==
  /\ mode = "burn_in"
  /\ \E e \in queue :
       /\ IsNext(e, queue)
       /\ BurnInTakes(e)
       /\ now' = e.time
       /\ Handle(e)
       /\ Record(e)
  /\ UNCHANGED <<world, mode, until, left, checkpointing, outcome>>

\* The loop ends: the records go, the calendar is populated anew at zero and
\* run goes on to its own loop.
BurnInEnds ==
  /\ mode = "burn_in"
  /\ \A e \in queue : IsNext(e, queue) => ~BurnInTakes(e)
  /\ now' = 0
  /\ saved' = None
  /\ Populate(0, checkpointing)
  /\ mode' = "running"
  /\ UNCHANGED <<world, trace, until, left, checkpointing, insurgents, outcome>>

\* Variant: the events of the horizon itself are left for the next run.
GoesOnBefore(e) == left # 0 /\ e.time < until

\* The loop of run goes on with the next event e.
GoesOn(e) == left # 0 /\ e.time <= until

Processed == left' = IF left = None THEN None ELSE left - 1

\* Variant: the event is looked at but not taken from the scheduler.
DropCheckpointUnpopped ==
  /\ mode = "running"
  /\ \E e \in queue :
       /\ IsNext(e, queue)
       /\ GoesOn(e)
       /\ e.clock = "checkpoint" /\ ~checkpointing
  /\ Processed
  /\ UNCHANGED <<world, trace, queue, nextSequence, now, mode, until,
                 checkpointing, saved, recruiting, insurgents, outcome>>

\* A tick of a checkpoint clock that was switched off is dropped for good.
DropCheckpoint ==
  /\ mode = "running"
  /\ \E e \in queue :
       /\ IsNext(e, queue)
       /\ GoesOn(e)
       /\ e.clock = "checkpoint" /\ ~checkpointing
       /\ queue' = queue \ {e}
  /\ Processed
  /\ UNCHANGED <<world, trace, nextSequence, now, mode, until, checkpointing,
                 saved, recruiting, insurgents, outcome>>

Step ==
  /\ mode = "running"
  /\ \E e \in queue :
       /\ IsNext(e, queue)
       /\ GoesOn(e)
       /\ e.clock = "checkpoint" => checkpointing
       /\ now' = e.time
       /\ Handle(e)
       /\ Record(e)
  /\ Processed
  /\ UNCHANGED <<world, mode, until, checkpointing, outcome>>

\* Variant: a stop at the limit is relabelled as a completed horizon.
StoppedNever == FALSE

\* stopped_by_max_events: the limit is tested before the horizon is.
Stopped == queue # {} /\ left = 0

\* The loop ends and run returns: the world is at the horizon unless the
\* limit stopped it, and the time of return has a checkpoint.
Return ==
  /\ mode = "running"
  /\ \A e \in queue : IsNext(e, queue) => ~GoesOn(e)
  /\ now' = IF ~Stopped /\ now < until THEN until ELSE now
  /\ saved' = IF checkpointing /\ saved # now' THEN now' ELSE saved
  /\ outcome' = IF Stopped THEN "stopped" ELSE "done"
  /\ mode' = "idle"
  /\ UNCHANGED <<world, trace, queue, nextSequence, until, left,
                 checkpointing, recruiting, insurgents>>

Loop == BurnInStep \/ BurnInEnds \/ DropCheckpoint \/ Step \/ Return

Next ==
  \/ \E u \in 0 .. Horizon, m \in Limits, c \in {None, TRUE, FALSE} : Run(u, m, c)
  \/ Loop

Spec == Init /\ [][Next]_vars

\* A call that was made is executed: the loop belongs to one thread.
FairSpec == Spec /\ WF_vars(Loop)

-----------------------------------------------------------------------------

\* Types.
TypeOK ==
  /\ \A e \in queue : /\ e.clock \in Clocks \cup {"checkpoint", "contact"}
                      /\ e.time \in Int /\ e.priority \in Nat
                      /\ e.sequence \in Nat /\ e.elapsed \in Nat
  /\ nextSequence \in Nat
  /\ now \in Int
  /\ mode \in {"new", "burn_in", "running", "idle"}
  /\ until \in 0 .. Horizon
  /\ left \in Nat \cup {None}
  /\ {checkpointing, recruiting, insurgents} \subseteq BOOLEAN
  /\ saved \in Int \cup {None}
  /\ outcome \in {None, "refused", "stopped", "done"}

\* run asserts that no event lies before the world's time ("scheduler time
\* moved backward").  The assertion holds across burn-in, repopulation, limits
\* and horizons that fall between events: nothing pending is ever overdue.
NeverBackward == mode # "new" => \A e \in queue : e.time >= now

\* Every clock that runs has exactly one pending event, so no process runs at
\* twice its rate or falls silent: also recruitment, which handlers start.
OneEventPerClock ==
  mode # "new" =>
    \A c \in Clocks :
      Cardinality({e \in queue : e.clock = c}) =
        IF c = "recruitment" /\ ~recruiting THEN 0 ELSE 1

\* A run that no limit stopped returns a world at the horizon it was asked
\* for with nothing due left behind; a stopped one is never past its horizon
\* ("a max_events stop ... must not be relabelled as a completed horizon").
ReturnsAtHorizon ==
  mode = "idle" /\ outcome # "refused" =>
    /\ now <= until
    /\ outcome = "done" => now = until /\ \A e \in queue : e.time > until

\* Every call of run returns.
RunReturns == mode \in {"burn_in", "running"} ~> mode = "idle"

\* The trajectory does not depend on how callers divide it into runs, limit
\* them or checkpoint them, nor on the burn-in's second calendar.
Promise == INSTANCE RecurringClocks WITH phase <- Phase
ImplementsRecurringClocks == Promise!Spec
=============================================================================
