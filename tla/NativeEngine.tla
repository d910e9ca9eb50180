---------------------------- MODULE NativeEngine ----------------------------
(***************************************************************************)
(* SimulationEngine of src/rust/pineland-model/src/lib.rs: the native        *)
(* calendar loop.  The command line drives a fresh engine through run(),     *)
(* which has a burn-in; the particle filters drive theirs through           *)
(* advance_until, which has none.                                           *)
(***************************************************************************)
EXTENDS CalendarClocks

CONSTANTS
  Horizon,           \* the times callers ask for are 0 .. Horizon
  Limits,            \* the values of max_events callers pass, None among them
  Drivers,           \* subset of {"run", "advance"}: who may drive the engine
  ParticleExecution  \* particle_execution: no checkpoint clock after its first tick

VARIABLES
  world,         \* the world's answers
  trace,         \* the ticks handled in each phase (history)
  heap,          \* particle.scheduler.heap
  nextSequence,  \* particle.scheduler.next_sequence
  now,           \* particle.time
  mode,          \* "new", "burn_in", "running" or "idle"
  until,         \* target of the advance
  left,          \* max_events - processed, None without a limit
  nextAvailable, \* particle.patrols.next_available of the patrol
  outcome        \* what the last call returned

vars == <<world, trace, heap, nextSequence, now, mode, until, left,
          nextAvailable, outcome>>

Phase == IF world.burnIn > 0 /\ mode \in {"new", "burn_in"} THEN "burn_in" ELSE "observed"

\* schedule_initial_events: everything at zero, recruitment from the config.
InitialEvents ==
  LET first == (Clocks \ (IF world.founded THEN {} ELSE {"recruitment"}))
                 \cup {"checkpoint"}
      rank(c) == Cardinality({d \in first : Priority[d] < Priority[c]})
  IN {Entry(c, 0, Priority[c], rank(c), 0) : c \in first}

Init ==
  /\ world \in Worlds
  /\ trace = [p \in {"burn_in", "observed"} |-> <<>>]
  /\ heap = InitialEvents
  /\ nextSequence = Cardinality(InitialEvents)
  /\ now = 0
  /\ mode = "new"
  /\ until = 0
  /\ left = None
  /\ nextAvailable = 0
  /\ outcome = None

-----------------------------------------------------------------------------

\* The patrol handler takes a route only with an available formation at rest.
CanExecute(e) == e.time \notin world.absences \cup world.transits

\* next_available once the patrol handler returns.
Departed(e) ==
  IF e.clock # "patrol" \/ ~CanExecute(e) THEN nextAvailable
  ELSE e.time + (IF e.time \in world.longs THEN LongRoute ELSE 0)

\* The patrol case of reschedule_recurring.
PatrolInterval(e) ==
  IF CanExecute(e) /\ Departed(e) - e.time > Interval["patrol"]
  THEN Departed(e) - e.time ELSE Interval["patrol"]

\* schedule_organized_actions: one realization at the end of the scan's window.
Opportunities(e, s) ==
  IF e.clock = "contact_scan" /\ world.founded /\ e.time \in world.meetings
  THEN LET d == Interval["contact_scan"]
       IN {Entry("contact", e.time + d, ContactPriority, s, d)}
  ELSE {}

\* reschedule_recurring.
Rescheduled(e, s) ==
  IF e.clock = "contact" \/ (e.clock = "checkpoint" /\ ParticleExecution) THEN {}
  ELSE LET d == IF e.clock = "patrol" THEN PatrolInterval(e) ELSE Interval[e.clock]
       IN {Entry(e.clock, e.time + d, DefaultPriority, s, d)}

\* run() on a fresh engine: with a burn-in the calendar is shifted before zero.
Run(u) ==
  /\ "run" \in Drivers
  /\ mode = "new"
  /\ heap' = {Entry(e.clock, e.time - world.burnIn, e.priority, e.sequence, e.elapsed) : e \in heap}
  /\ now' = -world.burnIn
  /\ mode' = IF world.burnIn > 0 THEN "burn_in" ELSE "running"
  /\ until' = u
  /\ left' = None
  /\ outcome' = None
  /\ UNCHANGED <<world, trace, nextSequence, nextAvailable>>

\* advance_until_limited(u, m), up to its loop.
Advance(u, m) ==
  /\ "advance" \in Drivers
  /\ mode \in {"new", "idle"}
  /\ \/ /\ u < now
        /\ outcome' = "refused"
        /\ UNCHANGED <<mode, until, left>>
     \/ /\ u >= now
        /\ mode' = "running"
        /\ until' = u
        /\ left' = m
        /\ outcome' = None
  /\ UNCHANGED <<world, trace, heap, nextSequence, now, nextAvailable>>

\* The burn-in is an advance to zero without a limit.
Target == IF mode = "burn_in" THEN 0 ELSE until

\* The condition of the loop for the next event e.
GoesOn(e) == e.time <= Target /\ left # 0

\* One turn of the loop: handler and reschedule_recurring.
Step ==
  /\ mode \in {"burn_in", "running"}
  /\ \E e \in heap :
       LET made  == Opportunities(e, nextSequence)
           again == Rescheduled(e, nextSequence + Cardinality(made))
       IN /\ IsNext(e, heap)
          /\ GoesOn(e)
          /\ now' = e.time
          /\ heap' = (heap \ {e}) \cup made \cup again
          /\ nextSequence' = nextSequence + Cardinality(made) + Cardinality(again)
          /\ nextAvailable' = Departed(e)
          /\ trace' = IF e.clock = "checkpoint" THEN trace
                      ELSE [trace EXCEPT ![Phase] = Append(@, Tick(e))]
  /\ left' = IF left = None THEN None ELSE left - 1
  /\ UNCHANGED <<world, mode, until, outcome>>

LoopOver == \A e \in heap : IsNext(e, heap) => ~GoesOn(e)

\* The burn-in of run() is over: its records go, its calendar stays.
BurnInEnds ==
  /\ mode = "burn_in"
  /\ LoopOver
  /\ now' = 0
  /\ mode' = "running"
  /\ UNCHANGED <<world, trace, heap, nextSequence, until, left, nextAvailable, outcome>>

\* stopped_at_limit: the limit is reached with something still due.
StoppedAtLimit == left = 0 /\ \E e \in heap : e.time <= until

Return ==
  /\ mode = "running"
  /\ LoopOver
  /\ now' = IF StoppedAtLimit THEN now ELSE until
  /\ outcome' = IF StoppedAtLimit THEN "stopped" ELSE "done"
  /\ mode' = "idle"
  /\ UNCHANGED <<world, trace, heap, nextSequence, until, left, nextAvailable>>

Loop == Step \/ BurnInEnds \/ Return

Next ==
  \/ \E u \in 0 .. Horizon : Run(u) \/ (\E m \in Limits : Advance(u, m))
  \/ Loop

Spec == Init /\ [][Next]_vars

\* A call that was made is executed: the loop belongs to one thread.
FairSpec == Spec /\ WF_vars(Loop)

-----------------------------------------------------------------------------

\* The native engine keeps the promise the Python simulation keeps, so the
\* two make the same trajectory of the same world.
Promise == INSTANCE RecurringClocks WITH phase <- Phase
ImplementsRecurringClocks == Promise!Spec
=============================================================================
