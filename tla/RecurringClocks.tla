--------------------------- MODULE RecurringClocks ---------------------------
(***************************************************************************)
(* What a simulation engine promises about its calendar: the trajectory is  *)
(* a function of the world alone.  The next tick is computed from the ticks *)
(* so far; there is no queue, no horizon, no limit on the number of events  *)
(* and no checkpoint in this module, so whoever implements it cannot let    *)
(* the way callers cut a run into pieces leak into the trajectory.          *)
(* The Python simulation is the reference; ticks of the checkpoint clock    *)
(* are bookkeeping and are not part of the trajectory.                      *)
(***************************************************************************)
EXTENDS CalendarClocks

VARIABLES
  world, \* the world's answers
  phase, \* "burn_in" before analytical time zero, then "observed"
  trace  \* phase -> the ticks of that phase, in order

vars == <<world, phase, trace>>

Init ==
  /\ world \in Worlds
  /\ phase = IF world.burnIn > 0 THEN "burn_in" ELSE "observed"
  /\ trace = [p \in {"burn_in", "observed"} |-> <<>>]

Start == IF phase = "burn_in" THEN -world.burnIn ELSE 0
Ticks == trace[phase]

\* Indices of the ticks of clock c in this phase, and the last of them.
Of(c) == {i \in DOMAIN Ticks : Ticks[i].clock = c}
LastOf(c) == CHOOSE i \in Of(c) : \A j \in Of(c) : j <= i

\* Days from tick e to the next one of its clock.  A patrol whose formation
\* is unavailable repeats its last interval, if it has had one.
Gap(e) ==
  IF e.clock # "patrol" THEN Interval[e.clock]
  ELSE IF e.time \in world.absences
    THEN IF e.elapsed = 0 THEN Interval["patrol"] ELSE e.elapsed
  ELSE IF e.time \in world.longs \ world.transits THEN LongRoute
  ELSE Interval["patrol"]

\* Insurgents were active before the first tick of this phase.
ActiveAtStart ==
  \/ phase = "burn_in" /\ world.founded
  \/ phase = "observed" /\ ActiveAfter(world, world.founded, trace["burn_in"])

Risings == {i \in DOMAIN Ticks : Raises(world, Ticks[i])}

\* First ticks: all clocks at the start of the phase, recruitment only when
\* there is somebody to recruit for, else with the tick that founds them.
FirstTicks ==
  {Entry(c, Start, Priority[c], 0, 0) : c \in
     {d \in Clocks : Of(d) = {} /\ (d = "recruitment" => ActiveAtStart)}}
  \cup
  {Entry("recruitment", Ticks[i].time, Priority["recruitment"], i, 0) : i \in
     {j \in Risings : /\ "recruitment" \in Clocks
                      /\ Of("recruitment") = {}
                      /\ ~ActiveAtStart
                      /\ \A k \in Risings : j <= k}}

Recurrences ==
  {LET e == Ticks[LastOf(c)]
   IN Entry(c, e.time + Gap(e), DefaultPriority, LastOf(c), Gap(e)) :
     c \in {d \in Clocks : Of(d) # {}}}

\* A scan's window is the interval to the next scan, but never crosses zero.
Window(e) ==
  IF phase = "burn_in" /\ e.time + Interval["contact_scan"] > 0
  THEN -e.time ELSE Interval["contact_scan"]

Contacts ==
  {LET e == Ticks[i]
   IN Entry("contact", e.time + Window(e), ContactPriority, i, Window(e)) :
     i \in {j \in Of("contact_scan") :
              /\ Ticks[j].time \in world.meetings
              /\ \A k \in Of("contact") : Ticks[k].time # Ticks[j].time + Window(Ticks[j])}}

\* Here `sequence` is the tick that scheduled the entry, 0 for the start.
Pending == FirstTicks \cup Recurrences \cup Contacts

\* Burn-in takes everything before zero and the contacts that fall on zero;
\* the clocks that tick on zero open the observed run.
InBurnIn(e) == e.time < 0 \/ (e.time = 0 /\ e.clock = "contact")

NextTick ==
  LET pending == Pending IN
  \E e \in pending :
    /\ IsNext(e, pending)
    /\ phase = "burn_in" => InBurnIn(e)
    /\ trace' = [trace EXCEPT ![phase] = Append(@, Tick(e))]
    /\ UNCHANGED <<world, phase>>

BurnInEnds ==
  /\ phase = "burn_in"
  /\ phase' = "observed"
  /\ LET pending == Pending
     IN \A e \in pending : IsNext(e, pending) => ~InBurnIn(e)
  /\ UNCHANGED <<world, trace>>

Next == NextTick \/ BurnInEnds

Spec == Init /\ [][Next]_vars
=============================================================================
