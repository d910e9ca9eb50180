--------------------------- MODULE CalendarClocks ---------------------------
(***************************************************************************)
(* The calendar vocabulary that the Python simulation, the native engine    *)
(* and their common promise share: recurring clocks, the events and ticks   *)
(* they make, and the few answers of the world that decide which events     *)
(* come next.  The world is otherwise left out: what a handler computes     *)
(* matters here only where it schedules something.                          *)
(***************************************************************************)
EXTENDS Integers, FiniteSets, Sequences

CONSTANTS
  Clocks,    \* the recurring clocks of the latent process that are configured
  Interval,  \* config.intervals and its like: clock -> days
  LongRoute, \* days a patrol is out on a route longer than its interval
  Worlds,    \* the burn-ins and the answers of the world to try
  None       \* no limit, no checkpoint yet, no choice made

\* The first tick of each clock has a priority of its own.
Priority == [
  patrol |-> 30, contact_scan |-> 19, command |-> 20, force_movement |-> 25,
  logistics |-> 27, information |-> 38, beliefs |-> 42, physical_refresh |-> 35,
  social_influence |-> 45, organization_ecology |-> 58, political_order |-> 57,
  foreign_affairs |-> 59, peace_process |-> 61, mobility |-> 50,
  governance |-> 70, economy |-> 80, recruitment |-> 60, checkpoint |-> 90]

\* EventScheduler.schedule's default: what every recurrence gets.
DefaultPriority == 100

\* A contact or an organized action, realized when its scan's window closes.
ContactPriority == 18

ASSUME ClocksAssumption == Clocks \subseteq DOMAIN Priority \ {"checkpoint"}
ASSUME IntervalAssumption == Interval \in [Clocks \cup {"checkpoint"} -> Nat \ {0}]
ASSUME RouteAssumption == LongRoute \in Nat \ {0}
ASSUME LongAssumption == "patrol" \in Clocks => LongRoute > Interval["patrol"]
ASSUME NoneIsNoDay == None \notin Int

(***************************************************************************)
(* burnIn:   config.burn_in_days                                            *)
(* founded:  an insurgent organization is active from the start             *)
(* onsets:   times whose tick of the organizations or of the peace process  *)
(*           leaves one active                                              *)
(* endings:  other times whose such tick leaves none active                 *)
(* meetings: times whose contact scan finds an opportunity (one stands for  *)
(*           the formations or localities of the scan)                      *)
(* longs, transits, absences: times whose patrol tick takes a long route,   *)
(*           finds its formation moving, or finds it unavailable            *)
(***************************************************************************)
IsWorld(w) ==
  /\ DOMAIN w = {"burnIn", "founded", "onsets", "endings", "meetings", "longs", "transits", "absences"}
  /\ w.burnIn \in Nat
  /\ w.founded \in BOOLEAN
  /\ \A t \in w.onsets \cup w.endings \cup w.meetings \cup w.longs \cup w.transits \cup w.absences : t \in Int

ASSUME WorldsAssumption == \A w \in Worlds : IsWorld(w)

\* A tick is what a trajectory remembers of an event that was handled.
Tick(e) == [clock |-> e.clock, time |-> e.time, elapsed |-> e.elapsed]

\* The processes that found, revive and end organizations.
Politics == {"organization_ecology", "peace_process"}

\* This tick leaves an active insurgent organization behind, or ends the last.
Raises(w, e) == e.clock \in Politics /\ e.time \in w.onsets
Disbands(w, e) == e.clock \in Politics /\ e.time \in w.endings \ w.onsets

\* Whether one is active after these ticks.
ActiveAfter(w, before, ticks) ==
  \/ before /\ \A i \in DOMAIN ticks : ~Disbands(w, ticks[i])
  \/ \E i \in DOMAIN ticks : /\ Raises(w, ticks[i])
                              /\ \A j \in DOMAIN ticks : j > i => ~Disbands(w, ticks[j])

\* The order of a scheduler's heap: time, priority, order of insertion.
Precedes(e, f) ==
  \/ e.time < f.time
  \/ e.time = f.time /\ e.priority < f.priority
  \/ e.time = f.time /\ e.priority = f.priority /\ e.sequence < f.sequence

\* e is the event that pop_next returns from the pending events q.
IsNext(e, q) == e \in q /\ \A f \in q \ {e} : Precedes(e, f)

Entry(c, t, p, s, d) ==
  [clock |-> c, time |-> t, priority |-> p, sequence |-> s, elapsed |-> d]
=============================================================================
