----------------------------- MODULE EventQueue -----------------------------
(***************************************************************************)
(* What a Pineland event scheduler promises to the simulation that owns it *)
(* (src/src/pineland_sim/events.py).  The promise is stated on the set of  *)
(* live events only: an event is live from the call that schedules it      *)
(* until it is popped, cancelled or replaced, and pops follow the key      *)
(* (time, priority, sequence).  EventScheduler (one heap, cancelled events *)
(* stay queued as tombstones) and CalendarEventScheduler (a heap of        *)
(* distinct timestamps over one heap per timestamp) both implement it.     *)
(***************************************************************************)
EXTENDS ScheduledEvent

VARIABLES
  live,         \* the events a caller can still receive
  nextSequence, \* sequence number of the next event accepted
  newest,       \* replacement key -> sequence of its last event, or None
  reply         \* what the last operation returned

vars == <<live, nextSequence, newest, reply>>

Init ==
  /\ live = {}
  /\ nextSequence = 0
  /\ newest = [k \in Keys |-> None]
  /\ reply = NoReply

Schedule(t, p) ==
  /\ nextSequence < MaxSequence
  /\ UNCHANGED newest
  /\ IF Accepted(t)
     THEN LET e == Event(t, p, nextSequence) IN
          /\ live' = live \cup {e}
          /\ nextSequence' = nextSequence + 1
          /\ reply' = Returned("schedule", <<e>>)
     ELSE /\ reply' = Raised("schedule")
          /\ UNCHANGED <<live, nextSequence>>

Cancel(s) ==
  /\ live' = Without(live, s)
  /\ reply' = Answered("cancel", s \in Sequences(live))
  /\ UNCHANGED <<nextSequence, newest>>

\* The predecessor is dropped whether or not the successor is accepted.
ScheduleReplacing(k, t, p) ==
  /\ nextSequence < MaxSequence
  /\ LET kept == Without(live, newest[k])
         e    == Event(t, p, nextSequence)
     IN IF Accepted(t)
        THEN /\ live' = kept \cup {e}
             /\ nextSequence' = nextSequence + 1
             /\ newest' = [newest EXCEPT ![k] = nextSequence]
             /\ reply' = Returned("schedule_replacing", <<e>>)
        ELSE /\ live' = kept
             /\ reply' = Raised("schedule_replacing")
             /\ UNCHANGED <<nextSequence, newest>>

PopNext ==
  /\ UNCHANGED <<nextSequence, newest>>
  /\ \/ live = {} /\ reply' = Raised("pop_next") /\ UNCHANGED live
     \/ \E e \in live :
          /\ IsFirst(e, live)
          /\ live' = live \ {e}
          /\ reply' = Returned("pop_next", <<e>>)

\* Every live event of the earliest timestamp, in the order of single pops.
PopTimeBatch ==
  /\ UNCHANGED <<nextSequence, newest>>
  /\ \/ live = {} /\ reply' = Returned("pop_time_batch", <<>>) /\ UNCHANGED live
     \/ \E e \in live :
          /\ IsFirst(e, live)
          /\ live' = live \ AtTime(live, e.time)
          /\ reply' = Returned("pop_time_batch", InOrder(AtTime(live, e.time)))

PeekTime ==
  /\ UNCHANGED <<live, nextSequence, newest>>
  /\ \/ live = {} /\ reply' = Peeked(None)
     \/ \E e \in live : IsFirst(e, live) /\ reply' = Peeked(e.time)

Next ==
  \/ \E t \in Times, p \in Priorities : Schedule(t, p)
  \/ \E s \in 0 .. MaxSequence : Cancel(s)
  \/ \E k \in Keys, t \in Times, p \in Priorities : ScheduleReplacing(k, t, p)
  \/ PopNext
  \/ PopTimeBatch
  \/ PeekTime

Spec == Init /\ [][Next]_vars
=============================================================================
