----------------------- MODULE CalendarEventScheduler -----------------------
(***************************************************************************)
(* class CalendarEventScheduler of src/src/pineland_sim/events.py: a heap   *)
(* of the distinct timestamps and, per timestamp, a heap of its events.     *)
(* The live count is kept in _size, adjusted by every call, instead of     *)
(* being derived from the containers.                                      *)
(***************************************************************************)
EXTENDS ScheduledEvent

VARIABLES
  times,        \* _times
  buckets,      \* _buckets: a function on the timestamps that have a bucket
  nextSequence, \* _next_sequence
  size,         \* _size
  cancelled,    \* _cancelled_sequences
  replacement,  \* _replacement_sequences
  reply         \* what the last call returned

vars == <<times, buckets, nextSequence, size, cancelled, replacement, reply>>

Init ==
  /\ times = {}
  /\ buckets = [t \in {} |-> {}]
  /\ nextSequence = 0
  /\ size = 0
  /\ cancelled = {}
  /\ replacement = [k \in Keys |-> None]
  /\ reply = NoReply

Queued == UNION {buckets[t] : t \in DOMAIN buckets}

\* pending_events()
PendingEvents == {e \in Queued : e.sequence \notin cancelled}

\* The containers as one value, for the calls that discard or take events.
Calendar == [times |-> times, buckets |-> buckets, cancelled |-> cancelled]

\* Variant: at most one tombstone is popped from the head of a bucket.
TrimmedOnce(b, c) == {e \in b : ~(e.sequence \in c /\ IsFirst(e, b))}

\* The bucket b once the tombstones in c at its head are popped.
Trimmed(b, c) ==
  {e \in b : \E f \in b : f.sequence \notin c /\ (f = e \/ Before(f, e))}

\* _discard_cancelled_head: every bucket before the first live event is
\* deleted with its timestamp, and the bucket of that event is trimmed.
DiscardCancelledHead(c) ==
  LET gone    == {t \in c.times : \A u \in c.times :
                    u <= t => Trimmed(c.buckets[u], c.cancelled) = {}}
      left    == c.times \ gone
      after   == [t \in left |-> IF \A u \in left : t <= u
                                 THEN Trimmed(c.buckets[t], c.cancelled)
                                 ELSE c.buckets[t]]
      dropped == UNION {c.buckets[t] \ (IF t \in left THEN after[t] ELSE {}) :
                          t \in c.times}
  IN [times |-> left, buckets |-> after,
      cancelled |-> c.cancelled \ Sequences(dropped)]

\* Remove the events S, all of timestamp t, and t's bucket if that empties it.
Take(c, t, S) ==
  LET left == IF c.buckets[t] \subseteq S THEN c.times \ {t} ELSE c.times
  IN [c EXCEPT !.times = left, !.buckets = [u \in left |-> c.buckets[u] \ S]]

Become(c) ==
  /\ times' = c.times
  /\ buckets' = c.buckets
  /\ cancelled' = c.cancelled

\* A new event goes into its timestamp's bucket, which is opened if missing.
Push(e) ==
  /\ times' = times \cup {e.time}
  /\ buckets' = [t \in DOMAIN buckets \cup {e.time} |->
                   (IF t \in DOMAIN buckets THEN buckets[t] ELSE {})
                     \cup (IF t = e.time THEN {e} ELSE {})]
  /\ nextSequence' = nextSequence + 1

Schedule(t, p) ==
  /\ nextSequence < MaxSequence
  /\ UNCHANGED <<cancelled, replacement>>
  /\ \/ /\ ~Accepted(t)
        /\ reply' = Raised("schedule")
        /\ UNCHANGED <<times, buckets, nextSequence, size>>
     \/ /\ Accepted(t)
        /\ Push(Event(t, p, nextSequence))
        /\ size' = size + 1
        /\ reply' = Returned("schedule", <<Event(t, p, nextSequence)>>)

Cancellable(s) == s \in Sequences(Queued) \ cancelled

\* Variant: every cancel counts as a loss.
LostAlways(s) == 1

\* The number of live events a cancel of s takes away.
Lost(s) == IF Cancellable(s) THEN 1 ELSE 0

Cancel(s) ==
  /\ cancelled' = IF Cancellable(s) THEN cancelled \cup {s} ELSE cancelled
  /\ size' = size - Lost(s)
  /\ reply' = Answered("cancel", Cancellable(s))
  /\ UNCHANGED <<times, buckets, nextSequence, replacement>>

ScheduleReplacing(k, t, p) ==
  /\ nextSequence < MaxSequence
  /\ cancelled' = IF Cancellable(replacement[k])
                  THEN cancelled \cup {replacement[k]} ELSE cancelled
  /\ \/ /\ ~Accepted(t)
        /\ size' = size - Lost(replacement[k])
        /\ reply' = Raised("schedule_replacing")
        /\ UNCHANGED <<times, buckets, nextSequence, replacement>>
     \/ /\ Accepted(t)
        /\ Push(Event(t, p, nextSequence))
        /\ size' = size - Lost(replacement[k]) + 1
        /\ replacement' = [replacement EXCEPT ![k] = nextSequence]
        /\ reply' = Returned("schedule_replacing", <<Event(t, p, nextSequence)>>)

\* pop_next tests _size but takes the head of _times: the two must agree.
PopNext ==
  LET c == DiscardCancelledHead(Calendar) IN
  /\ UNCHANGED <<nextSequence, replacement>>
  /\ \/ /\ size = 0
        /\ Become(c)
        /\ reply' = Raised("pop_next")
        /\ UNCHANGED size
     \/ \E t \in c.times : \E e \in c.buckets[t] :
          /\ size # 0
          /\ \A u \in c.times : t <= u
          /\ IsFirst(e, c.buckets[t])
          /\ Become(Take(c, t, {e}))
          /\ size' = size - 1
          /\ reply' = Returned("pop_next", <<e>>)

\* peek_time, then pop_next while the head keeps its timestamp; the peek_time
\* that ends the loop has discarded the tombstones behind the batch.
PopTimeBatch ==
  LET c == DiscardCancelledHead(Calendar) IN
  /\ UNCHANGED <<nextSequence, replacement>>
  /\ \/ /\ c.times = {}
        /\ Become(c)
        /\ reply' = Returned("pop_time_batch", <<>>)
        /\ UNCHANGED size
     \/ \E t \in c.times :
          LET batch == {e \in c.buckets[t] : e.sequence \notin c.cancelled} IN
          /\ \A u \in c.times : t <= u
          /\ Become(DiscardCancelledHead(Take(c, t, batch)))
          /\ size' = size - Cardinality(batch)
          /\ reply' = Returned("pop_time_batch", InOrder(batch))

PeekTime ==
  LET c == DiscardCancelledHead(Calendar) IN
  /\ Become(c)
  /\ UNCHANGED <<nextSequence, size, replacement>>
  /\ \/ c.times = {} /\ reply' = Peeked(None)
     \/ \E t \in c.times : (\A u \in c.times : t <= u) /\ reply' = Peeked(t)

Next ==
  \/ \E t \in Times, p \in Priorities : Schedule(t, p)
  \/ \E s \in 0 .. MaxSequence : Cancel(s)
  \/ \E k \in Keys, t \in Times, p \in Priorities : ScheduleReplacing(k, t, p)
  \/ PopNext
  \/ PopTimeBatch
  \/ PeekTime

Spec == Init /\ [][Next]_vars

-----------------------------------------------------------------------------

\* Types of the containers: buckets hold events of their own timestamp.
TypeOK ==
  /\ times \subseteq Times
  /\ nextSequence \in 0 .. MaxSequence
  /\ size \in 0 .. MaxSequence
  /\ cancelled \subseteq 0 .. MaxSequence
  /\ replacement \in [Keys -> (0 .. MaxSequence) \cup {None}]
  /\ \A t \in DOMAIN buckets : buckets[t] \subseteq AtTime(EventType, t)

\* pop_next indexes _buckets with the head of _times and pops that bucket: the
\* two containers name the same timestamps and no bucket is ever left empty.
TimesMatchBuckets ==
  /\ times = DOMAIN buckets
  /\ \A t \in times : buckets[t] # {}

\* _size, adjusted by hand in schedule, cancel, schedule_replacing and
\* pop_next, is the number of events pending_events() lists, also when a
\* replaced event is still lying dead in its bucket.
SizeExact == size = Cardinality(PendingEvents)

\* The calendar keeps the same promise as the single heap: for the same calls
\* it returns the same events in the same order ("Exact same-time bucket
\* scheduler").
Promise == INSTANCE EventQueue WITH live <- PendingEvents, newest <- replacement
ImplementsEventQueue == Promise!Spec
=============================================================================
