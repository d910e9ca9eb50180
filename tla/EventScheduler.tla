--------------------------- MODULE EventScheduler ---------------------------
(***************************************************************************)
(* class EventScheduler of src/src/pineland_sim/events.py.  Cancelling      *)
(* leaves the event in the heap and records its sequence; a tombstone is    *)
(* dropped when it reaches the head of the heap.  The heap is the set of    *)
(* its events (heapq, external), its head the first of them.                *)
(***************************************************************************)
EXTENDS ScheduledEvent

VARIABLES
  queue,        \* _queue
  nextSequence, \* _next_sequence
  cancelled,    \* _cancelled_sequences
  replacement,  \* _replacement_sequences
  reply         \* what the last call returned

vars == <<queue, nextSequence, cancelled, replacement, reply>>

Init ==
  /\ queue = {}
  /\ nextSequence = 0
  /\ cancelled = {}
  /\ replacement = [k \in Keys |-> None]
  /\ reply = NoReply

\* The events a caller can still receive: pending_events().
PendingEvents == {e \in queue : e.sequence \notin cancelled}

\* What _discard_cancelled_head pops off the heap q with tombstones c.
CancelledHead(q, c) ==
  {e \in q : /\ e.sequence \in c
             /\ \A f \in q : f.sequence \notin c => Before(e, f)}

\* Variant: tombstones leave the heap but their numbers stay recorded.
DiscardHeadOnly(q) ==
  queue' = q \ CancelledHead(q, cancelled) /\ UNCHANGED cancelled

\* _discard_cancelled_head run on the heap q.
DiscardCancelledHead(q) ==
  /\ queue' = q \ CancelledHead(q, cancelled)
  /\ cancelled' = cancelled \ Sequences(CancelledHead(q, cancelled))

Schedule(t, p) ==
  /\ nextSequence < MaxSequence
  /\ UNCHANGED <<cancelled, replacement>>
  /\ \/ /\ ~Accepted(t)
        /\ reply' = Raised("schedule")
        /\ UNCHANGED <<queue, nextSequence>>
     \/ /\ Accepted(t)
        /\ queue' = queue \cup {Event(t, p, nextSequence)}
        /\ nextSequence' = nextSequence + 1
        /\ reply' = Returned("schedule", <<Event(t, p, nextSequence)>>)

\* cancel finds an event when it is queued and not yet a tombstone.
Cancellable(s) == s \in Sequences(queue) \ cancelled

Cancel(s) ==
  /\ cancelled' = IF Cancellable(s) THEN cancelled \cup {s} ELSE cancelled
  /\ reply' = Answered("cancel", Cancellable(s))
  /\ UNCHANGED <<queue, nextSequence, replacement>>

\* The predecessor is cancelled before schedule can refuse the new time.
ScheduleReplacing(k, t, p) ==
  /\ nextSequence < MaxSequence
  /\ cancelled' = IF Cancellable(replacement[k])
                  THEN cancelled \cup {replacement[k]} ELSE cancelled
  /\ \/ /\ ~Accepted(t)
        /\ reply' = Raised("schedule_replacing")
        /\ UNCHANGED <<queue, nextSequence, replacement>>
     \/ /\ Accepted(t)
        /\ queue' = queue \cup {Event(t, p, nextSequence)}
        /\ nextSequence' = nextSequence + 1
        /\ replacement' = [replacement EXCEPT ![k] = nextSequence]
        /\ reply' = Returned("schedule_replacing", <<Event(t, p, nextSequence)>>)

\* The head of the heap once its tombstones are discarded.
PopNext ==
  /\ UNCHANGED <<nextSequence, replacement>>
  /\ LET dropped == CancelledHead(queue, cancelled)
         heap    == queue \ dropped
     IN /\ cancelled' = cancelled \ Sequences(dropped)
        /\ \/ heap = {} /\ queue' = {} /\ reply' = Raised("pop_next")
           \/ \E e \in heap :
                /\ IsFirst(e, heap)
                /\ queue' = heap \ {e}
                /\ reply' = Returned("pop_next", <<e>>)

\* peek_time, then pop_next until peek_time moves on; the last peek_time has
\* discarded the tombstones that follow the batch.
PopTimeBatch ==
  /\ UNCHANGED <<nextSequence, replacement>>
  /\ \/ /\ PendingEvents = {}
        /\ DiscardCancelledHead(queue)
        /\ reply' = Returned("pop_time_batch", <<>>)
     \/ \E e \in PendingEvents :
          LET batch == AtTime(PendingEvents, e.time) IN
          /\ IsFirst(e, PendingEvents)
          /\ DiscardCancelledHead(queue \ batch)
          /\ reply' = Returned("pop_time_batch", InOrder(batch))

\* Variant: peek_time reads the head of the heap without discarding.
PeekAtTombstone ==
  /\ UNCHANGED <<queue, cancelled, nextSequence, replacement>>
  /\ \/ queue = {} /\ reply' = Peeked(None)
     \/ \E e \in queue : IsFirst(e, queue) /\ reply' = Peeked(e.time)

PeekTime ==
  /\ UNCHANGED <<nextSequence, replacement>>
  /\ DiscardCancelledHead(queue)
  /\ \/ queue' = {} /\ reply' = Peeked(None)
     \/ \E e \in queue' : IsFirst(e, queue') /\ reply' = Peeked(e.time)

Next ==
  \/ \E t \in Times, p \in Priorities : Schedule(t, p)
  \/ \E s \in 0 .. MaxSequence : Cancel(s)
  \/ \E k \in Keys, t \in Times, p \in Priorities : ScheduleReplacing(k, t, p)
  \/ PopNext
  \/ PopTimeBatch
  \/ PeekTime

Spec == Init /\ [][Next]_vars

-----------------------------------------------------------------------------

TypeOK ==
  /\ queue \subseteq EventType
  /\ nextSequence \in 0 .. MaxSequence
  /\ cancelled \subseteq Nat
  /\ replacement \in [Keys -> Nat \cup {None}]

\* Two events never share a sequence number, and every number in the heap has
\* been issued: the key (time, priority, sequence) is a strict order.
SequencesIssuedOnce ==
  /\ \A e, f \in queue : e.sequence = f.sequence => e = f
  /\ \A e \in queue : e.sequence < nextSequence

\* Every tombstone has its event in the heap, so a sequence number is never
\* cancelled after its event was delivered, and __len__'s subtraction of two
\* sizes is the number of live events.
TombstonesQueued == cancelled \subseteq Sequences(queue)

\* __len__ returns len(_queue) - len(_cancelled_sequences): exactly the number
\* of events pending_events() lists, whatever is still lying dead in the heap.
LengthExact ==
  Cardinality(queue) - Cardinality(cancelled) = Cardinality(PendingEvents)

\* The scheduler keeps the promise of the abstract queue: lazy deletion is
\* invisible in every reply.
Promise == INSTANCE EventQueue WITH live <- PendingEvents, newest <- replacement
ImplementsEventQueue == Promise!Spec
=============================================================================
