------------------------ MODULE EventSchedulerProofs ------------------------
(***************************************************************************)
(* Proofs about both schedulers for every set of timestamps, priorities    *)
(* and keys, either value of allow_negative and any number of events.      *)
(*                                                                         *)
(* The heap rests on one fact about lazy deletion, Discarding: dropping    *)
(* tombstones together with their recorded numbers, and handing out live   *)
(* events, takes exactly the events handed out away from the live ones.    *)
(* The calendar of buckets rests on what its containers keep, Wellformed,  *)
(* and the two together on holding the same live events, Joint.            *)
(***************************************************************************)
EXTENDS MC_Schedulers, FiniteSetTheorems, TLAPS

\* The inductive invariant: types, unique issued sequences, queued tombstones.
IInv == TypeOK /\ SequencesIssuedOnce /\ TombstonesQueued

\* _discard_cancelled_head, pop_next, pop_time_batch and peek_time all take
\* tombstones D and live events B off the heap and forget D's numbers.
Takes(D, B) ==
  /\ D \subseteq {e \in queue : e.sequence \in cancelled}
  /\ B \subseteq PendingEvents
  /\ queue' = queue \ (D \cup B)
  /\ cancelled' = cancelled \ Sequences(D)

\* Taking keeps every remaining tombstone in the heap and removes from the
\* live events exactly the ones handed out.
LEMMA Discarding ==
  ASSUME IInv, NEW D, NEW B, Takes(D, B)
  PROVE  /\ queue' \subseteq queue
         /\ cancelled' \subseteq cancelled
         /\ TombstonesQueued'
         /\ PendingEvents' = PendingEvents \ B
<1>1. queue' \subseteq queue /\ cancelled' \subseteq cancelled
  BY DEF Takes
<1>2. TombstonesQueued'
  BY DEF Takes, IInv, TombstonesQueued, Sequences, PendingEvents
<1>3. PendingEvents' = PendingEvents \ B
  BY DEF Takes, IInv, SequencesIssuedOnce, Sequences, PendingEvents
<1>. QED  BY <1>1, <1>2, <1>3

\* The tombstones at the head of a heap that lacks only live events are
\* tombstones of the whole heap.
LEMMA HeadIsDead ==
  ASSUME NEW B
  PROVE  CancelledHead(queue \ B, cancelled)
           \subseteq {e \in queue : e.sequence \in cancelled}
BY DEF CancelledHead

\* An operation that only takes events preserves the invariant.
LEMMA TakingKeepsIInv ==
  ASSUME IInv, NEW D, NEW B, Takes(D, B),
         UNCHANGED <<nextSequence, replacement>>
  PROVE  IInv'
<1>1. queue' \subseteq queue /\ cancelled' \subseteq cancelled /\ TombstonesQueued'
  BY Discarding
<1>2. TypeOK'
  BY <1>1 DEF IInv, TypeOK
<1>3. SequencesIssuedOnce'
  BY <1>1 DEF IInv, SequencesIssuedOnce
<1>. QED  BY <1>1, <1>2, <1>3 DEF IInv

\* The event pop_next hands out: the head left by _discard_cancelled_head is
\* the first of the live events.
LEMMA HeadIsFirstLive ==
  ASSUME NEW e \in queue \ CancelledHead(queue, cancelled),
         IsFirst(e, queue \ CancelledHead(queue, cancelled))
  PROVE  IsFirst(e, PendingEvents)
<1>1. e.sequence \notin cancelled
  BY DEF IsFirst, CancelledHead
<1>2. PendingEvents \subseteq queue \ CancelledHead(queue, cancelled)
  BY DEF PendingEvents, CancelledHead
<1>. QED  BY <1>1, <1>2 DEF IsFirst, PendingEvents

\* The heap is empty after _discard_cancelled_head only when nothing is live.
LEMMA EmptyHeap ==
  queue \ CancelledHead(queue, cancelled) = {} <=> PendingEvents = {}
BY DEF PendingEvents, CancelledHead

LEMMA PopTakes ==
  ASSUME PopNext
  PROVE  \/ /\ Takes(CancelledHead(queue, cancelled), {})
            /\ PendingEvents = {}
            /\ reply' = Raised("pop_next")
         \/ \E e \in PendingEvents :
              /\ IsFirst(e, PendingEvents)
              /\ Takes(CancelledHead(queue, cancelled), {e})
              /\ reply' = Returned("pop_next", <<e>>)
<1>. DEFINE D == CancelledHead(queue, cancelled)
<1>0. D \subseteq {e \in queue : e.sequence \in cancelled}
  BY DEF CancelledHead
<1>1. CASE queue \ D = {} /\ queue' = {} /\ reply' = Raised("pop_next")
  BY <1>0, <1>1, EmptyHeap DEF PopNext, Takes
<1>2. ASSUME NEW e \in queue \ D, IsFirst(e, queue \ D),
             queue' = (queue \ D) \ {e}, reply' = Returned("pop_next", <<e>>)
      PROVE  /\ e \in PendingEvents
             /\ IsFirst(e, PendingEvents)
             /\ Takes(D, {e})
  <2>1. IsFirst(e, PendingEvents)
    BY <1>2, HeadIsFirstLive
  <2>2. e \in PendingEvents
    BY <2>1 DEF IsFirst
  <2>. QED  BY <1>0, <1>2, <2>1, <2>2 DEF PopNext, Takes
<1>. QED  BY <1>1, <1>2 DEF PopNext

LEMMA BatchTakes ==
  ASSUME PopTimeBatch
  PROVE  \E D : \/ /\ Takes(D, {})
                   /\ PendingEvents = {}
                   /\ reply' = Returned("pop_time_batch", <<>>)
                \/ \E e \in PendingEvents :
                     LET batch == AtTime(PendingEvents, e.time) IN
                     /\ IsFirst(e, PendingEvents)
                     /\ Takes(D, batch)
                     /\ reply' = Returned("pop_time_batch", InOrder(batch))
<1>1. CASE /\ PendingEvents = {}
           /\ DiscardCancelledHead(queue)
           /\ reply' = Returned("pop_time_batch", <<>>)
  <2>1. Takes(CancelledHead(queue, cancelled), {})
    BY <1>1 DEF DiscardCancelledHead, Takes, CancelledHead
  <2>. QED  BY <1>1, <2>1
<1>2. ASSUME NEW e \in PendingEvents, IsFirst(e, PendingEvents),
             DiscardCancelledHead(queue \ AtTime(PendingEvents, e.time))
      PROVE  \E D : Takes(D, AtTime(PendingEvents, e.time))
  <2>. DEFINE batch == AtTime(PendingEvents, e.time)
  <2>. DEFINE D == CancelledHead(queue \ batch, cancelled)
  <2>1. D \subseteq {f \in queue : f.sequence \in cancelled}
    BY HeadIsDead
  <2>2. batch \subseteq PendingEvents
    BY DEF AtTime
  <2>3. queue' = (queue \ batch) \ D /\ cancelled' = cancelled \ Sequences(D)
    BY <1>2 DEF DiscardCancelledHead
  <2>. HIDE DEF D, batch
  <2>4. Takes(D, batch)
    BY <2>1, <2>2, <2>3 DEF Takes
  <2>. QED  BY <2>4 DEF batch
<1>. QED  BY <1>1, <1>2 DEF PopTimeBatch

LEMMA PeekTakes ==
  ASSUME PeekTime
  PROVE  Takes(CancelledHead(queue, cancelled), {})
BY DEF PeekTime, DiscardCancelledHead, Takes, CancelledHead

-----------------------------------------------------------------------------
(***************************************************************************)
(* The invariant.                                                          *)
(***************************************************************************)

LEMMA InitIInv == Init => IInv
BY NoneAssumption, MaxSequenceAssumption
   DEF Init, IInv, TypeOK, SequencesIssuedOnce, TombstonesQueued

\* An accepted event brings a number no queued event has.
LEMMA PushKeepsQueue ==
  ASSUME IInv, NEW t \in Times, NEW p \in Priorities,
         nextSequence < MaxSequence,
         queue' = queue \cup {Event(t, p, nextSequence)},
         nextSequence' = nextSequence + 1
  PROVE  /\ queue' \subseteq EventType
         /\ nextSequence' \in 0 .. MaxSequence
         /\ SequencesIssuedOnce'
         /\ Sequences(queue) \subseteq Sequences(queue')
<1>1. nextSequence \in Nat /\ nextSequence' \in 0 .. MaxSequence
  BY MaxSequenceAssumption DEF IInv, TypeOK
<1>2. Event(t, p, nextSequence) \in EventType
  BY <1>1 DEF Event, EventType
<1>3. queue' \subseteq EventType
  BY <1>2 DEF IInv, TypeOK
<1>4. \A e \in queue : e.sequence \in Nat /\ e.sequence < nextSequence
  BY DEF IInv, TypeOK, SequencesIssuedOnce, EventType
<1>5. Event(t, p, nextSequence).sequence = nextSequence
  BY DEF Event
<1>6. SequencesIssuedOnce'
  BY <1>1, <1>4, <1>5 DEF IInv, SequencesIssuedOnce
<1>. QED  BY <1>1, <1>3, <1>6 DEF Sequences

\* cancel only ever records the number of a queued event.
LEMMA CancelKeepsTombstones ==
  ASSUME IInv, NEW s,
         cancelled' = IF Cancellable(s) THEN cancelled \cup {s} ELSE cancelled
  PROVE  cancelled' \subseteq Nat /\ cancelled' \subseteq Sequences(queue)
BY DEF IInv, TypeOK, TombstonesQueued, Cancellable, Sequences, EventType

LEMMA NextIInv == IInv /\ [Next]_vars => IInv'
<1>. SUFFICES ASSUME IInv, [Next]_vars PROVE IInv'
  OBVIOUS
<1>1. ASSUME NEW t \in Times, NEW p \in Priorities, Schedule(t, p)
      PROVE  IInv'
  <2>1. CASE ~Accepted(t)
    BY <1>1, <2>1 DEF Schedule, IInv, TypeOK, SequencesIssuedOnce, TombstonesQueued
  <2>2. CASE Accepted(t)
    BY <1>1, <2>2, PushKeepsQueue
       DEF Schedule, IInv, TypeOK, TombstonesQueued
  <2>. QED  BY <2>1, <2>2
<1>2. ASSUME NEW s \in 0 .. MaxSequence, Cancel(s)
      PROVE  IInv'
  BY <1>2, CancelKeepsTombstones
     DEF Cancel, IInv, TypeOK, SequencesIssuedOnce, TombstonesQueued
<1>3. ASSUME NEW k \in Keys, NEW t \in Times, NEW p \in Priorities,
             ScheduleReplacing(k, t, p)
      PROVE  IInv'
  <2>1. cancelled' \subseteq Nat /\ cancelled' \subseteq Sequences(queue)
    BY <1>3, CancelKeepsTombstones DEF ScheduleReplacing
  <2>2. CASE ~Accepted(t)
    BY <1>3, <2>1, <2>2
       DEF ScheduleReplacing, IInv, TypeOK, SequencesIssuedOnce, TombstonesQueued
  <2>3. CASE Accepted(t)
    <3>1. /\ queue' \subseteq EventType
          /\ nextSequence' \in 0 .. MaxSequence
          /\ SequencesIssuedOnce'
          /\ Sequences(queue) \subseteq Sequences(queue')
      BY <1>3, <2>3, PushKeepsQueue DEF ScheduleReplacing
    <3>2. replacement' \in [Keys -> Nat \cup {None}]
      BY <1>3, <2>3, MaxSequenceAssumption DEF ScheduleReplacing, IInv, TypeOK
    <3>3. TombstonesQueued'
      BY <2>1, <3>1 DEF TombstonesQueued, Sequences
    <3>. QED  BY <2>1, <3>1, <3>2, <3>3 DEF IInv, TypeOK
  <2>. QED  BY <2>2, <2>3
<1>4. ASSUME PopNext PROVE IInv'
  <2>1. PICK B : Takes(CancelledHead(queue, cancelled), B)
    BY <1>4, PopTakes
  <2>. QED  BY <1>4, <2>1, TakingKeepsIInv DEF PopNext
<1>5. ASSUME PopTimeBatch PROVE IInv'
  <2>1. PICK D, B : Takes(D, B)
    BY <1>5, BatchTakes
  <2>. QED  BY <1>5, <2>1, TakingKeepsIInv DEF PopTimeBatch
<1>6. ASSUME PeekTime PROVE IInv'
  BY <1>6, PeekTakes, TakingKeepsIInv DEF PeekTime
<1>7. CASE UNCHANGED vars
  BY <1>7 DEF vars, IInv, TypeOK, SequencesIssuedOnce, TombstonesQueued
<1>. QED  BY <1>1, <1>2, <1>3, <1>4, <1>5, <1>6, <1>7 DEF Next

\* Every reachable heap is well typed.
THEOREM TypeCorrect == Spec => []TypeOK
<1>1. IInv => TypeOK  BY DEF IInv
<1>. QED  BY <1>1, InitIInv, NextIInv, PTL DEF Spec

\* The ordering key (time, priority, sequence) is strict in every reachable heap.
THEOREM StrictKey == Spec => []SequencesIssuedOnce
<1>1. IInv => SequencesIssuedOnce  BY DEF IInv
<1>. QED  BY <1>1, InitIInv, NextIInv, PTL DEF Spec

\* No tombstone outlives its event.
THEOREM NoStrayTombstone == Spec => []TombstonesQueued
<1>1. IInv => TombstonesQueued  BY DEF IInv
<1>. QED  BY <1>1, InitIInv, NextIInv, PTL DEF Spec

-----------------------------------------------------------------------------
(***************************************************************************)
(* The length reported by __len__.                                         *)
(***************************************************************************)

\* A heap whose events carry different issued numbers is finite.
LEMMA QueueFinite ==
  ASSUME IInv
  PROVE  IsFiniteSet(queue)
<1>. DEFINE number == [e \in queue |-> e.sequence]
<1>1. nextSequence \in Nat
  BY MaxSequenceAssumption DEF IInv, TypeOK
<1>2. \A e \in queue : e.sequence \in 0 .. nextSequence
  BY <1>1 DEF IInv, TypeOK, SequencesIssuedOnce, EventType
<1>3. number \in Injection(queue, 0 .. nextSequence)
  BY <1>2 DEF Injection, IsInjective, IInv, SequencesIssuedOnce
<1>4. IsFiniteSet(0 .. nextSequence)
  BY <1>1, FS_Interval
<1>. HIDE DEF number
<1>. QED  BY <1>3, <1>4, FS_Injection

\* The queued tombstones are as many as the numbers recorded for them.
LEMMA TombstoneCount ==
  ASSUME IInv
  PROVE  LET dead == {e \in queue : e.sequence \in cancelled} IN
         /\ IsFiniteSet(dead)
         /\ Cardinality(cancelled) = Cardinality(dead)
<1>. DEFINE dead == {e \in queue : e.sequence \in cancelled}
            number == [e \in dead |-> e.sequence]
<1>1. IsFiniteSet(dead)
  <2>1. dead \in SUBSET queue  OBVIOUS
  <2>. QED  BY <2>1, QueueFinite, FS_Subset
<1>2. number \in Injection(dead, cancelled)
  BY DEF Injection, IsInjective, IInv, SequencesIssuedOnce
<1>3. number \in Surjection(dead, cancelled)
  BY DEF Surjection, IInv, TombstonesQueued, Sequences
<1>. HIDE DEF dead, number
<1>4. ExistsBijection(dead, cancelled)
  BY <1>2, <1>3 DEF ExistsBijection, Bijection
<1>5. Cardinality(cancelled) = Cardinality(dead)
  BY <1>1, <1>4, FS_Bijection
<1>. QED  BY <1>1, <1>5 DEF dead

\* __len__ is the number of live events in every reachable state.
THEOREM LenCountsLive == Spec => []LengthExact
<1>1. ASSUME IInv PROVE LengthExact
  <2>. DEFINE dead == {e \in queue : e.sequence \in cancelled}
  <2>1. IsFiniteSet(dead) /\ Cardinality(cancelled) = Cardinality(dead)
    BY <1>1, TombstoneCount
  <2>2. IsFiniteSet(PendingEvents)
    <3>1. PendingEvents \in SUBSET queue  BY DEF PendingEvents
    <3>. QED  BY <1>1, <3>1, QueueFinite, FS_Subset
  <2>3. queue = PendingEvents \cup dead /\ PendingEvents \cap dead = {}
    BY DEF PendingEvents
  <2>. HIDE DEF dead
  <2>4. Cardinality(PendingEvents \cup dead)
          = Cardinality(PendingEvents) + Cardinality(dead)
              - Cardinality(PendingEvents \cap dead)
    BY <2>1, <2>2, FS_Union
  <2>5. /\ Cardinality(PendingEvents) \in Nat
        /\ Cardinality(dead) \in Nat
        /\ Cardinality(PendingEvents \cap dead) = 0
    BY <2>1, <2>2, <2>3, FS_CardinalityType, FS_EmptySet
  <2>. QED  BY <2>1, <2>3, <2>4, <2>5 DEF LengthExact
<1>. QED  BY <1>1, InitIInv, NextIInv, PTL DEF Spec

-----------------------------------------------------------------------------
(***************************************************************************)
(* Lazy deletion implements the abstract queue.                            *)
(***************************************************************************)

\* The abstract queue instantiated here speaks of the same events, order and
\* replies as the heap.
LEMMA SameVocabulary ==
  /\ Promise!NoReply = NoReply
  /\ \A op, x : Promise!Returned(op, x) = Returned(op, x)
  /\ \A op, x : Promise!Answered(op, x) = Answered(op, x)
  /\ \A op : Promise!Raised(op) = Raised(op)
  /\ \A t : Promise!Peeked(t) = Peeked(t)
  /\ \A t : Promise!Accepted(t) <=> Accepted(t)
  /\ \A t, p, s : Promise!Event(t, p, s) = Event(t, p, s)
  /\ \A S, s : Promise!Without(S, s) = Without(S, s)
  /\ \A S, t : Promise!AtTime(S, t) = AtTime(S, t)
  /\ \A S : Promise!Sequences(S) = Sequences(S)
  /\ \A e, S : Promise!IsFirst(e, S) <=> IsFirst(e, S)
  /\ \A S : Promise!InOrder(S) = InOrder(S)
<1>1. \A e, f : Promise!Before(e, f) <=> Before(e, f)
  BY DEF Promise!Before, Before
<1>2. \A e, S : Promise!IsFirst(e, S) <=> IsFirst(e, S)
  BY <1>1 DEF Promise!IsFirst, IsFirst
<1>3. \A S : Promise!InOrder(S) = InOrder(S)
  BY DEF Promise!InOrder, InOrder, Promise!Before, Before,
         Promise!Cardinality, Cardinality, Promise!IsFiniteSet, IsFiniteSet
<1>4. /\ \A op, x : Promise!Answered(op, x) = Answered(op, x)
      /\ Promise!NoReply = NoReply
  BY DEF Promise!Answered, Answered, Promise!NoReply, NoReply
<1>5. /\ \A op, x : Promise!Returned(op, x) = Returned(op, x)
      /\ \A op : Promise!Raised(op) = Raised(op)
      /\ \A t : Promise!Peeked(t) = Peeked(t)
  BY DEF Promise!Returned, Returned, Promise!Raised, Raised, Promise!Peeked, Peeked
<1>6. /\ \A t : Promise!Accepted(t) <=> Accepted(t)
      /\ \A t, p, s : Promise!Event(t, p, s) = Event(t, p, s)
  BY DEF Promise!Accepted, Accepted, Promise!Event, Event
<1>7. /\ \A S, s : Promise!Without(S, s) = Without(S, s)
      /\ \A S, t : Promise!AtTime(S, t) = AtTime(S, t)
      /\ \A S : Promise!Sequences(S) = Sequences(S)
  BY DEF Promise!Without, Without, Promise!AtTime, AtTime, Promise!Sequences, Sequences
<1>. QED  BY <1>2, <1>3, <1>4, <1>5, <1>6, <1>7

LEMMA InitRefines == Init => Promise!Init
BY SameVocabulary DEF Init, Promise!Init, PendingEvents

\* cancel removes its event from the live ones, and answers whether there was one.
LEMMA CancelRemovesLive ==
  ASSUME NEW s,
         cancelled' = IF Cancellable(s) THEN cancelled \cup {s} ELSE cancelled
  PROVE  /\ Cancellable(s) = (s \in Sequences(PendingEvents))
         /\ {e \in queue : e.sequence \notin cancelled'} = Without(PendingEvents, s)
BY DEF Cancellable, Sequences, PendingEvents, Without

\* A pushed event is live at once: no tombstone carries a number not yet issued.
LEMMA PushAddsLive ==
  ASSUME IInv, NEW e, e.sequence = nextSequence,
         queue' = queue \cup {e},
         cancelled' \subseteq Sequences(queue)
  PROVE  PendingEvents'
           = {f \in queue : f.sequence \notin cancelled'} \cup {e}
<1>1. nextSequence \in Nat
  BY MaxSequenceAssumption DEF IInv, TypeOK
<1>2. nextSequence \notin Sequences(queue)
  BY <1>1 DEF IInv, SequencesIssuedOnce, Sequences, TypeOK, EventType
<1>. QED  BY <1>2 DEF PendingEvents

LEMMA ScheduleRefines ==
  ASSUME IInv, NEW t \in Times, NEW p \in Priorities, Schedule(t, p)
  PROVE  Promise!Schedule(t, p)
<1>1. CASE ~Accepted(t)
  BY <1>1, SameVocabulary DEF Schedule, Promise!Schedule, PendingEvents
<1>2. CASE Accepted(t)
  <2>1. PendingEvents' = PendingEvents \cup {Event(t, p, nextSequence)}
    <3>1. Event(t, p, nextSequence).sequence = nextSequence
      BY DEF Event
    <3>2. /\ queue' = queue \cup {Event(t, p, nextSequence)}
          /\ cancelled' = cancelled
      BY <1>2 DEF Schedule
    <3>. QED  BY <3>1, <3>2, PushAddsLive DEF IInv, TombstonesQueued, PendingEvents
  <2>. QED  BY <1>2, <2>1, SameVocabulary DEF Schedule, Promise!Schedule
<1>. QED  BY <1>1, <1>2

LEMMA CancelRefines ==
  ASSUME NEW s, Cancel(s)
  PROVE  Promise!Cancel(s)
<1>1. /\ Cancellable(s) = (s \in Sequences(PendingEvents))
      /\ {e \in queue : e.sequence \notin cancelled'} = Without(PendingEvents, s)
  BY CancelRemovesLive DEF Cancel
<1>2. PendingEvents' = Without(PendingEvents, s)
  BY <1>1 DEF Cancel, PendingEvents
<1>. QED  BY <1>1, <1>2, SameVocabulary DEF Cancel, Promise!Cancel

LEMMA ReplacingRefines ==
  ASSUME IInv, NEW k \in Keys, NEW t \in Times, NEW p \in Priorities,
         ScheduleReplacing(k, t, p)
  PROVE  Promise!ScheduleReplacing(k, t, p)
<1>1. {e \in queue : e.sequence \notin cancelled'} = Without(PendingEvents, replacement[k])
  BY CancelRemovesLive DEF ScheduleReplacing
<1>2. CASE ~Accepted(t)
  <2>1. PendingEvents' = Without(PendingEvents, replacement[k])
    BY <1>1, <1>2 DEF ScheduleReplacing, PendingEvents
  <2>. QED  BY <1>2, <2>1, SameVocabulary DEF ScheduleReplacing, Promise!ScheduleReplacing
<1>3. CASE Accepted(t)
  <2>1. /\ queue' = queue \cup {Event(t, p, nextSequence)}
        /\ cancelled' \subseteq Sequences(queue)
    BY <1>3, CancelKeepsTombstones DEF ScheduleReplacing
  <2>2. Event(t, p, nextSequence).sequence = nextSequence
    BY DEF Event
  <2>3. PendingEvents' = Without(PendingEvents, replacement[k])
                           \cup {Event(t, p, nextSequence)}
    BY <1>1, <2>1, <2>2, PushAddsLive
  <2>. QED  BY <1>3, <2>3, SameVocabulary DEF ScheduleReplacing, Promise!ScheduleReplacing
<1>. QED  BY <1>2, <1>3

LEMMA PopRefines ==
  ASSUME IInv, PopNext
  PROVE  Promise!PopNext
BY PopTakes, Discarding, SameVocabulary DEF PopNext, Promise!PopNext

LEMMA BatchRefines ==
  ASSUME IInv, PopTimeBatch
  PROVE  Promise!PopTimeBatch
BY BatchTakes, Discarding, SameVocabulary DEF PopTimeBatch, Promise!PopTimeBatch

LEMMA PeekRefines ==
  ASSUME IInv, PeekTime
  PROVE  Promise!PeekTime
<1>1. PendingEvents' = PendingEvents
  BY PeekTakes, Discarding
<1>2. queue' = queue \ CancelledHead(queue, cancelled)
  BY DEF PeekTime, DiscardCancelledHead
<1>3. CASE queue' = {} /\ reply' = Peeked(None)
  BY <1>1, <1>2, <1>3, EmptyHeap, SameVocabulary DEF PeekTime, Promise!PeekTime
<1>4. ASSUME NEW e \in queue', IsFirst(e, queue'), reply' = Peeked(e.time)
      PROVE  Promise!PeekTime
  <2>1. IsFirst(e, PendingEvents)
    BY <1>2, <1>4, HeadIsFirstLive
  <2>2. e \in PendingEvents
    BY <2>1 DEF IsFirst
  <2>. QED  BY <1>1, <1>4, <2>1, <2>2, SameVocabulary DEF PeekTime, Promise!PeekTime
<1>. QED  BY <1>3, <1>4 DEF PeekTime

LEMMA NextRefines == IInv /\ [Next]_vars => [Promise!Next]_(Promise!vars)
<1>. SUFFICES ASSUME IInv, [Next]_vars
              PROVE  [Promise!Next]_(Promise!vars)
  OBVIOUS
<1>1. CASE Next
  BY <1>1, ScheduleRefines, CancelRefines, ReplacingRefines, PopRefines, BatchRefines,
     PeekRefines DEF Next, Promise!Next
<1>2. CASE UNCHANGED vars
  BY <1>2 DEF vars, Promise!vars, PendingEvents
<1>. QED  BY <1>1, <1>2

\* Every behaviour of the heap scheduler, seen through its live events and its
\* replies, is a behaviour of the abstract queue.
THEOREM Refinement == Spec => ImplementsEventQueue
<1>. QED  BY InitIInv, NextIInv, InitRefines, NextRefines, PTL
             DEF Spec, ImplementsEventQueue, Promise!Spec

-----------------------------------------------------------------------------
(***************************************************************************)
(* The calendar of timestamps: what its containers keep.                   *)
(***************************************************************************)

Stored(c) == UNION {c.buckets[t] : t \in DOMAIN c.buckets}
LiveIn(c) == {e \in Stored(c) : e.sequence \notin c.cancelled}

\* The timestamps are those with a bucket, each bucket holds events of its
\* timestamp, no two events have one number, and every tombstone is stored.
Wellformed(c) ==
  /\ c.times \subseteq Times /\ DOMAIN c.buckets = c.times
  /\ \A t \in c.times : c.buckets[t] # {} /\ c.buckets[t] \subseteq AtTime(EventType, t)
  /\ \A e, f \in Stored(c) : e.sequence = f.sequence => e = f
  /\ c.cancelled \subseteq Sequences(Stored(c))

\* Both schedulers speak of the same events, order and replies.
LEMMA SameWords ==
  /\ C!NoReply = NoReply
  /\ \A op, x : C!Returned(op, x) = Returned(op, x)
  /\ \A op, x : C!Answered(op, x) = Answered(op, x)
  /\ \A op : C!Raised(op) = Raised(op)
  /\ \A t : C!Peeked(t) = Peeked(t)
  /\ \A t : C!Accepted(t) <=> Accepted(t)
  /\ \A t, p, s : C!Event(t, p, s) = Event(t, p, s)
  /\ \A S : C!Sequences(S) = Sequences(S)
  /\ \A e, f : C!Before(e, f) <=> Before(e, f)
  /\ \A e, S : C!IsFirst(e, S) <=> IsFirst(e, S)
  /\ \A S : C!InOrder(S) = InOrder(S)
<1>1. \A e, f : C!Before(e, f) <=> Before(e, f)
  BY DEF C!Before, Before
<1>2. \A e, S : C!IsFirst(e, S) <=> IsFirst(e, S)
  BY <1>1 DEF C!IsFirst, IsFirst
<1>3. \A S : C!InOrder(S) = InOrder(S)
  BY DEF C!InOrder, InOrder, C!Before, Before,
         C!Cardinality, Cardinality, C!IsFiniteSet, IsFiniteSet
<1>4. /\ \A op, x : C!Answered(op, x) = Answered(op, x)
      /\ C!NoReply = NoReply
  BY DEF C!Answered, Answered, C!NoReply, NoReply
<1>5. /\ \A op, x : C!Returned(op, x) = Returned(op, x)
      /\ \A op : C!Raised(op) = Raised(op)
      /\ \A t : C!Peeked(t) = Peeked(t)
  BY DEF C!Returned, Returned, C!Raised, Raised, C!Peeked, Peeked
<1>6. /\ \A t : C!Accepted(t) <=> Accepted(t)
      /\ \A t, p, s : C!Event(t, p, s) = Event(t, p, s)
  BY DEF C!Accepted, Accepted, C!Event, Event
<1>7. \A S : C!Sequences(S) = Sequences(S)
  BY DEF C!Sequences, Sequences
<1>. QED  BY <1>1, <1>2, <1>3, <1>4, <1>5, <1>6, <1>7

\* The order of two events of the calendar.
LEMMA Asymmetric ==
  ASSUME NEW e \in EventType, NEW f \in EventType, Before(e, f)
  PROVE  ~Before(f, e) /\ e # f
<1>1. \A g \in EventType : g.time \in Times /\ g.priority \in Priorities /\ g.sequence \in Nat
  BY DEF EventType
<1>2. e.time \in Int /\ f.time \in Int
  BY <1>1, TimesAssumption
<1>3. e.priority \in Nat /\ f.priority \in Nat
  BY <1>1, PrioritiesAssumption
<1>4. e.sequence \in Nat /\ f.sequence \in Nat
  BY <1>1
<1>. QED  BY <1>2, <1>3, <1>4 DEF Before

LEMMA FirstIsOne ==
  ASSUME NEW S, S \subseteq EventType, NEW e, NEW f, IsFirst(e, S), IsFirst(f, S)
  PROVE  e = f
BY Asymmetric DEF IsFirst

\* A trimmed bucket lacks only tombstones and is empty only if nothing lives.
LEMMA Trims ==
  ASSUME NEW b, NEW dead
  PROVE  /\ C!Trimmed(b, dead) \subseteq b
         /\ \A e \in b \ C!Trimmed(b, dead) : e.sequence \in dead
         /\ \A e \in b : e.sequence \notin dead => e \in C!Trimmed(b, dead)
BY DEF C!Trimmed

\* What is at the head of a trimmed bucket is alive.
LEMMA TrimmedHead ==
  ASSUME NEW b, b \subseteq EventType, NEW dead, NEW e, IsFirst(e, C!Trimmed(b, dead))
  PROVE  e.sequence \notin dead
<1>1. e \in C!Trimmed(b, dead) /\ \A f \in C!Trimmed(b, dead) \ {e} : Before(e, f)
  BY DEF IsFirst
<1>2. PICK f \in b : f.sequence \notin dead /\ (f = e \/ Before(f, e))
  BY <1>1, SameWords DEF C!Trimmed
<1>3. f \in C!Trimmed(b, dead) /\ e \in b
  BY <1>1, <1>2, Trims
<1>. QED  BY <1>1, <1>2, <1>3, Asymmetric

\* _discard_cancelled_head takes tombstones and their timestamps off the front,
\* and what is then first is alive.
LEMMA Discards ==
  ASSUME NEW c, Wellformed(c), NEW d, d = C!DiscardCancelledHead(c)
  PROVE  /\ Wellformed(d) /\ LiveIn(d) = LiveIn(c) /\ Stored(d) \subseteq Stored(c)
         /\ \A t \in d.times : (\A u \in d.times : t <= u) =>
              \A e : IsFirst(e, d.buckets[t]) => e \in LiveIn(c)
         /\ \A t \in d.times : (\A u \in d.times : t <= u) =>
              \E e \in d.buckets[t] : e \in LiveIn(c)
<1>. DEFINE gone == {t \in c.times : \A u \in c.times :
                       u <= t => C!Trimmed(c.buckets[u], c.cancelled) = {}}
            left == c.times \ gone
            after == [t \in left |-> IF \A u \in left : t <= u
                                     THEN C!Trimmed(c.buckets[t], c.cancelled)
                                     ELSE c.buckets[t]]
            dropped == UNION {c.buckets[t] \ (IF t \in left THEN after[t] ELSE {}) : t \in c.times}
<1>1. d.times = left /\ d.buckets = after /\ d.cancelled = c.cancelled \ Sequences(dropped)
  BY SameWords DEF C!DiscardCancelledHead
<1>2. /\ c.times \subseteq Times /\ DOMAIN c.buckets = c.times
      /\ \A t \in c.times : c.buckets[t] # {} /\ c.buckets[t] \subseteq AtTime(EventType, t)
      /\ \A e, f \in Stored(c) : e.sequence = f.sequence => e = f
      /\ c.cancelled \subseteq Sequences(Stored(c))
  BY DEF Wellformed
<1>3. left \subseteq c.times /\ DOMAIN after = left
  OBVIOUS
<1>4. ASSUME NEW t \in left, \A u \in left : t <= u
      PROVE  /\ after[t] = C!Trimmed(c.buckets[t], c.cancelled)
             /\ \E e \in after[t] : e.sequence \notin c.cancelled
  <2>1. PICK u \in c.times : u <= t /\ C!Trimmed(c.buckets[u], c.cancelled) # {}
    BY <1>4
  <2>2. u \in Int /\ t \in Int
    BY <1>2, <1>3, TimesAssumption
  <2>3. u \in left
    BY <2>1, <2>2
  <2>4. u = t
    BY <1>4, <2>1, <2>2, <2>3
  <2>5. after[t] = C!Trimmed(c.buckets[t], c.cancelled)
    BY <1>4
  <2>6. PICK e : e \in C!Trimmed(c.buckets[t], c.cancelled)
    BY <2>1, <2>4
  <2>7. PICK f \in c.buckets[t] : f.sequence \notin c.cancelled
    BY <2>6 DEF C!Trimmed
  <2>8. f \in after[t]
    BY <2>5, <2>7, Trims
  <2>. QED  BY <2>5, <2>7, <2>8
<1>5. ASSUME NEW t \in left
      PROVE  /\ after[t] \subseteq c.buckets[t] /\ after[t] # {}
             /\ \A e \in c.buckets[t] \ after[t] : e.sequence \in c.cancelled
  <2>1. CASE \A u \in left : t <= u
    BY <1>4, <2>1, Trims
  <2>2. CASE ~(\A u \in left : t <= u)
    BY <1>2, <1>3, <2>2
  <2>. QED  BY <2>1, <2>2
<1>6. ASSUME NEW t \in c.times \ left, NEW e \in c.buckets[t]
      PROVE  e.sequence \in c.cancelled
  <2>1. C!Trimmed(c.buckets[t], c.cancelled) = {}
    <3>1. t \in c.times /\ t \notin left
      BY <1>6
    <3>2. t \in Int
      BY <1>2, <3>1, TimesAssumption
    <3>3. t <= t
      BY <3>2
    <3>. QED  BY <3>1, <3>3
  <2>. QED  BY <2>1, Trims
<1>. HIDE DEF gone, left, after, dropped
<1>7. \A e : e \in Stored(c) <=> \E t \in c.times : e \in c.buckets[t]
  BY <1>2 DEF Stored
<1>8. \A e : e \in Stored(d) <=> \E t \in left : e \in after[t]
  BY <1>1, <1>3 DEF Stored
<1>9. Stored(d) \subseteq Stored(c)
  BY <1>3, <1>5, <1>7, <1>8
<1>10. \A t \in c.times : \A e \in c.buckets[t] : e \in EventType /\ e.time = t
  BY <1>2 DEF AtTime
<1>11. dropped = Stored(c) \ Stored(d)
  <2>1. ASSUME NEW e \in dropped PROVE e \in Stored(c) /\ e \notin Stored(d)
    <3>1. PICK t \in c.times : e \in c.buckets[t] \ (IF t \in left THEN after[t] ELSE {})
      BY DEF dropped
    <3>2. \A u \in left : e \in after[u] => u = t
      BY <1>3, <1>5, <1>10, <3>1
    <3>. QED  BY <1>7, <1>8, <3>1, <3>2
  <2>2. ASSUME NEW e \in Stored(c), e \notin Stored(d) PROVE e \in dropped
    <3>1. PICK t \in c.times : e \in c.buckets[t]
      BY <1>7
    <3>2. e \in c.buckets[t] \ (IF t \in left THEN after[t] ELSE {})
      BY <1>8, <2>2, <3>1
    <3>. QED  BY <3>2 DEF dropped
  <2>. QED  BY <2>1, <2>2
<1>12. \A e \in dropped : e.sequence \in c.cancelled
  <2>1. ASSUME NEW e \in dropped PROVE e.sequence \in c.cancelled
    <3>1. PICK t \in c.times : e \in c.buckets[t] \ (IF t \in left THEN after[t] ELSE {})
      BY DEF dropped
    <3>. QED  BY <1>5, <1>6, <3>1
  <2>. QED  BY <2>1
<1>13. \A e \in Stored(d) : e.sequence \in d.cancelled <=> e.sequence \in c.cancelled
  BY <1>1, <1>2, <1>9, <1>11 DEF Sequences
<1>14. LiveIn(d) = LiveIn(c)
  BY <1>9, <1>11, <1>12, <1>13 DEF LiveIn
<1>15. Wellformed(d)
  <2>1. d.times \subseteq Times /\ DOMAIN d.buckets = d.times
    BY <1>1, <1>2, <1>3
  <2>2. \A t \in d.times : d.buckets[t] # {} /\ d.buckets[t] \subseteq AtTime(EventType, t)
    BY <1>1, <1>2, <1>3, <1>5
  <2>3. d.cancelled \subseteq Sequences(Stored(d))
    BY <1>1, <1>2, <1>11 DEF Sequences
  <2>. QED  BY <1>2, <1>9, <2>1, <2>2, <2>3 DEF Wellformed
<1>16. ASSUME NEW t \in d.times, \A u \in d.times : t <= u
       PROVE  /\ \A e : IsFirst(e, d.buckets[t]) => e \in LiveIn(c)
              /\ \E e \in d.buckets[t] : e \in LiveIn(c)
  <2>1. /\ d.buckets[t] = C!Trimmed(c.buckets[t], c.cancelled)
        /\ \E e \in d.buckets[t] : e.sequence \notin c.cancelled
    BY <1>1, <1>4, <1>16
  <2>2. \A e \in d.buckets[t] : e \in Stored(c)
    BY <1>1, <1>8, <1>9
  <2>3. c.buckets[t] \subseteq EventType
    BY <1>1, <1>3, <1>10
  <2>4. ASSUME NEW e, IsFirst(e, d.buckets[t]) PROVE e \in LiveIn(c)
    <3>1. e.sequence \notin c.cancelled
      BY <2>1, <2>3, <2>4, TrimmedHead
    <3>2. e \in d.buckets[t]
      BY <2>4 DEF IsFirst
    <3>. QED  BY <2>2, <3>1, <3>2 DEF LiveIn
  <2>. QED  BY <2>1, <2>2, <2>4 DEF LiveIn
<1>. QED  BY <1>9, <1>14, <1>15, <1>16

-----------------------------------------------------------------------------
(***************************************************************************)
(* What each call makes of the calendar.                                   *)
(***************************************************************************)

Containers == {"times", "buckets", "cancelled"}

LEMMA DiscardsRecord ==
  ASSUME NEW c
  PROVE  DOMAIN C!DiscardCancelledHead(c) = Containers
BY DEF C!DiscardCancelledHead, Containers

\* Handing out live events of one timestamp, and its bucket with the last.
LEMMA HandsOut ==
  ASSUME NEW c, Wellformed(c), DOMAIN c = Containers, NEW t \in c.times,
         NEW S, S \subseteq c.buckets[t], S \subseteq LiveIn(c),
         NEW d, d = C!Take(c, t, S)
  PROVE  Wellformed(d) /\ LiveIn(d) = LiveIn(c) \ S /\ Stored(d) \subseteq Stored(c)
<1>. DEFINE left == IF c.buckets[t] \subseteq S THEN c.times \ {t} ELSE c.times
            after == [u \in left |-> c.buckets[u] \ S]
<1>1. d.times = left /\ d.buckets = after /\ d.cancelled = c.cancelled
  BY DEF C!Take, Containers
<1>2. /\ c.times \subseteq Times /\ DOMAIN c.buckets = c.times
      /\ \A u \in c.times : c.buckets[u] # {} /\ c.buckets[u] \subseteq AtTime(EventType, u)
      /\ \A e, f \in Stored(c) : e.sequence = f.sequence => e = f
      /\ c.cancelled \subseteq Sequences(Stored(c))
  BY DEF Wellformed
<1>3. \A u \in c.times : \A e \in c.buckets[u] : e.time = u
  BY <1>2 DEF AtTime
<1>4. left \subseteq c.times /\ \A u \in left : after[u] = c.buckets[u] \ S /\ DOMAIN after = left
  OBVIOUS
<1>5. \A u \in left : after[u] # {} /\ after[u] \subseteq AtTime(EventType, u)
  <2>1. ASSUME NEW u \in left PROVE after[u] # {}
    <3>1. CASE u = t
      BY <1>4, <3>1
    <3>2. CASE u # t
      <4>1. \A e \in c.buckets[u] : e \notin S
        BY <1>3, <1>4, <3>2
      <4>. QED  BY <1>2, <1>4, <4>1
    <3>. QED  BY <3>1, <3>2
  <2>. QED  BY <1>2, <1>4, <2>1
<1>6. DOMAIN after = left /\ \A u \in c.times \ left : c.buckets[u] \subseteq S
  OBVIOUS
<1>. HIDE DEF left, after
<1>7. \A e : e \in Stored(c) <=> \E u \in c.times : e \in c.buckets[u]
  BY <1>2 DEF Stored
<1>8. \A e : e \in Stored(d) <=> \E u \in left : e \in after[u]
  BY <1>1, <1>6 DEF Stored
<1>9. Stored(d) = Stored(c) \ S
  <2>1. ASSUME NEW e \in Stored(d) PROVE e \in Stored(c) /\ e \notin S
    BY <1>4, <1>7, <1>8
  <2>2. ASSUME NEW e \in Stored(c), e \notin S PROVE e \in Stored(d)
    <3>1. PICK u \in c.times : e \in c.buckets[u]
      BY <1>7
    <3>2. u \in left
      BY <1>6, <2>2, <3>1
    <3>. QED  BY <1>4, <1>8, <2>2, <3>1, <3>2
  <2>. QED  BY <2>1, <2>2
<1>10. LiveIn(d) = LiveIn(c) \ S
  BY <1>1, <1>9 DEF LiveIn
<1>11. d.cancelled \subseteq Sequences(Stored(d))
  BY <1>1, <1>2, <1>9 DEF Sequences, LiveIn
<1>. QED  BY <1>1, <1>2, <1>4, <1>5, <1>6, <1>9, <1>10, <1>11 DEF Wellformed

\* Tombstones are recorded for stored events only.
LEMMA Records ==
  ASSUME NEW c, Wellformed(c), NEW d, d.times = c.times, d.buckets = c.buckets,
         d.cancelled \subseteq Sequences(Stored(c))
  PROVE  Wellformed(d) /\ Stored(d) = Stored(c)
BY DEF Wellformed, Stored

\* A new event opens its bucket if need be.
LEMMA Opens ==
  ASSUME NEW c, Wellformed(c), NEW e \in EventType, e.sequence \notin Sequences(Stored(c)),
         NEW d, d.times = c.times \cup {e.time},
         d.buckets = [t \in DOMAIN c.buckets \cup {e.time} |->
                        (IF t \in DOMAIN c.buckets THEN c.buckets[t] ELSE {})
                          \cup (IF t = e.time THEN {e} ELSE {})],
         d.cancelled \subseteq Sequences(Stored(c))
  PROVE  /\ Wellformed(d) /\ Stored(d) = Stored(c) \cup {e}
         /\ LiveIn(d) = {f \in Stored(c) : f.sequence \notin d.cancelled} \cup {e}
<1>1. /\ c.times \subseteq Times /\ DOMAIN c.buckets = c.times
      /\ \A u \in c.times : c.buckets[u] # {} /\ c.buckets[u] \subseteq AtTime(EventType, u)
      /\ \A f, g \in Stored(c) : f.sequence = g.sequence => f = g
  BY DEF Wellformed
<1>2. DOMAIN d.buckets = d.times
  BY <1>1
<1>3. \A t \in d.times : d.buckets[t] = (IF t \in c.times THEN c.buckets[t] ELSE {})
                                          \cup (IF t = e.time THEN {e} ELSE {})
  BY <1>1
<1>4. \A f : f \in Stored(c) <=> \E u \in c.times : f \in c.buckets[u]
  BY <1>1 DEF Stored
<1>5. \A f : f \in Stored(d) <=> \E u \in d.times : f \in d.buckets[u]
  <2>1. ASSUME NEW b, DOMAIN b = d.times
        PROVE  \A f : f \in UNION {b[t] : t \in DOMAIN b} <=> \E u \in d.times : f \in b[u]
    BY <2>1
  <2>. QED  BY <1>2, <2>1, Zenon DEF Stored
<1>6. Stored(d) = Stored(c) \cup {e}
  <2>1. ASSUME NEW f \in Stored(d) PROVE f \in Stored(c) \cup {e}
    <3>1. PICK u \in d.times : f \in d.buckets[u]
      BY <1>5
    <3>2. f \in (IF u \in c.times THEN c.buckets[u] ELSE {})
            \/ f \in (IF u = e.time THEN {e} ELSE {})
      BY <1>3, <3>1
    <3>. QED  BY <1>4, <3>2
  <2>2. \A f \in Stored(c) : f \in Stored(d)
    BY <1>3, <1>4, <1>5
  <2>3. e.time \in d.times /\ e \in d.buckets[e.time]
    BY <1>3
  <2>. QED  BY <1>5, <2>1, <2>2, <2>3
<1>7. e \in AtTime(EventType, e.time) /\ e.time \in Times
  BY DEF AtTime, EventType
<1>8. \A t \in d.times : d.buckets[t] # {} /\ d.buckets[t] \subseteq AtTime(EventType, t)
  BY <1>1, <1>3, <1>7
<1>9. \A f, g \in Stored(d) : f.sequence = g.sequence => f = g
  BY <1>1, <1>6 DEF Sequences
<1>10. d.cancelled \subseteq Sequences(Stored(d)) /\ e.sequence \notin d.cancelled
  BY <1>6 DEF Sequences
<1>11. Wellformed(d)
  BY <1>1, <1>2, <1>7, <1>8, <1>9, <1>10 DEF Wellformed
<1>12. LiveIn(d) = {f \in Stored(c) : f.sequence \notin d.cancelled} \cup {e}
  BY <1>6, <1>10 DEF LiveIn
<1>. QED  BY <1>6, <1>11, <1>12

\* The calendar is well formed, and _size is the number of its live events.
Ordered ==
  /\ Wellformed(C!Calendar)
  /\ IsFiniteSet(C!PendingEvents) /\ size = Cardinality(C!PendingEvents)
  /\ \A e \in C!Queued : e.sequence < calendarSequence
  /\ calendarSequence \in Nat

LEMMA CalendarFacts ==
  /\ Stored(C!Calendar) = C!Queued /\ LiveIn(C!Calendar) = C!PendingEvents
  /\ C!Calendar.times = times /\ C!Calendar.buckets = buckets
  /\ C!Calendar.cancelled = calendarCancelled
BY DEF Stored, LiveIn, C!Calendar, C!Queued, C!PendingEvents

LEMMA CalendarFactsNext ==
  /\ Stored(C!Calendar') = C!Queued' /\ LiveIn(C!Calendar') = C!PendingEvents'
  /\ C!Calendar'.times = times' /\ C!Calendar'.buckets = buckets'
  /\ C!Calendar'.cancelled = calendarCancelled'
BY DEF Stored, LiveIn, C!Calendar, C!Queued, C!PendingEvents

\* One live event fewer, if the cancelled one was alive.
LEMMA OneFewer ==
  ASSUME Ordered, NEW s
  PROVE  /\ IsFiniteSet(Without(C!PendingEvents, s))
         /\ Cardinality(Without(C!PendingEvents, s))
              = size - (IF s \in Sequences(C!PendingEvents) THEN 1 ELSE 0)
<1>. DEFINE P == C!PendingEvents
<1>1. IsFiniteSet(P) /\ size = Cardinality(P) /\ Cardinality(P) \in Nat
  BY FS_CardinalityType DEF Ordered
<1>2. \A e, f \in P : e.sequence = f.sequence => e = f
  BY CalendarFacts DEF Ordered, Wellformed, LiveIn
<1>. HIDE DEF P
<1>3. CASE s \in Sequences(P)
  <2>1. PICK e \in P : e.sequence = s
    BY <1>3 DEF Sequences
  <2>2. Without(P, s) = P \ {e}
    BY <1>2, <2>1 DEF Without
  <2>3. IsFiniteSet(P \ {e}) /\ Cardinality(P \ {e}) = Cardinality(P) - 1
    BY <1>1, <2>1, FS_RemoveElement
  <2>. QED  BY <1>1, <1>3, <2>2, <2>3 DEF P
<1>4. CASE s \notin Sequences(P)
  <2>1. Without(P, s) = P
    BY <1>4 DEF Without, Sequences
  <2>. QED  BY <1>1, <1>4, <2>1 DEF P
<1>. QED  BY <1>3, <1>4 DEF P

\* cancel on the calendar.
LEMMA CalendarCancels ==
  ASSUME Ordered, NEW s,
         calendarCancelled' = IF C!Cancellable(s) THEN calendarCancelled \cup {s}
                              ELSE calendarCancelled
  PROVE  /\ C!Cancellable(s) = (s \in Sequences(C!PendingEvents))
         /\ C!Lost(s) = IF s \in Sequences(C!PendingEvents) THEN 1 ELSE 0
         /\ calendarCancelled' \subseteq Sequences(C!Queued)
         /\ {e \in C!Queued : e.sequence \notin calendarCancelled'} = Without(C!PendingEvents, s)
<1>1. C!Cancellable(s) = (s \in Sequences(C!Queued) \ calendarCancelled)
  BY SameWords DEF C!Cancellable
<1>2. C!PendingEvents = {e \in C!Queued : e.sequence \notin calendarCancelled}
  BY DEF C!PendingEvents
<1>3. calendarCancelled \subseteq Sequences(C!Queued)
  BY CalendarFacts DEF Ordered, Wellformed
<1>4. C!Cancellable(s) = (s \in Sequences(C!PendingEvents))
  BY <1>1, <1>2 DEF Sequences
<1>5. {e \in C!Queued : e.sequence \notin calendarCancelled'} = Without(C!PendingEvents, s)
  BY <1>1, <1>2 DEF Without, Sequences
<1>. QED  BY <1>1, <1>3, <1>4, <1>5 DEF C!Lost

\* A call of the calendar that accepts an event.
LEMMA CalendarPushes ==
  ASSUME Ordered, NEW t \in Times, NEW p \in Priorities,
         C!Push(C!Event(t, p, calendarSequence)),
         calendarCancelled' \subseteq Sequences(C!Queued),
         NEW L, L = {e \in C!Queued : e.sequence \notin calendarCancelled'},
         IsFiniteSet(L), size' = Cardinality(L) + 1
  PROVE  /\ Ordered' /\ calendarSequence' = calendarSequence + 1
         /\ C!PendingEvents' = L \cup {Event(t, p, calendarSequence)}
<1>. DEFINE e == Event(t, p, calendarSequence)
<1>1. C!Event(t, p, calendarSequence) = e
  BY SameWords
<1>2. e \in EventType /\ e.sequence = calendarSequence /\ calendarSequence \in Nat
  BY DEF Event, EventType, Ordered
<1>3. e.sequence \notin Sequences(C!Queued)
  BY <1>2 DEF Ordered, Sequences
<1>. HIDE DEF e
<1>4. /\ times' = times \cup {e.time} /\ calendarSequence' = calendarSequence + 1
      /\ buckets' = [u \in DOMAIN buckets \cup {e.time} |->
                       (IF u \in DOMAIN buckets THEN buckets[u] ELSE {})
                         \cup (IF u = e.time THEN {e} ELSE {})]
  BY <1>1 DEF C!Push
<1>5. /\ Wellformed(C!Calendar') /\ Stored(C!Calendar') = Stored(C!Calendar) \cup {e}
      /\ LiveIn(C!Calendar')
           = {f \in Stored(C!Calendar) : f.sequence \notin C!Calendar'.cancelled} \cup {e}
  <2>1. ASSUME NEW c, c = C!Calendar, NEW d, d = C!Calendar'
        PROVE  /\ Wellformed(d) /\ Stored(d) = Stored(c) \cup {e}
               /\ LiveIn(d) = {f \in Stored(c) : f.sequence \notin d.cancelled} \cup {e}
    <3>1. Wellformed(c) /\ Stored(c) = C!Queued
      BY <2>1, CalendarFacts DEF Ordered
    <3>2. c.times = times /\ c.buckets = buckets
      BY <2>1, CalendarFacts
    <3>3. d.times = times' /\ d.buckets = buckets' /\ d.cancelled = calendarCancelled'
      BY <2>1, CalendarFactsNext
    <3>4. d.times = c.times \cup {e.time} /\ d.cancelled \subseteq Sequences(Stored(c))
      BY <1>4, <3>1, <3>2, <3>3
    <3>5. d.buckets = [u \in DOMAIN c.buckets \cup {e.time} |->
                         (IF u \in DOMAIN c.buckets THEN c.buckets[u] ELSE {})
                           \cup (IF u = e.time THEN {e} ELSE {})]
      BY <1>4, <3>2, <3>3
    <3>6. e.sequence \notin Sequences(Stored(c))
      BY <1>3, <3>1
    <3>. QED  BY <1>2, <3>1, <3>4, <3>5, <3>6, Opens
  <2>. QED  BY <2>1
<1>6. C!PendingEvents' = L \cup {e} /\ C!Queued' = C!Queued \cup {e}
  BY <1>5, CalendarFacts, CalendarFactsNext
<1>7. e \notin L
  BY <1>3 DEF Sequences
<1>8. IsFiniteSet(C!PendingEvents') /\ size' = Cardinality(C!PendingEvents')
  BY <1>6, <1>7, FS_AddElement
<1>9. \A f \in C!Queued' : f.sequence < calendarSequence'
  <2>1. \A f \in C!Queued : f.sequence \in Nat /\ f.sequence < calendarSequence
    BY CalendarFacts DEF Ordered, Wellformed, Stored, AtTime, EventType
  <2>. QED  BY <1>2, <1>4, <1>6, <2>1
<1>10. Wellformed(C!Calendar)'
  BY <1>5
<1>. QED  BY <1>2, <1>4, <1>6, <1>8, <1>9, <1>10 DEF Ordered, e

\* A call of the calendar that takes the live events B.
LEMMA CalendarTakes ==
  ASSUME Ordered, NEW d, Wellformed(d), NEW B, B \subseteq C!PendingEvents,
         Stored(d) \subseteq C!Queued, LiveIn(d) = C!PendingEvents \ B, C!Become(d),
         size' = size - Cardinality(B), UNCHANGED calendarSequence
  PROVE  Ordered' /\ C!PendingEvents' = C!PendingEvents \ B
<1>1. times' = d.times /\ buckets' = d.buckets /\ calendarCancelled' = d.cancelled
  BY DEF C!Become
<1>2. Stored(C!Calendar') = Stored(d) /\ LiveIn(C!Calendar') = LiveIn(d)
  BY <1>1, CalendarFactsNext DEF Stored, LiveIn
<1>3. Wellformed(C!Calendar')
  BY <1>1, <1>2, CalendarFactsNext DEF Wellformed
<1>4. Wellformed(C!Calendar)'
  BY <1>3
<1>5. C!PendingEvents' = C!PendingEvents \ B /\ C!Queued' \subseteq C!Queued
  BY <1>2, CalendarFactsNext
<1>6. IsFiniteSet(C!PendingEvents) /\ IsFiniteSet(B)
  BY FS_Subset DEF Ordered
<1>7. /\ IsFiniteSet(C!PendingEvents \ B)
      /\ Cardinality(C!PendingEvents \ B) = Cardinality(C!PendingEvents) - Cardinality(B)
  <2>1. C!PendingEvents \cap B = B
    OBVIOUS
  <2>. QED  BY <1>6, <2>1, FS_Difference
<1>. QED  BY <1>4, <1>5, <1>7 DEF Ordered

LEMMA EmptyNumber == Cardinality({}) = 0 /\ IsFiniteSet({})
BY FS_EmptySet

\* pop_next: _size says whether there is a live event, and the head of the first
\* bucket is the first of them.
LEMMA CalendarPops ==
  ASSUME Ordered, C!PopNext
  PROVE  /\ Ordered' /\ calendarSequence' = calendarSequence
         /\ calendarReplacement' = calendarReplacement
         /\ \/ /\ C!PendingEvents = {} /\ C!PendingEvents' = {}
               /\ calendarReply' = Raised("pop_next")
            \/ \E e \in C!PendingEvents :
                 /\ IsFirst(e, C!PendingEvents)
                 /\ C!PendingEvents' = C!PendingEvents \ {e}
                 /\ calendarReply' = Returned("pop_next", <<e>>)
<1>. DEFINE c == C!DiscardCancelledHead(C!Calendar)
<1>1. Wellformed(C!Calendar)
  BY DEF Ordered
<1>2. /\ Wellformed(c) /\ LiveIn(c) = C!PendingEvents /\ Stored(c) \subseteq C!Queued
      /\ DOMAIN c = Containers
  BY <1>1, Discards, CalendarFacts, DiscardsRecord
<1>3. \A t \in c.times : (\A u \in c.times : t <= u) =>
        \A e : IsFirst(e, c.buckets[t]) => e \in C!PendingEvents
  BY <1>1, Discards, CalendarFacts
<1>4. UNCHANGED <<calendarSequence, calendarReplacement>>
  BY DEF C!PopNext
<1>5. size = Cardinality(C!PendingEvents) /\ IsFiniteSet(C!PendingEvents)
  BY DEF Ordered
<1>6. \/ /\ size = 0 /\ C!Become(c) /\ calendarReply' = Raised("pop_next") /\ UNCHANGED size
      \/ \E t \in c.times : \E e \in c.buckets[t] :
           /\ \A u \in c.times : t <= u
           /\ IsFirst(e, c.buckets[t])
           /\ C!Become(C!Take(c, t, {e}))
           /\ size' = size - 1
           /\ calendarReply' = Returned("pop_next", <<e>>)
  BY SameWords DEF C!PopNext
<1>. HIDE DEF c
<1>7. CASE size = 0 /\ C!Become(c) /\ calendarReply' = Raised("pop_next") /\ UNCHANGED size
  <2>1. C!PendingEvents = {}
    BY <1>5, <1>7, FS_EmptySet
  <2>2. {} \subseteq C!PendingEvents /\ LiveIn(c) = C!PendingEvents \ {}
        /\ size' = size - Cardinality({})
    BY <1>2, <1>5, <1>7, EmptyNumber
  <2>3. Ordered' /\ C!PendingEvents' = C!PendingEvents \ {}
    BY <1>2, <1>4, <1>7, <2>2, CalendarTakes
  <2>. QED  BY <1>4, <1>7, <2>1, <2>3
<1>8. ASSUME NEW t \in c.times, NEW e \in c.buckets[t], \A u \in c.times : t <= u,
             IsFirst(e, c.buckets[t]), C!Become(C!Take(c, t, {e})), size' = size - 1,
             calendarReply' = Returned("pop_next", <<e>>)
      PROVE  /\ Ordered' /\ e \in C!PendingEvents /\ IsFirst(e, C!PendingEvents)
             /\ C!PendingEvents' = C!PendingEvents \ {e}
  <2>1. e \in C!PendingEvents
    BY <1>3, <1>8
  <2>2. IsFirst(e, C!PendingEvents)
    <3>1. ASSUME NEW f \in C!PendingEvents, f # e PROVE Before(e, f)
      <4>1. PICK u \in c.times : f \in c.buckets[u]
        BY <1>2 DEF LiveIn, Stored, Wellformed
      <4>2. f.time = u /\ e.time = t
        BY <1>2, <1>8, <4>1 DEF Wellformed, AtTime
      <4>3. t \in Int /\ u \in Int /\ t <= u
        BY <1>2, <1>8, <4>1, TimesAssumption DEF Wellformed
      <4>4. CASE u = t
        BY <1>8, <3>1, <4>1, <4>4 DEF IsFirst
      <4>5. CASE t < u
        BY <4>2, <4>5 DEF Before
      <4>. QED  BY <4>3, <4>4, <4>5
    <3>. QED  BY <2>1, <3>1 DEF IsFirst
  <2>3. /\ Wellformed(C!Take(c, t, {e})) /\ LiveIn(C!Take(c, t, {e})) = C!PendingEvents \ {e}
        /\ Stored(C!Take(c, t, {e})) \subseteq C!Queued
    <3>1. {e} \subseteq c.buckets[t] /\ {e} \subseteq LiveIn(c)
      BY <1>2, <1>8, <2>1
    <3>. QED  BY <1>2, <1>8, <3>1, HandsOut
  <2>4. {e} \subseteq C!PendingEvents /\ size' = size - Cardinality({e})
    BY <1>8, <2>1, FS_Singleton
  <2>. QED  BY <1>4, <1>8, <2>1, <2>2, <2>3, <2>4, CalendarTakes
<1>. QED  BY <1>4, <1>6, <1>7, <1>8

\* pop_time_batch: what is alive in the first bucket is what is alive at its time.
LEMMA CalendarBatches ==
  ASSUME Ordered, C!PopTimeBatch
  PROVE  /\ Ordered' /\ calendarSequence' = calendarSequence
         /\ calendarReplacement' = calendarReplacement
         /\ \/ /\ C!PendingEvents = {} /\ C!PendingEvents' = {}
               /\ calendarReply' = Returned("pop_time_batch", <<>>)
            \/ \E e \in C!PendingEvents :
                 /\ \A f \in C!PendingEvents : e.time <= f.time
                 /\ C!PendingEvents' = C!PendingEvents \ AtTime(C!PendingEvents, e.time)
                 /\ calendarReply' = Returned("pop_time_batch",
                                              InOrder(AtTime(C!PendingEvents, e.time)))
<1>. DEFINE c == C!DiscardCancelledHead(C!Calendar)
            Batch(t) == {e \in c.buckets[t] : e.sequence \notin c.cancelled}
<1>1. Wellformed(C!Calendar)
  BY DEF Ordered
<1>2. /\ Wellformed(c) /\ LiveIn(c) = C!PendingEvents /\ Stored(c) \subseteq C!Queued
      /\ DOMAIN c = Containers
  BY <1>1, Discards, CalendarFacts, DiscardsRecord
<1>3. \A t \in c.times : (\A u \in c.times : t <= u) =>
        \E e \in c.buckets[t] : e \in C!PendingEvents
  BY <1>1, Discards, CalendarFacts
<1>4. UNCHANGED <<calendarSequence, calendarReplacement>>
  BY DEF C!PopTimeBatch
<1>5. size = Cardinality(C!PendingEvents) /\ size \in Nat
  BY FS_CardinalityType DEF Ordered
<1>6. \/ /\ c.times = {} /\ C!Become(c) /\ UNCHANGED size
         /\ calendarReply' = Returned("pop_time_batch", <<>>)
      \/ \E t \in c.times :
           /\ \A u \in c.times : t <= u
           /\ C!Become(C!DiscardCancelledHead(C!Take(c, t, Batch(t))))
           /\ size' = size - Cardinality(Batch(t))
           /\ calendarReply' = Returned("pop_time_batch", InOrder(Batch(t)))
  BY SameWords DEF C!PopTimeBatch, C!Cardinality, Cardinality, C!IsFiniteSet, IsFiniteSet
<1>7. ASSUME NEW t \in c.times PROVE Batch(t) = AtTime(C!PendingEvents, t)
  <2>1. \A e \in Stored(c) : e.time = t <=> e \in c.buckets[t]
    BY <1>2 DEF Wellformed, Stored, AtTime
  <2>2. c.buckets[t] \subseteq Stored(c)
    BY <1>2 DEF Wellformed, Stored
  <2>3. C!PendingEvents = {e \in Stored(c) : e.sequence \notin c.cancelled}
    BY <1>2 DEF LiveIn
  <2>. HIDE DEF c
  <2>. QED  BY <2>1, <2>2, <2>3 DEF AtTime
<1>. HIDE DEF c, Batch
<1>8. CASE c.times = {} /\ C!Become(c) /\ calendarReply' = Returned("pop_time_batch", <<>>)
           /\ UNCHANGED size
  <2>1. C!PendingEvents = {}
    BY <1>2, <1>8 DEF LiveIn, Stored, Wellformed
  <2>2. {} \subseteq C!PendingEvents /\ LiveIn(c) = C!PendingEvents \ {}
        /\ size' = size - Cardinality({})
    BY <1>2, <1>5, <1>8, EmptyNumber
  <2>3. Ordered' /\ C!PendingEvents' = C!PendingEvents \ {}
    BY <1>2, <1>4, <1>8, <2>2, CalendarTakes
  <2>. QED  BY <1>4, <1>8, <2>1, <2>3
<1>9. ASSUME NEW t \in c.times, \A u \in c.times : t <= u,
             C!Become(C!DiscardCancelledHead(C!Take(c, t, Batch(t)))),
             size' = size - Cardinality(Batch(t)),
             calendarReply' = Returned("pop_time_batch", InOrder(Batch(t)))
      PROVE  /\ Ordered'
             /\ \E e \in C!PendingEvents :
                 /\ \A f \in C!PendingEvents : e.time <= f.time
                 /\ C!PendingEvents' = C!PendingEvents \ AtTime(C!PendingEvents, e.time)
                 /\ calendarReply' = Returned("pop_time_batch",
                                              InOrder(AtTime(C!PendingEvents, e.time)))
  <2>1. Batch(t) = AtTime(C!PendingEvents, t)
    BY <1>7
  <2>2. Batch(t) \subseteq c.buckets[t] /\ Batch(t) \subseteq C!PendingEvents
    BY <2>1 DEF Batch, AtTime
  <2>. DEFINE taken == C!Take(c, t, Batch(t))
  <2>3. Wellformed(taken) /\ LiveIn(taken) = C!PendingEvents \ Batch(t)
        /\ Stored(taken) \subseteq C!Queued
    BY <1>2, <2>2, HandsOut
  <2>. HIDE DEF taken
  <2>. DEFINE d == C!DiscardCancelledHead(taken)
  <2>4. Wellformed(d) /\ LiveIn(d) = C!PendingEvents \ Batch(t) /\ Stored(d) \subseteq C!Queued
    BY <2>3, Discards
  <2>5. C!Become(d)
    BY <1>9 DEF taken
  <2>. HIDE DEF d
  <2>6. Ordered' /\ C!PendingEvents' = C!PendingEvents \ Batch(t)
    BY <1>4, <1>9, <2>2, <2>4, <2>5, CalendarTakes
  <2>7. PICK e \in c.buckets[t] : e \in C!PendingEvents
    BY <1>3, <1>9
  <2>8. e.time = t
    BY <1>2, <2>7 DEF Wellformed, AtTime
  <2>9. \A f \in C!PendingEvents : f.time \in c.times
    BY <1>2 DEF LiveIn, Stored, Wellformed, AtTime
  <2>. QED  BY <1>9, <2>1, <2>6, <2>7, <2>8, <2>9
<1>. QED  BY <1>4, <1>6, <1>8, <1>9

\* peek_time: the head of _times is the time of the first live event.
LEMMA CalendarPeeks ==
  ASSUME Ordered, C!PeekTime
  PROVE  /\ Ordered' /\ calendarSequence' = calendarSequence
         /\ calendarReplacement' = calendarReplacement
         /\ C!PendingEvents' = C!PendingEvents
         /\ \/ C!PendingEvents = {} /\ calendarReply' = Peeked(None)
            \/ \E e \in C!PendingEvents : /\ \A f \in C!PendingEvents : e.time <= f.time
                                          /\ calendarReply' = Peeked(e.time)
<1>. DEFINE c == C!DiscardCancelledHead(C!Calendar)
<1>1. Wellformed(C!Calendar)
  BY DEF Ordered
<1>2. Wellformed(c) /\ LiveIn(c) = C!PendingEvents /\ Stored(c) \subseteq C!Queued
  BY <1>1, Discards, CalendarFacts
<1>3. \A t \in c.times : (\A u \in c.times : t <= u) =>
        \E e \in c.buckets[t] : e \in C!PendingEvents
  BY <1>1, Discards, CalendarFacts
<1>4. /\ C!Become(c) /\ UNCHANGED <<calendarSequence, size, calendarReplacement>>
      /\ \/ c.times = {} /\ calendarReply' = Peeked(None)
         \/ \E t \in c.times : (\A u \in c.times : t <= u) /\ calendarReply' = Peeked(t)
  BY SameWords DEF C!PeekTime
<1>. HIDE DEF c
<1>5. size = Cardinality(C!PendingEvents) /\ size \in Nat
  BY FS_CardinalityType DEF Ordered
<1>6. {} \subseteq C!PendingEvents /\ LiveIn(c) = C!PendingEvents \ {}
      /\ size' = size - Cardinality({})
  BY <1>2, <1>4, <1>5, EmptyNumber
<1>7. Ordered' /\ C!PendingEvents' = C!PendingEvents \ {}
  BY <1>2, <1>4, <1>6, CalendarTakes
<1>8. CASE c.times = {} /\ calendarReply' = Peeked(None)
  <2>1. C!PendingEvents = {}
    BY <1>2, <1>8 DEF LiveIn, Stored, Wellformed
  <2>. QED  BY <1>4, <1>7, <1>8, <2>1
<1>9. ASSUME NEW t \in c.times, \A u \in c.times : t <= u, calendarReply' = Peeked(t)
      PROVE  \E e \in C!PendingEvents : /\ \A f \in C!PendingEvents : e.time <= f.time
                                        /\ calendarReply' = Peeked(e.time)
  <2>1. PICK e \in c.buckets[t] : e \in C!PendingEvents
    BY <1>3, <1>9
  <2>2. e.time = t
    BY <1>2, <2>1 DEF Wellformed, AtTime
  <2>3. \A f \in C!PendingEvents : f.time \in c.times
    BY <1>2 DEF LiveIn, Stored, Wellformed, AtTime
  <2>. QED  BY <1>9, <2>1, <2>2, <2>3
<1>. QED  BY <1>4, <1>7, <1>8, <1>9

-----------------------------------------------------------------------------
(***************************************************************************)
(* Both schedulers under the same calls.                                   *)
(***************************************************************************)

\* Each is sound and they hold the same live events under the same numbers.
Joint ==
  /\ IInv /\ Ordered /\ C!PendingEvents = PendingEvents
  /\ calendarSequence = nextSequence /\ calendarReplacement = replacement
  /\ calendarReply = reply

LEMMA InitJoint == BothInit => Joint
<1>. SUFFICES ASSUME BothInit PROVE Joint
  OBVIOUS
<1>1. Init /\ C!Init
  BY DEF BothInit
<1>2. IInv
  BY <1>1, InitIInv
<1>3. /\ times = {} /\ buckets = [t \in {} |-> {}] /\ size = 0 /\ calendarCancelled = {}
      /\ calendarSequence = 0 /\ calendarReplacement = replacement /\ calendarReply = reply
  BY <1>1, SameWords DEF Init, C!Init
<1>4. C!Queued = {} /\ C!PendingEvents = {} /\ PendingEvents = {}
  BY <1>1, <1>3 DEF C!Queued, C!PendingEvents, PendingEvents, Init
<1>5. Wellformed(C!Calendar)
  BY <1>3, <1>4, CalendarFacts DEF Wellformed
<1>6. Ordered
  BY <1>3, <1>4, <1>5, EmptyNumber DEF Ordered
<1>. QED  BY <1>1, <1>2, <1>3, <1>4, <1>6 DEF Joint, Init

\* Events come first in one order only.
LEMMA FirstTime ==
  ASSUME IInv, NEW e \in PendingEvents, IsFirst(e, PendingEvents)
  PROVE  \A f \in PendingEvents : /\ (\A g \in PendingEvents : f.time <= g.time) => f.time = e.time
                                  /\ IsFirst(f, PendingEvents) => f = e
<1>1. PendingEvents \subseteq EventType
  BY DEF PendingEvents, IInv, TypeOK
<1>2. \A f \in PendingEvents : f.time \in Int
  <2>1. \A f \in EventType : f.time \in Times
    BY DEF EventType
  <2>. QED  BY <1>1, <2>1, TimesAssumption
<1>3. \A f \in PendingEvents : e.time <= f.time
  BY <1>2 DEF IsFirst, Before
<1>. QED  BY <1>1, <1>2, <1>3, FirstIsOne

LEMMA JointSchedules ==
  ASSUME Joint, NEW t \in Times, NEW p \in Priorities, Schedule(t, p), C!Schedule(t, p), IInv'
  PROVE  Joint'
<1>1. /\ Ordered /\ C!PendingEvents = PendingEvents /\ calendarSequence = nextSequence
      /\ calendarReplacement = replacement
  BY DEF Joint
<1>2. Promise!Schedule(t, p)
  BY ScheduleRefines DEF Joint
<1>3. UNCHANGED <<replacement, calendarReplacement, calendarCancelled>>
  BY DEF Schedule, C!Schedule
<1>4. calendarCancelled \subseteq Sequences(C!Queued)
  BY <1>1, CalendarFacts DEF Ordered, Wellformed
<1>5. IsFiniteSet(C!PendingEvents) /\ size = Cardinality(C!PendingEvents)
  BY <1>1 DEF Ordered
<1>6. CASE Accepted(t)
  <2>1. /\ PendingEvents' = PendingEvents \cup {Event(t, p, nextSequence)}
        /\ nextSequence' = nextSequence + 1
        /\ reply' = Returned("schedule", <<Event(t, p, nextSequence)>>)
    BY <1>2, <1>6, SameVocabulary DEF Promise!Schedule
  <2>2. /\ C!Push(C!Event(t, p, calendarSequence)) /\ size' = size + 1
        /\ calendarReply' = Returned("schedule", <<Event(t, p, calendarSequence)>>)
    BY <1>6, SameWords DEF C!Schedule
  <2>3. C!PendingEvents = {e \in C!Queued : e.sequence \notin calendarCancelled'}
    BY <1>3 DEF C!PendingEvents
  <2>4. /\ Ordered' /\ calendarSequence' = calendarSequence + 1
        /\ C!PendingEvents' = C!PendingEvents \cup {Event(t, p, calendarSequence)}
    BY <1>1, <1>3, <1>4, <1>5, <2>2, <2>3, CalendarPushes
  <2>. QED  BY <1>1, <1>3, <2>1, <2>2, <2>4 DEF Joint
<1>7. CASE ~Accepted(t)
  <2>1. PendingEvents' = PendingEvents /\ nextSequence' = nextSequence /\ reply' = Raised("schedule")
    BY <1>2, <1>7, SameVocabulary DEF Promise!Schedule
  <2>2. UNCHANGED <<times, buckets, calendarSequence, size>> /\ calendarReply' = Raised("schedule")
    BY <1>7, SameWords DEF C!Schedule
  <2>3. Ordered' /\ C!PendingEvents' = C!PendingEvents
    BY <1>1, <1>3, <2>2
       DEF Ordered, C!PendingEvents, C!Queued, C!Calendar, Wellformed, Stored
  <2>. QED  BY <1>1, <1>3, <2>1, <2>2, <2>3 DEF Joint
<1>. QED  BY <1>6, <1>7

\* The containers of the calendar when only tombstones are recorded.
LEMMA CalendarRecords ==
  ASSUME Ordered, NEW s, UNCHANGED <<times, buckets, calendarSequence>>,
         calendarCancelled' = IF C!Cancellable(s) THEN calendarCancelled \cup {s}
                              ELSE calendarCancelled,
         size' = size - C!Lost(s)
  PROVE  Ordered' /\ C!PendingEvents' = Without(C!PendingEvents, s)
<1>1. /\ C!Lost(s) = IF s \in Sequences(C!PendingEvents) THEN 1 ELSE 0
      /\ calendarCancelled' \subseteq Sequences(C!Queued)
      /\ {e \in C!Queued : e.sequence \notin calendarCancelled'} = Without(C!PendingEvents, s)
  BY CalendarCancels
<1>2. C!Queued' = C!Queued
  BY DEF C!Queued
<1>3. C!PendingEvents' = Without(C!PendingEvents, s)
  BY <1>1, <1>2 DEF C!PendingEvents
<1>4. IsFiniteSet(C!PendingEvents') /\ size' = Cardinality(C!PendingEvents')
  BY <1>1, <1>3, OneFewer
<1>5. Wellformed(C!Calendar')
  <2>1. ASSUME NEW c, c = C!Calendar, NEW d, d = C!Calendar' PROVE Wellformed(d)
    <3>1. Wellformed(c) /\ Stored(c) = C!Queued
      BY <2>1, CalendarFacts DEF Ordered
    <3>2. d.times = c.times /\ d.buckets = c.buckets /\ d.cancelled = calendarCancelled'
      BY <2>1, CalendarFacts, CalendarFactsNext
    <3>. QED  BY <1>1, <3>1, <3>2, Records
  <2>. QED  BY <2>1
<1>6. Wellformed(C!Calendar)'
  BY <1>5
<1>. QED  BY <1>2, <1>3, <1>4, <1>6 DEF Ordered

LEMMA JointCancels ==
  ASSUME Joint, NEW s, Cancel(s), C!Cancel(s), IInv'
  PROVE  Joint'
<1>1. /\ Ordered /\ C!PendingEvents = PendingEvents /\ calendarSequence = nextSequence
      /\ calendarReplacement = replacement
  BY DEF Joint
<1>2. Promise!Cancel(s)
  BY CancelRefines
<1>3. /\ PendingEvents' = Without(PendingEvents, s)
      /\ reply' = Answered("cancel", s \in Sequences(PendingEvents))
      /\ UNCHANGED <<nextSequence, replacement>>
  BY <1>2, SameVocabulary DEF Promise!Cancel
<1>4. /\ calendarCancelled' = IF C!Cancellable(s) THEN calendarCancelled \cup {s}
                              ELSE calendarCancelled
      /\ size' = size - C!Lost(s)
      /\ calendarReply' = Answered("cancel", C!Cancellable(s))
      /\ UNCHANGED <<times, buckets, calendarSequence, calendarReplacement>>
  BY SameWords DEF C!Cancel
<1>5. Ordered' /\ C!PendingEvents' = Without(C!PendingEvents, s)
  BY <1>1, <1>4, CalendarRecords
<1>6. C!Cancellable(s) = (s \in Sequences(C!PendingEvents))
  BY <1>1, <1>4, CalendarCancels
<1>. QED  BY <1>1, <1>3, <1>4, <1>5, <1>6 DEF Joint

LEMMA JointReplaces ==
  ASSUME Joint, NEW k \in Keys, NEW t \in Times, NEW p \in Priorities,
         ScheduleReplacing(k, t, p), C!ScheduleReplacing(k, t, p), IInv'
  PROVE  Joint'
<1>. DEFINE s == replacement[k]
<1>1. /\ Ordered /\ C!PendingEvents = PendingEvents /\ calendarSequence = nextSequence
      /\ calendarReplacement = replacement
  BY DEF Joint
<1>2. Promise!ScheduleReplacing(k, t, p)
  BY ReplacingRefines DEF Joint
<1>3. calendarCancelled' = IF C!Cancellable(s) THEN calendarCancelled \cup {s}
                           ELSE calendarCancelled
  BY <1>1 DEF C!ScheduleReplacing
<1>4. /\ C!Lost(s) = IF s \in Sequences(C!PendingEvents) THEN 1 ELSE 0
      /\ calendarCancelled' \subseteq Sequences(C!Queued)
      /\ {e \in C!Queued : e.sequence \notin calendarCancelled'} = Without(C!PendingEvents, s)
  BY <1>1, <1>3, CalendarCancels
<1>5. /\ IsFiniteSet(Without(C!PendingEvents, s))
      /\ Cardinality(Without(C!PendingEvents, s)) = size - C!Lost(s)
  BY <1>1, <1>4, OneFewer
<1>6. CASE Accepted(t)
  <2>1. /\ PendingEvents' = Without(PendingEvents, s) \cup {Event(t, p, nextSequence)}
        /\ nextSequence' = nextSequence + 1
        /\ replacement' = [replacement EXCEPT ![k] = nextSequence]
        /\ reply' = Returned("schedule_replacing", <<Event(t, p, nextSequence)>>)
    BY <1>2, <1>6, SameVocabulary DEF Promise!ScheduleReplacing
  <2>2. /\ C!Push(C!Event(t, p, calendarSequence)) /\ size' = size - C!Lost(s) + 1
        /\ calendarReplacement' = [calendarReplacement EXCEPT ![k] = calendarSequence]
        /\ calendarReply' = Returned("schedule_replacing", <<Event(t, p, calendarSequence)>>)
    BY <1>1, <1>6, SameWords DEF C!ScheduleReplacing
  <2>3. /\ Ordered' /\ calendarSequence' = calendarSequence + 1
        /\ C!PendingEvents' = Without(C!PendingEvents, s) \cup {Event(t, p, calendarSequence)}
    <3>1. ASSUME NEW L, L = Without(C!PendingEvents, s)
          PROVE  /\ Ordered' /\ calendarSequence' = calendarSequence + 1
                 /\ C!PendingEvents' = L \cup {Event(t, p, calendarSequence)}
      <4>1. L = {e \in C!Queued : e.sequence \notin calendarCancelled'}
        BY <1>4, <3>1
      <4>2. IsFiniteSet(L) /\ size' = Cardinality(L) + 1
        BY <1>5, <2>2, <3>1
      <4>. QED  BY <1>1, <1>4, <2>2, <4>1, <4>2, CalendarPushes
    <3>. QED  BY <3>1
  <2>. QED  BY <1>1, <2>1, <2>2, <2>3 DEF Joint
<1>7. CASE ~Accepted(t)
  <2>1. /\ PendingEvents' = Without(PendingEvents, s)
        /\ reply' = Raised("schedule_replacing")
        /\ UNCHANGED <<nextSequence, replacement>>
    BY <1>2, <1>7, SameVocabulary DEF Promise!ScheduleReplacing
  <2>2. /\ size' = size - C!Lost(s) /\ calendarReply' = Raised("schedule_replacing")
        /\ UNCHANGED <<times, buckets, calendarSequence, calendarReplacement>>
    BY <1>1, <1>7, SameWords DEF C!ScheduleReplacing
  <2>3. Ordered' /\ C!PendingEvents' = Without(C!PendingEvents, s)
    BY <1>1, <1>3, <2>2, CalendarRecords
  <2>. QED  BY <1>1, <2>1, <2>2, <2>3 DEF Joint
<1>. QED  BY <1>6, <1>7

LEMMA JointPops ==
  ASSUME Joint, PopNext, C!PopNext, IInv'
  PROVE  Joint'
<1>1. /\ IInv /\ Ordered /\ C!PendingEvents = PendingEvents /\ calendarSequence = nextSequence
      /\ calendarReplacement = replacement
  BY DEF Joint
<1>2. /\ UNCHANGED <<nextSequence, replacement>>
      /\ \/ PendingEvents = {} /\ reply' = Raised("pop_next") /\ PendingEvents' = {}
         \/ \E e \in PendingEvents :
              /\ IsFirst(e, PendingEvents)
              /\ PendingEvents' = PendingEvents \ {e}
              /\ reply' = Returned("pop_next", <<e>>)
  BY <1>1, PopRefines, SameVocabulary DEF Promise!PopNext
<1>3. /\ Ordered' /\ calendarSequence' = calendarSequence
      /\ calendarReplacement' = calendarReplacement
      /\ \/ /\ C!PendingEvents = {} /\ C!PendingEvents' = {}
            /\ calendarReply' = Raised("pop_next")
         \/ \E e \in C!PendingEvents :
              /\ IsFirst(e, C!PendingEvents)
              /\ C!PendingEvents' = C!PendingEvents \ {e}
              /\ calendarReply' = Returned("pop_next", <<e>>)
  BY <1>1, CalendarPops
<1>4. C!PendingEvents' = PendingEvents' /\ calendarReply' = reply'
  BY <1>1, <1>2, <1>3, FirstTime
<1>. QED  BY <1>1, <1>2, <1>3, <1>4 DEF Joint

LEMMA JointBatches ==
  ASSUME Joint, PopTimeBatch, C!PopTimeBatch, IInv'
  PROVE  Joint'
<1>1. /\ IInv /\ Ordered /\ C!PendingEvents = PendingEvents /\ calendarSequence = nextSequence
      /\ calendarReplacement = replacement
  BY DEF Joint
<1>2. /\ UNCHANGED <<nextSequence, replacement>>
      /\ \/ PendingEvents = {} /\ reply' = Returned("pop_time_batch", <<>>) /\ PendingEvents' = {}
         \/ \E e \in PendingEvents :
              /\ IsFirst(e, PendingEvents)
              /\ PendingEvents' = PendingEvents \ AtTime(PendingEvents, e.time)
              /\ reply' = Returned("pop_time_batch", InOrder(AtTime(PendingEvents, e.time)))
  BY <1>1, BatchRefines, SameVocabulary DEF Promise!PopTimeBatch
<1>3. /\ Ordered' /\ calendarSequence' = calendarSequence
      /\ calendarReplacement' = calendarReplacement
      /\ \/ /\ C!PendingEvents = {} /\ C!PendingEvents' = {}
            /\ calendarReply' = Returned("pop_time_batch", <<>>)
         \/ \E e \in C!PendingEvents :
              /\ \A f \in C!PendingEvents : e.time <= f.time
              /\ C!PendingEvents' = C!PendingEvents \ AtTime(C!PendingEvents, e.time)
              /\ calendarReply' = Returned("pop_time_batch",
                                           InOrder(AtTime(C!PendingEvents, e.time)))
  BY <1>1, CalendarBatches
<1>4. C!PendingEvents' = PendingEvents' /\ calendarReply' = reply'
  BY <1>1, <1>2, <1>3, FirstTime
<1>. QED  BY <1>1, <1>2, <1>3, <1>4 DEF Joint

LEMMA JointPeeks ==
  ASSUME Joint, PeekTime, C!PeekTime, IInv'
  PROVE  Joint'
<1>1. /\ IInv /\ Ordered /\ C!PendingEvents = PendingEvents /\ calendarSequence = nextSequence
      /\ calendarReplacement = replacement
  BY DEF Joint
<1>2. /\ UNCHANGED <<nextSequence, replacement>> /\ PendingEvents' = PendingEvents
      /\ \/ PendingEvents = {} /\ reply' = Peeked(None)
         \/ \E e \in PendingEvents : IsFirst(e, PendingEvents) /\ reply' = Peeked(e.time)
  BY <1>1, PeekRefines, SameVocabulary DEF Promise!PeekTime
<1>3. /\ Ordered' /\ calendarSequence' = calendarSequence
      /\ calendarReplacement' = calendarReplacement
      /\ C!PendingEvents' = C!PendingEvents
      /\ \/ C!PendingEvents = {} /\ calendarReply' = Peeked(None)
         \/ \E e \in C!PendingEvents : /\ \A f \in C!PendingEvents : e.time <= f.time
                                       /\ calendarReply' = Peeked(e.time)
  BY <1>1, CalendarPeeks
<1>4. calendarReply' = reply'
  BY <1>1, <1>2, <1>3, FirstTime
<1>. QED  BY <1>1, <1>2, <1>3, <1>4 DEF Joint

LEMMA NextJoint == Joint /\ [BothNext]_both => Joint'
<1>. SUFFICES ASSUME Joint, [BothNext]_both PROVE Joint'
  OBVIOUS
<1>1. CASE BothNext
  <2>1. Next
    BY <1>1 DEF BothNext, Next
  <2>2. IInv'
    BY <2>1, NextIInv DEF Joint
  <2>. QED  BY <1>1, <2>2, JointSchedules, JointCancels, JointReplaces, JointPops,
               JointBatches, JointPeeks DEF BothNext
<1>2. CASE UNCHANGED both
  <2>1. UNCHANGED vars /\ UNCHANGED C!vars
    BY <1>2 DEF both
  <2>2. IInv'
    BY <2>1, NextIInv DEF Joint
  <2>3. UNCHANGED <<queue, nextSequence, cancelled, replacement, reply>>
    BY <2>1 DEF vars
  <2>4. UNCHANGED <<times, buckets, calendarSequence, size, calendarCancelled,
                    calendarReplacement, calendarReply>>
    BY <2>1 DEF C!vars
  <2>5. Ordered' /\ C!PendingEvents' = C!PendingEvents
    BY <2>4 DEF Joint, Ordered, C!PendingEvents, C!Queued, C!Calendar, Wellformed, Stored
  <2>6. PendingEvents' = PendingEvents
    BY <2>3 DEF PendingEvents
  <2>. QED  BY <2>2, <2>3, <2>4, <2>5, <2>6 DEF Joint
<1>. QED  BY <1>1, <1>2

\* Whatever calls are made, the two heaps of the calendar name the same timestamps,
\* no bucket is ever left empty, and _size, counted by hand, is the number of
\* live events.
THEOREM CalendarStaysExact == BothSpec => []CalendarExact
<1>1. Joint => CalendarExact
  <2>. SUFFICES ASSUME Joint PROVE CalendarExact
    OBVIOUS
  <2>1. Wellformed(C!Calendar) /\ size = Cardinality(C!PendingEvents)
    BY DEF Joint, Ordered
  <2>2. times = DOMAIN buckets /\ \A t \in times : buckets[t] # {}
    BY <2>1, CalendarFacts DEF Wellformed
  <2>3. C!SizeExact
    BY <2>1 DEF C!SizeExact, C!Cardinality, Cardinality, C!IsFiniteSet, IsFiniteSet
  <2>. QED  BY <2>2, <2>3 DEF CalendarExact, C!TimesMatchBuckets
<1>. QED  BY <1>1, InitJoint, NextJoint, PTL DEF BothSpec

\* The two schedulers cannot be told apart: every call of either returns what the
\* same call of the other returns, for any history of calls.
THEOREM IndistinguishableReplies == BothSpec => []SameReplies
<1>1. Joint => SameReplies
  BY DEF Joint, SameReplies
<1>. QED  BY <1>1, InitJoint, NextJoint, PTL DEF BothSpec
=============================================================================
