--------------------------- MODULE ScheduledEvent ---------------------------
(***************************************************************************)
(* The event record of src/src/pineland_sim/events.py, its ordering key    *)
(* and the values the schedulers' methods return.  Event types, payloads   *)
(* and causal parents are excluded from the dataclass's comparison         *)
(* (compare=False) and are left out.                                       *)
(***************************************************************************)
EXTENDS Integers, FiniteSets, Sequences

CONSTANTS
  Times,         \* the timestamps callers use
  Priorities,    \* the priorities callers use
  Keys,          \* the replacement keys callers use
  AllowNegative, \* the constructor's allow_negative
  MaxSequence,   \* bound: number of events accepted over a run
  None           \* "no sequence recorded"

ASSUME TimesAssumption == Times \subseteq Int
ASSUME PrioritiesAssumption == Priorities \subseteq Nat
ASSUME AllowNegativeAssumption == AllowNegative \in BOOLEAN
ASSUME MaxSequenceAssumption == MaxSequence \in Nat
ASSUME NoneAssumption == None \notin Nat

Event(t, p, s) == [time |-> t, priority |-> p, sequence |-> s]

EventType == [time : Times, priority : Priorities, sequence : Nat]

\* dataclass(order=True): compare time, then priority, then sequence.
Before(e, f) ==
  \/ e.time < f.time
  \/ e.time = f.time /\ e.priority < f.priority
  \/ e.time = f.time /\ e.priority = f.priority /\ e.sequence < f.sequence

\* e is the event a heap holding S has at its head.
IsFirst(e, S) == e \in S /\ \A f \in S \ {e} : Before(e, f)

\* The finite set S of events, earliest first.
InOrder(S) ==
  CHOOSE s \in [1 .. Cardinality(S) -> S] :
    \A i, j \in 1 .. Cardinality(S) : i < j => Before(s[i], s[j])

Sequences(S) == {e.sequence : e \in S}

Without(S, s) == {e \in S : e.sequence # s}

AtTime(S, t) == {e \in S : e.time = t}

\* The guard `time < 0 and not allow_negative` of schedule, negated.
Accepted(t) == t >= 0 \/ AllowNegative

(***************************************************************************)
(* Replies: `events` is what the call hands out, `ok` is FALSE for a raised *)
(* exception and for a cancel that found nothing, `time` is peek_time's.   *)
(***************************************************************************)
Returned(op, events) == [op |-> op, ok |-> TRUE, events |-> events, time |-> None]
Raised(op) == [op |-> op, ok |-> FALSE, events |-> <<>>, time |-> None]
Answered(op, b) == [op |-> op, ok |-> b, events |-> <<>>, time |-> None]
NoReply == Answered("init", TRUE)
Peeked(t) == [op |-> "peek_time", ok |-> TRUE, events |-> <<>>, time |-> t]
=============================================================================
