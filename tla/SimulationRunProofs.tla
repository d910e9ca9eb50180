------------------------ MODULE SimulationRunProofs ------------------------
(***************************************************************************)
(* What the calendar of a run promises for any clocks, intervals, horizons, *)
(* limits and worlds, first of the Python engine, then of both: the         *)
(* assertion of run never fires, no clock is lost or doubled, run returns   *)
(* where it says it does, and every trajectory is one the abstract          *)
(* RecurringClocks allows, for the native engine where they are compared.   *)
(***************************************************************************)
EXTENDS MC_Engines, FiniteSetTheorems, SequenceTheorems, WellFoundedInduction, TLAPS

\* Sequence numbers tell the pending events apart.
Numbered ==
  \A e \in queue : /\ e.sequence < nextSequence
                   /\ \A f \in queue : e.sequence = f.sequence => e = f

\* A clock has at most one pending event, ...
Sole == \A e, f \in queue : e.clock = f.clock /\ e.clock \in Clocks => e = f

\* ... and at least one once it runs.
Ticking ==
  mode # "new" =>
    \A c \in Clocks : (\E e \in queue : e.clock = c) <=> (c # "recruitment" \/ recruiting)

\* Burn-in stays below zero and an observed run below its horizon.
InBounds ==
  /\ mode = "burn_in" => now <= 0
  /\ mode \in {"running", "idle"} => now <= until

IInv ==
  /\ TypeOK
  /\ IsWorld(world)
  /\ NeverBackward
  /\ Numbered
  /\ Sole
  /\ Ticking
  /\ InBounds
  /\ ReturnsAtHorizon

-----------------------------------------------------------------------------

\* Every nonempty set of naturals has a least element.
LEMMA Least ==
  ASSUME NEW T, T \subseteq Nat, T # {}
  PROVE  \E m \in T : \A n \in T : m <= n
<1>1. PICK m \in T : \A n \in T : <<n, m>> \notin OpToRel(<, Nat)
  BY NatLessThanWellFounded, WFMin, Zenon
<1>2. \A n \in T : ~(n < m)
  BY <1>1, Zenon DEF OpToRel
<1> QED
  BY <1>2

\* The scheduler always has a next event while any is pending.
LEMMA NextExists ==
  ASSUME TypeOK, Numbered, NeverBackward, mode # "new", queue # {}
  PROVE  \E e \in queue : IsNext(e, queue)
<1> DEFINE ahead == {e.time - now : e \in queue}
<1>1. PICK e1 \in queue : \A f \in queue : e1.time <= f.time
  <2>1. ahead \subseteq Nat /\ ahead # {}
    BY DEF TypeOK, NeverBackward
  <2>2. PICK m \in ahead : \A n \in ahead : m <= n
    BY <2>1, Least, Zenon
  <2>3. PICK e1 \in queue : m = e1.time - now
    BY <2>2
  <2>4. ASSUME NEW f \in queue PROVE e1.time <= f.time
    <3>1. e1.time - now <= f.time - now
      BY <2>2, <2>3
    <3> QED
      BY <3>1 DEF TypeOK
  <2> QED
    BY <2>4
<1> DEFINE due == {e \in queue : e.time = e1.time}
           priorities == {e.priority : e \in due}
<1>2. PICK e2 \in due : \A f \in due : e2.priority <= f.priority
  <2>1. priorities \subseteq Nat /\ priorities # {}
    BY DEF TypeOK
  <2>2. PICK m \in priorities : \A n \in priorities : m <= n
    BY <2>1, Least, Zenon
  <2> QED
    BY <2>2
<1> DEFINE first == {e \in due : e.priority = e2.priority}
           sequences == {e.sequence : e \in first}
<1>3. PICK e3 \in first : \A f \in first : e3.sequence <= f.sequence
  <2>1. sequences \subseteq Nat /\ sequences # {}
    BY <1>2 DEF TypeOK
  <2>2. PICK m \in sequences : \A n \in sequences : m <= n
    BY <2>1, Least, Zenon
  <2> QED
    BY <2>2
<1>4. ASSUME NEW f \in queue \ {e3} PROVE Precedes(e3, f)
  <2>1. e3 \in queue /\ e3.time = e1.time /\ e3.priority = e2.priority
    BY <1>3
  <2>2. e3.sequence # f.sequence
    BY <2>1, <1>4 DEF Numbered
  <2>3. CASE f.time # e1.time
    BY <1>1, <2>1, <2>3, <1>4 DEF Precedes, TypeOK
  <2>4. CASE f.time = e1.time /\ f.priority # e2.priority
    BY <1>2, <2>1, <2>4, <1>4 DEF Precedes, TypeOK
  <2>5. CASE f.time = e1.time /\ f.priority = e2.priority
    BY <1>3, <2>1, <2>2, <2>5, <1>4 DEF Precedes, TypeOK
  <2> QED
    BY <2>3, <2>4, <2>5
<1> QED
  BY <1>3, <1>4 DEF IsNext

\* Nothing is due before the next event.
LEMMA NextIsEarliest ==
  ASSUME TypeOK, NEW e, IsNext(e, queue)
  PROVE  e \in queue /\ \A f \in queue : e.time <= f.time
BY DEF IsNext, Precedes, TypeOK

-----------------------------------------------------------------------------

LEMMA PriorityFacts ==
  /\ \A c \in DOMAIN Priority : Priority[c] \in 0 .. 100
  /\ \A c, d \in DOMAIN Priority : Priority[c] = Priority[d] => c = d
BY DEF Priority

LEMMA PriorityBounds ==
  \A c \in DOMAIN Priority : Priority[c] \in Nat /\ Priority[c] > ContactPriority /\ Priority[c] < DefaultPriority
BY DEF Priority, ContactPriority, DefaultPriority

\* A clock has fewer predecessors than a clock of larger priority.
LEMMA RankGrows ==
  ASSUME NEW S, IsFiniteSet(S), S \subseteq DOMAIN Priority,
         NEW c \in S, NEW T \in SUBSET S, c \in T,
         \A d \in S : Priority[d] < Priority[c] => d \in T
  PROVE  Cardinality({d \in S : Priority[d] < Priority[c]}) < Cardinality(T)
<1> DEFINE R == {d \in S : Priority[d] < Priority[c]}
<1>1. R \in SUBSET T /\ c \notin R
  BY PriorityFacts
<1>2. IsFiniteSet(T) /\ Cardinality(T) \in Nat
  BY FS_Subset, FS_CardinalityType, Zenon
<1>3. IsFiniteSet(R) /\ Cardinality(R) <= Cardinality(T) /\ Cardinality(R) # Cardinality(T)
  <2> HIDE DEF R
  <2> QED
    BY <1>1, <1>2, FS_Subset, Zenon
<1>4. Cardinality(R) \in Nat
  BY <1>3, FS_CardinalityType, Zenon
<1> QED
  BY <1>2, <1>3, <1>4

\* The calendar a run or a burn-in starts with.
LEMMA PopulatedFacts ==
  ASSUME NEW t \in Int, NEW withCheckpoints \in BOOLEAN, insurgents \in BOOLEAN
  PROVE  LET q == Populated(t, withCheckpoints) IN
         /\ Cardinality(q) \in Nat
         /\ Cardinality(q) = Cardinality((Clocks \ (IF insurgents THEN {} ELSE {"recruitment"}))
                                           \cup (IF withCheckpoints THEN {"checkpoint"} ELSE {}))
         /\ \A e \in q : /\ e.clock \in Clocks \cup {"checkpoint"}
                         /\ e.time = t /\ e.priority \in Nat /\ e.priority > ContactPriority
                         /\ e.sequence \in Nat /\ e.sequence < Cardinality(q)
                         /\ e.elapsed = 0
         /\ \A e, f \in q : e.sequence = f.sequence \/ e.clock = f.clock => e = f
         /\ \A c \in Clocks : (\E e \in q : e.clock = c) <=> (c # "recruitment" \/ insurgents)
<1> DEFINE first == (Clocks \ (IF insurgents THEN {} ELSE {"recruitment"}))
                      \cup (IF withCheckpoints THEN {"checkpoint"} ELSE {})
           rank(c) == Cardinality({d \in first : Priority[d] < Priority[c]})
           entry(c) == Entry(c, t, Priority[c], rank(c), 0)
           q == Populated(t, withCheckpoints)
<1>1. q = {entry(c) : c \in first}
  BY DEF Populated
<1>2. first \subseteq DOMAIN Priority
  BY ClocksAssumption DEF Priority
<1>3. IsFiniteSet(first)
  <2>1. [c \in first |-> Priority[c]] \in Injection(first, 0 .. 100)
    BY <1>2, PriorityFacts DEF Injection, IsInjective
  <2>2. IsFiniteSet(0 .. 100)
    <3>1. 0 \in Int /\ 100 \in Int
      OBVIOUS
    <3> QED
      BY <3>1, FS_Interval, Zenon
  <2> QED
    BY <2>1, <2>2, FS_Injection, Zenon
<1>4. \A c, d \in first : Priority[c] < Priority[d] => rank(c) < rank(d)
  <2> SUFFICES ASSUME NEW c \in first, NEW d \in first, Priority[c] < Priority[d]
               PROVE  rank(c) < rank(d)
    OBVIOUS
  <2> DEFINE T == {b \in first : Priority[b] < Priority[d]}
  <2>1. \A b \in first : Priority[b] < Priority[c] => b \in T
    BY <1>2, PriorityFacts
  <2>2. T \in SUBSET first /\ c \in T
    OBVIOUS
  <2> HIDE DEF T, first
  <2>3. Cardinality({b \in first : Priority[b] < Priority[c]}) < Cardinality(T)
    BY <1>2, <1>3, <2>1, <2>2, RankGrows, Zenon
  <2> QED
    BY <2>3 DEF T
<1>5. \A c \in first : rank(c) \in Nat /\ rank(c) < Cardinality(first)
  <2> SUFFICES ASSUME NEW c \in first PROVE rank(c) \in Nat /\ rank(c) < Cardinality(first)
    OBVIOUS
  <2> DEFINE R == {d \in first : Priority[d] < Priority[c]}
  <2>1. R \in SUBSET first
    OBVIOUS
  <2> HIDE DEF R, first
  <2>2. Cardinality(R) \in Nat
    BY <1>3, <2>1, FS_Subset, FS_CardinalityType, Zenon
  <2>3. Cardinality({d \in first : Priority[d] < Priority[c]}) < Cardinality(first)
    BY <1>2, <1>3, RankGrows, Zenon
  <2> QED
    BY <2>2, <2>3 DEF R
<1>6. \A c, d \in first : rank(c) = rank(d) => c = d
  <2> SUFFICES ASSUME NEW c \in first, NEW d \in first, rank(c) = rank(d) PROVE c = d
    OBVIOUS
  <2>1. Priority[c] \in Nat /\ Priority[d] \in Nat /\ rank(c) \in Nat /\ rank(d) \in Nat
    BY <1>2, <1>5, PriorityFacts
  <2>2. ~(Priority[c] < Priority[d]) /\ ~(Priority[d] < Priority[c])
    <3> HIDE DEF rank, first
    <3> QED
      BY <1>4, <2>1
  <2>3. Priority[c] = Priority[d]
    BY <2>1, <2>2
  <2> QED
    BY <1>2, <2>3, PriorityFacts
<1>7. Cardinality(q) = Cardinality(first) /\ Cardinality(first) \in Nat
  <2> DEFINE f == [c \in first |-> entry(c)]
  <2>1. f \in Bijection(first, q)
    <3>1. \A c, d \in first : f[c] = f[d] => c = d
      BY DEF Entry
    <3>2. f \in [first -> q] /\ \A e \in q : \E c \in first : f[c] = e
      BY <1>1
    <3> HIDE DEF f, first, q
    <3> QED
      BY <3>1, <3>2 DEF Bijection, Injection, Surjection, IsInjective
  <2> HIDE DEF f, first, q
  <2> QED
    BY <2>1, <1>3, FS_Bijection, FS_CardinalityType, Zenon DEF ExistsBijection
<1> HIDE DEF q, rank
<1>8. \A e \in q : \E c \in first : /\ e.clock = c /\ e.time = t /\ e.priority = Priority[c]
                                    /\ e.sequence = rank(c) /\ e.elapsed = 0 /\ e = entry(c)
  BY <1>1 DEF Entry
<1>9. \A e \in q : /\ e.clock \in Clocks \cup {"checkpoint"}
                   /\ e.time = t /\ e.priority \in Nat /\ e.priority > ContactPriority
                   /\ e.sequence \in Nat /\ e.sequence < Cardinality(q)
                   /\ e.elapsed = 0
  <2> HIDE DEF entry
  <2>1. \A c \in first : /\ c \in Clocks \cup {"checkpoint"}
                         /\ Priority[c] \in Nat /\ Priority[c] > ContactPriority
    BY <1>2, PriorityBounds
  <2> HIDE DEF first
  <2> QED
    BY <1>5, <1>7, <1>8, <2>1
<1>10. \A e, f \in q : e.sequence = f.sequence \/ e.clock = f.clock => e = f
  <2> HIDE DEF first, entry
  <2> QED
    BY <1>6, <1>8
<1>11. \A c \in Clocks : (\E e \in q : e.clock = c) <=> (c # "recruitment" \/ insurgents)
  <2>1. \A c \in Clocks : c \in first <=> (c # "recruitment" \/ insurgents)
    BY ClocksAssumption DEF Priority
  <2>2. \A c \in first : entry(c) \in q /\ entry(c).clock = c
    BY <1>1 DEF Entry
  <2> HIDE DEF first, entry
  <2> QED
    BY <1>8, <2>1, <2>2
<1> QED
  BY <1>7, <1>9, <1>10, <1>11 DEF q

-----------------------------------------------------------------------------

\* What a pending event is.
IsEvent(e) ==
  /\ e.clock \in Clocks \cup {"checkpoint", "contact"}
  /\ e.time \in Int /\ e.priority \in Nat
  /\ e.sequence \in Nat /\ e.elapsed \in Nat

\* A recurrence lies strictly later: its interval is positive, also after a
\* route or an absence.
LEMMA RescheduledFacts ==
  ASSUME NEW e, IsEvent(e), NEW s \in Nat
  PROVE  \/ e.clock = "contact" /\ Rescheduled(e, s) = {}
         \/ /\ e.clock # "contact"
            /\ \E a : /\ Rescheduled(e, s) = {a} /\ IsEvent(a)
                      /\ a.clock = e.clock /\ a.time > e.time /\ a.sequence = s
<1>1. CASE e.clock = "contact"
  BY <1>1 DEF Rescheduled
<1>2. CASE e.clock # "contact"
  <2> DEFINE d == IF e.clock = "patrol" THEN PatrolInterval(e) ELSE Interval[e.clock]
             a == Entry(e.clock, e.time + d, DefaultPriority, s, d)
  <2>1. e.clock \in Clocks \cup {"checkpoint"}
    BY <1>2 DEF IsEvent
  <2>2. d \in Nat \ {0}
    <3>1. CASE e.clock = "patrol"
      <4>1. Interval["patrol"] \in Nat \ {0}
        BY <2>1, <3>1, IntervalAssumption
      <4>2. PatrolInterval(e) \in Nat \ {0}
        BY <4>1, RouteAssumption DEF PatrolInterval, IsEvent
      <4> QED
        BY <3>1, <4>2
    <3>2. CASE e.clock # "patrol"
      BY <2>1, <3>2, IntervalAssumption
    <3> QED
      BY <3>1, <3>2
  <2>3. Rescheduled(e, s) = {a}
    BY <1>2 DEF Rescheduled
  <2> HIDE DEF d
  <2>4. IsEvent(a) /\ a.clock = e.clock /\ a.time > e.time /\ a.sequence = s
    BY <2>1, <2>2 DEF IsEvent, Entry, DefaultPriority
  <2> QED
    BY <1>2, <2>3, <2>4
<1> QED
  BY <1>1, <1>2

\* A handler schedules at most one event of its own, not before now: a contact
\* at the end of a window, or the first recruitment tick.
LEMMA BeforeFacts ==
  ASSUME NEW e, IsEvent(e), NEW s \in Nat
  PROVE  LET before == Opportunities(e, s) \cup
               (IF StartsRecruiting(e) /\ "recruitment" \in Clocks
                THEN {Entry("recruitment", e.time, Priority["recruitment"], s, 0)}
                ELSE {})
         IN \/ /\ before = {} /\ Cardinality(before) = 0
               /\ ~(StartsRecruiting(e) /\ "recruitment" \in Clocks)
            \/ /\ Cardinality(before) = 1
               /\ \E b : /\ before = {b} /\ IsEvent(b)
                         /\ b.time >= e.time /\ b.sequence = s
                         /\ IF StartsRecruiting(e) /\ "recruitment" \in Clocks
                            THEN b.clock = "recruitment" ELSE b.clock = "contact"
<1> DEFINE starts == StartsRecruiting(e) /\ "recruitment" \in Clocks
           first == Entry("recruitment", e.time, Priority["recruitment"], s, 0)
           before == Opportunities(e, s) \cup (IF starts THEN {first} ELSE {})
<1>1. CASE starts
  <2>1. before = {first}
    BY <1>1 DEF Opportunities, StartsRecruiting
  <2>2. "recruitment" \in DOMAIN Priority
    BY DEF Priority
  <2>3. IsEvent(first) /\ first.time >= e.time /\ first.sequence = s
        /\ first.clock = "recruitment"
    BY <1>1, <2>2, PriorityFacts DEF IsEvent, Entry
  <2> HIDE DEF before, first
  <2>4. Cardinality(before) = 1
    BY <2>1, FS_Singleton, Zenon
  <2> QED
    BY <1>1, <2>1, <2>3, <2>4 DEF before, first
<1>2. CASE ~starts /\ Opportunities(e, s) = {}
  <2>1. before = {}
    BY <1>2
  <2> QED
    BY <1>2, <2>1, FS_EmptySet
<1>3. CASE ~starts /\ Opportunities(e, s) # {}
  <2> DEFINE b == Entry("contact", e.time + Exposure(e), ContactPriority, s, Exposure(e))
  <2>1. before = {b} /\ Exposure(e) > 0 /\ e.clock = "contact_scan"
    BY <1>3 DEF Opportunities
  <2>2. Exposure(e) \in Int
    <3>1. "contact_scan" \in Clocks
      BY <2>1 DEF IsEvent
    <3> QED
      BY <3>1, IntervalAssumption DEF Exposure, IsEvent
  <2>3. IsEvent(b) /\ b.time >= e.time /\ b.sequence = s /\ b.clock = "contact"
    BY <2>1, <2>2 DEF IsEvent, Entry, ContactPriority
  <2> HIDE DEF before, b
  <2>4. Cardinality(before) = 1
    BY <2>1, FS_Singleton, Zenon
  <2> QED
    BY <1>3, <2>1, <2>3, <2>4 DEF before
<1> QED
  BY <1>1, <1>2, <1>3

\* What an event brings while it is handled, numbered s: nothing, the first
\* recruitment tick, or a contact.
Brings(e, s, starts, before) ==
  \/ before = {} /\ Cardinality(before) = 0 /\ ~starts
  \/ /\ Cardinality(before) = 1
     /\ \E b : /\ before = {b} /\ IsEvent(b)
               /\ b.time >= e.time /\ b.sequence = s
               /\ IF starts THEN b.clock = "recruitment" ELSE b.clock = "contact"

\* How it comes back, numbered s: strictly later, and always if it is a clock.
Returns(e, s, after) ==
  \/ e.clock \notin Clocks /\ after = {}
  \/ \E a : /\ after = {a} /\ IsEvent(a)
            /\ a.clock = e.clock /\ a.time > e.time /\ a.sequence = s

\* What handling the next event e takes and brings keeps the calendar: every
\* event lies at or after it, numbered apart, and every running clock has one.
LEMMA CalendarKept ==
  ASSUME TypeOK, Numbered, Sole, Ticking, mode # "new",
         NEW e \in queue, \A f \in queue : e.time <= f.time,
         NEW starts \in BOOLEAN, starts => "recruitment" \in Clocks /\ ~recruiting,
         NEW before, NEW after,
         Brings(e, nextSequence, starts, before),
         Returns(e, nextSequence + Cardinality(before), after),
         queue' = (queue \ {e}) \cup before \cup after,
         nextSequence' = nextSequence + Cardinality(before) + Cardinality(after),
         insurgents' \in BOOLEAN, recruiting' \in BOOLEAN,
         "recruitment" \in Clocks => (recruiting' <=> recruiting \/ starts)
  PROVE  /\ \A f \in queue' : IsEvent(f) /\ f.time >= e.time
         /\ nextSequence' \in Nat
         /\ insurgents' \in BOOLEAN /\ recruiting' \in BOOLEAN
         /\ Numbered'
         /\ Sole'
         /\ \A c \in Clocks :
              (\E f \in queue' : f.clock = c) <=> (c # "recruitment" \/ recruiting')
<1> DEFINE n == nextSequence
           m == n + Cardinality(before)
<1>1. /\ \A f \in queue : IsEvent(f)
      /\ n \in Nat
      /\ insurgents \in BOOLEAN /\ recruiting \in BOOLEAN
  BY DEF TypeOK, IsEvent
<1>2. \/ /\ before = {} /\ Cardinality(before) = 0 /\ ~starts
      \/ /\ Cardinality(before) = 1
         /\ \E b : /\ before = {b} /\ IsEvent(b)
                   /\ b.time >= e.time /\ b.sequence = n
                   /\ IF starts THEN b.clock = "recruitment" ELSE b.clock = "contact"
  BY DEF Brings
<1>3. queue' = (queue \ {e}) \cup before \cup after
      /\ nextSequence' = m + Cardinality(after)
  OBVIOUS
<1>4. m \in Nat /\ Cardinality(before) \in {0, 1}
  BY <1>1, <1>2
<1> HIDE DEF m
<1>5. \/ e.clock \notin Clocks /\ after = {}
      \/ \E a : /\ after = {a} /\ IsEvent(a)
                /\ a.clock = e.clock /\ a.time > e.time /\ a.sequence = m
  BY DEF Returns, m
<1>6. Cardinality(after) \in {0, 1} /\ (after # {} => Cardinality(after) = 1)
  BY <1>5, FS_Singleton, FS_EmptySet
<1>7. nextSequence' \in Nat
  BY <1>3, <1>4, <1>6
<1>8. \A f \in queue' : IsEvent(f) /\ f.time >= e.time
  BY <1>1, <1>2, <1>3, <1>5 DEF IsEvent
<1>9. insurgents' \in BOOLEAN /\ recruiting' \in BOOLEAN
  OBVIOUS
<1>10. Numbered'
  <2>1. \A f \in queue : f.sequence \in Nat /\ f.sequence < n
    BY <1>1 DEF Numbered, IsEvent
  <2>2. \A b \in before : b.sequence = n /\ n < m
    BY <1>1, <1>2 DEF m
  <2>3. \A a \in after : a.sequence = m /\ m < nextSequence'
    BY <1>3, <1>4, <1>5, <1>6
  <2>4. n <= m /\ m <= nextSequence'
    BY <1>1, <1>3, <1>4, <1>6 DEF m
  <2>5. \A f \in queue' : f.sequence < nextSequence'
    BY <1>1, <1>3, <1>4, <1>7, <2>1, <2>2, <2>3, <2>4
  <2>6. ASSUME NEW f \in queue', NEW g \in queue', f.sequence = g.sequence
        PROVE  f = g
    <3>1. CASE f \in queue /\ g \in queue
      BY <3>1, <2>6 DEF Numbered
    <3>2. CASE f \in before \/ g \in before
      <4>1. f \in before /\ g \in before
        BY <1>1, <1>3, <1>4, <3>2, <2>6, <2>1, <2>2, <2>3
      <4> QED
        BY <4>1, <1>2
    <3>3. CASE f \in after \/ g \in after
      <4>1. f \in after /\ g \in after
        BY <1>1, <1>3, <1>4, <3>3, <2>6, <2>1, <2>2, <2>3, <2>4
      <4> QED
        BY <4>1, <1>5
    <3> QED
      BY <1>3, <3>1, <3>2, <3>3
  <2> QED
    BY <2>5, <2>6 DEF Numbered
<1>11. \A c \in Clocks : starts /\ c = "recruitment" => ~(\E f \in queue : f.clock = c)
  BY Zenon DEF Ticking
<1>12. \A b \in before : b.clock \in Clocks => starts /\ b.clock = "recruitment"
  BY <1>2, ClocksAssumption DEF Priority
<1>13. Sole'
  <2> SUFFICES ASSUME NEW f \in queue', NEW g \in queue', f.clock = g.clock, f.clock \in Clocks
               PROVE  f = g
    BY DEF Sole
  <2>1. CASE f \in queue \ {e} /\ g \in queue \ {e}
    BY <2>1 DEF Sole
  <2>2. CASE f \in before \/ g \in before
    <3>1. starts /\ f.clock = "recruitment"
      BY <1>12, <2>2
    <3>2. f \in before /\ g \in before
      BY <1>3, <1>5, <1>11, <3>1
    <3> QED
      BY <3>2, <1>2
  <2>3. CASE f \in after \/ g \in after
    <3>1. f.clock = e.clock
      BY <1>5, <2>3
    <3>2. \A h \in queue \ {e} : h.clock # f.clock
      BY <3>1 DEF Sole
    <3>3. f \notin before /\ g \notin before
      BY <1>11, <1>12, <3>1
    <3>4. f \in after /\ g \in after
      BY <1>3, <3>2, <3>3
    <3> QED
      BY <3>4, <1>5
  <2> QED
    BY <1>3, <2>1, <2>2, <2>3
<1>14. ASSUME NEW c \in Clocks
       PROVE  (\E f \in queue' : f.clock = c) <=> (c # "recruitment" \/ recruiting')
  <2>1. c # "contact"
    BY ClocksAssumption DEF Priority
  <2>2. (\E f \in queue \cup before : f.clock = c) => \E f \in queue' : f.clock = c
    BY <1>3, <1>5, <2>1
  <2>3. (\E f \in queue' : f.clock = c) => \E f \in queue \cup before : f.clock = c
    BY <1>3, <1>5
  <2>4. (\E f \in queue : f.clock = c) <=> (c # "recruitment" \/ recruiting)
    BY Zenon DEF Ticking
  <2>5. (\E b \in before : b.clock = c) <=> (starts /\ c = "recruitment")
    BY <1>2, <2>1
  <2>6. c # "recruitment" \/ recruiting' <=> c # "recruitment" \/ recruiting \/ starts
    BY Zenon
  <2>7. (\E f \in queue \cup before : f.clock = c)
          <=> (\E f \in queue : f.clock = c) \/ (\E f \in before : f.clock = c)
    OBVIOUS
  <2> QED
    BY <2>2, <2>3, <2>4, <2>5, <2>6, <2>7, Zenon
<1> QED
  BY <1>7, <1>8, <1>9, <1>10, <1>13, <1>14

\* The handler of the next event keeps the calendar.
LEMMA HandleFacts ==
  ASSUME TypeOK, Numbered, Sole, Ticking, mode # "new",
         NEW e \in queue, \A f \in queue : e.time <= f.time, Handle(e)
  PROVE  /\ \A f \in queue' : IsEvent(f) /\ f.time >= e.time
         /\ nextSequence' \in Nat
         /\ insurgents' \in BOOLEAN /\ recruiting' \in BOOLEAN
         /\ Numbered'
         /\ Sole'
         /\ \A c \in Clocks :
              (\E f \in queue' : f.clock = c) <=> (c # "recruitment" \/ recruiting')
<1> DEFINE starts == StartsRecruiting(e) /\ "recruitment" \in Clocks
           n == nextSequence
           before == Opportunities(e, n) \cup
             (IF starts THEN {Entry("recruitment", e.time, Priority["recruitment"], n, 0)}
              ELSE {})
           m == n + Cardinality(before)
           after == Rescheduled(e, m)
<1>1. /\ IsEvent(e)
      /\ n \in Nat
      /\ insurgents \in BOOLEAN /\ recruiting \in BOOLEAN
  BY DEF TypeOK, IsEvent
<1>2. Brings(e, n, starts, before)
  BY <1>1, BeforeFacts DEF Brings
<1>3. queue' = (queue \ {e}) \cup before \cup after
      /\ nextSequence' = n + Cardinality(before) + Cardinality(after)
      /\ insurgents' = ActiveOnce(e)
      /\ recruiting' = (recruiting \/ StartsRecruiting(e))
  BY DEF Handle
<1>4. starts \in BOOLEAN /\ (starts => "recruitment" \in Clocks /\ ~recruiting)
  BY DEF StartsRecruiting
<1>5. insurgents' \in BOOLEAN /\ recruiting' \in BOOLEAN
  BY <1>1, <1>3, Zenon DEF StartsRecruiting, ActiveOnce, Raises
<1>6. "recruitment" \in Clocks => (recruiting' <=> recruiting \/ starts)
  BY <1>3, Zenon
<1> HIDE DEF starts, before
<1>7. m \in Nat
  BY <1>1, <1>2 DEF Brings
<1> HIDE DEF m
<1>8. Returns(e, m, after)
  BY <1>1, <1>7, RescheduledFacts, ClocksAssumption DEF Returns, Priority
<1> HIDE DEF after
<1> QED
  BY <1>2, <1>3, <1>4, <1>5, <1>6, <1>8, CalendarKept DEF m

-----------------------------------------------------------------------------

LEMMA InitInv == Init => IInv
<1> SUFFICES ASSUME Init PROVE IInv
  OBVIOUS
<1>1. IsWorld(world) /\ world.founded \in BOOLEAN
  BY WorldsAssumption DEF Init, IsWorld
<1>2. TypeOK
  <2>1. {checkpointing, recruiting, insurgents} \subseteq BOOLEAN
    BY <1>1, Zenon DEF Init
  <2> QED
    BY <2>1, HorizonAssumption DEF Init, TypeOK
<1>3. queue = {} /\ mode = "new"
  BY DEF Init
<1>4. Ticking
  BY <1>3, Zenon DEF Ticking
<1> QED
  BY <1>1, <1>2, <1>3, <1>4 DEF IInv, NeverBackward, Numbered, Sole, InBounds, ReturnsAtHorizon

\* A freshly populated calendar starts every clock once, at t.
LEMMA PopulateFacts ==
  ASSUME NEW t \in Int, NEW c \in BOOLEAN, insurgents \in BOOLEAN, Populate(t, c)
  PROVE  /\ \A e \in queue' : IsEvent(e) /\ e.time = t
         /\ nextSequence' \in Nat
         /\ recruiting' \in BOOLEAN
         /\ Numbered'
         /\ Sole'
         /\ \A d \in Clocks :
              (\E e \in queue' : e.clock = d) <=> (d # "recruitment" \/ recruiting')
<1> DEFINE q == Populated(t, c)
<1>1. queue' = Populated(t, c) /\ nextSequence' = Cardinality(queue')
      /\ recruiting' = insurgents
  BY DEF Populate
<1>2. /\ Cardinality(q) \in Nat
      /\ Cardinality(q) = Cardinality((Clocks \ (IF insurgents THEN {} ELSE {"recruitment"}))
                                        \cup (IF c THEN {"checkpoint"} ELSE {}))
      /\ \A e \in q : /\ e.clock \in Clocks \cup {"checkpoint"}
                      /\ e.time = t /\ e.priority \in Nat /\ e.priority > ContactPriority
                      /\ e.sequence \in Nat /\ e.sequence < Cardinality(q)
                      /\ e.elapsed = 0
      /\ \A e, f \in q : e.sequence = f.sequence \/ e.clock = f.clock => e = f
      /\ \A d \in Clocks : (\E e \in q : e.clock = d) <=> (d # "recruitment" \/ insurgents)
  BY PopulatedFacts
<1>3. queue' = q /\ nextSequence' = Cardinality(q)
  BY <1>1
<1> HIDE DEF q
<1>4. \A e \in queue' : IsEvent(e) /\ e.time = t
  BY <1>2, <1>3 DEF IsEvent
<1>5. Numbered' /\ Sole'
  BY <1>2, <1>3 DEF Numbered, Sole
<1> QED
  BY <1>1, <1>2, <1>3, <1>4, <1>5, Zenon

LEMMA RunInv ==
  ASSUME IInv, NEW u \in 0 .. Horizon, NEW m \in Nat \cup {None},
         NEW c \in {None, TRUE, FALSE}, Run(u, m, c)
  PROVE  IInv'
<1>1. TypeOK /\ IsWorld(world) /\ world.burnIn \in Nat /\ checkpointing' \in BOOLEAN
      /\ checkpointing \in BOOLEAN /\ insurgents \in BOOLEAN /\ m \in Nat \cup {None}
  <2>1. checkpointing \in BOOLEAN /\ insurgents \in BOOLEAN
    BY DEF IInv, TypeOK
  <2>2. checkpointing' \in BOOLEAN
    BY <2>1, Zenon DEF Run
  <2> QED
    BY <2>1, <2>2 DEF IInv, IsWorld
<1>2. CASE /\ mode = "new"
           /\ now' = -world.burnIn
           /\ Populate(-world.burnIn, checkpointing')
           /\ mode' = IF world.burnIn > 0 THEN "burn_in" ELSE "running"
           /\ until' = u
           /\ left' = m
           /\ outcome' = None
  <2>0. -world.burnIn \in Int
    BY <1>1
  <2>1. /\ \A e \in queue' : IsEvent(e) /\ e.time = -world.burnIn
        /\ nextSequence' \in Nat
        /\ recruiting' \in BOOLEAN
        /\ Numbered'
        /\ Sole'
        /\ \A d \in Clocks :
             (\E e \in queue' : e.clock = d) <=> (d # "recruitment" \/ recruiting')
    BY <1>1, <1>2, <2>0, PopulateFacts
  <2>2. TypeOK'
    <3>1. saved' \in Int \cup {None} /\ insurgents' \in BOOLEAN
      BY <1>1 DEF Run, TypeOK
    <3> QED
      BY <1>1, <1>2, <2>0, <2>1, <3>1 DEF TypeOK, IsEvent
  <2>3. Ticking'
    BY <2>1, Zenon DEF Ticking
  <2>4. NeverBackward' /\ InBounds' /\ ReturnsAtHorizon'
    BY <1>1, <1>2, <2>1 DEF NeverBackward, InBounds, ReturnsAtHorizon, IsEvent
  <2>5. IsWorld(world') /\ mode' # "new"
    BY <1>1, <1>2 DEF Run
  <2> QED
    BY <2>1, <2>2, <2>3, <2>4, <2>5 DEF IInv
<1>3. CASE /\ mode = "idle" /\ u < now
           /\ outcome' = "refused"
           /\ UNCHANGED <<queue, nextSequence, now, mode, until, left, recruiting>>
  <2>1. TypeOK'
    <3>1. saved' \in Int \cup {None} /\ insurgents' \in BOOLEAN /\ recruiting' \in BOOLEAN
      BY <1>1, <1>3 DEF Run, TypeOK
    <3> QED
      BY <1>1, <1>3, <3>1 DEF TypeOK, IsEvent
  <2>2. Ticking'
    BY <1>3, Zenon DEF IInv, Ticking
  <2> QED
    BY <1>1, <1>3, <2>1, <2>2
    DEF Run, IInv, NeverBackward, Numbered, Sole, InBounds, ReturnsAtHorizon
<1>4. CASE /\ mode = "idle" /\ u >= now
           /\ mode' = "running"
           /\ until' = u
           /\ left' = m
           /\ outcome' = None
           /\ UNCHANGED <<queue, nextSequence, now, recruiting>>
  <2>1. TypeOK'
    <3>1. saved' \in Int \cup {None} /\ insurgents' \in BOOLEAN /\ recruiting' \in BOOLEAN
      BY <1>1, <1>4 DEF Run, TypeOK
    <3> QED
      BY <1>1, <1>4, <3>1 DEF TypeOK, IsEvent
  <2>2. Ticking'
    BY <1>4, Zenon DEF IInv, Ticking
  <2> QED
    BY <1>1, <1>4, <2>1, <2>2
    DEF Run, IInv, NeverBackward, Numbered, Sole, InBounds, ReturnsAtHorizon
<1> QED
  BY <1>2, <1>3, <1>4 DEF Run

\* A step of either loop handles the next event and keeps everything else.
LEMMA StepInv ==
  ASSUME IInv, BurnInStep \/ Step
  PROVE  IInv'
<1>1. PICK e \in queue : IsNext(e, queue) /\ now' = e.time /\ Handle(e) /\ Record(e)
                         /\ (mode = "burn_in" => e.time <= 0)
                         /\ (mode = "running" => e.time <= until)
  <2>1. \A e \in queue : e.time \in Int
    BY DEF IInv, TypeOK
  <2>2. CASE BurnInStep
    <3>1. mode = "burn_in"
          /\ \E e \in queue : IsNext(e, queue) /\ BurnInTakes(e) /\ now' = e.time
                              /\ Handle(e) /\ Record(e)
      BY <2>2 DEF BurnInStep
    <3>2. \A e \in queue : BurnInTakes(e) => e.time <= 0
      BY <2>1 DEF BurnInTakes
    <3> QED
      BY <3>1, <3>2
  <2>3. CASE Step
    <3>1. mode = "running"
          /\ \E e \in queue : IsNext(e, queue) /\ GoesOn(e) /\ now' = e.time
                              /\ Handle(e) /\ Record(e)
      BY <2>3 DEF Step
    <3> QED
      BY <3>1 DEF GoesOn
  <2> QED
    BY <2>2, <2>3
<1>2. /\ mode \in {"burn_in", "running"}
      /\ UNCHANGED <<world, mode, until, checkpointing>>
      /\ outcome' = outcome
      /\ left' \in Nat \cup {None}
  BY NoneIsNoDay DEF BurnInStep, Step, Processed, GoesOn, IInv, TypeOK
<1>3. \A f \in queue : e.time <= f.time
  BY <1>1, NextIsEarliest DEF IInv
<1>4. /\ \A f \in queue' : IsEvent(f) /\ f.time >= e.time
      /\ nextSequence' \in Nat
      /\ insurgents' \in BOOLEAN /\ recruiting' \in BOOLEAN
      /\ Numbered'
      /\ Sole'
      /\ \A c \in Clocks :
           (\E f \in queue' : f.clock = c) <=> (c # "recruitment" \/ recruiting')
  BY <1>1, <1>2, <1>3, HandleFacts DEF IInv
<1>5. now' \in Int
  BY <1>1 DEF IInv, TypeOK
<1>6. TypeOK'
  <2>1. saved' \in Int \cup {None}
    BY <1>1, <1>5 DEF Record, IInv, TypeOK
  <2> QED
    BY <1>2, <1>4, <1>5, <2>1 DEF IInv, TypeOK, IsEvent
<1>7. Ticking'
  BY <1>4, Zenon DEF Ticking
<1>8. NeverBackward'
  BY <1>1, <1>4 DEF NeverBackward
<1>9. InBounds' /\ ReturnsAtHorizon'
  BY <1>1, <1>2 DEF InBounds, ReturnsAtHorizon
<1> QED
  BY <1>2, <1>4, <1>6, <1>7, <1>8, <1>9 DEF IInv

\* The end of burn-in starts the calendar again, at zero.
LEMMA BurnInEndsInv ==
  ASSUME IInv, BurnInEnds
  PROVE  IInv'
<1>1. insurgents \in BOOLEAN /\ checkpointing \in BOOLEAN /\ Populate(0, checkpointing)
      /\ 0 \in Int
  BY DEF BurnInEnds, IInv, TypeOK
<1>2. /\ \A e \in queue' : IsEvent(e) /\ e.time = 0
      /\ nextSequence' \in Nat
      /\ recruiting' \in BOOLEAN
      /\ Numbered'
      /\ Sole'
      /\ \A d \in Clocks :
           (\E e \in queue' : e.clock = d) <=> (d # "recruitment" \/ recruiting')
  BY <1>1, PopulateFacts
<1>3. TypeOK'
  BY <1>1, <1>2 DEF BurnInEnds, IInv, TypeOK, IsEvent
<1>4. Ticking'
  BY <1>2, Zenon DEF Ticking
<1>5. NeverBackward' /\ InBounds' /\ ReturnsAtHorizon'
  BY <1>2, HorizonAssumption
  DEF BurnInEnds, IInv, TypeOK, NeverBackward, InBounds, ReturnsAtHorizon
<1> QED
  BY <1>2, <1>3, <1>4, <1>5 DEF BurnInEnds, IInv

\* A dropped checkpoint tick is nobody's only event.
LEMMA DropInv ==
  ASSUME IInv, DropCheckpoint
  PROVE  IInv'
<1>1. PICK e \in queue : e.clock = "checkpoint" /\ queue' = queue \ {e} /\ left # 0
  BY DEF DropCheckpoint, GoesOn
<1>2. mode = "running" /\ mode' = mode
  BY DEF DropCheckpoint
<1>3. TypeOK'
  <2>1. left' \in Nat \cup {None}
    BY <1>1, NoneIsNoDay DEF DropCheckpoint, Processed, IInv, TypeOK
  <2>2. {checkpointing', recruiting', insurgents'} \subseteq BOOLEAN
    BY DEF DropCheckpoint, IInv, TypeOK
  <2> QED
    BY <1>1, <2>1, <2>2 DEF DropCheckpoint, IInv, TypeOK
<1>4. Ticking'
  <2>1. \A c \in Clocks : (\E f \in queue' : f.clock = c) <=> (\E f \in queue : f.clock = c)
    BY <1>1, ClocksAssumption
  <2>2. \A c \in Clocks : (\E f \in queue : f.clock = c)
                             <=> (c # "recruitment" \/ recruiting)
    BY <1>2, Zenon DEF IInv, Ticking
  <2>3. recruiting' = recruiting
    BY DEF DropCheckpoint
  <2> QED
    BY <2>1, <2>2, <2>3, Zenon DEF Ticking
<1> QED
  BY <1>1, <1>2, <1>3, <1>4
  DEF DropCheckpoint, IInv, NeverBackward, Numbered, Sole, InBounds, ReturnsAtHorizon

\* The return of run passes over nothing that is due.
LEMMA ReturnInv ==
  ASSUME IInv, Return
  PROVE  IInv'
<1>1. mode = "running" /\ now \in Int /\ until \in Int /\ now <= until
  BY DEF Return, IInv, InBounds, TypeOK
<1>2. ~Stopped => \A f \in queue : f.time > until
  <2> SUFFICES ASSUME ~Stopped, queue # {} PROVE \A f \in queue : f.time > until
    OBVIOUS
  <2>1. PICK e \in queue : IsNext(e, queue)
    BY <1>1, NextExists DEF IInv
  <2>2. e.time > until
    BY <1>1, <2>1 DEF Return, GoesOn, Stopped, IInv, TypeOK
  <2>3. \A f \in queue : e.time <= f.time
    BY <2>1, NextIsEarliest DEF IInv
  <2> QED
    BY <1>1, <2>2, <2>3 DEF IInv, TypeOK
<1>3. /\ now' = IF ~Stopped THEN until ELSE now
      /\ outcome' = IF Stopped THEN "stopped" ELSE "done"
      /\ mode' = "idle"
      /\ UNCHANGED <<world, queue, nextSequence, until, left, checkpointing, recruiting, insurgents>>
  BY <1>1 DEF Return
<1>4. TypeOK'
  <2>1. saved' \in Int \cup {None}
    BY <1>1, <1>3 DEF Return, IInv, TypeOK
  <2>2. {checkpointing', recruiting', insurgents'} \subseteq BOOLEAN
    BY <1>3 DEF IInv, TypeOK
  <2> QED
    BY <1>1, <1>3, <2>1, <2>2 DEF IInv, TypeOK
<1>5. NeverBackward' /\ InBounds' /\ ReturnsAtHorizon'
  BY <1>1, <1>2, <1>3 DEF IInv, TypeOK, NeverBackward, InBounds, ReturnsAtHorizon
<1>6. Ticking'
  BY <1>1, <1>3, Zenon DEF IInv, Ticking
<1> QED
  BY <1>3, <1>4, <1>5, <1>6 DEF IInv, Numbered, Sole

\* No step breaks the invariant.
LEMMA IInvStep ==
  ASSUME IInv, [Next]_vars
  PROVE  IInv'
<1>1. ASSUME NEW u \in 0 .. Horizon, NEW m \in Limits, NEW c \in {None, TRUE, FALSE},
             Run(u, m, c)
      PROVE  IInv'
  BY <1>1, RunInv, LimitsAssumption
<1>2. CASE BurnInStep \/ Step
  BY <1>2, StepInv
<1>3. CASE BurnInEnds
  BY <1>3, BurnInEndsInv
<1>4. CASE DropCheckpoint
  BY <1>4, DropInv
<1>5. CASE Return
  BY <1>5, ReturnInv
<1>6. CASE UNCHANGED vars
  <2>1. Ticking'
    BY <1>6, Zenon DEF IInv, Ticking, vars
  <2>2. TypeOK'
    BY <1>6 DEF IInv, TypeOK, vars
  <2> QED
    BY <1>6, <2>1, <2>2
    DEF IInv, NeverBackward, Numbered, Sole, InBounds, ReturnsAtHorizon, vars
<1> QED
  BY <1>1, <1>2, <1>3, <1>4, <1>5, <1>6 DEF Next, Loop

THEOREM Invariance == Spec => []IInv
<1>1. IInv /\ [Next]_vars => IInv'
  BY IInvStep
<1> QED
  BY InitInv, <1>1, PTL DEF Spec

-----------------------------------------------------------------------------

\* "scheduler time moved backward" cannot be raised: whatever the clocks,
\* worlds, horizons and limits, nothing pending is earlier than the world.
THEOREM AssertionHolds == Spec => []NeverBackward
<1>1. IInv => NeverBackward
  BY DEF IInv
<1> QED
  BY <1>1, Invariance, PTL

LEMMA OnePerClock == IInv => OneEventPerClock
<1> SUFFICES ASSUME IInv, mode # "new", NEW c \in Clocks
             PROVE  Cardinality({e \in queue : e.clock = c}) =
                      IF c = "recruitment" /\ ~recruiting THEN 0 ELSE 1
  BY DEF OneEventPerClock
<1> DEFINE own == {e \in queue : e.clock = c}
<1>1. (\E e \in queue : e.clock = c) <=> (c # "recruitment" \/ recruiting)
  BY Zenon DEF IInv, Ticking
<1>2. CASE c = "recruitment" /\ ~recruiting
  <2>1. own = {}
    BY <1>1, <1>2
  <2> QED
    BY <1>2, <2>1, FS_EmptySet
<1>3. CASE ~(c = "recruitment" /\ ~recruiting)
  <2>1. PICK e \in queue : e.clock = c
    BY <1>1, <1>3
  <2>2. own = {e}
    BY <2>1 DEF IInv, Sole
  <2> QED
    BY <1>3, <2>2, FS_Singleton
<1> QED
  BY <1>2, <1>3

\* Each running clock has exactly one pending event after any calls, in
\* particular after burn-in's second calendar and a late recruitment clock.
THEOREM NoClockLostOrDoubled == Spec => []OneEventPerClock
<1>1. IInv => OneEventPerClock
  BY OnePerClock
<1> QED
  BY <1>1, Invariance, PTL

\* What run returns is a world at its horizon with nothing due, or, stopped by
\* max_events, a world that has not passed it.
THEOREM RunsEndWhereTheySay == Spec => []ReturnsAtHorizon
<1>1. IInv => ReturnsAtHorizon
  BY DEF IInv
<1> QED
  BY <1>1, Invariance, PTL
-----------------------------------------------------------------------------
(* The run implements its promise.                                         *)

\* Insurgents are active now if the ticks of this phase left some active, and the
\* recruitment clock runs if some have been active since the phase began.
ActiveByNow ==
  \/ /\ Promise!ActiveAtStart
     /\ \A i \in DOMAIN trace[Phase] : ~Disbands(world, trace[Phase][i])
  \/ \E i \in DOMAIN trace[Phase] :
       /\ Raises(world, trace[Phase][i])
       /\ \A j \in DOMAIN trace[Phase] : j > i => ~Disbands(world, trace[Phase][j])
ActiveSometime ==
  Promise!ActiveAtStart \/ \E i \in DOMAIN trace[Phase] : Raises(world, trace[Phase][i])
Standing ==
  /\ insurgents <=> ActiveByNow
  /\ mode # "new" => (recruiting <=> ActiveSometime)

\* What the calendar still remembers of the trajectory.
Memory == [clock: Clocks \cup {"contact"}, time: Int, elapsed: Nat]
History ==
  /\ Standing
  /\ trace \in [{"burn_in", "observed"} -> Seq(Memory)]
  /\ mode \in {"new", "burn_in"} => trace["observed"] = <<>>
  /\ mode = "new" => trace["burn_in"] = <<>>
  /\ mode = "burn_in" => world.burnIn > 0
  /\ mode # "new" =>
       /\ \A i \in DOMAIN trace[Phase] :
            /\ trace[Phase][i].time <= now
            /\ trace[Phase][i].clock = "recruitment" => recruiting

\* A contact is realized before the next scan opens, so at most one is pending; and
\* its priority is its own.
Exposed ==
  /\ \A e \in queue : IF e.clock = "contact" THEN e.priority = ContactPriority
                                             ELSE e.priority > ContactPriority
  /\ \A e, f \in queue : e.clock = "contact" =>
       /\ f.clock = "contact" => e = f
       /\ f.clock = "contact_scan" => e.time <= f.time

\* Each pending event was scheduled by a tick of the trajectory, or at its start, and
\* the promise expects those events and no others, in the same order.
Live == {e \in queue : e.clock # "checkpoint"}
Known(e, i) == Entry(e.clock, e.time, e.priority, i, e.elapsed)
Mirrors(origin) ==
  /\ \A e \in Live : origin[e] \in 0 .. Len(trace[Phase])
  /\ Promise!Pending = {Known(e, origin[e]) : e \in Live}
  /\ \A e, f \in Live : e.sequence < f.sequence => origin[e] <= origin[f]
  /\ \A e, f \in Live : e # f /\ origin[e] = origin[f] => e.priority # f.priority
Mirror == mode # "new" => \E origin : Mirrors(origin)

\* What the next tick leaves to the promise.
Appended(a) ==
  /\ a.clock \in Clocks \cup {"contact"} /\ a.time \in Int /\ a.elapsed \in Nat
  /\ UNCHANGED world /\ Phase' = Phase
  /\ trace' = [trace EXCEPT ![Phase] = Append(@, Tick(a))]

LEMMA PhaseIs ==
  ASSUME History
  PROVE  /\ Phase \in {"burn_in", "observed"}
         /\ trace[Phase] \in Seq(Memory) /\ Len(trace[Phase]) \in Nat
         /\ DOMAIN trace[Phase] = 1 .. Len(trace[Phase])
<1>1. Phase \in {"burn_in", "observed"}
  BY DEF Phase
<1>2. trace[Phase] \in Seq(Memory)
  BY <1>1 DEF History
<1> QED
  BY <1>1, <1>2

LEMMA TicksAfter ==
  ASSUME History, NEW a, Appended(a), NEW n, n = Len(trace[Phase]) + 1
  PROVE  /\ DOMAIN trace'[Phase'] = DOMAIN trace[Phase] \cup {n}
         /\ n \notin DOMAIN trace[Phase] /\ n \in Nat /\ \A i \in DOMAIN trace[Phase] : i <= n /\ i \in Nat
         /\ \A i \in DOMAIN trace[Phase] : trace'[Phase'][i] = trace[Phase][i]
         /\ trace'[Phase'][n] = Tick(a)
         /\ trace'[Phase'] \in Seq(Memory) /\ Len(trace'[Phase']) = n
         /\ trace' \in [{"burn_in", "observed"} -> Seq(Memory)]
         /\ \A p \in {"burn_in", "observed"} : p # Phase => trace'[p] = trace[p]
<1>1. /\ Phase \in {"burn_in", "observed"}
      /\ trace[Phase] \in Seq(Memory) /\ Len(trace[Phase]) \in Nat
      /\ DOMAIN trace[Phase] = 1 .. Len(trace[Phase])
  BY PhaseIs
<1>2. Tick(a) \in Memory
  BY DEF Appended, Tick, Memory
<1>3. PICK s : s = trace[Phase]
  OBVIOUS
<1>4. PICK t : t = Append(s, Tick(a))
  OBVIOUS
<1>5. trace'[Phase'] = t /\ \A p \in {"burn_in", "observed"} : p # Phase => trace'[p] = trace[p]
  BY <1>1, <1>3, <1>4 DEF Appended, History
<1>6. /\ t \in Seq(Memory) /\ Len(t) = n
      /\ \A i \in 1 .. Len(s) : t[i] = s[i]
      /\ t[n] = Tick(a)
  BY <1>1, <1>2, <1>3, <1>4
<1>7. DOMAIN t = 1 .. n
  BY <1>1, <1>6
<1>8. trace' \in [{"burn_in", "observed"} -> Seq(Memory)]
  BY <1>1, <1>3, <1>4, <1>6 DEF Appended, History
<1> QED
  BY <1>1, <1>3, <1>5, <1>6, <1>7, <1>8

LEMMA OfAfter ==
  ASSUME History, NEW a, Appended(a), NEW n, n = Len(trace[Phase]) + 1, NEW c
  PROVE  /\ Promise!Of(c)' = Promise!Of(c) \cup (IF a.clock = c THEN {n} ELSE {})
         /\ Promise!Of(c) = {i \in DOMAIN trace[Phase] : trace[Phase][i].clock = c}
<1>1. PICK T : T = trace[Phase]
  OBVIOUS
<1>2. PICK T2 : T2 = trace'[Phase']
  OBVIOUS
<1>3. /\ DOMAIN T2 = DOMAIN T \cup {n} /\ n \notin DOMAIN T
      /\ \A i \in DOMAIN T : T2[i] = T[i]
      /\ T2[n] = Tick(a)
  BY <1>1, <1>2, TicksAfter
<1>4. Tick(a).clock = a.clock
  BY DEF Tick
<1>5. Promise!Of(c) = {i \in DOMAIN T : T[i].clock = c}
  BY <1>1 DEF Promise!Of, Promise!Ticks
<1>6. Promise!Of(c)' = {i \in DOMAIN T2 : T2[i].clock = c}
  BY <1>2 DEF Promise!Of, Promise!Ticks
<1> QED
  BY <1>1, <1>3, <1>4, <1>5, <1>6

\* The last tick of a clock is the one just made, or the one it was.
IsLast(i, S) == i \in S /\ \A j \in S : j <= i
LEMMA LastOfIs ==
  ASSUME History, NEW c, Promise!Of(c) # {}
  PROVE  IsLast(Promise!LastOf(c), Promise!Of(c)) /\ Promise!LastOf(c) \in DOMAIN trace[Phase]
<1>1. PICK S : S = Promise!Of(c)
  OBVIOUS
<1>2. PICK m : m = Len(trace[Phase])
  OBVIOUS
<1>3. S \subseteq DOMAIN trace[Phase] /\ m \in Nat /\ DOMAIN trace[Phase] = 1 .. m
  BY <1>1, <1>2, PhaseIs DEF Promise!Of, Promise!Ticks
<1>4. PICK D : D = {m - i : i \in S}
  OBVIOUS
<1>5. D \subseteq Nat /\ D # {}
  BY <1>1, <1>3, <1>4
<1>6. PICK d \in D : \A x \in D : d <= x
  BY <1>5, Least
<1>7. PICK i \in S : d = m - i
  BY <1>4, <1>6
<1>8. \A j \in S : j <= i
  <2>1. ASSUME NEW j \in S PROVE j <= i
    <3>1. d <= m - j
      BY <1>4, <1>6
    <3> QED
      BY <1>3, <1>7, <3>1
  <2> QED
    BY <2>1
<1>9. \E x : IsLast(x, S)
  BY <1>8 DEF IsLast
<1>10. Promise!LastOf(c) = CHOOSE x \in S : \A j \in S : j <= x
  BY <1>1 DEF Promise!LastOf
<1>11. IsLast(Promise!LastOf(c), S)
  <2>1. \E x \in S : \A j \in S : j <= x
    BY <1>9 DEF IsLast
  <2> QED
    BY <1>10, <2>1 DEF IsLast
<1> QED
  BY <1>1, <1>3, <1>11 DEF IsLast

LEMMA LastOfAfter ==
  ASSUME History, NEW a, Appended(a), NEW n, n = Len(trace[Phase]) + 1, NEW c
  PROVE  /\ a.clock = c => Promise!LastOf(c)' = n
         /\ a.clock # c => Promise!LastOf(c)' = Promise!LastOf(c) /\ Promise!Of(c)' = Promise!Of(c)
<1>1. PICK S2 : S2 = Promise!Of(c)'
  OBVIOUS
<1>2. S2 = Promise!Of(c) \cup (IF a.clock = c THEN {n} ELSE {})
  BY <1>1, OfAfter
<1>3. Promise!LastOf(c)' = CHOOSE x \in S2 : \A j \in S2 : j <= x
  BY <1>1 DEF Promise!LastOf
<1>4. CASE a.clock # c
  <2>1. S2 = Promise!Of(c)
    BY <1>2, <1>4
  <2>2. Promise!LastOf(c)' = Promise!LastOf(c)
    BY <1>3, <2>1 DEF Promise!LastOf
  <2> QED
    BY <1>1, <1>4, <2>1, <2>2
<1>5. CASE a.clock = c
  <2>1. n \in Nat /\ \A i \in DOMAIN trace[Phase] : i <= n /\ i \in Nat
    BY TicksAfter
  <2>2. Promise!Of(c) \subseteq DOMAIN trace[Phase]
    BY OfAfter
  <2>3. n \in S2 /\ \A i \in S2 : i <= n /\ i \in Nat
    BY <1>2, <1>5, <2>1, <2>2
  <2>4. \A x \in S2 : (\A j \in S2 : j <= x) => x = n
    BY <2>1, <2>3
  <2> QED
    BY <1>3, <1>5, <2>3, <2>4
<1> QED
  BY <1>4, <1>5

\* What recurs: the clock that ticked is due again after its gap.
Recurrence(a, n) ==
  IF a.clock = "contact" THEN {}
  ELSE {Entry(a.clock, a.time + Promise!Gap(a), DefaultPriority, n, Promise!Gap(a))}

\* The same, of any trajectory T in any world W.
OfIn(T, c) == {i \in DOMAIN T : T[i].clock = c}
LastIn(T, c) == CHOOSE i \in OfIn(T, c) : \A j \in OfIn(T, c) : j <= i
GapIn(W, e) ==
  IF e.clock # "patrol" THEN Interval[e.clock]
  ELSE IF e.time \in W.absences
    THEN IF e.elapsed = 0 THEN Interval["patrol"] ELSE e.elapsed
  ELSE IF e.time \in W.longs \ W.transits THEN LongRoute
  ELSE Interval["patrol"]
DueAgain(T, W, c) ==
  LET e == T[LastIn(T, c)]
  IN Entry(c, e.time + GapIn(W, e), DefaultPriority, LastIn(T, c), GapIn(W, e))

LEMMA InTermsOfTicks ==
  ASSUME NEW T, T = trace[Phase], NEW T2, T2 = trace'[Phase'], UNCHANGED world
  PROVE  /\ \A b : b \in Promise!Recurrences <=>
                  \E c \in Clocks : OfIn(T, c) # {} /\ b = DueAgain(T, world, c)
         /\ \A b : b \in Promise!Recurrences' <=>
                  \E c \in Clocks : OfIn(T2, c) # {} /\ b = DueAgain(T2, world, c)
<1>1. Promise!Recurrences = {DueAgain(trace[Phase], world, c) : c \in {d \in Clocks : OfIn(trace[Phase], d) # {}}}
  BY DEF Promise!Recurrences, Promise!Ticks, Promise!Of, Promise!LastOf, Promise!Gap, DueAgain, LastIn, OfIn, GapIn,
     Promise!Entry, Entry, Promise!DefaultPriority, DefaultPriority
<1>2. Promise!Recurrences' = {DueAgain(trace'[Phase'], world', c) : c \in {d \in Clocks : OfIn(trace'[Phase'], d) # {}}}
  BY DEF Promise!Recurrences, Promise!Ticks, Promise!Of, Promise!LastOf, Promise!Gap, DueAgain, LastIn, OfIn, GapIn,
     Promise!Entry, Entry, Promise!DefaultPriority, DefaultPriority
<1>3. world' = world
  OBVIOUS
<1>4. \A b : b \in Promise!Recurrences <=>
                  \E c \in Clocks : OfIn(T, c) # {} /\ b = DueAgain(T, world, c)
  BY <1>1
<1>5. \A b : b \in Promise!Recurrences' <=>
                  \E c \in Clocks : OfIn(T2, c) # {} /\ b = DueAgain(T2, world, c)
  BY <1>2, <1>3
<1> QED
  BY <1>4, <1>5

LEMMA RecurrencesAfter ==
  ASSUME History, NEW a, Appended(a), NEW n, n = Len(trace[Phase]) + 1
  PROVE  Promise!Recurrences' = {b \in Promise!Recurrences : b.clock # a.clock} \cup Recurrence(a, n)
<1>1. PICK T : T = trace[Phase]
  OBVIOUS
<1>2. PICK T2 : T2 = trace'[Phase']
  OBVIOUS
<1>3. /\ DOMAIN T2 = DOMAIN T \cup {n} /\ n \notin DOMAIN T
      /\ \A i \in DOMAIN T : T2[i] = T[i]
      /\ T2[n] = Tick(a)
  BY <1>1, <1>2, TicksAfter
<1>4. UNCHANGED world /\ a.clock \in Clocks \cup {"contact"}
  BY DEF Appended
<1>5. /\ \A b : b \in Promise!Recurrences <=>
                 \E c \in Clocks : OfIn(T, c) # {} /\ b = DueAgain(T, world, c)
      /\ \A b : b \in Promise!Recurrences' <=>
                 \E c \in Clocks : OfIn(T2, c) # {} /\ b = DueAgain(T2, world, c)
  BY <1>1, <1>2, <1>4, InTermsOfTicks
<1>6. \A c : Promise!Of(c) = OfIn(T, c) /\ Promise!LastOf(c) = LastIn(T, c)
  BY <1>1 DEF Promise!Ticks, Promise!Of, Promise!LastOf, OfIn, LastIn
<1>7. ASSUME NEW c
      PROVE  /\ OfIn(T2, c) # {} <=> (OfIn(T, c) # {} \/ c = a.clock)
             /\ c # a.clock /\ OfIn(T, c) # {} => DueAgain(T2, world, c) = DueAgain(T, world, c)
             /\ c = a.clock => DueAgain(T2, world, c)
                  = Entry(c, a.time + Promise!Gap(a), DefaultPriority, n, Promise!Gap(a))
             /\ DueAgain(T, world, c).clock = c
  <2>1. Promise!Of(c)' = OfIn(T2, c) /\ Promise!LastOf(c)' = LastIn(T2, c)
    BY <1>2 DEF Promise!Ticks, Promise!Of, Promise!LastOf, OfIn, LastIn
  <2>2. OfIn(T2, c) = OfIn(T, c) \cup (IF a.clock = c THEN {n} ELSE {})
    BY <2>1, <1>6, OfAfter
  <2>3. /\ a.clock = c => LastIn(T2, c) = n
        /\ a.clock # c => LastIn(T2, c) = LastIn(T, c)
    BY <2>1, <1>6, LastOfAfter
  <2>4. ASSUME c # a.clock, OfIn(T, c) # {} PROVE DueAgain(T2, world, c) = DueAgain(T, world, c)
    <3>1. LastIn(T, c) \in DOMAIN T
      BY <1>1, <1>6, <2>4, LastOfIs
    <3>2. T2[LastIn(T2, c)] = T[LastIn(T, c)]
      BY <1>3, <2>3, <2>4, <3>1
    <3> QED
      BY <2>3, <2>4, <3>2 DEF DueAgain
  <2>5. ASSUME c = a.clock
        PROVE  DueAgain(T2, world, c) = Entry(c, a.time + Promise!Gap(a), DefaultPriority, n, Promise!Gap(a))
    <3>1. T2[LastIn(T2, c)] = Tick(a) /\ LastIn(T2, c) = n
      BY <1>3, <2>3, <2>5
    <3>2. GapIn(world, Tick(a)) = Promise!Gap(a) /\ Tick(a).time = a.time
      BY DEF GapIn, Promise!Gap, Tick
    <3> QED
      BY <3>1, <3>2 DEF DueAgain
  <2>6. DueAgain(T, world, c).clock = c
    BY DEF DueAgain, Entry
  <2> QED
    BY <2>2, <2>4, <2>5, <2>6
<1>8. "contact" \notin Clocks
  BY ClocksAssumption DEF Priority
<1> QED
  BY <1>4, <1>5, <1>7, <1>8 DEF Recurrence

\* The promise speaks the calendar's vocabulary.
LEMMA SameVocabulary ==
  /\ \A c, t, p, s, d : Promise!Entry(c, t, p, s, d) = Entry(c, t, p, s, d)
  /\ Promise!Priority = Priority
  /\ Promise!DefaultPriority = DefaultPriority
  /\ Promise!ContactPriority = ContactPriority
  /\ \A e : Promise!Tick(e) = Tick(e)
  /\ \A w, e : Promise!Raises(w, e) <=> Raises(w, e)
  /\ \A w, e : Promise!Disbands(w, e) <=> Disbands(w, e)
  /\ \A e, f : Promise!Precedes(e, f) <=> Precedes(e, f)
<1>1. \A c, t, p, s, d : Promise!Entry(c, t, p, s, d) = Entry(c, t, p, s, d)
  BY DEF Promise!Entry, Entry
<1>2. Promise!Priority = Priority
  BY DEF Promise!Priority, Priority
<1>3. Promise!DefaultPriority = DefaultPriority
  BY DEF Promise!DefaultPriority, DefaultPriority
<1>4. Promise!ContactPriority = ContactPriority
  BY DEF Promise!ContactPriority, ContactPriority
<1>5. \A e : Promise!Tick(e) = Tick(e)
  BY DEF Promise!Tick, Tick
<1>6. \A w, e : Promise!Raises(w, e) <=> Raises(w, e)
  BY DEF Promise!Raises, Raises, Promise!Politics, Politics
<1>7. \A w, e : Promise!Disbands(w, e) <=> Disbands(w, e)
  BY DEF Promise!Disbands, Disbands, Promise!Politics, Politics
<1>8. \A e, f : Promise!Precedes(e, f) <=> Precedes(e, f)
  BY DEF Promise!Precedes, Precedes
<1> QED
  BY <1>1, <1>2, <1>3, <1>4, <1>5, <1>6, <1>7, <1>8

RisingsIn(T, W) == {i \in DOMAIN T : Raises(W, T[i])}
IsFirst(b, T, W, active, start) ==
  \/ \E c \in Clocks : /\ OfIn(T, c) = {} /\ (c = "recruitment" => active)
                       /\ b = Entry(c, start, Priority[c], 0, 0)
  \/ \E j \in RisingsIn(T, W) :
       /\ "recruitment" \in Clocks /\ OfIn(T, "recruitment") = {} /\ ~active
       /\ \A k \in RisingsIn(T, W) : j <= k
       /\ b = Entry("recruitment", T[j].time, Priority["recruitment"], j, 0)

LEMMA FirstTicksAre ==
  ASSUME NEW b
  PROVE  /\ b \in Promise!FirstTicks <=> IsFirst(b, trace[Phase], world, Promise!ActiveAtStart, Promise!Start)
         /\ b \in Promise!FirstTicks' <=> IsFirst(b, trace'[Phase'], world', Promise!ActiveAtStart', Promise!Start')
<1>1. /\ \A c, t, p, s, d : Promise!Entry(c, t, p, s, d) = Entry(c, t, p, s, d)
      /\ Promise!Priority = Priority
      /\ \A w, e : Promise!Raises(w, e) <=> Raises(w, e)
  BY SameVocabulary
<1>2. Promise!Risings = RisingsIn(trace[Phase], world)
  BY <1>1 DEF Promise!Risings, Promise!Ticks, RisingsIn
<1>3. Promise!Risings' = RisingsIn(trace'[Phase'], world')
  BY <1>1 DEF Promise!Risings, Promise!Ticks, RisingsIn
<1>4. \A c : Promise!Of(c) = OfIn(trace[Phase], c)
  BY DEF Promise!Of, Promise!Ticks, OfIn
<1>5. b \in Promise!FirstTicks <=> IsFirst(b, trace[Phase], world, Promise!ActiveAtStart, Promise!Start)
  BY <1>1, <1>2, <1>4 DEF Promise!FirstTicks, Promise!Ticks, IsFirst
<1>6. b \in Promise!FirstTicks' <=> IsFirst(b, trace'[Phase'], world', Promise!ActiveAtStart', Promise!Start')
  BY <1>1, <1>3 DEF Promise!FirstTicks, Promise!Ticks, Promise!Of, OfIn, IsFirst
<1> QED
  BY <1>5, <1>6

LEMMA StartStays ==
  ASSUME History, NEW a, Appended(a)
  PROVE  Promise!ActiveAtStart' = Promise!ActiveAtStart /\ Promise!Start' = Promise!Start
<1>1. UNCHANGED world /\ Phase' = Phase
  BY DEF Appended
<1>2. Phase = "observed" => trace'["burn_in"] = trace["burn_in"]
  BY TicksAfter
<1>3. Promise!Start' = Promise!Start
  BY <1>1 DEF Promise!Start
<1>4. Promise!ActiveAtStart' = Promise!ActiveAtStart
  BY <1>1, <1>2 DEF Promise!ActiveAtStart
<1> QED
  BY <1>3, <1>4

\* One tick more: it leaves insurgents active, or none, or as it found them.
LEMMA ActiveOneMore ==
  ASSUME History, NEW a, Appended(a)
  PROVE  /\ ActiveByNow' <=> (ActiveByNow /\ ~Disbands(world, a)) \/ Raises(world, a)
         /\ ActiveSometime' <=> ActiveSometime \/ Raises(world, a)
<1>1. PICK n : n = Len(trace[Phase]) + 1
  OBVIOUS
<1>2. PICK T : T = trace[Phase]
  OBVIOUS
<1>3. PICK T2 : T2 = trace'[Phase']
  OBVIOUS
<1>4. PICK active \in BOOLEAN : active <=> Promise!ActiveAtStart
  OBVIOUS
<1>5. /\ DOMAIN T2 = DOMAIN T \cup {n} /\ n \notin DOMAIN T /\ n \in Nat
      /\ \A i \in DOMAIN T : T2[i] = T[i] /\ i <= n /\ i # n /\ i \in Nat
      /\ T2[n] = Tick(a)
  BY <1>1, <1>2, <1>3, TicksAfter
<1>6. world' = world /\ (active <=> Promise!ActiveAtStart')
  BY <1>4, StartStays DEF Appended
<1>7. /\ Raises(world, T2[n]) <=> Raises(world, a)
      /\ Disbands(world, T2[n]) <=> Disbands(world, a)
  BY <1>5 DEF Raises, Disbands, Tick
<1>8. PICK up : up = [i \in DOMAIN T2 |-> Raises(world, T2[i])]
  OBVIOUS
<1>9. PICK down : down = [i \in DOMAIN T2 |-> Disbands(world, T2[i])]
  OBVIOUS
<1>10. /\ \A i \in DOMAIN T : (up[i] <=> Raises(world, T[i])) /\ (down[i] <=> Disbands(world, T[i]))
       /\ (up[n] <=> Raises(world, a)) /\ (down[n] <=> Disbands(world, a))
       /\ \A i \in DOMAIN T2 : (up[i] <=> Raises(world, T2[i])) /\ (down[i] <=> Disbands(world, T2[i]))
  BY <1>5, <1>7, <1>8, <1>9
<1>11. \A i \in DOMAIN T : n > i /\ ~(i > n)
  BY <1>5
<1>12. ~(n > n)
  BY <1>5
<1>13. ActiveByNow <=> \/ active /\ \A i \in DOMAIN T : ~down[i]
                       \/ \E i \in DOMAIN T : up[i] /\ \A j \in DOMAIN T : j > i => ~down[j]
  BY <1>2, <1>4, <1>10 DEF ActiveByNow
<1>14. ActiveByNow' <=> \/ active /\ \A i \in DOMAIN T2 : ~down[i]
                        \/ \E i \in DOMAIN T2 : up[i] /\ \A j \in DOMAIN T2 : j > i => ~down[j]
  BY <1>3, <1>6, <1>10 DEF ActiveByNow
<1>15. ActiveByNow' <=> (ActiveByNow /\ ~down[n]) \/ up[n]
  BY <1>5, <1>11, <1>12, <1>13, <1>14
<1>16. ActiveSometime' <=> ActiveSometime \/ Raises(world, a)
  BY <1>2, <1>3, <1>4, <1>5, <1>6, <1>7 DEF ActiveSometime
<1> QED
  BY <1>10, <1>15, <1>16

\* Recruitment has started by the time insurgents are active.
LEMMA ActiveHaveRecruited ==
  ASSUME Standing, mode # "new"
  PROVE  insurgents => recruiting
<1>1. ActiveByNow => ActiveSometime
  BY DEF ActiveByNow, ActiveSometime
<1> QED
  BY <1>1 DEF Standing

\* Standing looks at the world, the phase and the trajectory.
LEMMA StandingSame ==
  ASSUME Standing, UNCHANGED <<world, trace, insurgents, recruiting>>, Phase' = Phase,
         mode' = "new" \/ mode # "new"
  PROVE  Standing'
<1>1. PICK active \in BOOLEAN : active <=> Promise!ActiveAtStart
  OBVIOUS
<1>2. active <=> Promise!ActiveAtStart'
  BY <1>1 DEF Promise!ActiveAtStart
<1>3. PICK T : T = trace[Phase]
  OBVIOUS
<1>4. T = trace'[Phase']
  BY <1>3
<1>5. ActiveByNow' <=> ActiveByNow
  BY <1>1, <1>2, <1>3, <1>4 DEF ActiveByNow
<1>6. ActiveSometime' <=> ActiveSometime
  BY <1>1, <1>2, <1>3, <1>4 DEF ActiveSometime
<1> QED
  BY <1>5, <1>6 DEF Standing

\* Before the first tick of a phase those are active who were at its start.
LEMMA NoTickYet ==
  ASSUME trace[Phase] = <<>>
  PROVE  /\ ActiveByNow <=> Promise!ActiveAtStart
         /\ ActiveSometime <=> Promise!ActiveAtStart
<1>1. PICK T : T = trace[Phase]
  OBVIOUS
<1>2. DOMAIN T = {}
  BY <1>1
<1> QED
  BY <1>1, <1>2 DEF ActiveByNow, ActiveSometime

LEMMA NoTickBefore ==
  ASSUME NEW T, T = <<>>, NEW w, NEW b \in BOOLEAN
  PROVE  ActiveAfter(w, b, T) <=> b
<1>1. DOMAIN T = {}
  OBVIOUS
<1> QED
  BY <1>1 DEF ActiveAfter

\* The tick that founds the first insurgent organization starts recruitment.
FirstRising(a) ==
  /\ Raises(world, a)
  /\ ~Promise!ActiveAtStart
  /\ RisingsIn(trace[Phase], world) = {}
  /\ OfIn(trace[Phase], "recruitment") = {}
Founding(a, n) ==
  IF FirstRising(a) /\ "recruitment" \in Clocks
  THEN {Entry("recruitment", a.time, Priority["recruitment"], n, 0)} ELSE {}

LEMMA FirstTicksAfter ==
  ASSUME History, NEW a, Appended(a), NEW n, n = Len(trace[Phase]) + 1
  PROVE  Promise!FirstTicks' = {b \in Promise!FirstTicks : b.clock # a.clock} \cup Founding(a, n)
<1>1. PICK T : T = trace[Phase]
  OBVIOUS
<1>2. PICK T2 : T2 = trace'[Phase']
  OBVIOUS
<1>3. /\ DOMAIN T2 = DOMAIN T \cup {n} /\ n \notin DOMAIN T
      /\ \A i \in DOMAIN T : T2[i] = T[i] /\ i <= n /\ i \in Nat
      /\ T2[n] = Tick(a) /\ n \in Nat
  BY <1>1, <1>2, TicksAfter
<1>4. PICK active : active = Promise!ActiveAtStart
  OBVIOUS
<1>5. PICK start : start = Promise!Start
  OBVIOUS
<1>6. world' = world /\ a.clock \in Clocks \cup {"contact"}
  BY DEF Appended
<1>7. Promise!ActiveAtStart' = active /\ Promise!Start' = start
  BY <1>4, <1>5, StartStays
<1>8. \A b : /\ b \in Promise!FirstTicks <=> IsFirst(b, T, world, active, start)
             /\ b \in Promise!FirstTicks' <=> IsFirst(b, T2, world, active, start)
  <2>1. ASSUME NEW b PROVE /\ b \in Promise!FirstTicks <=> IsFirst(b, T, world, active, start)
                           /\ b \in Promise!FirstTicks' <=> IsFirst(b, T2, world, active, start)
    <3>1. /\ b \in Promise!FirstTicks <=> IsFirst(b, trace[Phase], world, Promise!ActiveAtStart, Promise!Start)
          /\ b \in Promise!FirstTicks' <=> IsFirst(b, trace'[Phase'], world', Promise!ActiveAtStart', Promise!Start')
      BY FirstTicksAre
    <3> QED
      BY <1>1, <1>2, <1>4, <1>5, <1>6, <1>7, <3>1, Zenon
  <2> QED
    BY <2>1
<1>9. \A c : OfIn(T2, c) = OfIn(T, c) \cup (IF a.clock = c THEN {n} ELSE {})
  BY <1>3 DEF OfIn, Tick
<1>10. RisingsIn(T2, world) = RisingsIn(T, world) \cup (IF Raises(world, a) THEN {n} ELSE {})
  <2>1. Raises(world, T2[n]) <=> Raises(world, a)
    BY <1>3 DEF Raises, Tick
  <2> QED
    BY <1>3, <2>1 DEF RisingsIn
<1>11. PICK R : R = RisingsIn(T, world)
  OBVIOUS
<1>12. \A i \in R : i \in DOMAIN T /\ i <= n /\ i # n /\ i \in Nat
  BY <1>3, <1>11 DEF RisingsIn
<1>13. PICK F : F = (OfIn(T, "recruitment") = {} /\ "recruitment" \in Clocks /\ ~active)
  OBVIOUS
<1>14. Raises(world, a) => a.clock # "recruitment"
  BY DEF Raises, Politics
<1>15. Founding(a, n) = IF F /\ Raises(world, a) /\ R = {}
                        THEN {Entry("recruitment", a.time, Priority["recruitment"], n, 0)} ELSE {}
  BY <1>1, <1>4, <1>11, <1>13 DEF Founding, FirstRising
<1>16. \A c, t, p, s, d : Entry(c, t, p, s, d).clock = c
  BY DEF Entry
<1> DEFINE One(U, b) == \E c \in Clocks : /\ OfIn(U, c) = {} /\ (c = "recruitment" => active)
                                       /\ b = Entry(c, start, Priority[c], 0, 0)
           Two(S, U, b) == \E j \in S :
             /\ "recruitment" \in Clocks /\ OfIn(U, "recruitment") = {} /\ ~active
             /\ \A k \in S : j <= k
             /\ b = Entry("recruitment", U[j].time, Priority["recruitment"], j, 0)
<1>17. \A b : IsFirst(b, T, world, active, start) <=> One(T, b) \/ Two(R, T, b)
  BY <1>11 DEF IsFirst
<1>18. PICK R2 : R2 = RisingsIn(T2, world)
  OBVIOUS
<1>19. \A b : IsFirst(b, T2, world, active, start) <=> One(T2, b) \/ Two(R2, T2, b)
  BY <1>18 DEF IsFirst
<1>20. \A b : One(T2, b) <=> One(T, b) /\ b.clock # a.clock
  <2>1. \A c : OfIn(T2, c) = {} <=> OfIn(T, c) = {} /\ a.clock # c
    BY <1>9
  <2> QED
    BY <1>16, <2>1
<1>21. R2 = R \cup (IF Raises(world, a) THEN {n} ELSE {})
  BY <1>10, <1>11, <1>18
<1>22. ASSUME NEW b
       PROVE  Two(R2, T2, b) <=> (Two(R, T, b) /\ b.clock # a.clock) \/ b \in Founding(a, n)
  <2>1. ASSUME Two(R2, T2, b) PROVE (Two(R, T, b) /\ b.clock # a.clock) \/ b \in Founding(a, n)
    <3>1. PICK j \in R2 :
             /\ "recruitment" \in Clocks /\ OfIn(T2, "recruitment") = {} /\ ~active
             /\ \A k \in R2 : j <= k
             /\ b = Entry("recruitment", T2[j].time, Priority["recruitment"], j, 0)
      BY <2>1
    <3>2. F /\ a.clock # "recruitment" /\ OfIn(T, "recruitment") = {}
      BY <1>9, <1>13, <3>1
    <3>3. CASE j \in R
      <4>1. T2[j] = T[j]
        BY <1>3, <1>12, <3>3
      <4> QED
        BY <1>16, <1>21, <3>1, <3>2, <3>3, <4>1
    <3>4. CASE j \notin R
      <4>1. j = n /\ Raises(world, a)
        BY <1>21, <3>1, <3>4
      <4>2. ASSUME NEW k \in R PROVE FALSE
        <5>1. n <= k
          BY <1>21, <3>1, <4>1
        <5> QED
          BY <1>3, <1>12, <5>1
      <4>3. T2[j].time = a.time
        BY <1>3, <4>1 DEF Tick
      <4> QED
        BY <1>15, <3>1, <3>2, <4>1, <4>2, <4>3
    <3> QED
      BY <3>3, <3>4
  <2>2. ASSUME Two(R, T, b), b.clock # a.clock PROVE Two(R2, T2, b)
    <3>1. PICK j \in R :
             /\ "recruitment" \in Clocks /\ OfIn(T, "recruitment") = {} /\ ~active
             /\ \A k \in R : j <= k
             /\ b = Entry("recruitment", T[j].time, Priority["recruitment"], j, 0)
      BY <2>2
    <3>2. a.clock # "recruitment"
      BY <1>16, <2>2, <3>1
    <3>3. OfIn(T2, "recruitment") = {}
      BY <1>9, <3>1, <3>2
    <3>4. \A k \in R2 : j <= k
      BY <1>12, <1>21, <3>1
    <3>5. T2[j] = T[j] /\ j \in R2
      BY <1>3, <1>12, <1>21, <3>1
    <3> QED
      BY <3>1, <3>3, <3>4, <3>5
  <2>3. ASSUME b \in Founding(a, n) PROVE Two(R2, T2, b)
    <3>1. /\ F /\ Raises(world, a) /\ R = {}
          /\ b = Entry("recruitment", a.time, Priority["recruitment"], n, 0)
      BY <1>15, <2>3
    <3>2. R2 = {n} /\ T2[n].time = a.time /\ n <= n
      BY <1>3, <1>21, <3>1 DEF Tick
    <3>3. OfIn(T2, "recruitment") = {}
      BY <1>9, <1>13, <1>14, <3>1
    <3> QED
      BY <1>13, <3>1, <3>2, <3>3
  <2> QED
    BY <2>1, <2>2, <2>3
<1> HIDE DEF One, Two
<1> QED
  BY <1>8, <1>17, <1>19, <1>20, <1>22

\* The contact that the scan at index j of T leads to in phase p.
WindowIn(p, e) ==
  IF p = "burn_in" /\ e.time + Interval["contact_scan"] > 0
  THEN -e.time ELSE Interval["contact_scan"]
ContactOf(T, p, j) ==
  Entry("contact", T[j].time + WindowIn(p, T[j]), ContactPriority, j, WindowIn(p, T[j]))
IsMet(T, p, j) == \E k \in OfIn(T, "contact") : T[k].time = T[j].time + WindowIn(p, T[j])

LEMMA ContactsAre ==
  /\ \A b : b \in Promise!Contacts <=>
       \E j \in OfIn(trace[Phase], "contact_scan") :
         /\ trace[Phase][j].time \in world.meetings /\ ~IsMet(trace[Phase], Phase, j)
         /\ b = ContactOf(trace[Phase], Phase, j)
  /\ \A b : b \in Promise!Contacts' <=>
       \E j \in OfIn(trace'[Phase'], "contact_scan") :
         /\ trace'[Phase'][j].time \in world'.meetings /\ ~IsMet(trace'[Phase'], Phase', j)
         /\ b = ContactOf(trace'[Phase'], Phase', j)
<1>1. /\ \A c, t, p, s, d : Promise!Entry(c, t, p, s, d) = Entry(c, t, p, s, d)
      /\ Promise!ContactPriority = ContactPriority
  BY SameVocabulary
<1>2. \A b : b \in Promise!Contacts <=>
       \E j \in OfIn(trace[Phase], "contact_scan") :
         /\ trace[Phase][j].time \in world.meetings /\ ~IsMet(trace[Phase], Phase, j)
         /\ b = ContactOf(trace[Phase], Phase, j)
  BY <1>1 DEF Promise!Contacts, Promise!Ticks, Promise!Of, Promise!Window, OfIn, IsMet, ContactOf, WindowIn
<1>3. \A b : b \in Promise!Contacts' <=>
       \E j \in OfIn(trace'[Phase'], "contact_scan") :
         /\ trace'[Phase'][j].time \in world'.meetings /\ ~IsMet(trace'[Phase'], Phase', j)
         /\ b = ContactOf(trace'[Phase'], Phase', j)
  BY <1>1 DEF Promise!Contacts, Promise!Ticks, Promise!Of, Promise!Window, OfIn, IsMet, ContactOf, WindowIn
<1> QED
  BY <1>2, <1>3

Meeting(a, n) ==
  IF a.clock = "contact_scan" /\ a.time \in world.meetings
  THEN {Entry("contact", a.time + WindowIn(Phase, a), ContactPriority, n, WindowIn(Phase, a))}
  ELSE {}

\* A contact is realized when its window closes, and a window is never empty.
InOrder(a) ==
  /\ \A i \in DOMAIN trace[Phase] : trace[Phase][i].time <= a.time
  /\ a.clock = "contact_scan" => WindowIn(Phase, a) \in Nat \ {0}
  /\ a.clock = "contact" => \A b \in Promise!Contacts : b.time = a.time

LEMMA ContactsAfter ==
  ASSUME History, NEW a, Appended(a), NEW n, n = Len(trace[Phase]) + 1, InOrder(a)
  PROVE  Promise!Contacts' = {b \in Promise!Contacts : b.clock # a.clock} \cup Meeting(a, n)
<1>1. PICK T : T = trace[Phase]
  OBVIOUS
<1>2. PICK T2 : T2 = trace'[Phase']
  OBVIOUS
<1>3. /\ DOMAIN T2 = DOMAIN T \cup {n} /\ n \notin DOMAIN T
      /\ \A i \in DOMAIN T : T2[i] = T[i]
      /\ T2[n] = Tick(a)
  BY <1>1, <1>2, TicksAfter
<1>4. PICK p : p = Phase
  OBVIOUS
<1>5. world' = world /\ Phase' = p /\ a.clock \in Clocks \cup {"contact"} /\ a.time \in Int
  BY <1>4 DEF Appended
<1>6. PICK M : M = world.meetings
  OBVIOUS
<1>7. /\ \A b : b \in Promise!Contacts <=>
           \E j \in OfIn(T, "contact_scan") :
             T[j].time \in M /\ ~IsMet(T, p, j) /\ b = ContactOf(T, p, j)
      /\ \A b : b \in Promise!Contacts' <=>
           \E j \in OfIn(T2, "contact_scan") :
             T2[j].time \in M /\ ~IsMet(T2, p, j) /\ b = ContactOf(T2, p, j)
  BY <1>1, <1>2, <1>4, <1>5, <1>6, ContactsAre
<1>8. \A c : OfIn(T2, c) = OfIn(T, c) \cup (IF a.clock = c THEN {n} ELSE {})
  BY <1>3 DEF OfIn, Tick
<1>9. \A c : OfIn(T, c) \subseteq DOMAIN T
  BY DEF OfIn
<1>10. \A j \in DOMAIN T : ContactOf(T2, p, j) = ContactOf(T, p, j) /\ T2[j] = T[j]
  BY <1>3 DEF ContactOf
<1>11. \A j : ContactOf(T, p, j).clock = "contact" /\ ContactOf(T, p, j).time = T[j].time + WindowIn(p, T[j])
  BY DEF ContactOf, Entry
<1>12. WindowIn(p, Tick(a)) = WindowIn(p, a) /\ Tick(a).time = a.time
  BY DEF WindowIn, Tick
<1>13. CASE a.clock = "contact"
  <2>1. OfIn(T2, "contact_scan") = OfIn(T, "contact_scan") /\ OfIn(T2, "contact") = OfIn(T, "contact") \cup {n}
    BY <1>8, <1>13
  <2>2. ASSUME NEW j \in OfIn(T, "contact_scan"), T[j].time \in M PROVE IsMet(T2, p, j)
    <3>1. T2[j] = T[j] /\ \A k \in OfIn(T, "contact") : T2[k] = T[k]
      BY <1>9, <1>10
    <3>2. CASE IsMet(T, p, j)
      BY <2>1, <3>1, <3>2 DEF IsMet
    <3>3. CASE ~IsMet(T, p, j)
      <4>1. ContactOf(T, p, j) \in Promise!Contacts
        BY <1>7, <2>2, <3>3
      <4>2. T[j].time + WindowIn(p, T[j]) = a.time
        BY <1>11, <1>13, <4>1 DEF InOrder
      <4>3. T2[n].time = a.time
        BY <1>3, <1>12
      <4> QED
        BY <2>1, <3>1, <4>2, <4>3 DEF IsMet
    <3> QED
      BY <3>2, <3>3
  <2>3. Promise!Contacts' = {}
    BY <1>7, <1>9, <1>10, <2>1, <2>2
  <2>4. \A b \in Promise!Contacts : b.clock = "contact"
    BY <1>7, <1>11
  <2>5. Meeting(a, n) = {}
    BY <1>13 DEF Meeting
  <2> QED
    BY <1>13, <2>3, <2>4, <2>5
<1>14. CASE a.clock # "contact"
  <2>1. OfIn(T2, "contact") = OfIn(T, "contact")
    BY <1>8, <1>14
  <2>2. \A j \in DOMAIN T : IsMet(T2, p, j) <=> IsMet(T, p, j)
    BY <1>9, <1>10, <2>1 DEF IsMet
  <2>3. \A b \in Promise!Contacts : b.clock # a.clock
    BY <1>7, <1>11, <1>14
  <2>4. CASE a.clock = "contact_scan"
    <3>1. OfIn(T2, "contact_scan") = OfIn(T, "contact_scan") \cup {n}
      BY <1>8, <2>4
    <3>2. ~IsMet(T2, p, n)
      <4>1. PICK w : w = WindowIn(p, a)
        OBVIOUS
      <4>2. w \in Nat \ {0}
        BY <1>4, <2>4, <4>1 DEF InOrder
      <4>3. ASSUME NEW k \in OfIn(T, "contact") PROVE T[k].time # a.time + w
        <5>1. k \in DOMAIN T /\ T[k].time <= a.time
          BY <1>1, <1>9 DEF InOrder
        <5>2. T[k].time \in Int
          <6>1. T \in Seq(Memory)
            BY <1>1, PhaseIs
          <6>2. T[k] \in Memory
            BY <5>1, <6>1
          <6> QED
            BY <6>2 DEF Memory
        <5>3. PICK t : t = T[k].time
          OBVIOUS
        <5> QED
          BY <1>5, <4>2, <5>1, <5>2, <5>3
      <4>4. T2[n].time + WindowIn(p, T2[n]) = a.time + w
        BY <1>3, <1>12, <4>1
      <4> QED
        BY <1>9, <1>10, <2>1, <4>3, <4>4 DEF IsMet
    <3>3. T2[n].time = a.time
      BY <1>3, <1>12
    <3>4. \A b : b \in Promise!Contacts' <=> b \in Promise!Contacts \/ (a.time \in M /\ b = ContactOf(T2, p, n))
      BY <1>7, <1>9, <1>10, <2>2, <3>1, <3>2, <3>3
    <3>5. ContactOf(T2, p, n) = Entry("contact", a.time + WindowIn(p, a), ContactPriority, n, WindowIn(p, a))
      BY <1>3, <1>12 DEF ContactOf
    <3>6. Meeting(a, n) = IF a.time \in M THEN {ContactOf(T2, p, n)} ELSE {}
      BY <1>4, <1>6, <2>4, <3>5 DEF Meeting
    <3> QED
      BY <2>3, <3>4, <3>6
  <2>5. CASE a.clock # "contact_scan"
    <3>1. OfIn(T2, "contact_scan") = OfIn(T, "contact_scan")
      BY <1>8, <2>5
    <3>2. \A b : b \in Promise!Contacts' <=> b \in Promise!Contacts
      BY <1>7, <1>9, <1>10, <2>2, <3>1
    <3>3. Meeting(a, n) = {}
      BY <2>5 DEF Meeting
    <3> QED
      BY <2>3, <3>2, <3>3
  <2> QED
    BY <2>4, <2>5
<1> QED
  BY <1>13, <1>14

\* What the promise expects after a tick: the clock's own event is gone, what the tick
\* schedules has come.
Scheduled(a, n) == Founding(a, n) \cup Recurrence(a, n) \cup Meeting(a, n)

LEMMA PendingAfter ==
  ASSUME History, NEW a, Appended(a), NEW n, n = Len(trace[Phase]) + 1, InOrder(a)
  PROVE  Promise!Pending' = {b \in Promise!Pending : b.clock # a.clock} \cup Scheduled(a, n)
<1>1. Promise!FirstTicks' = {b \in Promise!FirstTicks : b.clock # a.clock} \cup Founding(a, n)
  BY FirstTicksAfter
<1>2. Promise!Recurrences' = {b \in Promise!Recurrences : b.clock # a.clock} \cup Recurrence(a, n)
  BY RecurrencesAfter
<1>3. Promise!Contacts' = {b \in Promise!Contacts : b.clock # a.clock} \cup Meeting(a, n)
  BY ContactsAfter
<1>4. Promise!Pending = Promise!FirstTicks \cup Promise!Recurrences \cup Promise!Contacts
  BY DEF Promise!Pending
<1>5. Promise!Pending' = Promise!FirstTicks' \cup Promise!Recurrences' \cup Promise!Contacts'
  BY DEF Promise!Pending
<1> QED
  BY <1>1, <1>2, <1>3, <1>4, <1>5 DEF Scheduled

\* Before the first tick of a phase only the first ticks are pending.
LEMMA PendingAtStart ==
  ASSUME trace'[Phase'] = <<>>
  PROVE  \A b : b \in Promise!Pending' <=>
           \E c \in Clocks : /\ c = "recruitment" => Promise!ActiveAtStart'
                             /\ b = Entry(c, Promise!Start', Priority[c], 0, 0)
<1>1. PICK T : T = <<>>
  OBVIOUS
<1>2. DOMAIN T = {}
  BY <1>1
<1>3. trace'[Phase'] = T
  BY <1>1
<1>4. \A W, c : OfIn(T, c) = {} /\ RisingsIn(T, W) = {}
  BY <1>2 DEF OfIn, RisingsIn
<1>5. ASSUME NEW b
      PROVE  b \in Promise!FirstTicks' <=>
           \E c \in Clocks : /\ c = "recruitment" => Promise!ActiveAtStart'
                             /\ b = Entry(c, Promise!Start', Priority[c], 0, 0)
  <2>1. b \in Promise!FirstTicks' <=> IsFirst(b, T, world', Promise!ActiveAtStart', Promise!Start')
    BY <1>3, FirstTicksAre
  <2>2. PICK active : active = Promise!ActiveAtStart'
    OBVIOUS
  <2>3. PICK start : start = Promise!Start'
    OBVIOUS
  <2>4. IsFirst(b, T, world', active, start) <=>
           \E c \in Clocks : (c = "recruitment" => active) /\ b = Entry(c, start, Priority[c], 0, 0)
    BY <1>4 DEF IsFirst
  <2> QED
    BY <2>1, <2>2, <2>3, <2>4
<1>6. Promise!Contacts' = {}
  BY <1>3, <1>4, ContactsAre
<1>7. Promise!Recurrences' = {}
  <2>1. \A c : Promise!Of(c)' = OfIn(T, c)
    BY <1>3 DEF Promise!Of, Promise!Ticks, OfIn
  <2>2. Promise!Recurrences' = {DueAgain(trace'[Phase'], world', c) : c \in {d \in Clocks : OfIn(trace'[Phase'], d) # {}}}
    BY DEF Promise!Recurrences, Promise!Ticks, Promise!Of, Promise!LastOf, Promise!Gap, DueAgain, LastIn, OfIn, GapIn,
     Promise!Entry, Entry, Promise!DefaultPriority, DefaultPriority
  <2> QED
    BY <1>3, <1>4, <2>2
<1>8. Promise!Pending' = Promise!FirstTicks' \cup Promise!Recurrences' \cup Promise!Contacts'
  BY DEF Promise!Pending
<1> QED
  BY <1>5, <1>6, <1>7, <1>8

Whole == IInv /\ History /\ Exposed /\ Mirror

Handled(e) ==
  /\ e \in queue /\ IsNext(e, queue) /\ e.clock # "checkpoint"
  /\ now' = e.time /\ Handle(e) /\ Record(e)
  /\ UNCHANGED <<world, mode>>
  /\ mode \in {"burn_in", "running"} /\ (mode = "burn_in" => BurnInTakes(e))

LEMMA HandledAppends ==
  ASSUME Whole, NEW e, Handled(e)
  PROVE  IsEvent(e) /\ e.clock \in Clocks \cup {"contact"} /\ Appended(e) /\ Phase' = Phase /\ now <= e.time
<1>1. IsEvent(e) /\ now <= e.time
  BY DEF Handled, Whole, IInv, TypeOK, IsEvent, NeverBackward
<1>2. e.clock \in Clocks \cup {"contact"}
  BY <1>1 DEF Handled, IsEvent
<1>3. Phase' = Phase
  BY DEF Handled, Phase
<1>4. trace' = [trace EXCEPT ![Phase] = Append(@, Tick(e))]
  BY DEF Handled, Record
<1>5. UNCHANGED world
  BY DEF Handled
<1> QED
  BY <1>1, <1>2, <1>3, <1>4, <1>5 DEF Appended, IsEvent

LEMMA HandledInOrder ==
  ASSUME Whole, NEW e, Handled(e)
  PROVE  InOrder(e)
<1>1. IsEvent(e) /\ now <= e.time /\ now \in Int
  BY HandledAppends DEF Whole, IInv, TypeOK
<1>2. ASSUME NEW i \in DOMAIN trace[Phase] PROVE trace[Phase][i].time <= e.time
  <2>1. trace[Phase][i].time <= now
    BY DEF Whole, History, Handled
  <2>2. trace[Phase][i] \in Memory
    BY PhaseIs DEF Whole
  <2>3. PICK t : t = trace[Phase][i].time
    OBVIOUS
  <2>4. t \in Int /\ t <= now /\ e.time \in Int
    BY <1>1, <2>1, <2>2, <2>3 DEF Memory, IsEvent
  <2> QED
    BY <1>1, <2>3, <2>4
<1>3. ASSUME e.clock = "contact_scan" PROVE WindowIn(Phase, e) \in Nat \ {0}
  <2>1. "contact_scan" \in Clocks
    BY <1>3, HandledAppends
  <2>2. Interval["contact_scan"] \in Nat \ {0}
    BY <2>1, IntervalAssumption
  <2>3. e.time \in Int
    BY <1>1 DEF IsEvent
  <2>4. Phase = "burn_in" => e.time < 0
    BY <1>3, <2>3 DEF Handled, Phase, BurnInTakes
  <2> QED
    BY <2>2, <2>3, <2>4 DEF WindowIn
<1>4. ASSUME e.clock = "contact", NEW b \in Promise!Contacts PROVE b.time = e.time
  <2>1. mode # "new"
    BY DEF Handled
  <2>2. PICK origin : Mirrors(origin)
    BY <2>1 DEF Whole, Mirror
  <2>3. b \in Promise!Pending
    BY <1>4 DEF Promise!Pending
  <2>4. PICK f \in Live : b = Known(f, origin[f])
    BY <2>2, <2>3 DEF Mirrors
  <2>5. b.clock = "contact"
    BY <1>4, ContactsAre DEF ContactOf, Entry
  <2>6. f \in queue /\ f.clock = "contact" /\ b.time = f.time
    BY <2>4, <2>5 DEF Live, Known, Entry
  <2>7. f = e
    BY <1>4, <2>6 DEF Whole, Exposed, Handled
  <2> QED
    BY <2>6, <2>7
<1> QED
  BY <1>2, <1>3, <1>4 DEF InOrder

\* The clock of recruitment starts with the first tick that raises insurgents.
LEMMA HandledFounds ==
  ASSUME Whole, NEW e, Handled(e)
  PROVE  StartsRecruiting(e) <=> FirstRising(e)
<1>1. /\ insurgents => recruiting
      /\ recruiting <=> ActiveSometime
      /\ \A i \in DOMAIN trace[Phase] : trace[Phase][i].clock = "recruitment" => recruiting
  <2>1. History /\ Standing /\ mode # "new"
    BY DEF Whole, Handled, History
  <2> QED
    BY <2>1, ActiveHaveRecruited DEF History, Standing
<1>2. Raises(world, e) => e.clock # "contact_scan"
  BY DEF Raises, Politics
<1>3. recruiting <=> Promise!ActiveAtStart \/ RisingsIn(trace[Phase], world) # {}
  BY <1>1 DEF ActiveSometime, RisingsIn
<1>4. ~recruiting => OfIn(trace[Phase], "recruitment") = {}
  BY <1>1 DEF OfIn
<1> QED
  BY <1>1, <1>2, <1>3, <1>4 DEF StartsRecruiting, ActiveOnce, FirstRising

\* The events N that the handling of e adds to the calendar are those that the
\* promise expects of tick n.
Adds(e, n, N) ==
  /\ queue' = (queue \ {e}) \cup N
  /\ {Known(f, n) : f \in N} = Scheduled(e, n)
  /\ \A f \in N : f.clock # "checkpoint" /\ f.sequence >= nextSequence /\ f.sequence \in Nat
  /\ \A f, g \in N : f # g => f.priority # g.priority
  /\ \A f \in N : IF f.clock = "contact" THEN f.priority = ContactPriority /\ e.clock = "contact_scan"
                  ELSE f.priority > ContactPriority
  /\ \A f \in N : f.clock = "contact_scan" => e.clock = "contact_scan"
  /\ \A f, g \in N : /\ f.clock = "contact" /\ g.clock = "contact" => f = g
                     /\ f.clock = "contact" /\ g.clock = "contact_scan" => f.time <= g.time

LEMMA PatrolGap ==
  ASSUME NEW e
  PROVE  Promise!Gap(e) = IF e.clock = "patrol" THEN PatrolInterval(e) ELSE Interval[e.clock]
BY DEF Promise!Gap, PatrolInterval

LEMMA EntryFields ==
  ASSUME NEW c, NEW t, NEW p, NEW s, NEW d, NEW x, x = Entry(c, t, p, s, d)
  PROVE  /\ x.clock = c /\ x.time = t /\ x.priority = p /\ x.sequence = s /\ x.elapsed = d
         /\ \A n : Known(x, n) = Entry(c, t, p, n, d)
BY DEF Entry, Known

LEMMA ExposureIs ==
  ASSUME NEW e, e.clock = "contact_scan", e.time \in Int, Interval["contact_scan"] \in Nat \ {0}
  PROVE  /\ Exposure(e) = WindowIn(Phase, e)
         /\ Exposure(e) \in Int /\ Exposure(e) <= Interval["contact_scan"]
BY DEF Exposure, WindowIn

LEMMA OneOrNone ==
  ASSUME NEW S, NEW x, S = {} \/ S = {x}
  PROVE  Cardinality(S) \in {0, 1}
<1>1. Cardinality({}) = 0 /\ Cardinality({x}) = 1
  BY FS_EmptySet, FS_Singleton, Zenon
<1> QED
  BY <1>1

LEMMA HandledAdds ==
  ASSUME Whole, NEW e, Handled(e), NEW n
  PROVE  \E N : Adds(e, n, N)
<1>1. IsEvent(e) /\ e.clock \in Clocks \cup {"contact"} /\ InOrder(e)
  BY HandledAppends, HandledInOrder
<1>2. StartsRecruiting(e) <=> FirstRising(e)
  BY HandledFounds
<1>3. nextSequence \in Nat
  BY DEF Whole, IInv, TypeOK
<1>4. PICK s : s = nextSequence
  OBVIOUS
<1>5. PICK starts : starts = (StartsRecruiting(e) /\ "recruitment" \in Clocks)
  OBVIOUS
<1>6. PICK start : start = Entry("recruitment", e.time, Priority["recruitment"], s, 0)
  OBVIOUS
<1>7. PICK opp : opp = Opportunities(e, s)
  OBVIOUS
<1>8. PICK before : before = opp \cup (IF starts THEN {start} ELSE {})
  OBVIOUS
<1>9. PICK k : k = s + Cardinality(before)
  OBVIOUS
<1>10. PICK after : after = Rescheduled(e, k)
  OBVIOUS
<1>11. queue' = (queue \ {e}) \cup before \cup after
  <2>1. Handle(e)
    BY DEF Handled
  <2> QED
    BY <2>1, <1>4, <1>5, <1>6, <1>7, <1>8, <1>9, <1>10 DEF Handle
<1>12. PICK g : g = Promise!Gap(e)
  OBVIOUS
<1>13. PICK again : again = Entry(e.clock, e.time + g, DefaultPriority, k, g)
  OBVIOUS
<1>14. after = IF e.clock = "contact" THEN {} ELSE {again}
  <2>1. g = IF e.clock = "patrol" THEN PatrolInterval(e) ELSE Interval[e.clock]
    BY <1>12, PatrolGap
  <2> QED
    BY <1>10, <1>13, <2>1 DEF Rescheduled
<1>15. Recurrence(e, n) = IF e.clock = "contact" THEN {} ELSE {Known(again, n)}
  BY <1>12, <1>13, EntryFields DEF Recurrence
<1>16. Founding(e, n) = IF starts THEN {Known(start, n)} ELSE {}
  <2>1. Known(start, n) = Entry("recruitment", e.time, Priority["recruitment"], n, 0)
    BY <1>6, EntryFields
  <2>2. starts <=> FirstRising(e) /\ "recruitment" \in Clocks
    BY <1>2, <1>5
  <2> QED
    BY <2>1, <2>2 DEF Founding
<1>17. /\ starts => e.clock # "contact_scan" /\ e.clock # "contact" /\ e.clock # "recruitment"
       /\ start.clock = "recruitment" /\ start.priority = Priority["recruitment"] /\ start.sequence = s
       /\ again.clock = e.clock /\ again.time = e.time + g /\ again.priority = DefaultPriority /\ again.sequence = k
  <2>1. starts => Raises(world, e)
    BY <1>2, <1>5 DEF FirstRising
  <2> QED
    BY <1>6, <1>13, <2>1, EntryFields DEF Raises, Politics
<1>18. /\ Priority["recruitment"] \in Nat /\ Priority["recruitment"] > ContactPriority
       /\ Priority["recruitment"] < DefaultPriority /\ DefaultPriority \in Nat /\ DefaultPriority > ContactPriority
  BY DEF Priority, ContactPriority, DefaultPriority
<1> DEFINE N == before \cup after
<1>19. CASE e.clock = "contact"
  <2>1. ~starts /\ opp = {} /\ Meeting(e, n) = {}
    BY <1>7, <1>17, <1>19 DEF Opportunities, Meeting
  <2>2. N = {} /\ Scheduled(e, n) = {}
    BY <1>8, <1>14, <1>15, <1>16, <1>19, <2>1 DEF Scheduled
  <2>3. Adds(e, n, {})
    BY <1>11, <2>2 DEF Adds
  <2> QED
    BY <2>3
<1>20. CASE e.clock = "contact_scan"
  <2>1. "contact_scan" \in Clocks
    BY <1>1, <1>20
  <2>2. Interval["contact_scan"] \in Nat \ {0} /\ e.time \in Int
    BY <1>1, <2>1, IntervalAssumption DEF IsEvent
  <2>3. PICK w : w = Exposure(e)
    OBVIOUS
  <2>4. w = WindowIn(Phase, e) /\ w \in Int /\ w <= Interval["contact_scan"]
    BY <1>20, <2>2, <2>3, ExposureIs
  <2>5. w > 0
    BY <1>1, <1>20, <2>4 DEF InOrder
  <2>6. g = Interval["contact_scan"]
    BY <1>12, <1>20, PatrolGap
  <2>7. PICK c : c = Entry("contact", e.time + w, ContactPriority, s, w)
    OBVIOUS
  <2>8. c.clock = "contact" /\ c.time = e.time + w /\ c.priority = ContactPriority /\ c.sequence = s
        /\ Known(c, n) = Entry("contact", e.time + w, ContactPriority, n, w)
    BY <2>7, EntryFields
  <2>9. PICK met : met = (e.time \in world.meetings)
    OBVIOUS
  <2>10. opp = IF met THEN {c} ELSE {}
    BY <1>7, <1>20, <2>3, <2>5, <2>7, <2>9 DEF Opportunities
  <2>11. Meeting(e, n) = IF met THEN {Known(c, n)} ELSE {}
    BY <1>20, <2>4, <2>8, <2>9 DEF Meeting
  <2>12. ~starts
    BY <1>17, <1>20
  <2>13. before = opp
    BY <1>8, <2>12
  <2>14. k \in Nat /\ k >= s
    <3>1. before = {} \/ before = {c}
      BY <2>10, <2>13
    <3>2. Cardinality(before) \in {0, 1}
      BY <3>1, OneOrNone
    <3> QED
      BY <1>3, <1>4, <1>9, <3>2
  <2>15. e.time + w <= e.time + g
    BY <2>2, <2>4, <2>6
  <2>16. N = (IF met THEN {c} ELSE {}) \cup {again}
    BY <1>14, <1>20, <2>10, <2>13
  <2>17. Scheduled(e, n) = (IF met THEN {Known(c, n)} ELSE {}) \cup {Known(again, n)}
    BY <1>15, <1>16, <1>20, <2>11, <2>12 DEF Scheduled
  <2>18. queue' = (queue \ {e}) \cup N
    BY <1>11
  <2> HIDE DEF N
  <2>19. ContactPriority # DefaultPriority
    BY DEF ContactPriority, DefaultPriority
  <2>20. {Known(f, n) : f \in N} = Scheduled(e, n)
    BY <2>16, <2>17
  <2>21. \A f \in N : f.clock # "checkpoint" /\ f.sequence >= nextSequence /\ f.sequence \in Nat
    BY <1>3, <1>4, <1>17, <1>20, <2>8, <2>14, <2>16
  <2>22. \A f, h \in N : f # h => f.priority # h.priority
    BY <1>17, <2>8, <2>16, <2>19
  <2>23. \A f \in N : IF f.clock = "contact" THEN f.priority = ContactPriority /\ e.clock = "contact_scan"
                      ELSE f.priority > ContactPriority
    BY <1>17, <1>18, <1>20, <2>8, <2>16
  <2>24. \A f, h \in N : /\ f.clock = "contact" /\ h.clock = "contact" => f = h
                         /\ f.clock = "contact" /\ h.clock = "contact_scan" => f.time <= h.time
    BY <1>17, <1>20, <2>8, <2>15, <2>16
  <2> QED
    BY <1>20, <2>18, <2>20, <2>21, <2>22, <2>23, <2>24 DEF Adds
<1>21. CASE e.clock \notin {"contact", "contact_scan"}
  <2>1. opp = {} /\ Meeting(e, n) = {}
    BY <1>7, <1>21 DEF Opportunities, Meeting
  <2>2. before = IF starts THEN {start} ELSE {}
    BY <1>8, <2>1
  <2>3. k \in Nat /\ k >= s
    <3>1. before = {} \/ before = {start}
      BY <2>2
    <3>2. Cardinality(before) \in {0, 1}
      BY <3>1, OneOrNone
    <3> QED
      BY <1>3, <1>4, <1>9, <3>2
  <2>4. N = (IF starts THEN {start} ELSE {}) \cup {again}
    BY <1>14, <1>21, <2>2
  <2>5. Scheduled(e, n) = (IF starts THEN {Known(start, n)} ELSE {}) \cup {Known(again, n)}
    BY <1>15, <1>16, <1>21, <2>1 DEF Scheduled
  <2>6. queue' = (queue \ {e}) \cup N
    BY <1>11
  <2> HIDE DEF N
  <2>7. e.clock # "checkpoint"
    BY DEF Handled
  <2>8. {Known(f, n) : f \in N} = Scheduled(e, n)
    BY <2>4, <2>5
  <2>9. \A f \in N : f.clock # "checkpoint" /\ f.sequence >= nextSequence /\ f.sequence \in Nat
    BY <1>3, <1>4, <1>17, <2>3, <2>4, <2>7
  <2>10. \A f, h \in N : f # h => f.priority # h.priority
    BY <1>17, <1>18, <2>4
  <2>11. \A f \in N : f.clock \notin {"contact", "contact_scan"} /\ f.priority > ContactPriority
    BY <1>17, <1>18, <1>21, <2>4
  <2> QED
    BY <2>6, <2>8, <2>9, <2>10, <2>11 DEF Adds
<1> QED
  BY <1>19, <1>20, <1>21

LEMMA HandledMirror ==
  ASSUME Whole, NEW e, Handled(e)
  PROVE  Mirror'
<1>1. /\ IsEvent(e) /\ e.clock \in Clocks \cup {"contact"} /\ Appended(e) /\ Phase' = Phase
      /\ InOrder(e) /\ mode # "new" /\ History
  BY HandledAppends, HandledInOrder DEF Handled, Whole
<1>2. PICK n : n = Len(trace[Phase]) + 1
  OBVIOUS
<1>3. PICK m : m = Len(trace[Phase])
  OBVIOUS
<1>4. m \in Nat /\ n = m + 1
  BY <1>1, <1>2, <1>3, PhaseIs
<1>5. Len(trace'[Phase']) = n
  BY <1>1, <1>2, TicksAfter
<1>6. PICK P : P = Promise!Pending
  OBVIOUS
<1>7. Promise!Pending' = {b \in P : b.clock # e.clock} \cup Scheduled(e, n)
  BY <1>1, <1>2, <1>6, PendingAfter
<1>8. PICK origin : Mirrors(origin)
  BY <1>1 DEF Whole, Mirror
<1>9. PICK N : Adds(e, n, N)
  BY HandledAdds
<1>10. PICK old : old = Live
  OBVIOUS
<1>11. /\ \A f \in old : origin[f] \in 0 .. m
       /\ P = {Known(f, origin[f]) : f \in old}
       /\ \A f, g \in old : f.sequence < g.sequence => origin[f] <= origin[g]
       /\ \A f, g \in old : f # g /\ origin[f] = origin[g] => f.priority # g.priority
  BY <1>3, <1>6, <1>8, <1>10 DEF Mirrors
<1>12. \A f \in queue : f.sequence < nextSequence /\ f.sequence \in Nat /\ nextSequence \in Nat
  BY DEF Whole, IInv, Numbered, TypeOK
<1>13. /\ queue' = (queue \ {e}) \cup N
       /\ {Known(f, n) : f \in N} = Scheduled(e, n)
       /\ \A f \in N : f.clock # "checkpoint" /\ f.sequence >= nextSequence /\ f.sequence \in Nat
       /\ \A f, g \in N : f # g => f.priority # g.priority
  BY <1>9 DEF Adds
<1>14. N \cap queue = {}
  BY <1>12, <1>13
<1>15. e \in old /\ old \subseteq queue
  BY <1>10 DEF Live, Handled
<1>16. \A f \in old : f.clock = e.clock => f = e
  BY <1>1, <1>15 DEF Whole, IInv, Sole, Exposed
<1>17. PICK new : new = (old \ {e}) \cup N
  OBVIOUS
<1>18. Live' = new
  BY <1>10, <1>13, <1>17 DEF Live
<1>19. PICK other : other = [f \in new |-> IF f \in N THEN n ELSE origin[f]]
  OBVIOUS
<1>20. /\ \A f \in N : other[f] = n
       /\ \A f \in old \ {e} : f \notin N /\ other[f] = origin[f] /\ origin[f] \in 0 .. m
  BY <1>11, <1>14, <1>15, <1>17, <1>19
<1>21. \A f \in new : other[f] \in 0 .. n
  BY <1>4, <1>17, <1>20
<1>22. Promise!Pending' = {Known(f, other[f]) : f \in new}
  <2>1. \A f, i : Known(f, i).clock = f.clock
    BY DEF Known, Entry
  <2>2. {b \in P : b.clock # e.clock} = {Known(f, origin[f]) : f \in old \ {e}}
    BY <1>11, <1>16, <2>1
  <2>3. {Known(f, other[f]) : f \in new} = {Known(f, other[f]) : f \in old \ {e}} \cup {Known(f, other[f]) : f \in N}
    BY <1>17
  <2>4. {Known(f, other[f]) : f \in old \ {e}} = {Known(f, origin[f]) : f \in old \ {e}}
    BY <1>20
  <2>5. {Known(f, other[f]) : f \in N} = {Known(f, n) : f \in N}
    BY <1>20
  <2> QED
    BY <1>7, <1>13, <2>2, <2>3, <2>4, <2>5
<1>23. ASSUME NEW f \in new, NEW g \in new, f.sequence < g.sequence PROVE other[f] <= other[g]
  <2>1. CASE g \in N
    BY <1>4, <1>17, <1>20, <1>21, <2>1
  <2>2. CASE g \in old \ {e} /\ f \in old \ {e}
    BY <1>11, <1>20, <1>23, <2>2
  <2>3. CASE g \in old \ {e} /\ f \in N
    <3>1. ~(f.sequence < g.sequence)
      BY <1>12, <1>13, <1>15, <2>3
    <3> QED
      BY <1>23, <3>1
  <2> QED
    BY <1>17, <2>1, <2>2, <2>3
<1>24. ASSUME NEW f \in new, NEW g \in new, f # g, other[f] = other[g] PROVE f.priority # g.priority
  <2>1. CASE f \in N /\ g \in N
    BY <1>13, <1>24, <2>1
  <2>2. CASE f \in old \ {e} /\ g \in old \ {e}
    BY <1>11, <1>20, <1>24, <2>2
  <2>3. CASE (f \in N /\ g \in old \ {e}) \/ (g \in N /\ f \in old \ {e})
    BY <1>4, <1>20, <1>24, <2>3
  <2> QED
    BY <1>17, <2>1, <2>2, <2>3
<1>25. Mirrors(other)'
  BY <1>5, <1>18, <1>21, <1>22, <1>23, <1>24 DEF Mirrors
<1> QED
  BY <1>25 DEF Mirror

LEMMA NoContactAtScan ==
  ASSUME Whole, NEW e, Handled(e), e.clock = "contact_scan", NEW f \in queue
  PROVE  f.clock # "contact"
<1> SUFFICES ASSUME f.clock = "contact" PROVE FALSE
  OBVIOUS
<1>1. f.time <= e.time /\ f.priority = ContactPriority /\ e.priority > ContactPriority
  BY DEF Whole, Exposed, Handled
<1>2. Precedes(e, f)
  BY DEF Handled, IsNext
<1>3. e.time \in Int /\ f.time \in Int /\ e.priority \in Nat /\ ContactPriority \in Nat
  BY DEF Whole, IInv, TypeOK, Handled, ContactPriority
<1>4. PICK te : te = e.time
  OBVIOUS
<1>5. PICK tf : tf = f.time
  OBVIOUS
<1>6. PICK pe : pe = e.priority
  OBVIOUS
<1>7. PICK c : c = ContactPriority
  OBVIOUS
<1>8. tf <= te /\ pe > c /\ te \in Int /\ tf \in Int /\ pe \in Nat /\ c \in Nat
      /\ (te < tf \/ (te = tf /\ pe < c) \/ (te = tf /\ pe = c))
  BY <1>1, <1>2, <1>3, <1>4, <1>5, <1>6, <1>7 DEF Precedes
<1> QED
  BY <1>8

LEMMA HandledExposed ==
  ASSUME Whole, NEW e, Handled(e)
  PROVE  Exposed'
<1>1. PICK N : Adds(e, 0, N)
  BY HandledAdds
<1>2. queue' = (queue \ {e}) \cup N /\ e \in queue
  BY <1>1 DEF Adds, Handled
<1>3. \A f \in queue' : IF f.clock = "contact" THEN f.priority = ContactPriority ELSE f.priority > ContactPriority
  BY <1>1, <1>2 DEF Adds, Whole, Exposed
<1>4. ASSUME NEW f \in queue', NEW g \in queue', f.clock = "contact"
      PROVE  /\ g.clock = "contact" => f = g
             /\ g.clock = "contact_scan" => f.time <= g.time
  <2>1. CASE f \in queue \ {e} /\ g \in queue \ {e}
    BY <1>4, <2>1 DEF Whole, Exposed
  <2>2. CASE f \in queue \ {e} /\ g \in N
    <3>1. e.clock # "contact_scan"
      BY <1>4, <2>2, NoContactAtScan
    <3> QED
      BY <1>1, <2>2, <3>1 DEF Adds
  <2>3. CASE f \in N /\ g \in queue \ {e}
    <3>1. e.clock = "contact_scan"
      BY <1>1, <1>4, <2>3 DEF Adds
    <3>2. g.clock # "contact"
      BY <2>3, <3>1, NoContactAtScan
    <3>3. g.clock # "contact_scan"
      <4>1. e.clock \in Clocks
        BY <3>1, HandledAppends
      <4> QED
        BY <1>2, <2>3, <3>1, <4>1 DEF Whole, IInv, Sole
    <3> QED
      BY <3>2, <3>3
  <2>4. CASE f \in N /\ g \in N
    BY <1>1, <1>4, <2>4 DEF Adds
  <2> QED
    BY <1>2, <2>1, <2>2, <2>3, <2>4
<1> QED
  BY <1>3, <1>4 DEF Exposed

LEMMA HandledHistory ==
  ASSUME Whole, NEW e, Handled(e)
  PROVE  History'
<1>1. /\ IsEvent(e) /\ Appended(e) /\ Phase' = Phase /\ InOrder(e) /\ History
      /\ mode # "new" /\ mode' = mode /\ world' = world /\ now' = e.time
  BY HandledAppends, HandledInOrder DEF Handled, Whole
<1>2. PICK n : n = Len(trace[Phase]) + 1
  OBVIOUS
<1>3. PICK T : T = trace[Phase]
  OBVIOUS
<1>4. PICK T2 : T2 = trace'[Phase']
  OBVIOUS
<1>5. /\ DOMAIN T2 = DOMAIN T \cup {n} /\ n \notin DOMAIN T
      /\ \A i \in DOMAIN T : T2[i] = T[i]
      /\ T2[n] = Tick(e)
      /\ trace' \in [{"burn_in", "observed"} -> Seq(Memory)]
      /\ \A p \in {"burn_in", "observed"} : p # Phase => trace'[p] = trace[p]
  BY <1>1, <1>2, <1>3, <1>4, TicksAfter
<1>6. Phase \in {"burn_in", "observed"} /\ (mode = "burn_in" => Phase = "burn_in")
  BY <1>1 DEF Phase, History
<1>7. mode' \in {"new", "burn_in"} => trace'["observed"] = <<>>
  BY <1>1, <1>5, <1>6 DEF History
<1>8. mode' = "burn_in" => world'.burnIn > 0
  BY <1>1 DEF History
<1>9. Handle(e)
  BY DEF Handled
<1>10. insurgents' = ActiveOnce(e) /\ recruiting' = (recruiting \/ StartsRecruiting(e))
  BY <1>9 DEF Handle
<1>11. Standing
  BY <1>1 DEF History
<1>12. /\ ActiveByNow' <=> (ActiveByNow /\ ~Disbands(world, e)) \/ Raises(world, e)
       /\ ActiveSometime' <=> ActiveSometime \/ Raises(world, e)
  BY <1>1, ActiveOneMore
<1>13. insurgents' <=> ActiveByNow'
  BY <1>10, <1>11, <1>12 DEF Standing, ActiveOnce
<1>14. \A i \in DOMAIN T : T[i].clock = "recruitment" => recruiting
  BY <1>1, <1>3 DEF History
<1>15. Standing'
  <2>1. Raises(world, e) => e.clock # "contact_scan"
    BY DEF Raises, Politics
  <2>2. (insurgents => recruiting) /\ (recruiting <=> ActiveSometime)
    BY <1>1, <1>11, ActiveHaveRecruited DEF Standing
  <2>3. recruiting' <=> ActiveSometime'
    BY <1>10, <1>12, <2>1, <2>2 DEF StartsRecruiting, ActiveOnce
  <2> QED
    BY <1>13, <2>3 DEF Standing
<1>16. \A i \in DOMAIN T2 : T2[i].time <= now'
  <2>1. e.time <= e.time
    BY <1>1 DEF IsEvent
  <2> QED
    BY <1>1, <1>3, <1>5, <2>1 DEF InOrder, Tick
<1>17. \A i \in DOMAIN T2 : T2[i].clock = "recruitment" => recruiting'
  <2>1. e.clock = "recruitment" => recruiting
    <3>1. ASSUME e.clock = "recruitment" PROVE recruiting
      <4>1. "recruitment" \in Clocks /\ e \in queue
        BY <3>1, HandledAppends DEF Handled
      <4> QED
        BY <1>1, <3>1, <4>1, Zenon DEF Whole, IInv, Ticking
    <3> QED
      BY <3>1
  <2>2. recruiting => recruiting'
    BY <1>10
  <2>3. Tick(e).clock = e.clock
    BY DEF Tick
  <2>4. ASSUME NEW i \in DOMAIN T2, T2[i].clock = "recruitment" PROVE recruiting'
    <3>1. CASE i = n
      BY <1>5, <2>1, <2>2, <2>3, <2>4, <3>1
    <3>2. CASE i \in DOMAIN T
      BY <1>5, <1>14, <2>2, <2>4, <3>2
    <3> QED
      BY <1>5, <3>1, <3>2
  <2> QED
    BY <2>4
<1>18. trace' \in [{"burn_in", "observed"} -> Seq(Memory)] /\ mode' # "new" /\ world' = world
  BY <1>1, <1>5
<1>19. \A i \in DOMAIN trace'[Phase'] : trace'[Phase'][i].time <= now'
                  /\ (trace'[Phase'][i].clock = "recruitment" => recruiting')
  BY <1>4, <1>16, <1>17
<1> QED
  BY <1>7, <1>8, <1>15, <1>18, <1>19 DEF History

\* The promise looks at the world, the phase and the trajectory, at nothing else.
LEMMA PendingSame ==
  ASSUME UNCHANGED <<world, trace>>, Phase' = Phase
  PROVE  Promise!Pending' = Promise!Pending
<1>1. PICK T : T = trace[Phase]
  OBVIOUS
<1>2. world' = world /\ trace'[Phase'] = T /\ Phase' = Phase /\ trace'["burn_in"] = trace["burn_in"]
  BY <1>1
<1>3. Promise!Recurrences' = Promise!Recurrences
  <2>1. /\ \A b : b \in Promise!Recurrences <=>
               \E c \in Clocks : OfIn(T, c) # {} /\ b = DueAgain(T, world, c)
        /\ \A b : b \in Promise!Recurrences' <=>
               \E c \in Clocks : OfIn(T, c) # {} /\ b = DueAgain(T, world, c)
    BY <1>1, <1>2, InTermsOfTicks
  <2> QED
    BY <2>1
<1>4. Promise!FirstTicks' = Promise!FirstTicks
  <2>1. Promise!Start' = Promise!Start
    BY <1>2 DEF Promise!Start
  <2>2. Promise!ActiveAtStart' = Promise!ActiveAtStart
    BY <1>2 DEF Promise!ActiveAtStart
  <2>3. \A b : /\ b \in Promise!FirstTicks <=> IsFirst(b, trace[Phase], world, Promise!ActiveAtStart, Promise!Start)
               /\ b \in Promise!FirstTicks' <=> IsFirst(b, trace'[Phase'], world', Promise!ActiveAtStart', Promise!Start')
    BY FirstTicksAre
  <2>4. \A b : b \in Promise!FirstTicks' <=> b \in Promise!FirstTicks
    BY <1>1, <1>2, <2>1, <2>2, <2>3, Zenon
  <2> QED
    BY <2>4
<1>5. Promise!Contacts' = Promise!Contacts
  <2>1. \A b : b \in Promise!Contacts <=>
       \E j \in OfIn(T, "contact_scan") :
         T[j].time \in world.meetings /\ ~IsMet(T, Phase, j) /\ b = ContactOf(T, Phase, j)
    BY <1>1, ContactsAre
  <2>2. \A b : b \in Promise!Contacts' <=>
       \E j \in OfIn(T, "contact_scan") :
         T[j].time \in world.meetings /\ ~IsMet(T, Phase, j) /\ b = ContactOf(T, Phase, j)
    BY <1>2, ContactsAre
  <2> QED
    BY <2>1, <2>2
<1> QED
  BY <1>3, <1>4, <1>5 DEF Promise!Pending

LEMMA MirrorSame ==
  ASSUME UNCHANGED <<world, trace>>, Phase' = Phase, Live' = Live, Mirror, mode # "new"
  PROVE  Mirror'
<1>1. PICK origin : Mirrors(origin)
  BY DEF Mirror
<1>2. Promise!Pending' = Promise!Pending /\ Live' = Live /\ trace'[Phase'] = trace[Phase]
  BY PendingSame
<1>3. /\ \A e \in Live' : origin[e] \in 0 .. Len(trace'[Phase'])
      /\ Promise!Pending' = {Known(e, origin[e]) : e \in Live'}
      /\ \A e, f \in Live' : e.sequence < f.sequence => origin[e] <= origin[f]
      /\ \A e, f \in Live' : e # f /\ origin[e] = origin[f] => e.priority # f.priority
  <2>1. PICK live : live = Live
    OBVIOUS
  <2>2. PICK pending : pending = Promise!Pending
    OBVIOUS
  <2>3. PICK m : m = Len(trace[Phase])
    OBVIOUS
  <2>4. /\ \A e \in live : origin[e] \in 0 .. m
        /\ pending = {Known(e, origin[e]) : e \in live}
        /\ \A e, f \in live : e.sequence < f.sequence => origin[e] <= origin[f]
        /\ \A e, f \in live : e # f /\ origin[e] = origin[f] => e.priority # f.priority
    BY <1>1, <2>1, <2>2, <2>3 DEF Mirrors
  <2>5. Live' = live /\ Promise!Pending' = pending /\ Len(trace'[Phase']) = m
    BY <1>2, <2>1, <2>2, <2>3
  <2> QED
    BY <2>4, <2>5
<1>4. Mirrors(origin)'
  BY <1>3 DEF Mirrors
<1> QED
  BY <1>4 DEF Mirror

LEMMA HistorySame ==
  ASSUME History, mode # "new", mode' # "new", Phase' = Phase,
         UNCHANGED <<world, trace, insurgents, recruiting>>,
         mode' = mode \/ mode' # "burn_in", now \in Int, now' \in Int, now <= now'
  PROVE  History'
<1>1. /\ trace' \in [{"burn_in", "observed"} -> Seq(Memory)]
      /\ mode' \in {"new", "burn_in"} => trace'["observed"] = <<>>
      /\ mode' = "burn_in" => world'.burnIn > 0
  BY DEF History
<1>2. Standing'
  BY StandingSame DEF History
<1>3. trace'[Phase'] = trace[Phase]
  OBVIOUS
<1>4. ASSUME NEW i \in DOMAIN trace[Phase]
      PROVE  trace[Phase][i].time <= now' /\ (trace[Phase][i].clock = "recruitment" => recruiting')
  <2>1. trace[Phase][i] \in Memory
    BY PhaseIs
  <2>2. PICK t : t = trace[Phase][i].time
    OBVIOUS
  <2>3. t \in Int /\ t <= now
    BY <2>1, <2>2 DEF Memory, History
  <2>4. t <= now'
    BY <2>3
  <2>5. trace[Phase][i].clock = "recruitment" => recruiting'
    BY DEF History
  <2> QED
    BY <2>2, <2>4, <2>5
<1> QED
  BY <1>1, <1>2, <1>3, <1>4 DEF History

\* A tick of the checkpoint clock is none of the promise's business, whether
\* the clock comes back or not.
LEMMA CheckpointTicks ==
  ASSUME Whole, mode \in {"burn_in", "running"}, mode' = mode,
         UNCHANGED <<world, trace, insurgents, recruiting>>,
         NEW e \in queue, e.clock = "checkpoint", e.time >= now, now' = e.time,
         NEW back, \A a \in back : a.clock = "checkpoint" /\ a.priority > ContactPriority,
         queue' = (queue \ {e}) \cup back
  PROVE  History' /\ Exposed' /\ Mirror' /\ UNCHANGED <<world, trace>> /\ Phase' = Phase
<1>1. mode # "new" /\ Phase' = Phase
  BY DEF Phase
<1>2. Live' = Live
  BY DEF Live
<1>3. Exposed'
  <2>1. Exposed /\ \A f \in queue' : f \in queue \/ f \in back
    BY DEF Whole
  <2> QED
    BY <2>1 DEF Exposed
<1>4. History'
  <2>1. now \in Int /\ now' \in Int /\ now <= now' /\ History /\ mode' # "new"
    BY <1>1 DEF Whole, IInv, TypeOK
  <2> QED
    BY <1>1, <2>1, HistorySame
<1>5. Mirror'
  BY <1>1, <1>2, MirrorSame DEF Whole
<1> QED
  BY <1>1, <1>3, <1>4, <1>5

Checkpointed(e) ==
  /\ e \in queue /\ e.clock = "checkpoint" /\ e.time >= now
  /\ now' = e.time /\ Handle(e) /\ Record(e)
  /\ UNCHANGED <<world, mode>> /\ mode \in {"burn_in", "running"}

LEMMA CheckpointKeeps ==
  ASSUME Whole, NEW e, Checkpointed(e)
  PROVE  History' /\ Exposed' /\ Mirror' /\ UNCHANGED <<world, trace>> /\ Phase' = Phase
<1>1. mode # "new" /\ mode' = mode /\ UNCHANGED <<world, trace>>
  BY DEF Checkpointed, Record
<1>2. ~StartsRecruiting(e) /\ ~Raises(world, e) /\ ~Disbands(world, e) /\ Opportunities(e, nextSequence) = {}
  <2>1. insurgents => recruiting
    BY <1>1, ActiveHaveRecruited DEF Whole, History
  <2> QED
    BY <2>1 DEF StartsRecruiting, ActiveOnce, Raises, Disbands, Politics, Opportunities, Checkpointed
<1>3. PICK s : s = nextSequence + Cardinality({})
  OBVIOUS
<1>4. /\ queue' = (queue \ {e}) \cup Rescheduled(e, s)
      /\ insurgents' = insurgents /\ recruiting' = recruiting
  <2>1. Handle(e) /\ insurgents \in BOOLEAN /\ recruiting \in BOOLEAN
    BY DEF Checkpointed, Whole, IInv, TypeOK
  <2>2. queue' = (queue \ {e}) \cup Rescheduled(e, s)
    BY <1>2, <1>3, <2>1 DEF Handle
  <2>3. insurgents' = ((insurgents /\ ~FALSE) \/ FALSE) /\ recruiting' = (recruiting \/ FALSE)
    BY <1>2, <2>1 DEF Handle, ActiveOnce
  <2> QED
    BY <2>1, <2>2, <2>3
<1>5. \A a \in Rescheduled(e, s) : a.clock = "checkpoint" /\ a.priority > ContactPriority
  <2>1. PICK a : a = Entry("checkpoint", e.time + Interval["checkpoint"], DefaultPriority, s, Interval["checkpoint"])
    OBVIOUS
  <2>2. Rescheduled(e, s) = {a} /\ DefaultPriority > ContactPriority
    BY <2>1 DEF Checkpointed, Rescheduled, DefaultPriority, ContactPriority
  <2> QED
    BY <2>1, <2>2, EntryFields
<1> QED
  BY <1>1, <1>4, <1>5, CheckpointTicks DEF Checkpointed

LEMMA DropKeeps ==
  ASSUME Whole, DropCheckpoint
  PROVE  History' /\ Exposed' /\ Mirror' /\ UNCHANGED <<world, trace>> /\ Phase' = Phase
<1>1. PICK e \in queue : e.clock = "checkpoint" /\ queue' = queue \ {e}
  BY DEF DropCheckpoint
<1>2. mode # "new" /\ mode' = mode /\ UNCHANGED <<world, trace, insurgents, recruiting, now>> /\ Phase' = Phase
  BY DEF DropCheckpoint, Phase
<1>3. Live' = Live
  BY <1>1 DEF Live
<1>4. Exposed'
  BY <1>1 DEF Exposed, Whole
<1>5. History'
  <2>1. now \in Int /\ now' \in Int /\ now <= now' /\ History /\ mode' # "new"
    BY <1>2 DEF Whole, IInv, TypeOK
  <2> QED
    BY <1>2, <2>1, HistorySame
<1> QED
  BY <1>2, <1>3, <1>4, <1>5, MirrorSame DEF Whole

LEMMA ReturnKeeps ==
  ASSUME Whole, mode = "running", mode' = "idle", now' \in Int, now <= now',
         UNCHANGED <<world, trace, insurgents, recruiting, queue>>
  PROVE  History' /\ Exposed' /\ Mirror' /\ UNCHANGED <<world, trace>> /\ Phase' = Phase
<1>1. mode # "new" /\ mode' = "idle" /\ UNCHANGED <<world, trace, insurgents, recruiting, queue>> /\ Phase' = Phase
  BY DEF Phase
<1>2. Live' = Live /\ Exposed'
  BY <1>1 DEF Live, Exposed, Whole
<1>3. History'
  <2>1. History /\ mode' # "new" /\ now \in Int
    BY <1>1 DEF Whole, IInv, TypeOK
  <2> QED
    BY <1>1, <2>1, HistorySame
<1> QED
  BY <1>1, <1>2, <1>3, MirrorSame DEF Whole

\* A calendar that has just been populated is the one the promise starts with.
LEMMA PopulateMirrors ==
  ASSUME NEW t \in Int, NEW b \in BOOLEAN, Populate(t, b), trace'[Phase'] = <<>>,
         Promise!Start' = t, Promise!ActiveAtStart' <=> insurgents
  PROVE  Exposed' /\ Mirror'
<1> DEFINE first == (Clocks \ (IF insurgents THEN {} ELSE {"recruitment"}))
                      \cup (IF b THEN {"checkpoint"} ELSE {})
           rank(c) == Cardinality({d \in first : Priority[d] < Priority[c]})
<1>1. queue' = {Entry(c, t, Priority[c], rank(c), 0) : c \in first}
  BY DEF Populate, Populated
<1>2. first \subseteq DOMAIN Priority
  BY ClocksAssumption DEF Priority
<1>3. \A c \in Clocks : c \in first <=> (c = "recruitment" => insurgents)
  BY ClocksAssumption DEF Priority
<1>4. \A c \in first : c \in Clocks \/ c = "checkpoint"
  OBVIOUS
<1>5. "checkpoint" \notin Clocks /\ "contact" \notin Clocks
  BY ClocksAssumption DEF Priority
<1> HIDE DEF first, rank
<1>6. \A e \in queue' : \E c \in first : /\ e.clock = c /\ e.priority = Priority[c]
                                         /\ \A i : Known(e, i) = Entry(c, t, Priority[c], i, 0)
  BY <1>1, EntryFields
<1>7. \A c \in first : \E e \in queue' : /\ e.clock = c /\ e.priority = Priority[c]
                                         /\ \A i : Known(e, i) = Entry(c, t, Priority[c], i, 0)
  BY <1>1, EntryFields
<1>8. Exposed'
  <2>1. \A e \in queue' : e.clock # "contact" /\ e.priority > ContactPriority
    BY <1>2, <1>4, <1>5, <1>6, PriorityBounds
  <2> QED
    BY <2>1 DEF Exposed
<1>9. PICK live : live = Live'
  OBVIOUS
<1>10. live = {e \in queue' : e.clock # "checkpoint"}
  BY <1>9 DEF Live
<1>11. PICK zero : zero = [f \in live |-> 0]
  OBVIOUS
<1>12. \A f \in live : zero[f] = 0
  BY <1>11
<1>13. Promise!Pending' = {Known(f, zero[f]) : f \in live}
  <2>1. \A x : x \in Promise!Pending' <=>
          \E c \in Clocks : /\ c = "recruitment" => insurgents
                            /\ x = Entry(c, t, Priority[c], 0, 0)
    BY PendingAtStart
  <2>2. \A x : x \in Promise!Pending' => x \in {Known(f, zero[f]) : f \in live}
    BY <1>3, <1>5, <1>7, <1>10, <1>12, <2>1
  <2>3. \A f \in live : Known(f, zero[f]) \in Promise!Pending'
    BY <1>3, <1>4, <1>6, <1>10, <1>12, <2>1
  <2> QED
    BY <2>2, <2>3
<1>14. \A e, f \in live : e # f => e.priority # f.priority
  <2>1. ASSUME NEW e \in live, NEW f \in live, e.priority = f.priority PROVE e = f
    <3>1. PICK c \in first : e = Entry(c, t, Priority[c], rank(c), 0)
      BY <1>1, <1>10
    <3>2. PICK d \in first : f = Entry(d, t, Priority[d], rank(d), 0)
      BY <1>1, <1>10
    <3>3. Priority[c] = Priority[d]
      BY <2>1, <3>1, <3>2, EntryFields
    <3>4. c = d
      BY <1>2, <3>3, PriorityFacts
    <3> QED
      BY <3>1, <3>2, <3>4
  <2> QED
    BY <2>1
<1>15. Mirrors(zero)'
  <2>1. Len(trace'[Phase']) = 0
    OBVIOUS
  <2>2. \A e \in live : zero[e] \in 0 .. 0
    BY <1>12
  <2>3. \A e, f \in live : zero[e] <= zero[f]
    BY <1>12
  <2> QED
    BY <1>9, <1>13, <1>14, <2>1, <2>2, <2>3 DEF Mirrors
<1> QED
  BY <1>8, <1>15 DEF Mirror

LEMMA NewPhase ==
  ASSUME History, mode = "new" \/ mode = "burn_in", world' = world, trace' = trace, mode' \in {"burn_in", "running"},
         mode' = "burn_in" => world.burnIn > 0,
         mode = "new" \/ mode' = "running",
         insurgents' = insurgents, recruiting' = insurgents, world.founded \in BOOLEAN
  PROVE  /\ trace'[Phase'] = <<>>
         /\ Promise!ActiveAtStart' <=> insurgents
         /\ History'
<1>1. /\ trace["observed"] = <<>>
      /\ mode = "new" => trace["burn_in"] = <<>>
      /\ trace \in [{"burn_in", "observed"} -> Seq(Memory)]
      /\ mode = "burn_in" => world.burnIn > 0
      /\ insurgents <=> ActiveByNow
  BY DEF History, Standing
<1>2. DOMAIN <<>> = {}
  OBVIOUS
<1>3. Phase' = IF mode' = "burn_in" THEN "burn_in" ELSE "observed"
  BY DEF Phase
<1>4. trace'[Phase'] = <<>>
  BY <1>1, <1>3
<1>5. Promise!ActiveAtStart' <=> insurgents
  <2>1. PICK T : T = trace["burn_in"]
    OBVIOUS
  <2>2. PICK founded \in BOOLEAN : founded = world.founded
    OBVIOUS
  <2>3. Promise!ActiveAtStart' <=>
          \/ mode' = "burn_in" /\ founded
          \/ mode' # "burn_in" /\ ActiveAfter(world, founded, T)
    BY <1>3, <2>1, <2>2, SameVocabulary DEF Promise!ActiveAtStart, Promise!ActiveAfter, ActiveAfter
  <2>4. Promise!ActiveAtStart <=>
          \/ Phase = "burn_in" /\ founded
          \/ Phase = "observed" /\ ActiveAfter(world, founded, T)
    BY <2>1, <2>2, SameVocabulary DEF Promise!ActiveAtStart, Promise!ActiveAfter, ActiveAfter
  <2>5. CASE mode = "new"
    <3>1. T = <<>> /\ trace[Phase] = <<>> /\ Phase \in {"burn_in", "observed"}
      BY <1>1, <2>1, <2>5 DEF Phase
    <3>2. ActiveAfter(world, founded, T) <=> founded
      BY <3>1, NoTickBefore
    <3>3. insurgents <=> Promise!ActiveAtStart
      BY <1>1, <3>1, NoTickYet
    <3> QED
      BY <2>3, <2>4, <3>1, <3>2, <3>3
  <2>6. CASE mode = "burn_in"
    <3>1. Phase = "burn_in" /\ mode' # "burn_in"
      BY <1>1, <2>6 DEF Phase
    <3>2. ActiveByNow <=> ActiveAfter(world, founded, T)
      BY <2>1, <2>4, <3>1 DEF ActiveByNow, ActiveAfter
    <3> QED
      BY <1>1, <2>3, <3>1, <3>2
  <2> QED
    BY <2>5, <2>6
<1>6. History'
  <2>1. /\ trace' \in [{"burn_in", "observed"} -> Seq(Memory)]
        /\ mode' \in {"new", "burn_in"} => trace'["observed"] = <<>>
        /\ mode' # "new"
        /\ mode' = "burn_in" => world'.burnIn > 0
    BY <1>1
  <2>2. /\ ActiveByNow' <=> Promise!ActiveAtStart'
        /\ ActiveSometime' <=> Promise!ActiveAtStart'
    <3>1. PICK T : T = trace'[Phase']
      OBVIOUS
    <3>2. DOMAIN T = {}
      BY <1>4, <3>1
    <3> QED
      BY <3>1, <3>2 DEF ActiveByNow, ActiveSometime
  <2>3. Standing'
    BY <1>5, <2>2 DEF Standing
  <2>4. \A i \in DOMAIN trace'[Phase'] : trace'[Phase'][i].time <= now'
             /\ (trace'[Phase'][i].clock = "recruitment" => recruiting')
    BY <1>2, <1>4
  <2> QED
    BY <2>1, <2>3, <2>4 DEF History
<1> QED
  BY <1>4, <1>5, <1>6

LEMMA RunKeeps ==
  ASSUME Whole, NEW u \in 0 .. Horizon, NEW m, NEW c \in {None, TRUE, FALSE}, Run(u, m, c)
  PROVE  History' /\ Exposed' /\ Mirror' /\ UNCHANGED <<world, trace>> /\ Phase' = Phase
<1>1. UNCHANGED <<world, trace, saved, insurgents>> /\ mode \in {"new", "idle"}
  BY DEF Run
<1>2. CASE mode = "new"
  <2>1. /\ Populate(-world.burnIn, checkpointing')
        /\ mode' = IF world.burnIn > 0 THEN "burn_in" ELSE "running"
    BY <1>2 DEF Run
  <2>2. world.burnIn \in Nat
    BY DEF Whole, IInv, IsWorld
  <2>3. checkpointing' \in BOOLEAN
    <3>1. checkpointing' = IF c = None THEN checkpointing ELSE c
      BY DEF Run
    <3>2. checkpointing \in BOOLEAN
      BY DEF Whole, IInv, TypeOK
    <3> QED
      BY <3>1, <3>2
  <2>4. Phase' = Phase
    BY <1>1, <1>2, <2>1 DEF Phase
  <2>5. recruiting' = insurgents
    BY <2>1 DEF Populate
  <2>6. /\ trace'[Phase'] = <<>>
        /\ Promise!ActiveAtStart' <=> insurgents
        /\ History'
    BY <1>1, <1>2, <2>1, <2>5, NewPhase DEF Whole, IInv, IsWorld
  <2>7. Promise!Start' = -world.burnIn
    BY <1>1, <2>1, <2>2 DEF Promise!Start, Phase
  <2>8. PICK t : t = -world.burnIn
    OBVIOUS
  <2>9. t \in Int /\ Populate(t, checkpointing') /\ Promise!Start' = t
    BY <2>1, <2>2, <2>7, <2>8
  <2>10. Exposed' /\ Mirror'
    BY <2>3, <2>6, <2>9, PopulateMirrors
  <2> QED
    BY <1>1, <2>4, <2>6, <2>10
<1>3. CASE mode = "idle"
  <2>1. UNCHANGED <<queue, now, recruiting>> /\ mode' \in {"idle", "running"}
    BY <1>3 DEF Run
  <2>2. Phase' = Phase
    BY <1>1, <1>3, <2>1 DEF Phase
  <2>3. Live' = Live /\ Exposed'
    BY <2>1 DEF Live, Exposed, Whole
  <2>4. now \in Int /\ now' \in Int /\ now <= now' /\ History /\ mode # "new" /\ mode' # "new" /\ mode' # "burn_in"
    BY <1>3, <2>1 DEF Whole, IInv, TypeOK
  <2>5. History'
    BY <1>1, <2>1, <2>2, <2>4, HistorySame
  <2>6. Mirror'
    BY <1>1, <2>2, <2>3, <2>4, MirrorSame DEF Whole
  <2> QED
    BY <1>1, <2>2, <2>3, <2>5, <2>6
<1> QED
  BY <1>1, <1>2, <1>3

LEMMA BurnInEndsKeeps ==
  ASSUME Whole, BurnInEnds
  PROVE  History' /\ Exposed' /\ Mirror'
<1>1. /\ mode = "burn_in" /\ mode' = "running" /\ UNCHANGED <<world, trace, insurgents>>
      /\ Populate(0, checkpointing)
  BY DEF BurnInEnds
<1>2. checkpointing \in BOOLEAN /\ 0 \in Int
  BY DEF Whole, IInv, TypeOK
<1>3. recruiting' = insurgents
  BY <1>1 DEF Populate
<1>4. /\ trace'[Phase'] = <<>>
      /\ Promise!ActiveAtStart' <=> insurgents
      /\ History'
  BY <1>1, <1>3, NewPhase DEF Whole, IInv, IsWorld
<1>5. Promise!Start' = 0
  BY <1>1 DEF Promise!Start, Phase
<1>6. Exposed' /\ Mirror'
  BY <1>1, <1>2, <1>4, <1>5, PopulateMirrors
<1> QED
  BY <1>4, <1>6

-----------------------------------------------------------------------------

\* The next event of the calendar is the next event of the promise.
LEMMA NextIsNext ==
  ASSUME Whole, mode # "new", NEW e, IsNext(e, queue), e.clock # "checkpoint"
  PROVE  \E b \in Promise!Pending : Promise!IsNext(b, Promise!Pending) /\ b.clock = e.clock
                                      /\ b.time = e.time /\ Tick(b) = Tick(e)
<1>1. PICK origin : Mirrors(origin)
  BY DEF Whole, Mirror
<1>2. PICK live : live = Live
  OBVIOUS
<1>3. /\ Promise!Pending = {Known(f, origin[f]) : f \in live}
      /\ \A f \in live : origin[f] \in 0 .. Len(trace[Phase])
      /\ \A f, g \in live : f.sequence < g.sequence => origin[f] <= origin[g]
      /\ \A f, g \in live : f # g /\ origin[f] = origin[g] => f.priority # g.priority
  BY <1>1, <1>2 DEF Mirrors
<1>4. e \in live /\ \A f \in live : f # e => Precedes(e, f)
  BY <1>2 DEF Live, IsNext
<1>5. PICK b : b = Known(e, origin[e])
  OBVIOUS
<1>6. \A f, i : /\ Known(f, i).clock = f.clock /\ Known(f, i).time = f.time
                /\ Known(f, i).priority = f.priority /\ Known(f, i).sequence = i
                /\ Known(f, i).elapsed = f.elapsed
  BY DEF Known, Entry
<1>7. Len(trace[Phase]) \in Nat
  BY PhaseIs DEF Whole
<1>8. ASSUME NEW a \in Promise!Pending, a # b PROVE Precedes(b, a)
  <2>1. PICK f \in live : a = Known(f, origin[f])
    BY <1>3, <1>8
  <2>2. f # e
    BY <1>5, <1>8, <2>1
  <2>3. Precedes(e, f)
    BY <1>4, <2>2
  <2>4. /\ b.time = e.time /\ b.priority = e.priority /\ b.sequence = origin[e]
        /\ a.time = f.time /\ a.priority = f.priority /\ a.sequence = origin[f]
    BY <1>5, <1>6, <2>1
  <2>5. CASE e.time = f.time /\ e.priority = f.priority /\ e.sequence < f.sequence
    <3>1. origin[e] <= origin[f] /\ origin[e] # origin[f]
      BY <1>3, <1>4, <2>1, <2>2, <2>5
    <3>2. origin[e] \in Nat /\ origin[f] \in Nat
      BY <1>3, <1>4, <1>7, <2>1
    <3>3. PICK i : i = origin[e]
      OBVIOUS
    <3>4. PICK j : j = origin[f]
      OBVIOUS
    <3>5. i < j
      BY <3>1, <3>2, <3>3, <3>4
    <3> QED
      BY <2>4, <2>5, <3>3, <3>4, <3>5 DEF Precedes
  <2>6. CASE e.time < f.time \/ (e.time = f.time /\ e.priority < f.priority)
    BY <2>4, <2>6 DEF Precedes
  <2> QED
    BY <2>3, <2>5, <2>6 DEF Precedes
<1>9. b \in Promise!Pending
  BY <1>3, <1>4, <1>5
<1>10. Promise!IsNext(b, Promise!Pending)
  BY <1>8, <1>9, SameVocabulary DEF Promise!IsNext
<1>11. Tick(b) = Tick(e) /\ b.clock = e.clock /\ b.time = e.time
  BY <1>5, <1>6 DEF Tick
<1> QED
  BY <1>9, <1>10, <1>11

LEMMA HandledTicks ==
  ASSUME Whole, NEW e, Handled(e)
  PROVE  Promise!NextTick
<1>1. Phase' = Phase /\ trace' = [trace EXCEPT ![Phase] = Append(@, Tick(e))] /\ UNCHANGED world
  BY HandledAppends DEF Appended
<1>2. PICK b \in Promise!Pending : /\ Promise!IsNext(b, Promise!Pending) /\ b.clock = e.clock
                                   /\ b.time = e.time /\ Tick(b) = Tick(e)
  BY NextIsNext DEF Handled
<1>3. Phase = "burn_in" => Promise!InBurnIn(b)
  <2>1. Phase = "burn_in" => mode = "burn_in"
    BY DEF Phase, Handled
  <2> QED
    BY <1>2, <2>1 DEF Promise!InBurnIn, Handled, BurnInTakes
<1>4. trace' = [trace EXCEPT ![Phase] = Append(@, Promise!Tick(b))]
  <2>1. Promise!Tick(b) = Tick(e)
    BY <1>2, SameVocabulary
  <2> QED
    BY <1>1, <2>1
<1> QED
  BY <1>1, <1>2, <1>3, <1>4 DEF Promise!NextTick

\* The burn-in ends when nothing that it still takes is pending.
LEMMA EndsAsPromised ==
  ASSUME Whole, BurnInEnds
  PROVE  Promise!BurnInEnds
<1>1. /\ mode = "burn_in" /\ mode' = "running" /\ UNCHANGED <<world, trace>>
      /\ \A e \in queue : IsNext(e, queue) => ~BurnInTakes(e)
  BY DEF BurnInEnds
<1>2. Phase = "burn_in" /\ Phase' = "observed"
  BY <1>1 DEF Phase, Whole, History
<1>3. ASSUME NEW b \in Promise!Pending PROVE ~Promise!InBurnIn(b)
  <2>1. PICK origin : Mirrors(origin)
    BY <1>1 DEF Whole, Mirror
  <2>2. PICK f \in Live : b = Known(f, origin[f])
    BY <1>3, <2>1 DEF Mirrors
  <2>3. f \in queue /\ b.clock = f.clock /\ b.time = f.time
    BY <2>2 DEF Live, Known, Entry
  <2>4. PICK e \in queue : IsNext(e, queue)
    BY <1>1, <2>3, NextExists DEF Whole, IInv
  <2>5. ~BurnInTakes(e) /\ (f = e \/ Precedes(e, f))
    BY <1>1, <2>3, <2>4 DEF IsNext
  <2>6. e.time \in Int /\ f.time \in Int /\ e.priority \in Nat /\ f.priority \in Nat
    BY <2>3 DEF Whole, IInv, TypeOK
  <2>7. e.clock # "contact" /\ f.clock = "contact" => e.priority > ContactPriority /\ f.priority = ContactPriority
    BY <2>3 DEF Whole, Exposed
  <2>8. ContactPriority \in Nat
    BY DEF ContactPriority
  <2>9. ~(f.time < 0 \/ (f.time = 0 /\ f.clock = "contact"))
    <3>1. PICK te : te = e.time
      OBVIOUS
    <3>2. PICK tf : tf = f.time
      OBVIOUS
    <3>3. PICK pe : pe = e.priority
      OBVIOUS
    <3>4. PICK pf : pf = f.priority
      OBVIOUS
    <3>5. te \in Int /\ tf \in Int /\ pe \in Nat /\ pf \in Nat
      BY <2>6, <3>1, <3>2, <3>3, <3>4
    <3>6. te >= 0 /\ (te = 0 => e.clock # "contact")
      BY <2>5, <3>1, <3>5 DEF BurnInTakes
    <3>7. f = e \/ te < tf \/ (te = tf /\ pe <= pf)
      BY <2>5, <3>1, <3>2, <3>3, <3>4, <3>5 DEF Precedes
    <3>8. e.clock # "contact" /\ f.clock = "contact" => pe > pf
      BY <2>7, <3>3, <3>4
    <3> QED
      BY <3>1, <3>2, <3>5, <3>6, <3>7, <3>8
  <2> QED
    BY <2>3, <2>9 DEF Promise!InBurnIn
<1> QED
  BY <1>1, <1>2, <1>3 DEF Promise!BurnInEnds

-----------------------------------------------------------------------------

LEMMA LoopHandles ==
  ASSUME Whole, BurnInStep \/ Step
  PROVE  \E e : Handled(e) \/ Checkpointed(e)
<1>1. PICK e \in queue : /\ IsNext(e, queue) /\ now' = e.time /\ Handle(e) /\ Record(e)
                         /\ mode = "burn_in" => BurnInTakes(e)
  <2>1. CASE BurnInStep
    BY <2>1 DEF BurnInStep
  <2>2. CASE Step
    <3>1. mode = "running"
      BY <2>2 DEF Step
    <3>2. \E e \in queue : IsNext(e, queue) /\ now' = e.time /\ Handle(e) /\ Record(e)
      BY <2>2 DEF Step
    <3> QED
      BY <3>1, <3>2
  <2> QED
    BY <2>1, <2>2
<1>2. UNCHANGED <<world, mode>> /\ mode \in {"burn_in", "running"}
  BY DEF BurnInStep, Step
<1>3. e.time >= now
  BY <1>2 DEF Whole, IInv, NeverBackward
<1> QED
  BY <1>1, <1>2, <1>3 DEF Handled, Checkpointed

LEMMA WholeStep ==
  ASSUME Whole, [Next]_vars
  PROVE  Whole' /\ [Promise!Next]_(Promise!vars)
<1>1. IInv' 
  BY IInvStep DEF Whole
<1>2. ASSUME UNCHANGED <<world, trace>>, Phase' = Phase PROVE [Promise!Next]_(Promise!vars)
  BY <1>2 DEF Promise!vars
<1>3. ASSUME NEW u \in 0 .. Horizon, NEW m \in Limits, NEW c \in {None, TRUE, FALSE}, Run(u, m, c)
      PROVE  History' /\ Exposed' /\ Mirror' /\ [Promise!Next]_(Promise!vars)
  BY <1>2, <1>3, RunKeeps
<1>4. CASE BurnInStep \/ Step
  <2>1. PICK e : Handled(e) \/ Checkpointed(e)
    BY <1>4, LoopHandles
  <2>2. CASE Handled(e)
    <3>1. History' /\ Exposed' /\ Mirror'
      BY <2>2, HandledHistory, HandledExposed, HandledMirror
    <3>2. Promise!NextTick
      BY <2>2, HandledTicks
    <3> QED
      BY <1>1, <3>1, <3>2 DEF Whole, Promise!Next
  <2>3. CASE Checkpointed(e)
    <3>1. History' /\ Exposed' /\ Mirror' /\ UNCHANGED <<world, trace>> /\ Phase' = Phase
      BY <2>3, CheckpointKeeps
    <3> QED
      BY <1>1, <1>2, <3>1 DEF Whole
  <2> QED
    BY <2>1, <2>2, <2>3
<1>5. CASE BurnInEnds
  BY <1>1, <1>5, BurnInEndsKeeps, EndsAsPromised DEF Whole, Promise!Next
<1>6. CASE DropCheckpoint
  BY <1>1, <1>2, <1>6, DropKeeps DEF Whole
<1>7. CASE Return
  <2>1. now \in Int /\ until \in Int
    BY DEF Whole, IInv, TypeOK
  <2>2. /\ mode = "running" /\ mode' = "idle" /\ now' \in Int /\ now <= now'
        /\ UNCHANGED <<world, trace, insurgents, recruiting, queue>>
    BY <1>7, <2>1 DEF Return
  <2> QED
    BY <1>1, <1>2, <2>2, ReturnKeeps DEF Whole
<1>8. CASE UNCHANGED vars
  <2>1. UNCHANGED <<world, trace, queue, now, mode, insurgents, recruiting>>
    BY <1>8 DEF vars
  <2>2. Phase' = Phase /\ Live' = Live /\ Exposed'
    BY <2>1 DEF Phase, Live, Exposed, Whole
  <2>3. CASE mode = "new"
    <3>1. Mirror'
      BY <2>1, <2>3 DEF Mirror
    <3>2. History'
      BY <2>1, <2>2, <2>3, StandingSame DEF History, Whole
    <3> QED
      BY <1>1, <1>2, <2>1, <2>2, <3>1, <3>2 DEF Whole
  <2>4. CASE mode # "new"
    <3>1. now \in Int /\ now' \in Int /\ now <= now' /\ mode' # "new" /\ History /\ Mirror
      BY <2>1, <2>4 DEF Whole, IInv, TypeOK
    <3>2. History'
      BY <2>1, <2>2, <2>4, <3>1, HistorySame
    <3>3. Mirror'
      BY <2>1, <2>2, <2>4, <3>1, MirrorSame
    <3> QED
      BY <1>1, <1>2, <2>1, <2>2, <3>2, <3>3 DEF Whole
  <2> QED
    BY <2>3, <2>4
<1>9. CASE \E u \in 0 .. Horizon, m \in Limits, c \in {None, TRUE, FALSE} : Run(u, m, c)
  BY <1>1, <1>3, <1>9 DEF Whole
<1> QED
  BY <1>4, <1>5, <1>6, <1>7, <1>8, <1>9 DEF Next, Loop

\* Who is active before anything has happened is the world's to say.
LEMMA NothingBefore ==
  ASSUME trace["burn_in"] = <<>>, world.founded \in BOOLEAN, Phase \in {"burn_in", "observed"}
  PROVE  Promise!ActiveAtStart <=> world.founded
<1>1. PICK T : T = trace["burn_in"]
  OBVIOUS
<1>2. DOMAIN T = {}
  BY <1>1
<1> QED
  BY <1>1, <1>2 DEF Promise!ActiveAtStart, Promise!ActiveAfter

LEMMA WholeInit ==
  ASSUME Init
  PROVE  Whole /\ Promise!Init
<1>1. IInv
  BY InitInv
<1>2. mode = "new" /\ queue = {} /\ insurgents = world.founded /\ world \in Worlds
      /\ trace = [p \in {"burn_in", "observed"} |-> <<>>]
  BY DEF Init
<1>3. <<>> \in Seq(Memory) /\ DOMAIN <<>> = {}
  OBVIOUS
<1>4. trace["burn_in"] = <<>> /\ trace["observed"] = <<>>
  BY <1>2
<1>5. /\ trace \in [{"burn_in", "observed"} -> Seq(Memory)]
      /\ Standing
  <2>1. trace[Phase] = <<>> /\ Phase \in {"burn_in", "observed"}
    BY <1>4 DEF Phase
  <2>2. insurgents <=> Promise!ActiveAtStart
    BY <1>1, <1>2, <1>4, <2>1, NothingBefore DEF IInv, IsWorld
  <2>3. Standing
    BY <1>2, <2>1, <2>2, NoTickYet DEF Standing
  <2> QED
    BY <1>2, <1>3, <1>4, <2>3
<1>6. History
  BY <1>2, <1>4, <1>5 DEF History
<1>7. Exposed /\ Mirror
  BY <1>2 DEF Exposed, Mirror
<1>8. Promise!Init
  BY <1>2 DEF Promise!Init, Phase
<1> QED
  BY <1>1, <1>6, <1>7, <1>8 DEF Whole

\* The trajectory of a run is a function of the world alone.
THEOREM TrajectoryIsTheWorlds == Spec => ImplementsRecurringClocks
<1>1. Init => Whole /\ Promise!Init
  BY WholeInit
<1>2. Whole /\ [Next]_vars => Whole' /\ [Promise!Next]_(Promise!vars)
  BY WholeStep
<1> QED
  BY <1>1, <1>2, PTL DEF Spec, ImplementsRecurringClocks, Promise!Spec
-----------------------------------------------------------------------------
(* Both engines on one calendar.                                           *)

\* What the native engine never changes, and the calendar it is built with.
NativeInv ==
  /\ checkpointing = TRUE
  /\ insurgents = world.founded /\ recruiting = world.founded
  /\ mode = "new" => /\ now = 0 /\ queue = Populated(0, TRUE)
                     /\ nextSequence = Cardinality(queue)
  /\ mode = "burn_in" => world.burnIn > 0 /\ left = None

BothInv ==
  /\ engine \in {"python", "native"}
  /\ IInv
  /\ engine = "native" => NativeInv
  /\ Compared => Whole

\* The native engine speaks the calendar's vocabulary, ...
LEMMA NativeVocabulary ==
  /\ \A c, t, p, s, d : Native!Entry(c, t, p, s, d) = Entry(c, t, p, s, d)
  /\ Native!Priority = Priority
  /\ Native!DefaultPriority = DefaultPriority
  /\ Native!ContactPriority = ContactPriority
  /\ \A e : Native!Tick(e) = Tick(e)
  /\ \A e, q : Native!IsNext(e, q) <=> IsNext(e, q)
  /\ \A S : Native!Cardinality(S) = Cardinality(S)
<1>1. \A c, t, p, s, d : Native!Entry(c, t, p, s, d) = Entry(c, t, p, s, d)
  BY DEF Native!Entry, Entry
<1>2. Native!Priority = Priority
  BY DEF Native!Priority, Priority
<1>3. Native!DefaultPriority = DefaultPriority
  BY DEF Native!DefaultPriority, DefaultPriority
<1>4. Native!ContactPriority = ContactPriority
  BY DEF Native!ContactPriority, ContactPriority
<1>5. \A e : Native!Tick(e) = Tick(e)
  BY DEF Native!Tick, Tick
<1>6. \A e, q : Native!IsNext(e, q) <=> IsNext(e, q)
  BY DEF Native!IsNext, IsNext, Native!Precedes, Precedes
<1>7. \A S : Native!Cardinality(S) = Cardinality(S)
  BY DEF Native!Cardinality, Cardinality
<1> QED
  BY <1>1, <1>2, <1>3, <1>4, <1>5, <1>6, <1>7

\* ... is built with the calendar that a Python run starts with, ...
LEMMA NativeInitialEvents ==
  ASSUME insurgents = world.founded
  PROVE  Native!InitialEvents = Populated(0, TRUE)
<1>1. PICK first : first = (Clocks \ (IF insurgents THEN {} ELSE {"recruitment"})) \cup {"checkpoint"}
  OBVIOUS
<1>2. Populated(0, TRUE) =
        {Entry(c, 0, Priority[c], Cardinality({d \in first : Priority[d] < Priority[c]}), 0) : c \in first}
  BY <1>1 DEF Populated
<1>3. Native!InitialEvents =
        {Native!Entry(c, 0, Native!Priority[c],
           Native!Cardinality({d \in first : Native!Priority[d] < Native!Priority[c]}), 0) : c \in first}
  BY <1>1 DEF Native!InitialEvents
<1> QED
  BY <1>2, <1>3, NativeVocabulary

\* ... and shifts it to where a Python burn-in starts.
LEMMA ShiftedCalendar ==
  ASSUME NEW b \in Nat, insurgents \in BOOLEAN
  PROVE  /\ {Entry(e.clock, e.time - b, e.priority, e.sequence, e.elapsed) : e \in Populated(0, TRUE)}
              = Populated(-b, TRUE)
         /\ Cardinality(Populated(0, TRUE)) = Cardinality(Populated(-b, TRUE))
<1>1. PICK first : first = (Clocks \ (IF insurgents THEN {} ELSE {"recruitment"})) \cup {"checkpoint"}
  OBVIOUS
<1>2. PICK rank : rank = [c \in first |-> Cardinality({d \in first : Priority[d] < Priority[c]})]
  OBVIOUS
<1>3. \A t : Populated(t, TRUE) = {Entry(c, t, Priority[c], rank[c], 0) : c \in first}
  BY <1>1, <1>2 DEF Populated
<1>4. {Entry(e.clock, e.time - b, e.priority, e.sequence, e.elapsed) : e \in Populated(0, TRUE)}
        = {Entry(c, -b, Priority[c], rank[c], 0) : c \in first}
  <2> DEFINE Shift(e) == Entry(e.clock, e.time - b, e.priority, e.sequence, e.elapsed)
             early(c) == Entry(c, 0, Priority[c], rank[c], 0)
             late(c) == Entry(c, -b, Priority[c], rank[c], 0)
  <2>1. ASSUME NEW c PROVE Shift(early(c)) = late(c)
    <3>1. 0 - b = -b
      OBVIOUS
    <3> QED
      BY <3>1 DEF Entry
  <2>2. Populated(0, TRUE) = {early(c) : c \in first}
    BY <1>3
  <2> HIDE DEF Shift, early, late
  <2>3. {Shift(e) : e \in Populated(0, TRUE)} = {late(c) : c \in first}
    BY <2>1, <2>2
  <2> QED
    BY <2>3 DEF Shift, late
<1>5. ASSUME NEW t \in Int PROVE Cardinality(Populated(t, TRUE)) = Cardinality(first)
  <2>1. PICK q : q = Populated(t, TRUE)
    OBVIOUS
  <2>2. TRUE \in BOOLEAN
    OBVIOUS
  <2>3. Cardinality(q) = Cardinality((Clocks \ (IF insurgents THEN {} ELSE {"recruitment"}))
                                      \cup (IF TRUE THEN {"checkpoint"} ELSE {}))
    BY <2>1, <2>2, PopulatedFacts
  <2> QED
    BY <1>1, <2>1, <2>3
<1>6. Cardinality(Populated(0, TRUE)) = Cardinality(Populated(-b, TRUE))
  <2>1. -b \in Int /\ 0 \in Int
    OBVIOUS
  <2> QED
    BY <1>5, <2>1
<1> QED
  BY <1>3, <1>4, <1>6

\* What a step of the native engine leaves to the Python side.
NativeFrame == UNCHANGED <<engine, checkpointing, saved, recruiting, insurgents>>

\* A call of the native run is a Python run without a limit.
LEMMA NativeRuns ==
  ASSUME BothInv, engine = "native", NativeFrame, NEW u, Native!Run(u)
  PROVE  Run(u, None, None)
<1>1. /\ NativeInv /\ insurgents \in BOOLEAN /\ world.burnIn \in Nat
      /\ mode = "new"
  BY DEF BothInv, IInv, TypeOK, IsWorld, Native!Run
<1>2. /\ queue = Populated(0, TRUE) /\ nextSequence = Cardinality(queue)
      /\ checkpointing = TRUE /\ checkpointing' = TRUE
      /\ insurgents = recruiting /\ recruiting' = recruiting
  BY <1>1 DEF NativeInv, NativeFrame
<1>3. queue' = Populated(-world.burnIn, TRUE)
  <2>1. queue' = {Entry(e.clock, e.time - world.burnIn, e.priority, e.sequence, e.elapsed) : e \in queue}
    BY NativeVocabulary DEF Native!Run
  <2> QED
    BY <1>1, <1>2, <2>1, ShiftedCalendar
<1>4. nextSequence' = Cardinality(Populated(-world.burnIn, TRUE))
  BY <1>1, <1>2, ShiftedCalendar DEF Native!Run
<1>5. Populate(-world.burnIn, checkpointing')
  BY <1>2, <1>3, <1>4 DEF Populate
<1> QED
  BY <1>1, <1>2, <1>5 DEF Run, Native!Run, NativeFrame

\* So is an advance, unless it is the first of an engine that a burn-in was
\* configured for and that has none.
LEMMA NativeAdvances ==
  ASSUME BothInv, engine = "native", NativeFrame, NEW u \in Nat, NEW m, Native!Advance(u, m),
         mode = "idle" \/ world.burnIn = 0
  PROVE  Run(u, m, None)
<1>1. /\ NativeInv /\ insurgents \in BOOLEAN
      /\ checkpointing = TRUE /\ checkpointing' = TRUE
      /\ UNCHANGED <<world, trace, saved, insurgents, recruiting, queue, nextSequence, now>>
      /\ mode \in {"new", "idle"}
  BY DEF BothInv, IInv, TypeOK, NativeInv, NativeFrame, Native!Advance
<1>2. CASE mode = "idle"
  BY <1>1, <1>2 DEF Run, Native!Advance
<1>3. CASE mode = "new" /\ world.burnIn = 0
  <2>1. /\ now = 0 /\ queue = Populated(0, TRUE) /\ nextSequence = Cardinality(queue)
        /\ recruiting = insurgents
    BY <1>1, <1>3 DEF NativeInv
  <2>2. ~(u < now) /\ -world.burnIn = 0 /\ ~(world.burnIn > 0)
    <3>1. ~(u < now)
      BY <2>1
    <3>2. \A b \in Nat : b <= 0 => -b = 0 /\ ~(b > 0)
      OBVIOUS
    <3>3. world.burnIn \in Nat /\ world.burnIn <= 0
      BY <1>3
    <3> QED
      BY <3>1, <3>2, <3>3
  <2>3. mode' = "running" /\ until' = u /\ left' = m /\ outcome' = None
    BY <2>2 DEF Native!Advance
  <2>4. Populate(-world.burnIn, checkpointing')
    BY <1>1, <2>1, <2>2 DEF Populate
  <2> QED
    BY <1>1, <1>3, <2>1, <2>2, <2>3, <2>4 DEF Run
<1> QED
  BY <1>1, <1>2, <1>3

\* Such a first advance finds its calendar at zero, which is the present.
LEMMA NativeStartsAtZero ==
  ASSUME BothInv, engine = "native", NativeFrame, NEW u \in 0 .. Horizon,
         NEW m \in Nat \cup {None}, Native!Advance(u, m), mode = "new"
  PROVE  IInv'
<1>1. /\ NativeInv /\ TypeOK /\ IsWorld(world) /\ insurgents \in BOOLEAN
      /\ UNCHANGED <<world, saved, insurgents, recruiting, queue, nextSequence, now, checkpointing>>
  BY DEF BothInv, IInv, TypeOK, NativeFrame, Native!Advance
<1>2. /\ now = 0 /\ queue = Populated(0, TRUE) /\ nextSequence = Cardinality(queue)
      /\ recruiting = insurgents
  BY <1>1 DEF NativeInv
<1>3. ~(u < now)
  BY <1>2
<1>4. mode' = "running" /\ until' = u /\ left' = m /\ outcome' = None
  BY <1>3 DEF Native!Advance
<1>5. Populate(0, TRUE)
  BY <1>1, <1>2 DEF Populate
<1>6. 0 \in Int /\ TRUE \in BOOLEAN
  OBVIOUS
<1>7. /\ \A e \in queue' : IsEvent(e) /\ e.time = 0
      /\ nextSequence' \in Nat
      /\ recruiting' \in BOOLEAN
      /\ Numbered'
      /\ Sole'
      /\ \A d \in Clocks :
           (\E e \in queue' : e.clock = d) <=> (d # "recruitment" \/ recruiting')
  BY <1>1, <1>5, <1>6, PopulateFacts
<1>8. TypeOK'
  <2>1. {checkpointing', recruiting', insurgents'} \subseteq BOOLEAN
    BY <1>1 DEF TypeOK
  <2> QED
    BY <1>1, <1>4, <1>7, <2>1 DEF TypeOK, IsEvent
<1>9. Ticking'
  BY <1>7, Zenon DEF Ticking
<1>10. NeverBackward' /\ InBounds' /\ ReturnsAtHorizon'
  <2>1. now' = 0 /\ now' <= until' /\ \A e \in queue' : e.time >= now'
    <3>1. now' = 0 /\ until' = u /\ 0 <= u
      BY <1>1, <1>2, <1>4
    <3>2. \A e \in queue' : e.time = 0
      BY <1>7
    <3>3. 0 >= 0
      OBVIOUS
    <3> QED
      BY <3>1, <3>2, <3>3, Zenon
  <2> QED
    BY <1>4, <2>1 DEF NeverBackward, InBounds, ReturnsAtHorizon
<1> QED
  BY <1>1, <1>7, <1>8, <1>9, <1>10 DEF IInv

\* What the native reschedule_recurring brings back lies strictly later, also
\* after a route.
LEMMA NativeRescheduledFacts ==
  ASSUME NEW e, IsEvent(e), NEW s \in Nat
  PROVE  Returns(e, s, Native!Rescheduled(e, s))
<1>1. CASE e.clock = "contact" \/ (e.clock = "checkpoint" /\ ParticleExecution)
  <2>1. Native!Rescheduled(e, s) = {}
    BY <1>1 DEF Native!Rescheduled
  <2> QED
    BY <1>1, <2>1, ClocksAssumption DEF Returns, Priority
<1>2. CASE ~(e.clock = "contact" \/ (e.clock = "checkpoint" /\ ParticleExecution))
  <2> DEFINE d == IF e.clock = "patrol" THEN Native!PatrolInterval(e) ELSE Interval[e.clock]
             a == Entry(e.clock, e.time + d, DefaultPriority, s, d)
  <2>1. e.clock \in Clocks \cup {"checkpoint"}
    BY <1>2 DEF IsEvent
  <2>2. d \in Nat \ {0}
    <3>1. CASE e.clock = "patrol"
      <4>1. Interval["patrol"] \in Nat \ {0}
        BY <2>1, <3>1, IntervalAssumption
      <4>2. Native!CanExecute(e) => Native!Departed(e) - e.time \in Int
        BY <3>1, RouteAssumption DEF Native!Departed, IsEvent
      <4>3. Native!PatrolInterval(e) \in Nat \ {0}
        BY <4>1, <4>2 DEF Native!PatrolInterval
      <4> QED
        BY <3>1, <4>3
    <3>2. CASE e.clock # "patrol"
      BY <2>1, <3>2, IntervalAssumption
    <3> QED
      BY <3>1, <3>2
  <2>3. Native!Rescheduled(e, s) = {a}
    BY <1>2, NativeVocabulary DEF Native!Rescheduled
  <2> HIDE DEF d
  <2>4. IsEvent(a) /\ a.clock = e.clock /\ a.time > e.time /\ a.sequence = s
    BY <2>1, <2>2 DEF IsEvent, Entry, DefaultPriority
  <2> QED
    BY <2>3, <2>4 DEF Returns
<1> QED
  BY <1>1, <1>2

LEMMA NativeOpportunitiesFacts ==
  ASSUME NEW e, IsEvent(e), NEW s \in Nat
  PROVE  Brings(e, s, FALSE, Native!Opportunities(e, s))
<1> DEFINE d == Interval["contact_scan"]
           b == Entry("contact", e.time + d, ContactPriority, s, d)
<1>1. CASE Native!Opportunities(e, s) = {}
  BY <1>1, FS_EmptySet DEF Brings
<1>2. CASE Native!Opportunities(e, s) # {}
  <2>1. Native!Opportunities(e, s) = {b} /\ e.clock = "contact_scan"
    BY <1>2, NativeVocabulary DEF Native!Opportunities
  <2>2. d \in Nat \ {0}
    <3>1. "contact_scan" \in Clocks
      BY <2>1 DEF IsEvent
    <3> QED
      BY <3>1, IntervalAssumption
  <2>3. IsEvent(b) /\ b.time >= e.time /\ b.sequence = s /\ b.clock = "contact"
    BY <2>2 DEF IsEvent, Entry, ContactPriority
  <2> HIDE DEF b
  <2>4. Cardinality({b}) = 1
    BY FS_Singleton, Zenon
  <2> QED
    BY <2>1, <2>3, <2>4 DEF Brings
<1> QED
  BY <1>1, <1>2

\* One turn of the native loop, for the event it takes.
NativeTurn(e) ==
  /\ e \in queue /\ IsNext(e, queue) /\ now' = e.time
  /\ mode \in {"burn_in", "running"} /\ UNCHANGED <<world, mode, until, outcome>>
  /\ left # 0 /\ left' = (IF left = None THEN None ELSE left - 1)
  /\ mode = "burn_in" => e.time <= 0
  /\ mode = "running" => e.time <= until
  /\ queue' = (queue \ {e}) \cup Native!Opportunities(e, nextSequence)
        \cup Native!Rescheduled(e, nextSequence + Cardinality(Native!Opportunities(e, nextSequence)))
  /\ nextSequence' = nextSequence + Cardinality(Native!Opportunities(e, nextSequence))
        + Cardinality(Native!Rescheduled(e, nextSequence + Cardinality(Native!Opportunities(e, nextSequence))))
  /\ trace' = IF e.clock = "checkpoint" THEN trace
              ELSE [trace EXCEPT ![Phase] = Append(@, Tick(e))]

LEMMA NativeStepTurns ==
  ASSUME Native!Step
  PROVE  \E e : NativeTurn(e)
<1>1. Native!Phase = Phase
  BY DEF Native!Phase, Phase
<1>2. PICK e \in queue :
        /\ IsNext(e, queue) /\ Native!GoesOn(e) /\ now' = e.time
        /\ queue' = (queue \ {e}) \cup Native!Opportunities(e, nextSequence)
              \cup Native!Rescheduled(e, nextSequence + Cardinality(Native!Opportunities(e, nextSequence)))
        /\ nextSequence' = nextSequence + Cardinality(Native!Opportunities(e, nextSequence))
              + Cardinality(Native!Rescheduled(e, nextSequence + Cardinality(Native!Opportunities(e, nextSequence))))
        /\ trace' = IF e.clock = "checkpoint" THEN trace
                    ELSE [trace EXCEPT ![Phase] = Append(@, Tick(e))]
  BY <1>1, NativeVocabulary DEF Native!Step
<1>3. /\ mode \in {"burn_in", "running"} /\ UNCHANGED <<world, mode, until, outcome>>
      /\ left' = (IF left = None THEN None ELSE left - 1)
  BY DEF Native!Step
<1>4. /\ left # 0
      /\ mode = "burn_in" => e.time <= 0
      /\ mode = "running" => e.time <= until
  BY <1>2 DEF Native!GoesOn, Native!Target
<1> QED
  BY <1>2, <1>3, <1>4 DEF NativeTurn

LEMMA NativeTurnInv ==
  ASSUME IInv, NativeFrame, NEW e, NativeTurn(e)
  PROVE  IInv'
<1>1. /\ IsEvent(e) /\ nextSequence \in Nat
      /\ e \in queue /\ \A f \in queue : e.time <= f.time
      /\ {recruiting, insurgents} \subseteq BOOLEAN
      /\ UNCHANGED <<recruiting, insurgents, checkpointing, saved>> /\ mode # "new"
  <2>1. e \in queue /\ \A f \in queue : e.time <= f.time
    BY NextIsEarliest DEF NativeTurn, IInv
  <2> QED
    BY <2>1 DEF IInv, TypeOK, IsEvent, NativeFrame, NativeTurn
<1>2. PICK n : n = nextSequence
  OBVIOUS
<1>3. PICK made : made = Native!Opportunities(e, n)
  OBVIOUS
<1>4. PICK back : back = Native!Rescheduled(e, n + Cardinality(made))
  OBVIOUS
<1>5. Brings(e, n, FALSE, made)
  BY <1>1, <1>2, <1>3, NativeOpportunitiesFacts
<1>6. Cardinality(made) \in Nat
  BY <1>5 DEF Brings
<1>7. Returns(e, n + Cardinality(made), back)
  BY <1>1, <1>2, <1>4, <1>6, NativeRescheduledFacts
<1>8. queue' = (queue \ {e}) \cup made \cup back
      /\ nextSequence' = n + Cardinality(made) + Cardinality(back)
  BY <1>2, <1>3, <1>4 DEF NativeTurn
<1>9. /\ insurgents' \in BOOLEAN /\ recruiting' \in BOOLEAN
      /\ "recruitment" \in Clocks => (recruiting' <=> recruiting \/ FALSE)
  BY <1>1
<1>10. /\ \A f \in queue' : IsEvent(f) /\ f.time >= e.time
       /\ nextSequence' \in Nat
       /\ insurgents' \in BOOLEAN /\ recruiting' \in BOOLEAN
       /\ Numbered'
       /\ Sole'
       /\ \A c \in Clocks :
            (\E f \in queue' : f.clock = c) <=> (c # "recruitment" \/ recruiting')
  <2>1. TypeOK /\ Numbered /\ Sole /\ Ticking /\ FALSE \in BOOLEAN
    BY DEF IInv
  <2> QED
    BY <1>1, <1>2, <1>5, <1>7, <1>8, <1>9, <2>1, CalendarKept
<1>11. left' \in Nat \cup {None}
  BY NoneIsNoDay DEF NativeTurn, IInv, TypeOK
<1>12. TypeOK'
  <2>1. now' \in Int /\ checkpointing \in BOOLEAN
    BY <1>1 DEF NativeTurn, IsEvent, IInv, TypeOK
  <2> QED
    BY <1>1, <1>10, <1>11, <2>1 DEF NativeTurn, IInv, TypeOK, IsEvent
<1>13. Ticking'
  BY <1>10, Zenon DEF Ticking
<1>14. NeverBackward'
  BY <1>10 DEF NeverBackward, NativeTurn
<1>15. InBounds' /\ ReturnsAtHorizon'
  BY DEF InBounds, ReturnsAtHorizon, NativeTurn
<1>16. IsWorld(world')
  BY DEF IInv, NativeTurn
<1> QED
  BY <1>10, <1>12, <1>13, <1>14, <1>15, <1>16 DEF IInv

LEMMA NativeBurnInEndsInv ==
  ASSUME IInv, NativeInv, NativeFrame, Native!BurnInEnds
  PROVE  IInv'
<1>1. /\ mode = "burn_in" /\ mode' = "running" /\ now' = 0
      /\ UNCHANGED <<world, queue, nextSequence, until, left, outcome, checkpointing, saved,
                     recruiting, insurgents>>
  BY DEF Native!BurnInEnds, NativeFrame
<1>2. \A e \in queue : IsNext(e, queue) => e.time > 0
  <2>1. ASSUME NEW e \in queue, IsNext(e, queue) PROVE e.time > 0
    <3>1. ~(e.time <= 0 /\ left # 0)
      BY <1>1, <2>1, NativeVocabulary DEF Native!BurnInEnds, Native!LoopOver, Native!GoesOn, Native!Target
    <3>2. left # 0
      BY <1>1, NoneIsNoDay DEF NativeInv
    <3>3. e.time \in Int
      BY DEF IInv, TypeOK
    <3> QED
      BY <3>1, <3>2, <3>3
  <2> QED
    BY <2>1
<1>3. \A f \in queue : f.time >= 0
  <2> SUFFICES ASSUME NEW f \in queue PROVE f.time >= 0
    OBVIOUS
  <2>1. PICK e \in queue : IsNext(e, queue)
    BY <1>1, NextExists DEF IInv
  <2>2. e.time > 0 /\ e.time <= f.time
    BY <1>2, <2>1, NextIsEarliest DEF IInv
  <2>3. e.time \in Int /\ f.time \in Int
    BY DEF IInv, TypeOK
  <2> QED
    BY <2>2, <2>3
<1>4. TypeOK'
  <2>1. {checkpointing', recruiting', insurgents'} \subseteq BOOLEAN
    BY <1>1 DEF IInv, TypeOK
  <2> QED
    BY <1>1, <2>1 DEF IInv, TypeOK
<1>5. Ticking'
  BY <1>1, Zenon DEF IInv, Ticking
<1>6. NeverBackward' /\ InBounds' /\ ReturnsAtHorizon'
  BY <1>1, <1>3, HorizonAssumption DEF IInv, TypeOK, NeverBackward, InBounds, ReturnsAtHorizon
<1> QED
  BY <1>1, <1>4, <1>5, <1>6 DEF IInv, Numbered, Sole

LEMMA NativeReturnInv ==
  ASSUME IInv, NativeFrame, Native!Return
  PROVE  IInv' /\ now' \in Int /\ now <= now'
<1>1. mode = "running" /\ now \in Int /\ until \in Int /\ now <= until
  BY DEF Native!Return, IInv, InBounds, TypeOK
<1>2. PICK stopped \in BOOLEAN : stopped <=> Native!StoppedAtLimit
  OBVIOUS
<1>3. ~stopped => \A f \in queue : f.time > until
  <2> SUFFICES ASSUME ~stopped, NEW f \in queue PROVE f.time > until
    OBVIOUS
  <2>1. f.time \in Int
    BY DEF IInv, TypeOK
  <2>2. CASE left = 0
    BY <1>1, <1>2, <2>1, <2>2 DEF Native!StoppedAtLimit
  <2>3. CASE left # 0
    <3>1. PICK e \in queue : IsNext(e, queue)
      BY <1>1, NextExists DEF IInv
    <3>2. ~(e.time <= until)
      BY <1>1, <2>3, <3>1, NativeVocabulary DEF Native!Return, Native!LoopOver, Native!GoesOn, Native!Target
    <3>3. e.time <= f.time /\ e.time \in Int
      BY <3>1, NextIsEarliest DEF IInv, TypeOK
    <3> QED
      BY <1>1, <2>1, <3>2, <3>3
  <2> QED
    BY <2>2, <2>3
<1>4. /\ now' = IF stopped THEN now ELSE until
      /\ outcome' = IF stopped THEN "stopped" ELSE "done"
      /\ mode' = "idle"
      /\ UNCHANGED <<world, queue, nextSequence, until, left, checkpointing, saved, recruiting, insurgents>>
  BY <1>2 DEF Native!Return, NativeFrame
<1>5. now' \in Int /\ now <= now' /\ now' <= until
  BY <1>1, <1>4
<1>6. TypeOK'
  <2>1. {checkpointing', recruiting', insurgents'} \subseteq BOOLEAN
    BY <1>4 DEF IInv, TypeOK
  <2> QED
    BY <1>4, <1>5, <2>1 DEF IInv, TypeOK
<1>7. NeverBackward'
  BY <1>1, <1>3, <1>4 DEF IInv, TypeOK, NeverBackward
<1>8. InBounds' /\ ReturnsAtHorizon'
  BY <1>1, <1>3, <1>4 DEF InBounds, ReturnsAtHorizon
<1>9. Ticking'
  BY <1>1, <1>4, Zenon DEF IInv, Ticking
<1> QED
  BY <1>4, <1>5, <1>6, <1>7, <1>8, <1>9 DEF IInv, Numbered, Sole

-----------------------------------------------------------------------------

\* On a world where the engines are compared, a native turn handles the event
\* as Python does, or is a tick of the checkpoint clock.
LEMMA NativePatrol ==
  ASSUME world.absences = {}, NEW e, IsEvent(e), e.clock = "patrol"
  PROVE  Native!PatrolInterval(e) = PatrolInterval(e)
<1>1. "patrol" \in Clocks
  BY DEF IsEvent
<1>2. LongRoute > Interval["patrol"] /\ Interval["patrol"] \in Nat \ {0} /\ LongRoute \in Nat /\ e.time \in Int
  BY <1>1, LongAssumption, IntervalAssumption, RouteAssumption DEF IsEvent
<1>3. Native!CanExecute(e) <=> e.time \notin world.transits
  BY DEF Native!CanExecute
<1>4. CASE e.time \in world.transits
  BY <1>3, <1>4 DEF Native!PatrolInterval, PatrolInterval
<1>5. CASE e.time \notin world.transits
  <2>1. Native!Departed(e) - e.time = IF e.time \in world.longs THEN LongRoute ELSE 0
    BY <1>2, <1>3, <1>5 DEF Native!Departed
  <2> QED
    BY <1>2, <1>3, <1>5, <2>1 DEF Native!PatrolInterval, PatrolInterval
<1> QED
  BY <1>4, <1>5

LEMMA NativeHandles ==
  ASSUME BothInv, engine = "native", Compared, NativeFrame, NEW e, NativeTurn(e), e.clock # "checkpoint"
  PROVE  Handled(e)
<1>1. /\ world.burnIn = 0 /\ world.absences = {}
      /\ world.endings = {} /\ (world.founded \/ (world.onsets = {} /\ world.meetings = {}))
      /\ insurgents = world.founded /\ recruiting = world.founded /\ insurgents \in BOOLEAN
      /\ IsEvent(e) /\ nextSequence \in Nat
      /\ UNCHANGED <<insurgents, recruiting, saved>>
  BY DEF BothInv, NativeInv, Compared, IInv, TypeOK, IsEvent, NativeTurn, NativeFrame
<1>2. mode = "running" /\ Phase = "observed"
  <2>1. ~(world.burnIn > 0)
    BY <1>1
  <2> QED
    BY <2>1 DEF BothInv, NativeInv, NativeTurn, Phase
<1>3. ~StartsRecruiting(e)
  BY <1>1 DEF StartsRecruiting, ActiveOnce, Raises
<1>4. Native!Opportunities(e, nextSequence) = Opportunities(e, nextSequence)
  <2>1. CASE e.clock # "contact_scan" \/ e.time \notin world.meetings
    BY <2>1 DEF Native!Opportunities, Opportunities
  <2>2. CASE e.clock = "contact_scan" /\ e.time \in world.meetings
    <3>1. "contact_scan" \in Clocks
      BY <1>1, <2>2 DEF IsEvent
    <3>2. Interval["contact_scan"] \in Nat \ {0}
      BY <3>1, IntervalAssumption
    <3>3. Exposure(e) = Interval["contact_scan"] /\ Exposure(e) > 0
      BY <1>2, <3>2 DEF Exposure
    <3>4. world.founded
      BY <1>1, <2>2
    <3> QED
      BY <2>2, <3>3, <3>4, NativeVocabulary DEF Native!Opportunities, Opportunities
  <2> QED
    BY <2>1, <2>2
<1>5. \A s : Native!Rescheduled(e, s) = Rescheduled(e, s)
  <2>1. e.clock = "patrol" => Native!PatrolInterval(e) = PatrolInterval(e)
    BY <1>1, NativePatrol
  <2> QED
    BY <2>1, NativeVocabulary DEF Native!Rescheduled, Rescheduled
<1>6. Handle(e)
  <2>1. PICK made : made = Opportunities(e, nextSequence)
    OBVIOUS
  <2>2. PICK back : back = Rescheduled(e, nextSequence + Cardinality(made))
    OBVIOUS
  <2>3. queue' = (queue \ {e}) \cup made \cup back
        /\ nextSequence' = nextSequence + Cardinality(made) + Cardinality(back)
    BY <1>4, <1>5, <2>1, <2>2 DEF NativeTurn
  <2>4. made \cup (IF StartsRecruiting(e) /\ "recruitment" \in Clocks
                   THEN {Entry("recruitment", e.time, Priority["recruitment"], nextSequence, 0)}
                   ELSE {}) = made
    BY <1>3
  <2>5. insurgents' = ActiveOnce(e)
    BY <1>1 DEF ActiveOnce, Raises, Disbands
  <2>6. recruiting' = (recruiting \/ StartsRecruiting(e))
    BY <1>1, <1>3
  <2> QED
    BY <2>1, <2>2, <2>3, <2>4, <2>5, <2>6 DEF Handle
<1>7. Record(e)
  BY <1>1 DEF Record, NativeTurn
<1> QED
  BY <1>2, <1>6, <1>7 DEF Handled, NativeTurn

LEMMA NativeCheckpoints ==
  ASSUME BothInv, Whole, engine = "native", NativeFrame, NEW e, NativeTurn(e), e.clock = "checkpoint"
  PROVE  History' /\ Exposed' /\ Mirror' /\ UNCHANGED <<world, trace>> /\ Phase' = Phase
<1>1. /\ e \in queue /\ now' = e.time /\ e.time >= now
      /\ mode \in {"burn_in", "running"} /\ mode' = mode
      /\ UNCHANGED <<world, trace, insurgents, recruiting>>
  BY DEF NativeTurn, NativeFrame, Whole, IInv, NeverBackward
<1>2. PICK back : back = Native!Rescheduled(e, nextSequence + Cardinality(Native!Opportunities(e, nextSequence)))
  OBVIOUS
<1>3. queue' = (queue \ {e}) \cup back
  <2>1. Native!Opportunities(e, nextSequence) = {}
    BY DEF Native!Opportunities
  <2> QED
    BY <1>2, <2>1 DEF NativeTurn
<1>4. \A a \in back : a.clock = "checkpoint" /\ a.priority > ContactPriority
  <2>1. ASSUME NEW a \in back PROVE a.clock = "checkpoint" /\ a.priority > ContactPriority
    <3>1. \E s, d : a = Entry("checkpoint", e.time + d, DefaultPriority, s, d)
      BY <1>2, NativeVocabulary DEF Native!Rescheduled
    <3>2. DefaultPriority > ContactPriority
      BY DEF DefaultPriority, ContactPriority
    <3> QED
      BY <3>1, <3>2, EntryFields
  <2> QED
    BY <2>1
<1> QED
  BY <1>1, <1>3, <1>4, CheckpointTicks

-----------------------------------------------------------------------------
(* The two engines implement one promise.                                  *)

\* Where the engines are compared, what they agree on is the Python promise.
LEMMA AgreedVocabulary ==
  /\ \A c, t, p, s, d : Agreed!Entry(c, t, p, s, d) = Promise!Entry(c, t, p, s, d)
  /\ Agreed!Priority = Promise!Priority
  /\ Agreed!DefaultPriority = Promise!DefaultPriority
  /\ Agreed!ContactPriority = Promise!ContactPriority
  /\ \A e : Agreed!Tick(e) = Promise!Tick(e)
  /\ \A w, e : Agreed!Raises(w, e) <=> Promise!Raises(w, e)
  /\ \A w, e : Agreed!Disbands(w, e) <=> Promise!Disbands(w, e)
  /\ \A e, q : Agreed!IsNext(e, q) <=> Promise!IsNext(e, q)
  /\ \A e : Agreed!Gap(e) = Promise!Gap(e)
<1>1. \A c, t, p, s, d : Agreed!Entry(c, t, p, s, d) = Promise!Entry(c, t, p, s, d)
  BY DEF Agreed!Entry, Promise!Entry
<1>2. Agreed!Priority = Promise!Priority
  BY DEF Agreed!Priority, Promise!Priority
<1>3. Agreed!DefaultPriority = Promise!DefaultPriority
  BY DEF Agreed!DefaultPriority, Promise!DefaultPriority
<1>4. Agreed!ContactPriority = Promise!ContactPriority
  BY DEF Agreed!ContactPriority, Promise!ContactPriority
<1>5. \A e : Agreed!Tick(e) = Promise!Tick(e)
  BY DEF Agreed!Tick, Promise!Tick
<1>6. \A w, e : Agreed!Raises(w, e) <=> Promise!Raises(w, e)
  BY DEF Agreed!Raises, Promise!Raises, Agreed!Politics, Promise!Politics
<1>7. \A e, q : Agreed!IsNext(e, q) <=> Promise!IsNext(e, q)
  BY DEF Agreed!IsNext, Promise!IsNext, Agreed!Precedes, Promise!Precedes
<1>8. \A e : Agreed!Gap(e) = Promise!Gap(e)
  BY DEF Agreed!Gap, Promise!Gap
<1>9. \A w, e : Agreed!Disbands(w, e) <=> Promise!Disbands(w, e)
  BY DEF Agreed!Disbands, Promise!Disbands, Agreed!Politics, Promise!Politics
<1> QED
  BY <1>1, <1>2, <1>3, <1>4, <1>5, <1>6, <1>7, <1>8, <1>9

LEMMA AgreedPending ==
  ASSUME Compared
  PROVE  Agreed!Pending = Promise!Pending
<1>1. PICK T : T = trace[Phase]
  OBVIOUS
<1>2. Agreed!Ticks = T /\ Promise!Ticks = T
  BY <1>1 DEF Agreed!Ticks, Promise!Ticks
<1>3. \A c : Agreed!Of(c) = OfIn(T, c) /\ Promise!Of(c) = OfIn(T, c)
  BY <1>2 DEF Agreed!Of, Promise!Of, OfIn
<1>4. \A c : Agreed!LastOf(c) = LastIn(T, c) /\ Promise!LastOf(c) = LastIn(T, c)
  BY <1>3 DEF Agreed!LastOf, Promise!LastOf, LastIn
<1>5. Agreed!Start = Promise!Start /\ (Agreed!ActiveAtStart <=> Promise!ActiveAtStart)
  BY AgreedVocabulary DEF Agreed!Start, Promise!Start, Agreed!ActiveAtStart, Promise!ActiveAtStart,
     Agreed!ActiveAfter, Promise!ActiveAfter
<1>6. Agreed!Risings = Promise!Risings
  BY <1>2, AgreedVocabulary DEF Agreed!Risings, Promise!Risings
<1>7. Agreed!FirstTicks = Promise!FirstTicks
  <2>1. PICK active \in BOOLEAN : active <=> Promise!ActiveAtStart
    OBVIOUS
  <2>2. PICK start : start = Promise!Start
    OBVIOUS
  <2>3. PICK R : R = Promise!Risings
    OBVIOUS
  <2>4. (Agreed!ActiveAtStart <=> active) /\ Agreed!Start = start /\ Agreed!Risings = R
    BY <1>5, <1>6, <2>1, <2>2, <2>3
  <2> QED
    BY <1>2, <1>3, <2>1, <2>2, <2>3, <2>4, AgreedVocabulary
    DEF Agreed!FirstTicks, Promise!FirstTicks
<1>8. Agreed!Recurrences = Promise!Recurrences
  BY <1>2, <1>3, <1>4, AgreedVocabulary DEF Agreed!Recurrences, Promise!Recurrences
<1>9. \A e : Agreed!Window(e) = Promise!Window(e)
  BY DEF Agreed!Window, Promise!Window
<1>10. Agreed!Contacts = Promise!Contacts
  BY <1>2, <1>3, <1>9, AgreedVocabulary DEF Agreed!Contacts, Promise!Contacts
<1> QED
  BY <1>7, <1>8, <1>10 DEF Agreed!Pending, Promise!Pending

LEMMA AgreedSteps ==
  ASSUME Compared, Compared', [Promise!Next]_(Promise!vars)
  PROVE  [Agreed!Next]_(Agreed!vars)
<1>1. Agreed!Pending = Promise!Pending
  BY AgreedPending
<1>2. \A e : Agreed!InBurnIn(e) <=> Promise!InBurnIn(e)
  BY DEF Agreed!InBurnIn, Promise!InBurnIn
<1>3. CASE Promise!NextTick
  <2>1. PICK e \in Promise!Pending :
          /\ Promise!IsNext(e, Promise!Pending)
          /\ Phase = "burn_in" => Promise!InBurnIn(e)
          /\ trace' = [trace EXCEPT ![Phase] = Append(@, Promise!Tick(e))]
          /\ UNCHANGED <<world, Phase>>
    BY <1>3 DEF Promise!NextTick
  <2>2. e \in Agreed!Pending /\ Agreed!IsNext(e, Agreed!Pending) /\ Agreed!Tick(e) = Promise!Tick(e)
    BY <1>1, <2>1, AgreedVocabulary
  <2> QED
    BY <1>2, <2>1, <2>2 DEF Agreed!Next, Agreed!NextTick
<1>4. CASE Promise!BurnInEnds
  BY <1>1, <1>2, <1>4, AgreedVocabulary DEF Promise!BurnInEnds, Agreed!BurnInEnds, Agreed!Next
<1>5. CASE UNCHANGED Promise!vars
  BY <1>5 DEF Promise!vars, Agreed!vars
<1> QED
  BY <1>3, <1>4, <1>5 DEF Promise!Next

\* Elsewhere the promise is asked for nothing.
LEMMA UncomparedSteps ==
  ASSUME ~Compared, UNCHANGED <<world, engine>>
  PROVE  UNCHANGED Agreed!vars
<1>1. ~Compared'
  BY DEF Compared
<1>2. (IF Compared \/ world.burnIn = 0 THEN Phase ELSE "burn_in")'
        = (IF Compared \/ world.burnIn = 0 THEN Phase ELSE "burn_in")
  BY <1>1 DEF Phase
<1> QED
  BY <1>1, <1>2 DEF Agreed!vars

LEMMA NativeStep ==
  ASSUME BothInv, NativeNext
  PROVE  BothInv' /\ [Agreed!Next]_(Agreed!vars)
<1>1. /\ engine = "native" /\ engine' = "native" /\ NativeFrame /\ IInv /\ NativeInv
      /\ world' = world
  <2>1. engine = "native" /\ engine' = engine /\ Native!Next /\ NativeFrame
    BY DEF NativeNext, NativeFrame
  <2>2. world' = world
    BY <2>1 DEF Native!Next, Native!Loop, Native!Run, Native!Advance, Native!Step, Native!BurnInEnds, Native!Return
  <2> QED
    BY <2>1, <2>2 DEF BothInv
<1>2. Compared' <=> Compared
  BY <1>1 DEF Compared
<1>3. Compared => world.burnIn = 0 /\ mode # "burn_in" /\ Whole
  <2>1. ~(0 > 0)
    OBVIOUS
  <2> QED
    BY <1>1, <2>1 DEF Compared, BothInv, NativeInv
<1>4. ASSUME IInv', NativeInv', Compared => Whole' /\ [Promise!Next]_(Promise!vars)
      PROVE  BothInv' /\ [Agreed!Next]_(Agreed!vars)
  <2>1. BothInv'
    BY <1>1, <1>2, <1>4 DEF BothInv
  <2>2. CASE Compared
    BY <1>2, <1>4, <2>1, <2>2, AgreedSteps
  <2>3. CASE ~Compared
    BY <1>1, <2>1, <2>3, UncomparedSteps
  <2> QED
    BY <2>2, <2>3
<1>5. /\ checkpointing' = TRUE /\ insurgents' = world'.founded /\ recruiting' = world'.founded
  BY <1>1 DEF NativeInv, NativeFrame
<1>6. ASSUME NEW u \in 0 .. Horizon, NEW m \in Nat \cup {None}, Run(u, m, None)
      PROVE  IInv' /\ (Compared => Whole' /\ [Promise!Next]_(Promise!vars))
  <2>1. IInv'
    BY <1>1, <1>6, RunInv
  <2>2. ASSUME Compared PROVE Whole' /\ [Promise!Next]_(Promise!vars)
    <3>1. History' /\ Exposed' /\ Mirror' /\ UNCHANGED <<world, trace>> /\ Phase' = Phase
      BY <1>3, <1>6, <2>2, RunKeeps
    <3> QED
      BY <2>1, <3>1 DEF Whole, Promise!vars
  <2> QED
    BY <2>1, <2>2
<1>7. ASSUME NEW u \in 0 .. Horizon, Native!Run(u)
      PROVE  BothInv' /\ [Agreed!Next]_(Agreed!vars)
  <2>1. Run(u, None, None)
    BY <1>1, <1>7, NativeRuns
  <2>2. NativeInv'
    <3>1. mode' # "new" /\ (mode' = "burn_in" => world'.burnIn > 0 /\ left' = None)
      BY <1>1, <1>7 DEF Native!Run
    <3> QED
      BY <1>5, <3>1 DEF NativeInv
  <2> QED
    BY <1>4, <1>6, <2>1, <2>2
<1>8. ASSUME NEW u \in 0 .. Horizon, NEW m \in Limits, Native!Advance(u, m)
      PROVE  BothInv' /\ [Agreed!Next]_(Agreed!vars)
  <2>1. m \in Nat \cup {None} /\ u \in Nat
    BY LimitsAssumption, HorizonAssumption
  <2>2. NativeInv'
    <3>1. mode \in {"new", "idle"} /\ (mode' = "running" \/ mode' = mode)
          /\ UNCHANGED <<queue, nextSequence, now>>
      BY <1>8 DEF Native!Advance
    <3>2. mode' = "new" => mode = "new"
      BY <3>1
    <3>3. mode' # "burn_in"
      BY <3>1
    <3>4. mode = "new" => now = 0 /\ queue = Populated(0, TRUE) /\ nextSequence = Cardinality(queue)
      BY <1>1 DEF NativeInv
    <3>5. Populated(0, TRUE)' = Populated(0, TRUE)
      BY <1>1, <1>5 DEF Populated, NativeFrame
    <3> QED
      BY <1>5, <3>1, <3>2, <3>3, <3>4, <3>5 DEF NativeInv
  <2>3. CASE mode = "idle" \/ world.burnIn = 0
    <3>1. Run(u, m, None)
      BY <1>1, <1>8, <2>1, <2>3, NativeAdvances
    <3> QED
      BY <1>4, <1>6, <2>1, <2>2, <3>1
  <2>4. CASE ~(mode = "idle" \/ world.burnIn = 0)
    <3>1. mode = "new"
      BY <1>8, <2>4 DEF Native!Advance
    <3>2. IInv'
      BY <1>1, <1>8, <2>1, <3>1, NativeStartsAtZero
    <3> QED
      BY <1>3, <1>4, <2>2, <2>4, <3>2
  <2> QED
    BY <2>3, <2>4
<1>9. CASE Native!Step
  <2>1. PICK e : NativeTurn(e)
    BY <1>9, NativeStepTurns
  <2>2. IInv'
    BY <1>1, <2>1, NativeTurnInv
  <2>3. NativeInv'
    <3>1. mode' # "new" /\ (mode' = "burn_in" => world'.burnIn > 0 /\ left' = None)
      BY <1>1, <2>1 DEF NativeTurn, NativeInv
    <3> QED
      BY <1>5, <3>1 DEF NativeInv
  <2>4. ASSUME Compared, e.clock # "checkpoint" PROVE Whole' /\ [Promise!Next]_(Promise!vars)
    <3>1. Handled(e)
      BY <1>1, <2>1, <2>4, NativeHandles
    <3>2. History' /\ Exposed' /\ Mirror' /\ Promise!NextTick
      BY <1>3, <2>4, <3>1, HandledHistory, HandledExposed, HandledMirror, HandledTicks
    <3> QED
      BY <2>2, <3>2 DEF Whole, Promise!Next
  <2>5. ASSUME Compared, e.clock = "checkpoint" PROVE Whole' /\ [Promise!Next]_(Promise!vars)
    <3>1. History' /\ Exposed' /\ Mirror' /\ UNCHANGED <<world, trace>> /\ Phase' = Phase
      BY <1>1, <1>3, <2>1, <2>5, NativeCheckpoints
    <3> QED
      BY <2>2, <3>1 DEF Whole, Promise!vars
  <2> QED
    BY <1>4, <2>2, <2>3, <2>4, <2>5
<1>10. CASE Native!BurnInEnds
  <2>1. IInv'
    BY <1>1, <1>10, NativeBurnInEndsInv
  <2>2. NativeInv' /\ ~Compared
    BY <1>3, <1>5, <1>10 DEF Native!BurnInEnds, NativeInv
  <2> QED
    BY <1>4, <2>1, <2>2
<1>11. CASE Native!Return
  <2>1. IInv' /\ now' \in Int /\ now <= now'
    BY <1>1, <1>11, NativeReturnInv
  <2>2. NativeInv' /\ mode = "running" /\ mode' = "idle"
    BY <1>5, <1>11 DEF Native!Return, NativeInv
  <2>3. ASSUME Compared PROVE Whole' /\ [Promise!Next]_(Promise!vars)
    <3>1. UNCHANGED <<world, trace, insurgents, recruiting, queue>>
      BY <1>1, <1>11 DEF Native!Return, NativeFrame
    <3>2. History' /\ Exposed' /\ Mirror' /\ UNCHANGED <<world, trace>> /\ Phase' = Phase
      BY <1>3, <2>1, <2>2, <2>3, <3>1, ReturnKeeps
    <3> QED
      BY <2>1, <3>2 DEF Whole, Promise!vars
  <2> QED
    BY <1>4, <2>1, <2>2, <2>3
<1> QED
  BY <1>7, <1>8, <1>9, <1>10, <1>11 DEF NativeNext, Native!Next, Native!Loop

LEMMA PythonStep ==
  ASSUME BothInv, PythonNext
  PROVE  BothInv' /\ [Agreed!Next]_(Agreed!vars)
<1>1. engine = "python" /\ engine' = "python" /\ Next
  BY DEF PythonNext
<1>2. Compared /\ Compared' /\ Whole
  BY <1>1 DEF Compared, BothInv
<1>3. Whole' /\ [Promise!Next]_(Promise!vars)
  BY <1>1, <1>2, WholeStep
<1> QED
  BY <1>1, <1>2, <1>3, AgreedSteps DEF BothInv, Whole

LEMMA BothStep ==
  ASSUME BothInv, [PythonNext \/ NativeNext]_both
  PROVE  BothInv' /\ [Agreed!Next]_(Agreed!vars)
<1>1. CASE PythonNext
  BY <1>1, PythonStep
<1>2. CASE NativeNext
  BY <1>2, NativeStep
<1>3. CASE UNCHANGED both
  <2>1. UNCHANGED vars /\ engine' = engine
    BY <1>3 DEF both
  <2>2. UNCHANGED world
    BY <2>1 DEF vars
  <2>3. Compared' <=> Compared
    BY <2>1, <2>2 DEF Compared
  <2>4. IInv'
    BY <2>1, IInvStep DEF BothInv
  <2>5. NativeInv => NativeInv'
    BY <2>1 DEF NativeInv, vars, Populated
  <2>6. Whole => Whole' /\ [Promise!Next]_(Promise!vars)
    BY <2>1, WholeStep
  <2>7. BothInv'
    BY <2>1, <2>3, <2>4, <2>5, <2>6 DEF BothInv
  <2>8. CASE Compared
    BY <2>3, <2>6, <2>7, <2>8, AgreedSteps DEF BothInv
  <2>9. CASE ~Compared
    BY <2>1, <2>2, <2>7, <2>9, UncomparedSteps
  <2> QED
    BY <2>7, <2>8, <2>9
<1> QED
  BY <1>1, <1>2, <1>3

LEMMA BothStart ==
  ASSUME BothInit
  PROVE  BothInv /\ Agreed!Init
<1>1. CASE engine = "python" /\ Init
  <2>1. Compared /\ Whole /\ Promise!Init
    BY <1>1, WholeInit DEF Compared
  <2>2. Agreed!Init
    BY <2>1 DEF Agreed!Init, Promise!Init
  <2> QED
    BY <1>1, <2>1, <2>2 DEF BothInv, Whole
<1>2. CASE /\ engine = "native" /\ Native!Init
           /\ checkpointing = TRUE /\ saved = None
           /\ recruiting = world.founded /\ insurgents = world.founded
  <2>1. /\ world \in NativeWorlds /\ IsWorld(world) /\ insurgents \in BOOLEAN
        /\ mode = "new" /\ now = 0 /\ until = 0 /\ left = None /\ outcome = None
        /\ trace = [p \in {"burn_in", "observed"} |-> <<>>]
    BY <1>2, NativeWorldsAssumption DEF Native!Init, IsWorld
  <2>2. queue = Populated(0, TRUE) /\ nextSequence = Cardinality(queue)
    BY <1>2, NativeInitialEvents, NativeVocabulary DEF Native!Init
  <2>3. 0 \in Int /\ TRUE \in BOOLEAN
    OBVIOUS
  <2>4. PICK q : q = Populated(0, TRUE)
    OBVIOUS
  <2>5. /\ Cardinality(q) \in Nat
        /\ Cardinality(q) = Cardinality((Clocks \ (IF insurgents THEN {} ELSE {"recruitment"}))
                                          \cup (IF TRUE THEN {"checkpoint"} ELSE {}))
        /\ \A e \in q : /\ e.clock \in Clocks \cup {"checkpoint"}
                        /\ e.time = 0 /\ e.priority \in Nat /\ e.priority > ContactPriority
                        /\ e.sequence \in Nat /\ e.sequence < Cardinality(q)
                        /\ e.elapsed = 0
        /\ \A e, f \in q : e.sequence = f.sequence \/ e.clock = f.clock => e = f
    BY <2>1, <2>3, <2>4, PopulatedFacts
  <2>6. queue = q /\ nextSequence = Cardinality(q)
    BY <2>2, <2>4
  <2>7. TypeOK
    <3>1. {checkpointing, recruiting, insurgents} \subseteq BOOLEAN
      BY <1>2, <2>1, Zenon
    <3>2. \A e \in queue : /\ e.clock \in Clocks \cup {"checkpoint", "contact"}
                           /\ e.time \in Int /\ e.priority \in Nat
                           /\ e.sequence \in Nat /\ e.elapsed \in Nat
      BY <2>5, <2>6
    <3> QED
      BY <1>2, <2>1, <2>5, <2>6, <3>1, <3>2, HorizonAssumption DEF TypeOK
  <2>8. Numbered /\ Sole
    BY <2>5, <2>6 DEF Numbered, Sole
  <2>9. Ticking
    BY <2>1, Zenon DEF Ticking
  <2>10. IInv
    BY <2>1, <2>7, <2>8, <2>9 DEF IInv, NeverBackward, InBounds, ReturnsAtHorizon
  <2>11. NativeInv
    BY <1>2, <2>1, <2>2 DEF NativeInv
  <2>12. History
    <3>1. <<>> \in Seq(Memory) /\ DOMAIN <<>> = {}
      OBVIOUS
    <3>2. trace["burn_in"] = <<>> /\ trace["observed"] = <<>>
      BY <2>1
    <3>3. /\ trace \in [{"burn_in", "observed"} -> Seq(Memory)]
          /\ trace[Phase] = <<>> /\ Phase \in {"burn_in", "observed"}
      BY <2>1, <3>1, <3>2 DEF Phase
    <3>4. insurgents <=> Promise!ActiveAtStart
      BY <1>2, <2>1, <3>2, <3>3, NothingBefore DEF IsWorld
    <3>5. Standing
      BY <2>1, <3>3, <3>4, NoTickYet DEF Standing
    <3> QED
      BY <1>2, <2>1, <3>2, <3>3, <3>5 DEF History
  <2>13. Exposed
    <3>1. \A e \in queue : e.clock # "contact" /\ e.priority > ContactPriority
      BY <2>5, <2>6, ClocksAssumption DEF Priority
    <3> QED
      BY <3>1 DEF Exposed
  <2>14. Mirror
    BY <2>1 DEF Mirror
  <2>15. BothInv
    BY <1>2, <2>10, <2>11, <2>12, <2>13, <2>14 DEF BothInv, Whole
  <2>16. Agreed!Init
    <3>1. Phase = IF world.burnIn > 0 THEN "burn_in" ELSE "observed"
      BY <2>1 DEF Phase
    <3>2. world.burnIn = 0 \/ world.burnIn > 0
      BY <2>1 DEF IsWorld
    <3> QED
      BY <2>1, <3>1, <3>2 DEF Agreed!Init
  <2> QED
    BY <2>15, <2>16
<1> QED
  BY <1>1, <1>2 DEF BothInit

\* Whichever engine runs, on any world: nothing pending is ever overdue, no
\* clock is lost or doubled, and a call returns where it says it does.
THEOREM BothKeepTheCalendar == BothSpec => [](NeverBackward /\ OneEventPerClock /\ ReturnsAtHorizon)
<1>1. BothInit => BothInv
  BY BothStart
<1>2. BothInv /\ [PythonNext \/ NativeNext]_both => BothInv'
  BY BothStep
<1>3. BothInv => NeverBackward /\ OneEventPerClock /\ ReturnsAtHorizon
  BY OnePerClock DEF BothInv, IInv
<1> QED
  BY <1>1, <1>2, <1>3, PTL DEF BothSpec

\* Both engines make the trajectory that the world alone determines, the native
\* one where the two are compared.
THEOREM OneTrajectory == BothSpec => EnginesAgree
<1>1. BothInit => BothInv /\ Agreed!Init
  BY BothStart
<1>2. BothInv /\ [PythonNext \/ NativeNext]_both => BothInv' /\ [Agreed!Next]_(Agreed!vars)
  BY BothStep
<1> QED
  BY <1>1, <1>2, PTL DEF BothSpec, EnginesAgree, Agreed!Spec
=============================================================================
