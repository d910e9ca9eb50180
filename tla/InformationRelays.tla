--------------------------- MODULE InformationRelays ---------------------------
(***************************************************************************)
(* Reports and their relays in the three execution modes of a simulation:  *)
(* "standard" keeps them for the record (pruned after `retention` days),   *)
(* "particle" keeps what may still matter, and "ensemble" keeps numeric    *)
(* rows instead.  One organization is informed about one target; a report  *)
(* is its source and its time, a belief the fusions that made it.          *)
(* Time is counted in the smallest amount by which a computed arrival may  *)
(* miss a clock; events happen at multiples of Instant, days begin at      *)
(* multiples of Day.  Observation and relay numbers are handed out in      *)
(* pairs and share one counter.                                            *)
(***************************************************************************)
EXTENDS Integers, Sequences, FiniteSets, SequencesExt, Functions

CONSTANTS
  Batches,              \* what one event may see: sequences of [source, latency]
  Instant, Day, Interval, Memory, Tolerance,
  Scenarios,            \* [backend, retention, start]
  MaxReports, Horizon   \* bounds of the model

ASSUME TimesAssumption ==
  /\ Instant \in Nat \ {0} /\ Tolerance \in 0..Instant - 1
  /\ {Day, Interval, Memory} \subseteq {Instant * n : n \in 1..Horizon}
ASSUME BatchesAssumption ==
  \A batch \in Batches :
    batch \in Seq(Range(batch)) /\ \A i \in DOMAIN batch : batch[i].latency \in Nat
\* The end of burn-in does not reset the rows of the ensemble mode.
ASSUME ScenariosAssumption ==
  \A s \in Scenarios : /\ s.start \in Int /\ s.start % Instant = 0
                       /\ s.retention \in Nat
                       /\ s.backend = "ensemble" => s.start >= 0

VARIABLES
  backend, retention,
  now, due, in_burn_in,
  next,                 \* next_observation_sequence, next_information_relay_sequence
  observations,         \* number -> report
  information_relays,   \* number -> [report, arrives_at, status]
  active_information_relays,
  information_relay_due_heap,  \* [at, relay]
  observation_source_index,    \* [source, at], oldest first
  event_rows,           \* number -> report
  relay_buffer,         \* [relay, report, arrives_at], all in transit
  beliefs               \* [where, report, with] in the order they were fused

rich == <<observations, information_relays, active_information_relays,
          information_relay_due_heap>>
numeric == <<event_rows, relay_buffer>>
vars == <<backend, retention, now, due, in_burn_in, next, rich,
          observation_source_index, numeric, beliefs>>

None == <<>>
Joined(f, g) == [x \in DOMAIN f \cup DOMAIN g |-> IF x \in DOMAIN g THEN g[x] ELSE f[x]]

Init ==
  /\ \E s \in Scenarios :
       /\ backend = s.backend /\ retention = s.retention
       /\ now = s.start /\ due = s.start /\ in_burn_in = (s.start < 0)
  /\ next = 1
  /\ observations = None /\ information_relays = None
  /\ active_information_relays = {} /\ information_relay_due_heap = {}
  /\ observation_source_index = <<>>
  /\ event_rows = None /\ relay_buffer = <<>>
  /\ beliefs = <<>>

\* A finite set of numbers in ascending order, and the elements of a sequence
\* at the indices of keep, one after the other.
Ordered(numbers) ==
  [i \in 1..Cardinality(numbers) |->
     CHOOSE n \in numbers : Cardinality({m \in numbers : m <= n}) = i]

Compacted(seq, keep) == [i \in DOMAIN Ordered(keep) |-> seq[Ordered(keep)[i]]]

------------------------------------------------------------------------------
\* Fusion.

\* The other sources with a report close in time.
Corroboration(history, report) ==
  {e.source : e \in {x \in Range(history) :
     /\ x.source # report.source
     /\ x.at - report.at \in -Memory..Memory}}

Fused(where, report, history) ==
  [where |-> where, report |-> report, with |-> Corroboration(history, report)]

Seen(batch, i, t) == [source |-> batch[i].source, at |-> t]

Since(history, t) ==
  Compacted(history, {i \in DOMAIN history : history[i].at >= t})

WithNew(batch, n, t) ==
  observation_source_index \o [i \in 1..n |-> Seen(batch, i, t)]

\* Variant: a report exactly as old as the memory is forgotten.
ShorterHistory(batch, n, t) ==
  IF n = 0 THEN observation_source_index
  ELSE Since(WithNew(batch, n, t), t - Memory + 1)

\* The history after the first n reports of a batch: what has left its memory
\* of three days is dropped whenever a report is added.
History(batch, n, t) ==
  IF n = 0 THEN observation_source_index
  ELSE Since(WithNew(batch, n, t), t - Memory)

\* Reports are remembered before they are fused, rows after.
FieldFusions(batch, t) ==
  [i \in DOMAIN batch |->
    Fused("field", Seen(batch, i, t),
          History(batch, IF backend = "ensemble" THEN i - 1 ELSE i, t))]

HeadquartersFusions(reports, history) ==
  [i \in DOMAIN reports |-> Fused("headquarters", reports[i], history)]

------------------------------------------------------------------------------
\* Reports and relays as objects.

\* next + i - 1 is the number of the i-th report and of its relay.
NewNumbers(batch) == next..next + Len(batch) - 1
Of(batch, n) == n - next + 1

NewObservations(batch, t) == [n \in NewNumbers(batch) |-> Seen(batch, Of(batch, n), t)]

NewRelays(batch, t) ==
  [n \in NewNumbers(batch) |->
    [report |-> n, arrives_at |-> t + batch[Of(batch, n)].latency, sent_at |-> t,
     status |-> "in_transit"]]

NewDue(batch, t) ==
  {[at |-> t + batch[Of(batch, n)].latency, relay |-> n] : n \in NewNumbers(batch)}

\* Variant: relays due before the next clock are taken from the heap as well.
PoppedAhead(heap, t) == {e \in heap : e.at < t + Interval}

\* What the due heap hands out at a clock; it does not get back what is early.
Popped(heap, t) == {e \in heap : e.at <= t + Tolerance}

Candidates(heap, active, t) == {e.relay : e \in Popped(heap, t)} \cap active

\* Those whose turn has come, those without their report, and those heard.
Ready(all, heap, active, t) ==
  {n \in Candidates(heap, active, t) :
     n \in DOMAIN all /\ all[n].status = "in_transit" /\ all[n].arrives_at <= t}

Gone(all, heap, active, t) ==
  {n \in Candidates(heap, active, t) :
     n \notin DOMAIN all \/ all[n].status # "in_transit"}

\* _prune_information_history: what it leaves of observations, relays, history.
Prunes(t) == retention > 0 /\ t > retention /\ t % Day = 0

Pending(relays, active) == {relays[n].report : n \in active \cap DOMAIN relays}

KeptObservations(all, pending, t) ==
  RestrictDomain(all, LAMBDA n : all[n].at >= t - retention \/ n \in pending)

KeptRelays(relays, t) ==
  RestrictValues(relays, LAMBDA r : r.sent_at >= t - retention \/ r.status = "in_transit")

KeptHistory(history, t) == Since(history, t - retention)

\* compact_particle_information_state: the relays it keeps.
Live(relays, active) ==
  RestrictDomain(relays, LAMBDA n : n \in active /\ relays[n].status = "in_transit")

\* The archives at the end of an information event.
Archive(all, relays, active, history, t) ==
  LET kept == IF Prunes(t) THEN KeptRelays(relays, t) ELSE relays
      seen == IF Prunes(t) THEN KeptObservations(all, Pending(relays, active), t) ELSE all
      live == Live(kept, active)
  IN  /\ observation_source_index' = IF Prunes(t) THEN KeptHistory(history, t) ELSE history
      /\ information_relays' = IF backend = "particle" THEN live ELSE kept
      /\ active_information_relays' =
           IF backend = "particle" THEN DOMAIN live ELSE active
      /\ observations' = IF backend = "particle"
                         THEN Restrict(seen, DOMAIN seen \cap Pending(live, DOMAIN live))
                         ELSE seen

Settled(relays, delivered, dropped) ==
  [n \in DOMAIN relays |->
    [relays[n] EXCEPT !.status = CASE n \in delivered -> "delivered"
                                   [] n \in dropped -> "dropped"
                                   [] OTHER -> @]]

------------------------------------------------------------------------------
\* Reports and relays as rows.

NewRows(batch, t) ==
  [i \in DOMAIN batch |-> [relay |-> next + i - 1, report |-> next + i - 1,
                          arrives_at |-> t + batch[i].latency]]

\* _record_rows: this event's reports that a relay carries.
Recorded(buffer, batch, t) ==
  LET carried == {row.report : row \in Range(buffer)}
  IN  Joined(event_rows, RestrictDomain(NewObservations(batch, t), LAMBDA n : n \in carried))

Arrived(buffer, t) == {row \in Range(buffer) : row.arrives_at <= t + Tolerance}

\* Variant: the row that arrived within the tolerance stays in the buffer.
RetainLate(buffer, t) == Compacted(buffer, {i \in DOMAIN buffer : buffer[i].arrives_at > t})

\* retain_active, after all that arrived was delivered or dropped.
RetainActive(buffer, t) ==
  Compacted(buffer, {i \in DOMAIN buffer : buffer[i].arrives_at > t + Tolerance})

------------------------------------------------------------------------------
\* Every report is fused in the field once.
Fits(batch) ==
  Len(SelectSeq(beliefs, LAMBDA b : b.where = "field")) + Len(batch) <= MaxReports

\* observe_patrol and ingest_observation, or process_patrol.
Patrol ==
  \E t \in now..due, batch \in Batches :
    /\ t % Instant = 0 /\ t <= Horizon /\ (in_burn_in => t < 0)
    /\ Fits(batch) /\ Len(batch) = 1
    /\ now' = t /\ next' = next + Len(batch)
    /\ beliefs' = beliefs \o FieldFusions(batch, t)
    /\ observation_source_index' = History(batch, Len(batch), t)
    /\ IF backend = "ensemble"
       THEN /\ relay_buffer' = relay_buffer \o NewRows(batch, t)
            /\ event_rows' = Recorded(relay_buffer', batch, t)
            /\ UNCHANGED rich
       ELSE /\ observations' = Joined(observations, NewObservations(batch, t))
            /\ information_relays' = Joined(information_relays, NewRelays(batch, t))
            /\ active_information_relays' = active_information_relays \cup NewNumbers(batch)
            /\ information_relay_due_heap' = information_relay_due_heap \cup NewDue(batch, t)
            /\ UNCHANGED numeric
    /\ UNCHANGED <<backend, retention, due, in_burn_in>>

\* The information clock: reports, then what has arrived at headquarters.
Clock(batch) ==
  /\ due <= Horizon /\ (in_burn_in => due < 0)
  /\ Fits(batch)
  /\ now' = due /\ due' = due + Interval
  /\ next' = next + Len(batch)
  /\ UNCHANGED <<backend, retention, in_burn_in>>

ProcessInformation ==
  \E batch \in Batches \cup {<<>>} :
    LET all == Joined(observations, NewObservations(batch, due))
        relays == Joined(information_relays, NewRelays(batch, due))
        active == active_information_relays \cup NewNumbers(batch)
        heap == information_relay_due_heap \cup NewDue(batch, due)
        history == History(batch, Len(batch), due)
        ready == Ready(relays, heap, active, due)
        reported == {n \in ready : relays[n].report \in DOMAIN all}
    IN  /\ backend # "ensemble" /\ Clock(batch)
        /\ \E delivered \in SUBSET reported :
             LET heard == Ordered(delivered)
                 reports == [i \in DOMAIN heard |-> all[relays[heard[i]].report]]
             IN  /\ beliefs' = beliefs \o FieldFusions(batch, due)
                                     \o HeadquartersFusions(reports, history)
                 /\ Archive(all, Settled(relays, delivered, ready \ delivered),
                            active \ (ready \cup Gone(relays, heap, active, due)),
                            history, due)
        /\ information_relay_due_heap' = heap \ Popped(heap, due)
        /\ UNCHANGED numeric

ProcessNumeric ==
  \E batch \in Batches \cup {<<>>} :
    LET buffer == relay_buffer \o NewRows(batch, due)
        rows == Recorded(buffer, batch, due)
        arrived == Arrived(buffer, due)
        history == History(batch, Len(batch), due)
    IN  /\ backend = "ensemble" /\ Clock(batch)
        /\ \E delivered \in SUBSET {row \in arrived : row.report \in DOMAIN rows} :
             LET heard == Compacted(buffer, {i \in DOMAIN buffer : buffer[i] \in delivered})
                 reports == [i \in DOMAIN heard |-> rows[heard[i].report]]
             IN  beliefs' = beliefs \o FieldFusions(batch, due)
                                 \o HeadquartersFusions(reports, history)
        /\ relay_buffer' = RetainActive(buffer, due)
        /\ event_rows' = RestrictDomain(rows, LAMBDA n : \A row \in arrived : row.report # n)
        /\ observation_source_index' = history
        /\ UNCHANGED rich

\* The end of burn-in: the first information clock of the new calendar is at
\* zero.  Nothing here touches the numeric rows: the scenarios have no burn-in
\* for the ensemble backend.
BeginObserved ==
  /\ in_burn_in /\ due >= 0
  /\ in_burn_in' = FALSE /\ now' = 0 /\ due' = 0 /\ next' = 1
  /\ observations' = None /\ information_relays' = None
  /\ active_information_relays' = {} /\ information_relay_due_heap' = {}
  /\ observation_source_index' = <<>>
  /\ UNCHANGED <<backend, retention, numeric, beliefs>>

Next == Patrol \/ ProcessInformation \/ ProcessNumeric \/ BeginObserved

\* The calendar goes on to its horizon; nothing makes a patrol report.
Fairness == WF_vars(ProcessInformation) /\ WF_vars(ProcessNumeric) /\ WF_vars(BeginObserved)

Spec == Init /\ [][Next]_vars /\ Fairness

------------------------------------------------------------------------------
Stripped(relays) ==
  {[number |-> n, report |-> observations[relays[n].report],
    arrives |-> relays[n].arrives_at] : n \in DOMAIN relays}

Rows(buffer) ==
  {[number |-> row.relay, report |-> event_rows[row.report],
    arrives |-> row.arrives_at] : row \in Range(buffer)}

InTransit ==
  IF backend = "ensemble" THEN Rows(relay_buffer)
  ELSE Stripped(Restrict(information_relays, active_information_relays))

\* Whatever the execution mode keeps, prunes or compacts, the organization
\* comes to the same beliefs: each report once in the field, once or never at
\* headquarters, in order and with the weight its neighbours give it.
Network == INSTANCE CommandRelays WITH
  burnIn <- in_burn_in, reports <- Range(observation_source_index),
  inTransit <- InTransit, sent <- next - 1
ImplementsCommandRelays == Network!NetworkSpec

\* Every relay under way still has its report (one without is dropped without
\* a trace), and the modes for particles keep nothing beside these.
WorkingSet ==
  /\ backend # "ensemble" =>
       /\ active_information_relays \subseteq DOMAIN information_relays
       /\ LET pending == Pending(information_relays, active_information_relays)
          IN  /\ pending \subseteq DOMAIN observations
              /\ backend = "particle" => DOMAIN observations = pending
  /\ backend = "ensemble" =>
       DOMAIN event_rows = {row.report : row \in Range(relay_buffer)}

\* Information clocks that may be due before the end.
Clocks == {t \in Horizon - 2 * Horizon..Horizon : t % Interval = 0}

\* A relay that is late by a rounding error at some clock may be popped there and
\* is then never looked at again, except among the numeric rows.
Stranded(relay) ==
  backend # "ensemble" /\ \E t \in Clocks : relay.arrives \in t + 1..t + Tolerance

Awaited(n) ==
  \E relay \in InTransit : /\ relay.number = n /\ ~Stranded(relay)
                          /\ \E t \in Clocks : t >= due /\ relay.arrives <= t

\* Every relay that arrives before the horizon is settled: heard, lost, or
\* forgotten with burn-in, but never left behind.
RelaysEnd ==
  \A n \in 1..MaxReports : Awaited(n) ~> \A relay \in InTransit : relay.number # n
=============================================================================
