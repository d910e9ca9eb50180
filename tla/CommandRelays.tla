----------------------------- MODULE CommandRelays -----------------------------
(***************************************************************************)
(* What the command network of an organization promises: a report is       *)
(* believed where it is made at once, and at headquarters at the first     *)
(* information clock after its relay arrives, unless it is lost there; it  *)
(* weighs what the reports around it make it weigh.  Relays that arrive    *)
(* together are heard in the order they were sent.  The end of burn-in     *)
(* forgets what is under way, not what is believed.                        *)
(***************************************************************************)
EXTENDS Integers, Sequences, FiniteSets, SequencesExt

CONSTANTS
  Batches,    \* what one event may see: sequences of [source, latency]
  Interval, Memory,
  Tolerance   \* a relay this close after a clock may be heard there or never

VARIABLES
  now, due,   \* the last event and the next information clock
  burnIn,
  reports,    \* [source, at], as far as they are remembered
  inTransit,  \* [number, report, arrives]
  sent,       \* relays sent
  beliefs     \* [where, report, with] in the order they were fused

networkVars == <<now, due, burnIn, reports, inTransit, sent, beliefs>>

Near(r, s) == r.at - s.at \in -Memory..Memory

\* The other sources that support report r.
Support(known, r) ==
  {s.source : s \in {k \in known : Near(k, r) /\ k.source # r.source}}

Made(batch, t) == [i \in DOMAIN batch |-> [source |-> batch[i].source, at |-> t]]

Sent(batch, t) ==
  {[number |-> sent + i, report |-> Made(batch, t)[i],
    arrives |-> t + batch[i].latency] : i \in DOMAIN batch}

Remembered(batch, t) ==
  IF batch = <<>> THEN reports
  ELSE {r \in reports : r.at >= t - Memory} \cup Range(Made(batch, t))

BelievedAtOnce(batch, t) ==
  [i \in DOMAIN batch |->
    [where |-> "field", report |-> Made(batch, t)[i],
     with |-> Support(reports \cup {Made(batch, t)[j] : j \in 1..i}, Made(batch, t)[i])]]

\* The i-th of some relays, in the order they were sent.
Nth(heard, i) ==
  CHOOSE r \in heard : Cardinality({s \in heard : s.number <= r.number}) = i

BelievedLater(heard, known) ==
  [i \in 1..Cardinality(heard) |->
    LET report == Nth(heard, i).report
    IN  [where |-> "headquarters", report |-> report, with |-> Support(known, report)]]

\* Late by no more than the tolerance at the clock before it.
Late(relay) == (relay.arrives - due) % Interval \in 1..Tolerance

\* Only reports that can support nothing any more are forgotten.
Forget(known, t) ==
  /\ reports' \subseteq known
  /\ \A r \in known \ reports' :
       /\ r.at < t - Memory
       /\ \A relay \in inTransit' :
            Near(r, relay.report) => Late(relay) /\ relay.arrives <= t + Tolerance

NetworkInit ==
  /\ now = due /\ burnIn = (now < 0)
  /\ reports = {} /\ inTransit = {} /\ sent = 0 /\ beliefs = <<>>

Report ==
  \E t \in now..due, batch \in Batches :
    /\ now' = t
    /\ inTransit' = inTransit \cup Sent(batch, t)
    /\ sent' = sent + Len(batch)
    /\ beliefs' = beliefs \o BelievedAtOnce(batch, t)
    /\ Forget(Remembered(batch, t), t)
    /\ UNCHANGED <<due, burnIn>>

Information ==
  \E batch \in Batches \cup {<<>>} :
    LET all == inTransit \cup Sent(batch, due)
        atOnce == beliefs \o BelievedAtOnce(batch, due)
        arrived == {r \in all : r.arrives <= due /\ ~Late(r)}
        arriving == {r \in all : r.arrives \in due + 1..due + Tolerance}
    IN  /\ now' = due /\ due' = due + Interval
        /\ sent' = sent + Len(batch)
        /\ IsPrefix(atOnce, beliefs')
        /\ \E taken \in SUBSET arriving :
             /\ inTransit' = all \ (arrived \cup taken)
             /\ \E lost \in SUBSET (arrived \cup taken) :
                  beliefs' = atOnce \o BelievedLater((arrived \cup taken) \ lost,
                                                    Remembered(batch, due))
        /\ Forget(Remembered(batch, due), due)
        /\ UNCHANGED burnIn

Begin ==
  /\ burnIn /\ due >= 0 /\ burnIn' = FALSE
  /\ now' = 0 /\ due' = 0
  /\ reports' = {} /\ inTransit' = {} /\ sent' = 0
  /\ UNCHANGED beliefs

NetworkSpec == NetworkInit /\ [][Report \/ Information \/ Begin]_networkVars
=============================================================================
