----------------------------- MODULE MC_Schedulers -----------------------------
\* The two schedulers side by side: every call is made to both.  Three
\* timestamps around zero, two priorities and two replacement keys: ties at
\* every level of the ordering key, and a time the constructor may refuse.
EXTENDS EventScheduler

VARIABLES times, buckets, calendarSequence, size, calendarCancelled,
          calendarReplacement, calendarReply

C == INSTANCE CalendarEventScheduler WITH
  nextSequence <- calendarSequence, cancelled <- calendarCancelled,
  replacement <- calendarReplacement, reply <- calendarReply

both == <<vars, C!vars>>

BothInit == Init /\ C!Init

BothNext ==
  \/ \E t \in Times, p \in Priorities : Schedule(t, p) /\ C!Schedule(t, p)
  \/ \E s \in 0 .. MaxSequence : Cancel(s) /\ C!Cancel(s)
  \/ \E k \in Keys, t \in Times, p \in Priorities :
       ScheduleReplacing(k, t, p) /\ C!ScheduleReplacing(k, t, p)
  \/ PopNext /\ C!PopNext
  \/ PopTimeBatch /\ C!PopTimeBatch
  \/ PeekTime /\ C!PeekTime

BothSpec == BothInit /\ [][BothNext]_both

\* The head of _times always names a bucket with an event in it, and _size counts
\* the live events of the calendar scheduler.
CalendarExact == C!TimesMatchBuckets /\ C!SizeExact

\* The calendar scheduler returns from every call what the single heap returns
\* from it ("Exact same-time bucket scheduler"), so configure_execution may
\* choose either.
SameReplies == reply = calendarReply

MCTimes == {-1, 0, 2}
MCPriorities == {0, 1}
================================================================================
