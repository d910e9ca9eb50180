------------------------- MODULE MC_InformationRelays -------------------------
\* Two units are an instant, an information clock falls on every second one and
\* a day begins on every fourth; arrivals may miss a clock by one unit.  A relay
\* takes nothing, an interval or a rounding error more; two reports of one event
\* arrive in either order.  What is archived for 12 is remembered for 4.
EXTENDS InformationRelays

Sighting(s, l) == [source |-> s, latency |-> l]
MCBatches == {<<Sighting("patrol", 5)>>, <<Sighting("elite", 0)>>, <<Sighting("elite", 4)>>,
              <<Sighting("elite", 5), Sighting("patrol", 0)>>}

Scenario(b, r, s) == [backend |-> b, retention |-> r, start |-> s]
MCScenarios ==
  {Scenario("standard", 12, -4), Scenario("particle", 0, -4), Scenario("particle", 12, 0),
   Scenario("ensemble", 0, 0)}
=============================================================================
