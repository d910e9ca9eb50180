------------------------------ MODULE MC_Conflict ------------------------------
\* Small worlds for the processes of a conflict.  `scenario` says which of them
\* run: every one of them on every world at once is beyond TLC.
\*   combat    a government with two formations in two places against one
\*   supply    a government with a source and a formation away from it
\*   foreign   a state that supports, intervenes twice against insurgents and withdraws
\*   births    organizations founded where there were none
\*   ecology   two organizations and the people of two places
\*   attrition recruits that fall, march and leave
\*   peace     two organizations under up to two agreements, and their recruits
\*   spoilers  the same, dividing, merging and collapsing at the table
EXTENDS ConflictWorld

CONSTANT Scenarios

VARIABLE scenario

allVars == <<worldVars, scenario>>

Org(kind, members, resources) ==
  [kind |-> kind, status |-> "active", members |-> members, resources |-> resources,
   party |-> FALSE, branches |-> 0]
Government == Org("government", {}, 0)
Source(o, l, stock) == [organization |-> o, locality |-> l, stock |-> stock]
Member(o) == [organization |-> o, fraction |-> 1]

World(orgs, forms, stores, who) ==
  organizations = orgs /\ formations = forms /\ sources = stores /\ people = who

Nobody == [p \in Persons |-> Unaffiliated]
Two == <<Government, Org("insurgent", {1}, 1), Org("insurgent", {2}, 1)>>
Apart == [p \in Persons |-> Member(p + 1)]

MCInit ==
  /\ scenario \in Scenarios
  /\ \/ scenario = "combat"
        /\ World(<<Government, Org("insurgent", {}, 0)>>,
                 <<Fresh(1, "north", 1, 1), Fresh(1, "south", 1, 2), Fresh(2, "north", 1, 0)>>,
                 <<>>, Nobody)
     \/ scenario = "supply"
        /\ World(<<Government, Org("insurgent", {}, 0)>>,
                 <<Fresh(1, "south", 2, 1), Fresh(2, "south", 1, 0)>>,
                 <<Source(1, "north", 1)>>, Nobody)
     \/ scenario = "foreign"
        /\ World(<<Government, Org("insurgent", {}, 0)>>, <<Fresh(2, "north", 1, 0)>>,
                 <<>>, Nobody)
     \/ scenario = "ecology"
        /\ World(Two, <<Fresh(2, "north", 1, 0)>>, <<Source(2, "south", 1)>>, Apart)
     \/ scenario = "births" /\ World(<<Government>>, <<>>, <<>>, Nobody)
     \/ scenario = "attrition"
        /\ World(<<Government, Org("insurgent", {1}, 1)>>,
                 <<Fresh(1, "north", 1, 0), Fresh(2, "north", 1, 0)>>, <<>>,
                 [Nobody EXCEPT ![1] = Member(2)])
     \/ scenario = "peace"
        /\ World(<<Government, Org("insurgent", {1}, 0), Org("insurgent", {2}, 0)>>,
                 <<>>, <<>>, Apart)
     \/ scenario = "spoilers"
        /\ World(<<Government, Org("insurgent", {1}, 2), Org("insurgent", {2}, 0)>>,
                 <<Fresh(2, "north", 1, 1)>>, <<>>, Apart)
  /\ Opening

Marching == {"combat", "supply", "foreign", "attrition"}

MCNext ==
  /\ UNCHANGED scenario
  /\ \/ scenario \in Marching \ {"foreign"} /\ Forces
     \/ scenario = "foreign" /\ ((Forces /\ handler' # "logistics") \/ Foreign)
     \/ scenario = "ecology" /\ Mobilization /\ UNCHANGED protos
     \/ scenario = "births" /\ Mobilization /\ Len(organizations') <= 4
        /\ Len(formations') <= 2
     \/ scenario \in {"attrition", "peace"} /\ Mobilization /\ RecruitmentNext
     \/ scenario = "spoilers" /\ Mobilization /\ LifecycleNext
        /\ UNCHANGED protos /\ Len(agreements) <= 1
     \/ scenario \in {"peace", "spoilers"} /\ Peace

\* Clocks recur, so an order falls due at some movement tick; and a handler ends.
Spec ==
  /\ MCInit /\ [][MCNext]_allVars
  /\ WF_allVars(scenario \in Marching /\ ~Idle /\ MCNext)
  /\ \A i \in 1..MaxOrders :
       SF_allVars(Advance(i) /\ UNCHANGED <<interventions, ecologyVars, peaceVars, scenario>>)

MCResidence == <<"north", "south">>
MCCommunity == <<"north">>
MCStates == <<"neighbour">>
MCBorder == [s \in {1} |-> "north"]
MCExpedition == [personnel |-> 1, stock |-> 1, source |-> 0, resources |-> 0]
=============================================================================
