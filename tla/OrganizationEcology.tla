-------------------------- MODULE OrganizationEcology --------------------------
(***************************************************************************)
(* Armed organizations and their people: recruitment, exit and defection   *)
(* with the manpower they move (recruit_and_retain), and the weekly births,*)
(* splits, collapses and mergers (process_organization_ecology).  Persons  *)
(* have unit weight and join by cohorts; a community is the people of a    *)
(* locality.  Whether a hazard strikes is arbitrary.                       *)
(***************************************************************************)
EXTENDS ConflictState, SequencesExt

CONSTANTS
  Residence, Community,  \* of each person; the localities in order
  Cohorts,               \* parts of a person that join and leave
  TargetPersonnel, MinimumPersonnel,  \* of a formation that is recruited
  Contributions          \* what founders may bring

ASSUME EcologyAssumption ==
  /\ Cohorts \in Nat \ {0} /\ MinimumPersonnel \in Nat \ {0}
  /\ TargetPersonnel \in Nat /\ MinimumPersonnel <= TargetPersonnel
  /\ IsFiniteSet(Persons) /\ Residence \in [Persons -> Localities]
  /\ Community \in Seq(Localities) /\ Contributions \subseteq Nat

VARIABLES
  people,  \* each person's organization, the truth about membership, and armed fraction
  protos   \* founders and their fraction in each community; none without founders

ecologyVars == <<people, protos>>

EcologyTypeOK ==
  /\ people \in [Persons -> [organization: 0..MaxOrganizations, fraction: 0..Cohorts]]
  /\ protos \in [DOMAIN Community -> [founders: SUBSET Persons, fraction: 0..Cohorts]]

Unaffiliated == [organization |-> NoOrganization, fraction |-> 0]

Armed(o, fraction) ==
  IF fraction = 0 THEN Unaffiliated ELSE [organization |-> o, fraction |-> fraction]

ActiveOf(orgs) == {o \in DOMAIN orgs : orgs[o].kind = "insurgent" /\ orgs[o].status = "active"}
Weight(members) == SumFunction([p \in members |-> people[p].fraction])
LocalWeight(members, l) == Weight({p \in members : Residence[p] = l})

\* Variant: the persons as they were before the merger.
SynchronizedBefore(w, who) ==
  [w EXCEPT !.organizations = [o \in DOMAIN @ |->
     IF o \in ActiveOf(@) THEN [@[o] EXCEPT !.members = {p \in Persons : people[p].organization = o}]
     ELSE @[o]]]

\* synchronize_memberships: of active organizations only, after the persons.
Synchronized(w, who) ==
  [w EXCEPT !.organizations = [o \in DOMAIN @ |->
     IF o \in ActiveOf(@) THEN [@[o] EXCEPT !.members = {p \in Persons : who[p].organization = o}]
     ELSE @[o]]]

-----------------------------------------------------------------------------
\* _apply_local_fighter_change.  Recruits join the pool of the place, resources
\* become their materiel, and the equipped fill the formations there, weakest
\* first: each takes what those before it have no room for.  Then they make new ones,
\* of the target size and one of what is left over.
Reinforced(formation, n) ==
  IF n = 0 THEN formation
  ELSE Resized([formation EXCEPT !.personnel = @ + n, !.stock = @ + n])

Reduced(formation, n) ==
  IF n = 0 THEN formation ELSE Resized([formation EXCEPT !.personnel = @ - n])

NewSizes(n) ==
  [i \in 1..(n \div TargetPersonnel) |-> TargetPersonnel]
    \o IF n % TargetPersonnel < MinimumPersonnel THEN <<>> ELSE <<n % TargetPersonnel>>

AddFighters(w, o, l, n) ==
  LET k == <<o, l>>
      pool == w.pools[k] + n
      converted == Least(Greatest(pool, w.reserves[k]) - w.reserves[k],
                         w.organizations[o].resources)
      equipped == Least(pool, w.reserves[k] + converted)
      here == {f \in DOMAIN formations : /\ w.formations[f].organization = o
                                         /\ w.formations[f].locality = l /\ Present(f)}
      Weaker(f, g) == \/ w.formations[f].personnel < w.formations[g].personnel
                      \/ w.formations[f].personnel = w.formations[g].personnel /\ f < g
      room == [f \in here |-> Greatest(TargetPersonnel, w.formations[f].personnel)
                                - w.formations[f].personnel]
      Left(fs) == equipped - Least(equipped, SumFunctionOnSet(room, fs))
      gain == [f \in here |-> Least(room[f], Left({g \in here : Weaker(g, f)}))]
      sizes == NewSizes(Left(here))
      fielded == SumFunction(gain) + SumFunction(sizes)
  IN [w EXCEPT
       !.pools[k] = pool - fielded, !.reserves[k] = @ + converted - fielded,
       !.formations = [f \in DOMAIN @ |-> IF f \in here THEN Reinforced(@[f], gain[f]) ELSE @[f]]
                        \o [i \in DOMAIN sizes |-> Fresh(o, l, sizes[i], sizes[i])],
       !.organizations[o].resources = @ - converted,
       !.expected.resources = @ - converted, !.expected.supply = @ + converted]

\* Those who leave leave the pool first, then the nearest and largest formations,
\* wherever these are and whatever they do; fewer leave than should when combat
\* took them.
RemoveFighters(w, o, l, n) ==
  LET k == <<o, l>>
      fromPool == Least(w.pools[k], n)
      own == {f \in DOMAIN formations : /\ w.formations[f].organization = o
                                        /\ w.formations[f].personnel > 0}
      Sooner(f, g) ==
        LET a == w.formations[f]  b == w.formations[g] IN
        IF (a.locality = l) # (b.locality = l) THEN a.locality = l
        ELSE a.personnel > b.personnel \/ (a.personnel = b.personnel /\ f < g)
      size == [f \in own |-> w.formations[f].personnel]
      Taken(fs) == Least(n - fromPool, SumFunctionOnSet(size, fs))
      loss == [f \in own |-> Least(size[f], n - fromPool - Taken({g \in own : Sooner(g, f)}))]
  IN [removed |-> fromPool + Taken(own),
      world |-> [w EXCEPT
        !.pools[k] = @ - fromPool,
        !.formations = [f \in DOMAIN @ |-> IF f \in own THEN Reduced(@[f], loss[f]) ELSE @[f]]]]

-----------------------------------------------------------------------------
\* recruit_and_retain decides for each person in turn, then synchronizes.
RecruitAndRetain ==
  /\ Idle
  /\ Begin("recruitment", Append([p \in 1..Cardinality(Persons) |-> <<"person", p>>],
                                 <<"synchronize", 0>>))
  /\ UNCHANGED <<ledgerVars, ecologyVars>>

PersonVisited(p) == handler = "recruitment" /\ Visiting("person", p) /\ UNCHANGED protos

Incumbent(p) == people[p].organization # NoOrganization /\ Active(people[p].organization)

Abide(p) == PersonVisited(p) /\ UNCHANGED <<ledgerVars, people>>

\* A person of no active organization may join any, one of an active one only
\* deepens there.
Recruit(p, o, n) ==
  LET held == IF Incumbent(p) THEN people[p].fraction ELSE 0
      w == [Ledger EXCEPT !.organizations[o].members = @ \cup {p}, !.expected.manpower = @ + n]
  IN
  /\ PersonVisited(p)
  /\ Active(o) /\ (Incumbent(p) => o = people[p].organization)
  /\ n \in 1..(Cohorts - held)
  /\ expected.manpower + n <= MaxManpower /\ Len(formations) < MaxFormations
  /\ people' = [people EXCEPT ![p] = Armed(o, held + n)]
  /\ Becomes(AddFighters(w, o, Residence[p], n))

Defect(p, rival) ==
  LET o == people[p].organization
      left == RemoveFighters(Ledger, o, Residence[p], people[p].fraction)
      joined == IF left.removed = 0 THEN left.world
                ELSE AddFighters(left.world, rival, Residence[p], left.removed)
  IN
  /\ PersonVisited(p) /\ Incumbent(p) /\ Active(rival) /\ rival # o
  /\ Len(formations) < MaxFormations
  /\ people' = [people EXCEPT ![p].organization = rival]
  /\ Becomes([joined EXCEPT !.organizations[o].members = @ \ {p},
                            !.organizations[rival].members = @ \cup {p}])

Exit(p, n) ==
  LET o == people[p].organization
      left == RemoveFighters(Ledger, o, Residence[p], n)
      w == [left.world EXCEPT !.expected.manpower = @ - left.removed]
  IN
  /\ PersonVisited(p) /\ Incumbent(p) /\ n \in 1..people[p].fraction
  /\ people' = [people EXCEPT ![p] = Armed(o, people[p].fraction - n)]
  /\ Becomes(IF n < people[p].fraction THEN w
             ELSE [w EXCEPT !.organizations[o].members = @ \ {p}])

SynchronizeMemberships ==
  /\ handler = "recruitment" /\ Visiting("synchronize", 0)
  /\ Becomes(Synchronized(Ledger, people))
  /\ UNCHANGED ecologyVars

-----------------------------------------------------------------------------
\* process_organization_ecology: forming and maturing in each community, a
\* decision on each active organization, those just born last, and one merger.
ProcessOrganizationEcology ==
  /\ Idle
  /\ Begin("ecology", [c \in DOMAIN Community |-> <<"form", c>>]
       \o [c \in DOMAIN Community |-> <<"mature", c>>]
       \o Chosen([o \in DOMAIN organizations |-> <<"lifecycle", o>>],
                 {"lifecycle"} \X ActiveOf(organizations))
       \o <<<<"merge", 0>>>>)
  /\ UNCHANGED <<ledgerVars, ecologyVars>>

Ecology(kind, x) == handler = "ecology" /\ Visiting(kind, x)

FormProto(c, founders, fraction) ==
  /\ Ecology("form", c) /\ UNCHANGED <<ledgerVars, people>>
  /\ \/ UNCHANGED protos
     \/ /\ protos[c].founders = {} /\ founders # {}
        /\ \A p \in founders : Residence[p] = Community[c] /\ people[p].organization = NoOrganization
        /\ protos' = [protos EXCEPT ![c] = [founders |-> founders, fraction |-> fraction]]

NoProto == [founders |-> {}, fraction |-> 0]

Incubate(c) ==
  /\ Ecology("mature", c) /\ UNCHANGED <<ledgerVars, people>>
  /\ protos' = protos \/ protos' = [protos EXCEPT ![c] = NoProto]

\* The founders may have joined another organization since; they leave its
\* fighters and its list of members as they are.
Mature(c, contributed, stock) ==
  LET o == Len(organizations) + 1
      fraction == protos[c].fraction
      personnel == Cardinality(protos[c].founders) * fraction
      born == [kind |-> "insurgent", status |-> "active", members |-> protos[c].founders,
               resources |-> contributed - stock, party |-> FALSE, branches |-> 0]
  IN
  /\ handler = "ecology" /\ pending # <<>> /\ Head(pending) = <<"mature", c>>
  /\ Begin("ecology", Front(Tail(pending)) \o <<<<"lifecycle", o>>, Last(pending)>>)
  /\ protos[c].founders # {} /\ o <= MaxOrganizations
  /\ personnel >= MinimumPersonnel
  /\ expected.manpower + personnel <= MaxManpower /\ Len(formations) < MaxFormations
  /\ Earns(contributed)
  /\ stock = Least(contributed, personnel * SupplyDays)
  /\ Becomes([Ledger EXCEPT
       !.organizations = Append(@, born),
       !.formations = Append(@, Fresh(o, Community[c], personnel, stock)),
       !.expected = [supply |-> @.supply + stock, manpower |-> @.manpower + personnel,
                     resources |-> @.resources + contributed - stock]])
  /\ people' = [p \in Persons |-> IF p \in protos[c].founders THEN Armed(o, fraction)
                                  ELSE people[p]]
  /\ protos' = [protos EXCEPT ![c] = NoProto]

Persist(o) == Ecology("lifecycle", o) /\ UNCHANGED <<ledgerVars, ecologyVars>>

\* Variant: only what the first parent owns.
InheritedFromFirst(f, parents, heir) ==
  [i \in DOMAIN f |-> IF f[i].organization = Min(parents)
                      THEN [f[i] EXCEPT !.organization = heir[f[i].locality]] ELSE f[i]]

\* What the parents own goes to the heir for its place.
Inherited(f, parents, heir) ==
  [i \in DOMAIN f |-> IF f[i].organization \in parents
                      THEN [f[i] EXCEPT !.organization = heir[f[i].locality]] ELSE f[i]]

\* Manpower and materiel go together: part is what the children get, by key.
Bequeathed(stock, parents, part) ==
  [k \in Keys |-> IF k[1] \in parents THEN 0
                  ELSE IF k \in DOMAIN part THEN part[k] ELSE stock[k]]

Ended(organization, status) ==
  [organization EXCEPT !.status = status, !.resources = 0, !.members = {}]

\* The weightiest community against the rest, or any division of a single one.
Factions(members) ==
  LET groups == {{p \in members : Residence[p] = l} : l \in Localities} \ {{}} IN
  IF Cardinality(groups) = 1 THEN (SUBSET members) \ {{}, members}
  ELSE {g \in groups : \A h \in groups : Weight(h) <= Weight(g)}

Divided(w, o, a, b) ==
  LET m == Len(w.organizations) + 1
      n == m + 1
      Share(quantity, l) ==
        LET local == LocalWeight(a, l) + LocalWeight(b, l) IN
        IF local = 0 THEN (quantity * Weight(a)) \div Weight(a \cup b)
        ELSE (quantity * LocalWeight(a, l)) \div local
      heir == [l \in Localities |-> IF LocalWeight(a, l) >= LocalWeight(b, l) THEN m ELSE n]
      Parted(stock) == Bequeathed(stock, {o}, [k \in {m, n} \X Localities |->
        LET part == Share(stock[<<o, k[2]>>], k[2]) IN
        IF k[1] = m THEN part ELSE stock[<<o, k[2]>>] - part])
      parent == w.organizations[o]
      half == (parent.resources * Weight(a)) \div Weight(a \cup b)
      Child(faction, resources) ==
        [parent EXCEPT !.members = faction, !.resources = resources, !.party = FALSE, !.branches = 0]
  IN [w EXCEPT
       !.organizations = [@ EXCEPT ![o] = Ended(parent, "fragmented")]
                         \o <<Child(a, half), Child(b, parent.resources - half)>>,
       !.formations = Inherited(@, {o}, heir), !.sources = Inherited(@, {o}, heir),
       !.pools = Parted(@), !.reserves = Parted(@)]

\* It synchronizes first; too few members make no factions.
Split(o) ==
  LET w == Synchronized(Ledger, people)
      members == w.organizations[o].members
  IN
  /\ Ecology("lifecycle", o) /\ UNCHANGED protos
  /\ \/ Cardinality(members) < 2 /\ Becomes(w) /\ UNCHANGED people
     \/ /\ Cardinality(members) >= 2 /\ Len(organizations) + 2 <= MaxOrganizations
        /\ \E a \in Factions(members) :
             /\ Becomes(Divided(w, o, a, members \ a))
             /\ people' = [p \in Persons |->
                  IF p \in a THEN Armed(Len(organizations) + 1, people[p].fraction)
                  ELSE IF p \in members THEN Armed(Len(organizations) + 2, people[p].fraction)
                  ELSE people[p]]

\* The unfielded manpower of the organizations and its materiel are handed in.
DemobilizedPools(w, os) ==
  LET own == {k \in Keys : k[1] \in os} IN
  [w EXCEPT !.demobilized = [personnel |-> @.personnel + SumFunctionOnSet(w.pools, own),
                             arms |-> @.arms + SumFunctionOnSet(w.reserves, own)],
            !.pools = [k \in Keys |-> IF k \in own THEN 0 ELSE @[k]],
            !.reserves = [k \in Keys |-> IF k \in own THEN 0 ELSE @[k]]]

Collapse(o) ==
  /\ Ecology("lifecycle", o) /\ UNCHANGED protos
  /\ people' = [p \in Persons |-> IF people[p].organization = o
                                     /\ p \in organizations[o].members
                                  THEN Unaffiliated ELSE people[p]]
  /\ Becomes([DemobilizedPools(Ledger, {o}) EXCEPT
       !.organizations[o] = [@ EXCEPT !.members = {}, !.status = "collapsed"],
       !.formations = [f \in DOMAIN @ |-> IF @[f].organization = o
                                          THEN [@[f] EXCEPT !.effective = FALSE] ELSE @[f]]])

\* The child takes the members the parents list, whoever these belong to by now.
Merged(w, x, y) ==
  LET n == Len(w.organizations) + 1
      heir == [l \in Localities |-> n]
      Both(stock) == Bequeathed(stock, {x, y}, [k \in {n} \X Localities |->
                                                  stock[<<x, k[2]>>] + stock[<<y, k[2]>>]])
      child == [w.organizations[x] EXCEPT
                  !.members = @ \cup w.organizations[y].members,
                  !.resources = @ + w.organizations[y].resources, !.party = FALSE, !.branches = 0]
  IN [w EXCEPT
       !.organizations = Append([@ EXCEPT ![x] = Ended(w.organizations[x], "merged"),
                                          ![y] = Ended(w.organizations[y], "merged")], child),
       !.formations = Inherited(@, {x, y}, heir), !.sources = Inherited(@, {x, y}, heir),
       !.pools = Both(@), !.reserves = Both(@)]

MergeOrganizations ==
  /\ Ecology("merge", 0) /\ UNCHANGED protos
  /\ \/ Becomes(Synchronized(Ledger, people)) /\ UNCHANGED people
     \/ /\ Len(organizations) < MaxOrganizations
        /\ \E x, y \in ActiveOf(organizations) :
             LET both == organizations[x].members \cup organizations[y].members
                 who == [p \in Persons |-> IF p \in both
                           THEN Armed(Len(organizations) + 1, people[p].fraction) ELSE people[p]]
             IN x < y /\ people' = who /\ Becomes(Synchronized(Merged(Ledger, x, y), who))

Paid(organization, income) == [organization EXCEPT !.resources = @ + income]

\* on_economy: taxes, extraction and external support.
Economy(income) ==
  /\ Idle
  /\ \A o \in DOMAIN organizations : income[o] > 0 =>
       organizations[o].kind = "government" \/ Active(o)
  /\ Earns(SumFunction(income))
  /\ Becomes([Ledger EXCEPT
       !.organizations = [o \in DOMAIN @ |-> Paid(@[o], income[o])],
       !.expected.resources = @ + SumFunction(income)])
  /\ UNCHANGED <<handler, pending, ecologyVars>>

-----------------------------------------------------------------------------
RecruitmentNext ==
  \/ RecruitAndRetain \/ SynchronizeMemberships
  \/ handler = "recruitment" /\ \E p \in Persons :
       \/ Abide(p)
       \/ \E n \in 1..Cohorts : Exit(p, n) \/ \E o \in DOMAIN organizations : Recruit(p, o, n)
       \/ \E o \in DOMAIN organizations : Defect(p, o)

LifecycleNext ==
  \/ ProcessOrganizationEcology \/ MergeOrganizations
  \/ handler = "ecology" /\ \E c \in DOMAIN Community :
       \/ Incubate(c)
       \/ \E founders \in SUBSET Persons, n \in 1..Cohorts : FormProto(c, founders, n)
       \/ \E r \in Contributions : \E stock \in 0..r : Mature(c, r, stock)
  \/ \E o \in DOMAIN organizations : Persist(o) \/ Split(o) \/ Collapse(o)

EcologyNext ==
  RecruitmentNext \/ LifecycleNext \/ \E i \in [DOMAIN organizations -> {0, 1}] : Economy(i)

-----------------------------------------------------------------------------
\* Nothing is left under the name of an organization that is gone: only an active
\* one holds manpower it has not fielded or materiel for it, and what was divided
\* or merged has no formation, source, resource or member left.
NothingOrphaned ==
  /\ \A k \in Keys : pools[k] + reserves[k] > 0 => k[1] \in ActiveOf(organizations)
  /\ \A o \in DOMAIN organizations : organizations[o].status \in {"fragmented", "merged"} =>
       /\ organizations[o].resources = 0 /\ organizations[o].members = {}
       /\ \A f \in DOMAIN formations : formations[f].organization # o
       /\ \A s \in DOMAIN sources : sources[s].organization # o

\* A person of an active organization is on its list; and has an armed fraction
\* exactly when it has an organization: a half-cleared membership would later be
\* merged or counted as fighters.
OwnedAreMembers ==
  /\ Idle => \A p \in Persons : Incumbent(p) => p \in organizations[people[p].organization].members
  /\ \A p \in Persons : (people[p].fraction > 0) = (people[p].organization # NoOrganization)
=============================================================================
