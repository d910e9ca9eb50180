---------------------------- MODULE ConflictState ----------------------------
(***************************************************************************)
(* The part of the world the process handlers of a conflict share: the     *)
(* organizations and their formations, the supply sources, the manpower an *)
(* organization has not fielded, and the totals of what came into and left *)
(* the accounts.  Personnel, supply and resources are counted in whole     *)
(* units; a fighter is equipped with one unit of supply.  The program runs *)
(* one handler at a time: `handler` is the one running and `pending` what  *)
(* its loops have still to visit.  Readiness, cohesion and availability    *)
(* are not tracked: what they decide may turn out either way.              *)
(***************************************************************************)
EXTENDS Naturals, FiniteSets, Sequences, Functions, FiniteSetsExt

CONSTANTS
  Localities, Persons,
  SupplyDays,        \* supply one unit of personnel carries at most
  SourceCapacity,    \* bound: the highest capacity a source comes to have
  MaxOrganizations,  \* bound: organizations ever founded
  MaxFormations, MaxManpower,  \* bounds: on recruitment, of all organizations
  MaxWealth          \* bound: on income, of resources and supply there should be

ASSUME ConflictAssumption ==
  /\ IsFiniteSet(Localities)
  /\ SupplyDays \in Nat \ {0} /\ SourceCapacity \in Nat
  /\ MaxOrganizations \in Nat /\ MaxManpower \in Nat
  /\ MaxFormations \in Nat /\ MaxWealth \in Nat

VARIABLES
  organizations, formations, sources,  \* in the order they were founded
  pools, reserves,      \* unfielded manpower and its materiel, by owner and place
  demobilized,          \* personnel and arms
  expected,             \* opening stocks and recorded flows: what there should be
  handler, pending

ledgerVars == <<organizations, formations, sources, pools, reserves, demobilized, expected>>
sharedVars == <<ledgerVars, handler, pending>>

Keys == (1..MaxOrganizations) \X Localities
NoOrganization == 0

Statuses == {"active", "fragmented", "merged", "collapsed", "political"}
Organization ==
  [kind: {"government", "insurgent", "foreign"}, status: Statuses,
   members: SUBSET Persons, resources: Nat,
   party: BOOLEAN, branches: Nat]  \* whether it made a party, and what its branches hold

ArmedFormation ==
  [organization: 1..MaxOrganizations, locality: Localities, personnel: Nat,
   stock: Nat, capacity: Nat,
   effective: BOOLEAN, moving: BOOLEAN, outside: BOOLEAN]

SupplySource ==
  [organization: 1..MaxOrganizations, locality: Localities, stock: 0..SourceCapacity]

SharedTypeOK ==
  /\ organizations \in Seq(Organization) /\ Len(organizations) <= MaxOrganizations
  /\ formations \in Seq(ArmedFormation) /\ sources \in Seq(SupplySource)
  /\ pools \in [Keys -> Nat] /\ reserves \in [Keys -> Nat]
  /\ demobilized \in [personnel: Nat, arms: Nat]
  /\ expected \in [supply: Nat, manpower: Nat, resources: Nat]

Idle == handler = "idle"
Begin(name, items) ==
  pending' = items /\ handler' = IF items = <<>> THEN "idle" ELSE name
Visiting(kind, x) ==
  pending # <<>> /\ Head(pending) = <<kind, x>> /\ Begin(handler, Tail(pending))

\* The items of s that are among the given ones, in order.
Chosen(s, among) ==
  LET chosen[i \in 0..Len(s)] == IF i = 0 THEN <<>>
                                 ELSE IF s[i] \in among THEN Append(chosen[i - 1], s[i])
                                 ELSE chosen[i - 1]
  IN chosen[Len(s)]

Least(a, b) == IF a <= b THEN a ELSE b
Greatest(a, b) == IF a <= b THEN b ELSE a
Total(f, Amount(_)) == SumFunction([x \in DOMAIN f |-> Amount(f[x])])

Ledger == [organizations |-> organizations, formations |-> formations, sources |-> sources,
           pools |-> pools, reserves |-> reserves, demobilized |-> demobilized,
           expected |-> expected]
Becomes(w) ==
  /\ organizations' = w.organizations /\ formations' = w.formations
  /\ sources' = w.sources /\ pools' = w.pools /\ reserves' = w.reserves
  /\ demobilized' = w.demobilized /\ expected' = w.expected

Earns(amount) == expected.resources + expected.supply + amount <= MaxWealth

Active(o) == organizations[o].kind = "insurgent" /\ organizations[o].status = "active"

\* A formation that can be fought, recruit or be ordered about.
Present(f) ==
  /\ formations[f].personnel > 0 /\ formations[f].effective
  /\ ~formations[f].moving /\ ~formations[f].outside

\* Carrying capacity follows manpower but never destroys materiel.
Resized(formation) ==
  [formation EXCEPT !.capacity =
     Greatest(formation.personnel * SupplyDays, formation.stock)]

Fresh(o, locality, personnel, stock) ==
  Resized([organization |-> o, locality |-> locality, personnel |-> personnel,
           stock |-> stock, capacity |-> 0, effective |-> TRUE, moving |-> FALSE,
           outside |-> FALSE])

-----------------------------------------------------------------------------
Manpower ==
  Total(formations, LAMBDA f : f.personnel) + SumFunction(pools)
    + demobilized.personnel

ConflictResources ==
  Total(organizations, LAMBDA o : o.resources + o.branches)

\* Fighters are under arms, in the local pools or demobilized.
ManpowerConserved == Manpower = expected.manpower

\* Organizations and the parties that come of them hold the resources.
ResourcesConserved == ConflictResources = expected.resources

\* A formation never holds more supply than it can carry.
StockWithinCapacity ==
  \A f \in DOMAIN formations : formations[f].stock <= formations[f].capacity
=============================================================================
