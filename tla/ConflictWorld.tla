----------------------------- MODULE ConflictWorld -----------------------------
(***************************************************************************)
(* The processes of a conflict on one world: every handler runs to its end *)
(* before the next event, and any of them may be next (ProcessEngine).     *)
(***************************************************************************)
EXTENDS ForeignAffairs, PeaceProcess

worldVars == <<foreignVars, ecologyVars, peaceVars>>

TypeOK ==
  SharedTypeOK /\ LogisticsTypeOK /\ ForeignTypeOK /\ EcologyTypeOK /\ PeaceTypeOK

\* Nothing under way in any process, and the accounts opened on what there is.
Opening ==
  /\ pools = [k \in Keys |-> 0] /\ reserves = [k \in Keys |-> 0]
  /\ demobilized = [personnel |-> 0, arms |-> 0]
  /\ expected = [supply |-> Total(sources, LAMBDA s : s.stock)
                            + Total(formations, LAMBDA f : f.stock),
                 manpower |-> Manpower, resources |-> ConflictResources]
  /\ handler = "idle" /\ pending = <<>>
  /\ orders = <<>> /\ shipments = <<>> /\ interventions = <<>>
  /\ protos = [c \in DOMAIN Community |-> NoProto]
  /\ negotiation = {} /\ agreements = <<>>
  /\ ceasefires = {}

\* The worlds a run may open with: every organization is active, without a party of
\* its own, and the insurgents list exactly their people; and the formations stand
\* inside the country, under no orders and with no more supply than they can carry.
Founded ==
  /\ organizations \in Seq(Organization) /\ Len(organizations) <= MaxOrganizations
  /\ formations \in Seq(ArmedFormation) /\ sources \in Seq(SupplySource)
  /\ people \in [Persons -> [organization: 0..MaxOrganizations, fraction: 0..Cohorts]]
  /\ \A o \in DOMAIN organizations :
       /\ organizations[o].status = "active"
       /\ ~organizations[o].party /\ organizations[o].branches = 0
  /\ \A o \in ActiveOf(organizations) :
       organizations[o].members = {p \in Persons : people[p].organization = o}
  /\ \A p \in Persons :
       /\ people[p].organization \in {NoOrganization} \cup ActiveOf(organizations)
       /\ (people[p].fraction > 0) = (people[p].organization # NoOrganization)
  /\ \A f \in DOMAIN formations : ~formations[f].moving /\ ~formations[f].outside
  /\ StockWithinCapacity

Forces == LogisticsNext /\ UNCHANGED <<interventions, ecologyVars, peaceVars>>
Foreign == ForeignNext /\ UNCHANGED <<ecologyVars, peaceVars>>
Mobilization == EcologyNext /\ UNCHANGED <<logisticsVars, interventions, peaceVars>>
Peace == PeaceNext /\ UNCHANGED <<logisticsVars, interventions>>

WorldInit == Founded /\ Opening
WorldNext == Forces \/ Foreign \/ Mobilization \/ Peace
WorldSpec == WorldInit /\ [][WorldNext]_worldVars

-----------------------------------------------------------------------------
\* What the program asserts at every checkpoint of its ledger: supply, fighters
\* and resources are what came in less what was recorded as lost or used, through
\* every transfer, split, merger, collapse and settlement; and no stock exceeds
\* its capacity (the room left would be negative and a delivery take supply away).
AccountsBalance ==
  ManpowerConserved /\ ResourcesConserved /\ SupplyConserved /\ StockWithinCapacity
=============================================================================
