------------------------------ MODULE Logistics ------------------------------
(***************************************************************************)
(* Supply and movement: production, shipments, consumption and recovery    *)
(* (update_logistics), movement orders from the command that issues them   *)
(* to the arrival or the refusal, and the engagements that use up          *)
(* personnel and supply and order formations to withdraw or to reinforce.  *)
(* Only orders and shipments still under way are kept; the rest is         *)
(* archive.  Command latency, travel times and every probability are       *)
(* arbitrary: an order or a shipment falls due at any tick.                *)
(***************************************************************************)
EXTENDS ConflictState, SequencesExt

CONSTANTS
  Costs,       \* supply a movement may require
  MaxOrders, MaxShipments  \* bounds: under way together

ASSUME LogisticsAssumption ==
  Costs \subseteq Nat /\ MaxOrders \in Nat /\ MaxShipments \in Nat

VARIABLES orders, shipments

logisticsVars == <<orders, shipments>>

Order == [formation: Nat, destination: Localities, cost: Nat,
          purpose: {"reallocation", "withdrawal", "reinforcement"},
          status: {"pending", "moving"}]
Shipment == [formation: Nat, deliverable: Nat]

LogisticsTypeOK ==
  /\ DOMAIN orders \subseteq 1..MaxOrders
  /\ orders \in [DOMAIN orders -> Order]
  /\ DOMAIN shipments \subseteq 1..MaxShipments
  /\ shipments \in [DOMAIN shipments -> Shipment]

With(f, x, v) == [y \in DOMAIN f \cup {x} |-> IF y = x THEN v ELSE f[y]]
Without(f, x) == [y \in DOMAIN f \ {x} |-> f[y]]
UnderOrders(f) == \E i \in DOMAIN orders : orders[i].formation = f

Affordable(f, cost) == cost <= formations[f].stock

\* A command that does not reach the formation leaves no order under way.
CreateMovementOrder(f, destination, cost, purpose) ==
  \/ UNCHANGED orders
  \/ LET free == (1..MaxOrders) \ DOMAIN orders IN
     /\ free # {}
     /\ orders' = With(orders, Min(free),
          [formation |-> f, destination |-> destination, cost |-> cost,
           purpose |-> purpose, status |-> "pending"])

\* The command tick decides for each formation that has no order under way.
Reallocate(f, destination, cost) ==
  /\ Idle /\ Present(f) /\ ~UnderOrders(f)
  /\ destination # formations[f].locality /\ Affordable(f, cost)
  /\ CreateMovementOrder(f, destination, cost, "reallocation")
  /\ UNCHANGED <<sharedVars, shipments>>

\* Variant: a formation on the march can depart again.
UnavailableAtRest(order) ==
  LET formation == formations[order.formation] IN
  \/ formation.outside \/ formation.personnel = 0
  \/ order.purpose # "withdrawal" /\ ~formation.effective

Unavailable(order) ==
  LET formation == formations[order.formation] IN
  \/ formation.moving \/ formation.outside \/ formation.personnel = 0
  \/ order.purpose # "withdrawal" /\ ~formation.effective

\* Availability may have run out; a withdrawal does not ask.
MayBeUnavailable(order) == Unavailable(order) \/ order.purpose # "withdrawal"

\* Variant: an order waits until its formation can afford it.
BlockUnavailable(i) ==
  /\ Idle /\ orders[i].status = "pending"
  /\ MayBeUnavailable(orders[i])
  /\ orders' = Without(orders, i)
  /\ UNCHANGED <<sharedVars, shipments>>

Block(i) ==
  /\ Idle /\ orders[i].status = "pending"
  /\ MayBeUnavailable(orders[i]) \/ ~Affordable(orders[i].formation, orders[i].cost)
  /\ orders' = Without(orders, i)
  /\ UNCHANGED <<sharedVars, shipments>>

Depart(i) ==
  LET f == orders[i].formation IN
  /\ Idle /\ orders[i].status = "pending"
  /\ ~Unavailable(orders[i]) /\ Affordable(f, orders[i].cost)
  /\ formations' = [formations EXCEPT ![f].moving = TRUE, ![f].stock = @ - orders[i].cost]
  /\ expected' = [expected EXCEPT !.supply = @ - orders[i].cost]
  /\ orders' = [orders EXCEPT ![i].status = "moving"]
  /\ UNCHANGED <<organizations, sources, pools, reserves, demobilized,
                 handler, pending, shipments>>

Arrive(i) ==
  LET f == orders[i].formation IN
  /\ Idle /\ orders[i].status = "moving"
  /\ formations' = [formations EXCEPT ![f].moving = FALSE,
                                      ![f].locality = orders[i].destination]
  /\ orders' = Without(orders, i)
  /\ UNCHANGED <<organizations, sources, pools, reserves, demobilized, expected,
                 handler, pending, shipments>>

\* advance_movement_orders does one of these to each order that is due.
Advance(i) == i \in DOMAIN orders /\ (Block(i) \/ Depart(i) \/ Arrive(i))

-----------------------------------------------------------------------------
\* update_logistics: capacities and production, then what has arrived, then
\* every formation in turn.
UpdateLogistics(due, made) ==
  /\ Idle
  /\ \A s \in DOMAIN sources : made[s] <= SourceCapacity - sources[s].stock
  /\ sources' = [s \in DOMAIN sources |-> [sources[s] EXCEPT !.stock = @ + made[s]]]
  /\ expected' = [expected EXCEPT !.supply = @ + SumFunction(made)]
  /\ formations' = [f \in DOMAIN formations |-> Resized(formations[f])]
  /\ Begin("logistics", [k \in DOMAIN due |-> <<"deliver", due[k]>>]
                          \o [f \in DOMAIN formations |-> <<"sustain", f>>])
  /\ UNCHANGED <<organizations, pools, reserves, demobilized, logisticsVars>>

\* What the formation has no room for is lost.
Deliver(s) ==
  LET f == shipments[s].formation
      accepted == Least(shipments[s].deliverable,
                        formations[f].capacity - formations[f].stock)
  IN
  /\ handler = "logistics" /\ Visiting("deliver", s)
  /\ formations' = [formations EXCEPT ![f].stock = @ + accepted]
  /\ expected' = [expected EXCEPT !.supply = @ - (shipments[s].deliverable - accepted)]
  /\ shipments' = Without(shipments, s)
  /\ UNCHANGED <<organizations, sources, pools, reserves, demobilized, orders>>

\* Fully supplied, an ineffective formation may recover.
Sustained(formation, demand) ==
  LET used == Least(formation.stock, demand) IN
  {[formation EXCEPT !.stock = @ - used, !.effective = e] :
     e \in {formation.effective} \cup (IF used = demand THEN {TRUE} ELSE {})}

SuppliesFor(f) == {s \in DOMAIN sources :
  sources[s].organization = formations[f].organization /\ sources[s].stock > 0}

Supplied(f) == \E s \in DOMAIN shipments : shipments[s].formation = f

\* Of what is sent some may be lost on the way; below the trigger, a formation
\* without a shipment under way is sent one.
Ship(f, s, sent, deliverable) ==
  LET free == (1..MaxShipments) \ DOMAIN shipments IN
  /\ s \in SuppliesFor(f) /\ sent \in 1..sources[s].stock /\ deliverable <= sent
  /\ free # {}
  /\ sources' = [sources EXCEPT ![s].stock = @ - sent]
  /\ shipments' = With(shipments, Min(free),
                       [formation |-> f, deliverable |-> deliverable])

Sustain(f) ==
  /\ handler = "logistics" /\ Visiting("sustain", f)
  /\ UNCHANGED <<organizations, pools, reserves, demobilized, orders>>
  /\ \/ formations[f].moving /\ UNCHANGED <<formations, sources, expected, shipments>>
     \/ /\ ~formations[f].moving
        /\ \E demand \in 0..formations[f].personnel :
           \E after \in Sustained(formations[f], demand) :
             LET used == formations[f].stock - after.stock IN
             /\ formations' = [formations EXCEPT ![f] = after]
             /\ \/ /\ Supplied(f) \/ SuppliesFor(f) = {} \/ after.stock > 0 \/ after.capacity = 0
                   /\ expected' = [expected EXCEPT !.supply = @ - used]
                   /\ UNCHANGED <<sources, shipments>>
                \/ /\ ~Supplied(f) /\ after.stock < after.capacity
                   /\ \E s \in DOMAIN sources, sent \in 1..SourceCapacity :
                      \E deliverable \in {0, sent} :
                        /\ Ship(f, s, sent, deliverable)
                        /\ expected' = [expected EXCEPT
                             !.supply = @ - used - (sent - deliverable)]

-----------------------------------------------------------------------------
\* A patrol eats on its round.
Patrol(f, used) ==
  /\ Idle /\ Present(f) /\ used <= Least(formations[f].stock, formations[f].personnel)
  /\ formations' = [formations EXCEPT ![f].stock = @ - used]
  /\ expected' = [expected EXCEPT !.supply = @ - used]
  /\ UNCHANGED <<organizations, sources, pools, reserves, demobilized,
                 handler, pending, logisticsVars>>

\* Relations are not tracked: any two may be hostile of which one is insurgent.
Hostile(a, b) ==
  /\ formations[a].organization # formations[b].organization
  /\ \A f \in {a, b} : organizations[formations[f].organization].status = "active"
  /\ \E f \in {a, b} : Active(formations[f].organization)

\* Without personnel a formation is ineffective; cohesion or readiness may make it so.
AfterCombat(formation, lost, used, effective) ==
  [formation EXCEPT !.personnel = @ - lost, !.stock = @ - used,
     !.effective = effective /\ lost < formation.personnel]

\* resolve_engagement, up to the orders that follow from it.
Engage(a, b, lost, used, disengaged) ==
  /\ Idle /\ Present(a) /\ Present(b) /\ Hostile(a, b)
  /\ formations[a].locality = formations[b].locality
  /\ \A f \in {a, b} : /\ lost[f] <= formations[f].personnel
                       /\ used[f] <= formations[f].stock
                       /\ used[f] <= formations[f].personnel - lost[f]
  /\ \E effective \in [{a, b} -> BOOLEAN] :
       formations' = [f \in DOMAIN formations |->
         IF f \in {a, b} THEN AfterCombat(formations[f], lost[f], used[f], effective[f])
         ELSE formations[f]]
  /\ expected' = [expected EXCEPT !.supply = @ - (used[a] + used[b]),
                                  !.manpower = @ - (lost[a] + lost[b])]
  /\ Begin("combat", Chosen(<<<<"withdraw", a>>, <<"withdraw", b>>,
                              <<"reinforce", a>>, <<"reinforce", b>>>>,
                            ({"withdraw"} \X disengaged)
                              \cup {<<"reinforce", f>> : f \in {f \in {a, b} : lost[f] > 0}}))
  /\ UNCHANGED <<organizations, sources, pools, reserves, demobilized, logisticsVars>>

\* Unable to move, already ordered, or with nowhere it can afford to go: no order.
Withdraw(f, destination, cost) ==
  /\ handler = "combat" /\ Visiting("withdraw", f)
  /\ \/ UNCHANGED orders
     \/ /\ formations[f].personnel > 0 /\ ~UnderOrders(f)
        /\ destination # formations[f].locality /\ Affordable(f, cost)
        /\ CreateMovementOrder(f, destination, cost, "withdrawal")
  /\ UNCHANGED <<ledgerVars, shipments>>

\* The relief is not asked whether it has an order already, nor whether it can
\* afford the march.
Reinforce(f, relief, cost) ==
  /\ handler = "combat" /\ Visiting("reinforce", f)
  /\ \/ UNCHANGED orders
     \/ /\ formations[relief].organization = formations[f].organization
        /\ Present(relief) /\ formations[relief].locality # formations[f].locality
        /\ CreateMovementOrder(relief, formations[f].locality, cost, "reinforcement")
  /\ UNCHANGED <<ledgerVars, shipments>>

-----------------------------------------------------------------------------
LogisticsStep ==
  handler = "logistics" /\ (\/ \E s \in DOMAIN shipments : Deliver(s)
                            \/ \E f \in DOMAIN formations : Sustain(f))
CombatStep == handler = "combat" /\
 (\/ \E f \in DOMAIN formations, l \in Localities, c \in Costs : Withdraw(f, l, c)
  \/ \E f, g \in DOMAIN formations, c \in Costs : Reinforce(f, g, c))
ForcesBegin == Idle /\
 (\/ \E f \in DOMAIN formations, l \in Localities, c \in Costs : Reallocate(f, l, c)
  \/ \E due \in {SetToSeq(d) : d \in SUBSET DOMAIN shipments}, made \in [DOMAIN sources -> 0..SourceCapacity] :
       UpdateLogistics(due, made)
  \/ \E f \in DOMAIN formations : \E used \in 1..formations[f].personnel : Patrol(f, used)
  \/ \E a, b \in DOMAIN formations : \E disengaged \in SUBSET {a, b},
       lost \in [{a, b} -> 0..formations[a].personnel + formations[b].personnel],
       used \in [{a, b} -> 0..formations[a].stock + formations[b].stock] :
       Engage(a, b, lost, used, disengaged))

LogisticsNext ==
  ForcesBegin \/ LogisticsStep \/ CombatStep \/ \E i \in 1..MaxOrders : Advance(i)

-----------------------------------------------------------------------------
\* Supply is in sources, on the road, with the formations, behind a pool or
\* handed in.
SupplyConserved ==
  Total(sources, LAMBDA s : s.stock) + Total(formations, LAMBDA f : f.stock)
    + SumFunction(reserves) + demobilized.arms + Total(shipments, LAMBDA s : s.deliverable)
  = expected.supply

\* A formation is on the march under exactly one order, although several can be
\* pending for it and each reads its state only when it falls due (a second
\* departure would take it from wherever it then is); and a formation in want
\* gets one shipment at a time, however many ticks the road takes.
OneUnderWay ==
  /\ \A f \in DOMAIN formations :
       Cardinality({i \in DOMAIN orders : orders[i].formation = f /\ orders[i].status = "moving"})
       = IF formations[f].moving THEN 1 ELSE 0
  /\ \A s, t \in DOMAIN shipments : shipments[s].formation = shipments[t].formation => s = t

\* No order is left pending or marching for ever, whatever befalls its formation.
OrdersEnd == \A i \in 1..MaxOrders : []<>(i \notin DOMAIN orders)
=============================================================================
