---------------------------- MODULE ForeignAffairs ----------------------------
(***************************************************************************)
(* Foreign states: the support they deliver, the expeditionary force they  *)
(* send and its withdrawal (process_foreign_affairs).  A tick visits each  *)
(* state, then each intervention, those begun in the tick included.  What  *)
(* makes a state willing is arbitrary.                                     *)
(***************************************************************************)
EXTENDS Logistics

CONSTANTS
  ForeignStates, Border,   \* states in order, and the locality each comes in by
  Expedition,              \* personnel, stock, source and resources it brings
  Funds, Materiel,         \* what one delivery of support may hold
  MaxInterventions         \* bound

ASSUME ForeignAssumption ==
  /\ Border \in [DOMAIN ForeignStates -> Localities]
  /\ Expedition \in [personnel: Nat, stock: Nat, source: 0..SourceCapacity, resources: Nat]
  /\ Funds \subseteq Nat /\ Materiel \subseteq Nat

VARIABLE interventions

foreignVars == <<sharedVars, logisticsVars, interventions>>

Intervention == [state: DOMAIN ForeignStates, status: {"active", "withdrawing", "withdrawn"},
                 force: SUBSET Nat]
ForeignTypeOK ==
  interventions \in Seq(Intervention) /\ Len(interventions) <= MaxInterventions

ProcessForeignAffairs ==
  /\ Idle
  /\ Begin("foreign", [s \in DOMAIN ForeignStates |-> <<"state", s>>]
                      \o [i \in DOMAIN interventions |-> <<"review", i>>])
  /\ UNCHANGED <<ledgerVars, logisticsVars, interventions>>

\* deliver_support: a formation takes of its share what it has room for.
Accepted(o, materiel) ==
  [f \in DOMAIN formations |->
     IF formations[f].organization = o
     THEN Least(materiel, formations[f].capacity - formations[f].stock) ELSE 0]

Recipient(o) == organizations[o].kind = "government" \/ Active(o)

DeliverSupport(s, o, funds, materiel) ==
  LET accepted == Accepted(o, materiel) IN
  /\ handler = "foreign" /\ pending # <<>> /\ Head(pending) = <<"state", s>>
  /\ Recipient(o) /\ Earns(funds + materiel)
  /\ organizations' = [organizations EXCEPT ![o].resources = @ + funds]
  /\ formations' = [f \in DOMAIN formations |->
                      [formations[f] EXCEPT !.stock = @ + accepted[f]]]
  /\ expected' = [expected EXCEPT !.supply = @ + SumFunction(accepted),
                                  !.resources = @ + funds]
  /\ pending' = <<<<"supported", s>>>> \o Tail(pending)
  /\ UNCHANGED <<sources, pools, reserves, demobilized, handler, logisticsVars,
                 interventions>>

StateVisited(s) ==
  /\ handler = "foreign" /\ pending # <<>>
  /\ Head(pending) \in {<<"state", s>>, <<"supported", s>>}

StayOut(s) ==
  /\ StateVisited(s) /\ Begin("foreign", Tail(pending))
  /\ UNCHANGED <<ledgerVars, logisticsVars, interventions>>

\* begin_intervention: the command, its formation and its source are made once;
\* only the intervention that makes them counts them as its force.
Intervene(s) ==
  LET first == \A i \in DOMAIN interventions : interventions[i].state # s
      o == Len(organizations) + 1
      f == Len(formations) + 1
      command == [kind |-> "foreign", status |-> "active", members |-> {},
                  resources |-> Expedition.resources, party |-> FALSE, branches |-> 0]
      formation == Fresh(o, Border[s], Expedition.personnel, Expedition.stock)
      source == [organization |-> o, locality |-> Border[s], stock |-> Expedition.source]
  IN
  /\ StateVisited(s)
  /\ \A i \in DOMAIN interventions : interventions[i].state = s
                                     => interventions[i].status # "active"
  /\ Len(interventions) < MaxInterventions
  /\ interventions' = Append(interventions,
       [state |-> s, status |-> "active", force |-> IF first THEN {f} ELSE {}])
  /\ \/ /\ first /\ o <= MaxOrganizations
        /\ organizations' = Append(organizations, command)
        /\ formations' = Append(formations, formation)
        /\ sources' = Append(sources, source)
        /\ expected' = [supply |-> expected.supply + Expedition.stock + Expedition.source,
                        manpower |-> expected.manpower + Expedition.personnel,
                        resources |-> expected.resources + Expedition.resources]
     \/ ~first /\ UNCHANGED <<organizations, formations, sources, expected>>
  /\ Begin("foreign", Append(Tail(pending), <<"review", Len(interventions')>>))
  /\ UNCHANGED <<pools, reserves, demobilized, logisticsVars>>

\* An intervention that goes on, or is over.
Continue(i) ==
  /\ handler = "foreign" /\ Visiting("review", i)
  /\ interventions[i].status # "withdrawing"
  /\ UNCHANGED <<ledgerVars, logisticsVars, interventions>>

\* Variant: a force is out while it marches away from the border.
PulledOnTheMarch(i, f) ==
  LET border == Border[interventions[i].state] IN
  \/ /\ formations[f].locality # border /\ UNCHANGED <<formations, orders>>
  \/ /\ formations[f].locality = border /\ UNCHANGED orders
     /\ formations' = [formations EXCEPT ![f].outside = TRUE]

\* Out at once where the force stands on the border, however it got there and
\* whatever order is pending for it; elsewhere it is ordered to the border.
Pulled(i, f) ==
  LET border == Border[interventions[i].state] IN
  \/ /\ formations[f].locality # border /\ UNCHANGED formations
     /\ \/ UnderOrders(f) /\ UNCHANGED orders
        \/ ~UnderOrders(f) /\ \E cost \in Costs :
                                CreateMovementOrder(f, border, cost, "reallocation")
  \/ /\ formations[f].locality = border /\ UNCHANGED orders
     /\ formations' = IF formations[f].moving THEN formations
                      ELSE [formations EXCEPT ![f].outside = TRUE]

Withdrawal(i) ==
  /\ handler = "foreign" /\ Visiting("review", i)
  /\ interventions[i].status # "withdrawn"
  /\ \/ interventions[i].force = {} /\ UNCHANGED <<formations, orders>>
     \/ \E f \in interventions[i].force : Pulled(i, f)
  /\ interventions' = [interventions EXCEPT ![i].status =
       IF \A f \in interventions[i].force : formations'[f].outside
       THEN "withdrawn" ELSE "withdrawing"]
  /\ UNCHANGED <<organizations, sources, pools, reserves, demobilized, expected,
                 shipments>>

ForeignStep == handler = "foreign" /\
 (\/ \E s \in DOMAIN ForeignStates :
       \/ StayOut(s) \/ Intervene(s)
       \/ \E o \in DOMAIN organizations, funds \in Funds, m \in Materiel :
            DeliverSupport(s, o, funds, m)
  \/ \E i \in DOMAIN interventions : Continue(i) \/ Withdrawal(i))

ForeignNext == ProcessForeignAffairs \/ ForeignStep

-----------------------------------------------------------------------------
\* A force gets out only where it stands behind the border it came in by and on no
\* march, although an order may still be pending for it; an intervention is over
\* only when its force is out; and what is out neither comes back nor moves nor
\* loses anyone.  The force, its orders, the command tick and combat all have a
\* say in it.
WithdrawalIsFinal ==
  [][/\ \A i \in DOMAIN interventions : \A f \in interventions[i].force :
          /\ formations'[f].outside =>
               formations[f].locality = Border[interventions[i].state] /\ ~formations[f].moving
          /\ interventions'[i].status = "withdrawn" => formations'[f].outside
     /\ \A f \in DOMAIN formations : formations[f].outside =>
          /\ formations'[f].outside
          /\ formations'[f].personnel = formations[f].personnel
          /\ formations'[f].locality = formations[f].locality]_foreignVars
=============================================================================
