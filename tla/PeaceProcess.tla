----------------------------- MODULE PeaceProcess -----------------------------
(***************************************************************************)
(* Talks, agreements, their implementation and their failure               *)
(* (process_peace).  A tick may open talks with the active insurgents, may *)
(* sign the open ones, and then implements every ongoing agreement.  Of    *)
(* the progress of an agreement it is kept whether its effects have begun: *)
(* demobilization, and political incorporation, which waits for the first. *)
(***************************************************************************)
EXTENDS OrganizationEcology

CONSTANT MaxAgreements  \* bound: agreements ever signed

VARIABLES negotiation,  \* those at the table of the open talks; empty without
          agreements,
          ceasefires    \* the organizations whose ceasefire holds

peaceVars == <<negotiation, agreements, ceasefires>>

Progress == {"none", "demobilizing", "incorporating"}
Agreement ==
  [status: {"signed", "implementing", "completed", "failed"}, signatories: SUBSET Nat,
   progress: Progress]

PeaceTypeOK ==
  /\ negotiation \subseteq DOMAIN organizations
  /\ agreements \in Seq(Agreement) /\ Len(agreements) <= MaxAgreements
  /\ ceasefires \subseteq DOMAIN organizations

\* Progress is kept while the agreement is ongoing.
Signed(status, signatories) ==
  [status |-> status, signatories |-> signatories, progress |-> "none"]
Ongoing(agreement) == agreement.status \in {"signed", "implementing"}

\* Who sits at the table is settled when the talks open; signing looks at
\* nobody's status again, and talks that nobody would sign are signed by one.
ProcessPeace(talks, accepted) ==
  /\ Idle
  /\ talks = negotiation \/ (negotiation = {} /\ talks = ActiveOf(organizations))
  /\ \/ accepted = {} /\ negotiation' = talks /\ UNCHANGED <<agreements, ceasefires>>
     \/ /\ accepted # {} /\ accepted \subseteq talks /\ Len(agreements) < MaxAgreements
        /\ negotiation' = {}
        /\ agreements' = Append(agreements, Signed("signed", accepted))
        /\ ceasefires' = ceasefires \cup accepted
  /\ Begin("peace", Chosen([a \in DOMAIN agreements' |-> <<"implement", a>>],
                           {"implement"} \X {a \in DOMAIN agreements' : Ongoing(agreements'[a])}))
  /\ UNCHANGED <<ledgerVars, ecologyVars>>

\* Formations hand in personnel, and no more arms than these carry.
HandingIn(formation, personnel, arms) ==
  [formation EXCEPT !.personnel = @ - personnel, !.stock = @ - arms]

Demobilized(w, amount, arms) ==
  [w EXCEPT !.formations = [f \in DOMAIN @ |-> IF f \in DOMAIN amount
                              THEN HandingIn(@[f], amount[f], arms[f]) ELSE @[f]],
            !.demobilized = [personnel |-> @.personnel + SumFunction(amount),
                             arms |-> @.arms + SumFunction(arms)]]

\* Variant: the party is given what the organization keeps.
EnsurePartyUnpaid(organization) ==
  IF organization.party THEN organization
  ELSE [organization EXCEPT !.party = TRUE, !.branches = organization.resources \div 2]

\* _ensure_party: once, with half of the resources, spread over its branches.
EnsureParty(organization) ==
  IF organization.party THEN organization
  ELSE LET share == organization.resources \div 2 IN
       [organization EXCEPT !.resources = @ - share, !.party = TRUE, !.branches = share]

\* The signatories whose status is one of "from" get the status "to".
Settled(w, signatories, from, to) ==
  [w EXCEPT !.organizations = [o \in DOMAIN @ |->
     IF o \in signatories /\ @[o].status \in from THEN [@[o] EXCEPT !.status = to] ELSE @[o]]]

Completed(w, signatories) ==
  DemobilizedPools(Settled(w, signatories, Statuses, "political"), signatories)

Failed(w, signatories) == Settled(w, signatories, {"political"}, "active")

\* Variant: only organizations that still fight have a ceasefire to end.
LiftedOfActive(signatories, violated, over) ==
  ceasefires \ (IF over THEN {o \in signatories : Active(o)} ELSE violated)

\* Ceasefires end with their agreement, or when they are violated.
Lifted(signatories, violated, over) ==
  ceasefires \ (IF over THEN signatories ELSE violated)

\* The loop body of process_peace: violations, progress and its effects
\* (_implement), completion, and recurrence, which an agreement is open to from
\* a year after it was signed, completed in this tick or not.
Implement(a, violated, progress, completes, fails, amount, arms) ==
  LET signatories == agreements[a].signatories
      handed == IF progress = "none" THEN Ledger ELSE Demobilized(Ledger, amount, arms)
      incorporated == IF progress = "incorporating"
                      THEN [handed EXCEPT !.organizations = [o \in DOMAIN @ |->
                              IF o \in signatories THEN EnsureParty(@[o]) ELSE @[o]]]
                      ELSE handed
      completed == IF completes THEN Completed(incorporated, signatories) ELSE incorporated
  IN
  /\ handler = "peace" /\ Visiting("implement", a)
  /\ violated \subseteq signatories \cap ceasefires
  /\ progress \in {agreements[a].progress, "incorporating"}
                 \cup (IF agreements[a].progress = "none" THEN {"demobilizing"} ELSE {})
  /\ completes => progress = "incorporating"
  /\ fails => agreements[a].status = "implementing"
  /\ \A f \in DOMAIN amount : /\ amount[f] <= formations[f].personnel
                              /\ arms[f] <= Least(formations[f].stock, amount[f])
  /\ Becomes(IF fails THEN Failed(completed, signatories) ELSE completed)
  /\ ceasefires' = Lifted(signatories, violated, completes \/ fails)
  /\ agreements' = [agreements EXCEPT ![a] =
       IF completes \/ fails
       THEN Signed(IF fails THEN "failed" ELSE "completed", signatories)
       ELSE [status |-> "implementing", signatories |-> signatories, progress |-> progress]]
  /\ UNCHANGED <<ecologyVars, negotiation>>

PeaceNext ==
  \/ Idle /\ \E talks \in {negotiation, ActiveOf(organizations)} :
     \E accepted \in SUBSET talks : ProcessPeace(talks, accepted)
  \/ /\ handler = "peace"
     /\ LET a == Head(pending)[2]
            own == {f \in DOMAIN formations :
                      formations[f].organization \in agreements[a].signatories}
        IN \E progress \in Progress, completes, fails \in BOOLEAN :
           \E violated \in SUBSET (agreements[a].signatories \cap ceasefires),
              amount, arms \in [own -> IF progress = "none" THEN {0} ELSE {0, 1}] :
             Implement(a, violated, progress, completes, fails, amount, arms)

-----------------------------------------------------------------------------
\* An organization is political only by an agreement it signed and that was
\* carried out; and a ceasefire that holds has an ongoing agreement behind it:
\* every way an agreement ends ends its ceasefires, those of organizations that
\* split or merged meanwhile included.
SettlementsStand ==
  /\ \A o \in DOMAIN organizations : organizations[o].status = "political" =>
       \E a \in DOMAIN agreements : agreements[a].status = "completed"
                                    /\ o \in agreements[a].signatories
  /\ \A o \in ceasefires :
       \E a \in DOMAIN agreements : Ongoing(agreements[a]) /\ o \in agreements[a].signatories

\* Membership is the same seen from persons and from organizations; between two
\* events an active organization lists exactly its people, so long as no
\* organization is bound by two agreements, of which one may settle it and the
\* other then reactivate it with the members others have recruited since.
MembershipReciprocal ==
  /\ OwnedAreMembers
  /\ Idle /\ (\A a, b \in DOMAIN agreements :
               a # b => agreements[a].signatories \cap agreements[b].signatories = {})
       => \A o \in ActiveOf(organizations) :
            organizations[o].members = {p \in Persons : people[p].organization = o}
=============================================================================
