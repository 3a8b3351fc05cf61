--------------------------- MODULE DeliveryProofs ----------------------------
(***************************************************************************)
(* Proofs about Delivery, for every set of accounts, companies,            *)
(* opportunities, registrations and stages.                                *)
(*                                                                         *)
(* OwnerIsOnTeam and PipelineStaysInCompany are inductive once the types   *)
(* are known.  InactiveHoldsNothingFresh is not: starting a POC whose row  *)
(* does not exist yet must not find anybody on it, which UnstartedIsEmpty  *)
(* adds.                                                                   *)
(***************************************************************************)
EXTENDS Delivery, TLAPS

UnstartedIsEmpty ==
    \A o \in Opportunity :
        pocs[o].status = "absent" =>
            pocs[o].team = {} /\ \A k \in Stage : pocs[o].owner[k] = None

-----------------------------------------------------------------------------
(* Types. *)

LEMMA PipelineTyped ==
    ASSUME TypeOK, PipelineStep
    PROVE  TypeOK'
<1> USE RoleAssumption DEF User, Internal
<1>1. ASSUME NEW o \in Typed, NEW p \in Partner, NEW r \in Rep \cup {None},
             NEW status \in {"draft", "submitted"},
             PartnerCreatesOpportunity(o, p, r, status)
      PROVE  TypeOK'
    BY <1>1 DEF PartnerCreatesOpportunity, Assignable, Unset, TypeOK, OpportunityRow
<1>2. ASSUME NEW o \in Typed, NEW r \in Rep, NEW c \in Company \cup {None},
             NEW status \in {"draft", "submitted"},
             RepCreatesOpportunity(o, r, c, status)
      PROVE  TypeOK'
    BY <1>2 DEF RepCreatesOpportunity, Unset, TypeOK, OpportunityRow
<1>3. ASSUME NEW o \in Opportunity, NEW r \in Rep \cup {None}, AssignRep(o, r)
      PROVE  TypeOK'
    BY <1>3 DEF AssignRep, Assignable, TypeOK, OpportunityRow
<1>4. ASSUME NEW o \in Opportunity, SubmitOpportunity(o)
      PROVE  TypeOK'
    BY <1>4 DEF SubmitOpportunity, TypeOK, OpportunityRow
<1>5. ASSUME NEW o \in Opportunity, NEW outcome \in {"approved", "draft"},
             DecideOpportunity(o, outcome)
      PROVE  TypeOK'
    BY <1>5 DEF DecideOpportunity, TypeOK, OpportunityRow
<1>6. ASSUME NEW o \in Opportunity, NEW outcome \in {"won", "lost"},
             CloseOpportunity(o, outcome)
      PROVE  TypeOK'
    BY <1>6 DEF CloseOpportunity, TypeOK, OpportunityRow
<1>7. ASSUME NEW o \in Opportunity, RemoveOpportunity(o)
      PROVE  TypeOK'
    BY <1>7 DEF RemoveOpportunity, TypeOK, OpportunityRow
<1>8. ASSUME NEW o \in Opportunity, RecordLicence(o)
      PROVE  TypeOK'
    BY <1>8 DEF RecordLicence, TypeOK
<1>9. ASSUME NEW o \in Opportunity, NEW new \in Opportunity, NEW d \in Deal,
             CreateRenewal(o, new, d)
      PROVE  TypeOK'
    <2>1. Renewal(o) \in OpportunityRow
        <3>1. opps[o] \in OpportunityRow
            BY DEF TypeOK
        <3> QED BY <3>1 DEF Renewal, OpportunityRow
    <2>2. opps' \in [Opportunity -> OpportunityRow]
        BY <1>9, <2>1 DEF CreateRenewal, TypeOK
    <2>3. deals' \in [Deal -> DealRow]
        BY <1>9 DEF CreateRenewal, TypeOK, OpportunityRow, DealRow
    <2> QED BY <1>9, <2>2, <2>3 DEF CreateRenewal, TypeOK
<1>10. ASSUME NEW d \in Deal, DecideDeal(d)
       PROVE  TypeOK'
    BY <1>10 DEF DecideDeal, TypeOK, DealRow
<1>11. ASSUME NEW d \in Deal, NEW p \in Partner, RegisterDeal(d, p)
       PROVE  TypeOK'
    BY <1>11 DEF RegisterDeal, TypeOK, DealRow
<1> QED
    BY <1>1, <1>2, <1>3, <1>4, <1>5, <1>6, <1>7, <1>8, <1>9, <1>10, <1>11 DEF PipelineStep

LEMMA PocTyped ==
    ASSUME TypeOK, PocStep
    PROVE  TypeOK'
<1> USE RoleAssumption
<1>1. ASSUME NEW o \in Staffed, StartPoc(o) PROVE TypeOK'
    BY <1>1 DEF StartPoc, TypeOK, PocRow
<1>2. ASSUME NEW o \in Staffed, ClosePoc(o) PROVE TypeOK'
    BY <1>2 DEF ClosePoc, TypeOK, PocRow
<1>3. ASSUME NEW o \in Staffed, ReopenPoc(o) PROVE TypeOK'
    BY <1>3 DEF ReopenPoc, TypeOK, PocRow
<1>4. ASSUME NEW o \in Staffed, NEW status \in {"not_started", "running"},
             SetFirstStage(o, status)
      PROVE  TypeOK'
    BY <1>4 DEF SetFirstStage, TypeOK, PocRow
<1>5. ASSUME NEW o \in Staffed, NEW k \in Stage, NEW u \in Internal \cup {None},
             SetStageOwner(o, k, u)
      PROVE  TypeOK'
    BY <1>5 DEF SetStageOwner, TypeOK, PocRow
<1>6. ASSUME NEW o \in Staffed, NEW u \in Internal, AddMember(o, u)
      PROVE  TypeOK'
    BY <1>6 DEF AddMember, TypeOK, PocRow
<1>7. ASSUME NEW o \in Staffed, NEW u \in Internal, RemoveMember(o, u)
      PROVE  TypeOK'
    <2>1. Without(pocs[o], u) \in PocRow
        <3>1. pocs[o] \in PocRow
            BY DEF TypeOK
        <3> QED BY <3>1 DEF Without, PocRow
    <2> QED BY <1>7, <2>1 DEF RemoveMember, TypeOK
<1> QED
    BY <1>1, <1>2, <1>3, <1>4, <1>5, <1>6, <1>7 DEF PocStep

(* A seat or a stage that moves, moves to staff: a leaver who has one may  *)
(* only be succeeded by an internal account.                               *)
LEMMA MovedPocTyped ==
    ASSUME TypeOK, NEW o \in Opportunity, NEW l \in User, NEW s \in User,
           CanReceive(l, s)
    PROVE  MovedPoc(pocs[o], l, s) \in PocRow
<1>p. pocs[o] \in PocRow
    BY DEF TypeOK
<1>1. CASE ~OpenPoc(pocs[o])
    BY <1>p, <1>1 DEF MovedPoc
<1>2. CASE OpenPoc(pocs[o]) /\ o \in Seats(l) \cup Owned(l)
    <2>1. s \in Internal
        BY <1>2 DEF CanReceive
    <2> QED BY <1>p, <1>2, <2>1 DEF MovedPoc, Renamed, PocRow
<1>3. CASE OpenPoc(pocs[o]) /\ o \notin Seats(l) \cup Owned(l)
    <2>1. l \notin pocs[o].team /\ \A k \in Stage : pocs[o].owner[k] # l
        BY <1>3 DEF Seats, Owned
    <2> QED BY <1>p, <1>3, <2>1 DEF MovedPoc, Renamed, PocRow
<1> QED BY <1>1, <1>2, <1>3

LEMMA AccountTyped ==
    ASSUME TypeOK, AccountStep
    PROVE  TypeOK'
<1> USE RoleAssumption
<1>1. ASSUME NEW u \in Followed, Deactivate(u) PROVE TypeOK'
    BY <1>1 DEF Deactivate, TypeOK
<1>2. ASSUME NEW u \in Followed, Reactivate(u) PROVE TypeOK'
    BY <1>2 DEF Reactivate, TypeOK
<1>3. ASSUME NEW l \in User, NEW s \in User, HandOver(l, s) PROVE TypeOK'
    <2>1. ASSUME NEW o \in Opportunity
          PROVE  /\ opps[o] \in OpportunityRow
                 /\ [opps[o] EXCEPT !.by = Renamed(@, l, s), !.rep = Renamed(@, l, s)]
                        \in OpportunityRow
        <3>1. opps[o] \in OpportunityRow
            BY DEF TypeOK
        <3> QED BY <3>1 DEF Renamed, OpportunityRow
    <2>2. ASSUME NEW d \in Deal
          PROVE  /\ deals[d] \in DealRow
                 /\ [deals[d] EXCEPT !.by = Renamed(@, l, s)] \in DealRow
        <3>1. deals[d] \in DealRow
            BY DEF TypeOK
        <3> QED BY <3>1 DEF Renamed, DealRow
    <2>3. pocs' \in [Opportunity -> PocRow]
        BY <1>3, MovedPocTyped DEF HandOver
    <2>4. /\ opps' \in [Opportunity -> OpportunityRow]
          /\ deals' \in [Deal -> DealRow]
        BY <1>3, <2>1, <2>2 DEF HandOver
    <2> QED BY <1>3, <2>3, <2>4 DEF HandOver, TypeOK
<1>4. ASSUME NEW c \in Company, CloseCompany(c) PROVE TypeOK'
    BY <1>4 DEF CloseCompany, TypeOK
<1> QED BY <1>1, <1>2, <1>3, <1>4 DEF AccountStep

LEMMA TypedStep ==
    ASSUME TypeOK, [Next]_vars
    PROVE  TypeOK'
<1>1. CASE UNCHANGED vars
    BY <1>1 DEF vars, TypeOK
<1> QED BY <1>1, PipelineTyped, PocTyped, AccountTyped DEF Next

(* Every row of the tables stays a row, and only staff are on POC teams.   *)
THEOREM TypeCorrect == Spec => []TypeOK
<1>1. Init => TypeOK
    BY DEF Init, TypeOK, NoOpportunity, NoDeal, NoPoc, OpportunityRow, DealRow, PocRow
<1> QED BY <1>1, TypedStep, PTL DEF Spec

-----------------------------------------------------------------------------
(* What the steps that touch no POC, or nothing else, leave alone. *)

LEMMA PipelineFrame ==
    PipelineStep => UNCHANGED <<active, closed, pocs>>
BY DEF PipelineStep, PartnerCreatesOpportunity, RepCreatesOpportunity, AssignRep,
       SubmitOpportunity, DecideOpportunity, CloseOpportunity, RemoveOpportunity,
       RecordLicence, CreateRenewal, DecideDeal, RegisterDeal

LEMMA PocFrame ==
    PocStep => UNCHANGED <<active, closed, opps, licensed, deals>>
BY DEF PocStep, StartPoc, ClosePoc, ReopenPoc, SetFirstStage, SetStageOwner,
       AddMember, RemoveMember

LEMMA AccountFrame ==
    ASSUME AccountStep
    PROVE  \/ UNCHANGED <<opps, licensed, deals, pocs>>
           \/ \E l, s \in User : HandOver(l, s)
BY DEF AccountStep, Deactivate, Reactivate, CloseCompany

-----------------------------------------------------------------------------
(* Stage owners. *)

LEMMA MovedOwners ==
    ASSUME NEW poc \in PocRow, NEW l, NEW s, l # None,
           \A k \in Stage : poc.owner[k] \in poc.team \cup {None}
    PROVE  LET new == MovedPoc(poc, l, s)
           IN  \A k \in Stage : new.owner[k] \in new.team \cup {None}
<1>1. CASE ~OpenPoc(poc)
    BY <1>1 DEF MovedPoc
<1>2. CASE OpenPoc(poc)
    <2> DEFINE new == MovedPoc(poc, l, s)
    <2>1. /\ new.team = IF l \in poc.team THEN (poc.team \ {l}) \cup {s} ELSE poc.team
          /\ \A k \in Stage : new.owner[k] = IF poc.owner[k] = l THEN s ELSE poc.owner[k]
        BY <1>2 DEF MovedPoc, Renamed, PocRow
    <2>2. ASSUME NEW k \in Stage
          PROVE  new.owner[k] \in new.team \cup {None}
        BY <2>1 DEF PocRow
    <2> QED BY <2>2
<1> QED BY <1>1, <1>2

LEMMA OwnersKept ==
    ASSUME TypeOK, OwnerIsOnTeam, [Next]_vars
    PROVE  OwnerIsOnTeam'
<1> USE RoleAssumption
<1> DEFINE Seated(poc) == \A k \in Stage : poc.owner[k] \in poc.team \cup {None}
<1>t. \A o \in Opportunity : pocs[o] \in PocRow /\ Seated(pocs[o])
    BY DEF TypeOK, OwnerIsOnTeam
<1>1. CASE UNCHANGED pocs
    BY <1>1 DEF OwnerIsOnTeam
<1>2. CASE PocStep
    <2>1. ASSUME NEW o \in Staffed, StartPoc(o) \/ ClosePoc(o) \/ ReopenPoc(o)
          PROVE  OwnerIsOnTeam'
        <3>1. ASSUME NEW q \in Opportunity
              PROVE  pocs'[q].team = pocs[q].team /\ pocs'[q].owner = pocs[q].owner
            <4>1. CASE StartPoc(o) \/ ClosePoc(o)
                <5>1. PICK status : pocs' = [pocs EXCEPT ![o].status = status]
                    BY <4>1 DEF StartPoc, ClosePoc
                <5> QED BY <1>t, <5>1 DEF TypeOK, PocRow
            <4>2. CASE ReopenPoc(o)
                <5>1. pocs'[q] = IF q = o THEN [pocs[q] EXCEPT !.status = "running",
                                                              !.reopened = TRUE]
                                 ELSE pocs[q]
                    BY <4>2 DEF ReopenPoc, TypeOK
                <5> QED BY <1>t, <5>1 DEF PocRow
            <4> QED BY <2>1, <4>1, <4>2
        <3> QED BY <1>t, <3>1 DEF OwnerIsOnTeam
    <2>2. ASSUME NEW o \in Staffed, NEW status \in {"not_started", "running"},
                 SetFirstStage(o, status)
          PROVE  OwnerIsOnTeam'
        BY <1>t, <2>2 DEF SetFirstStage, TypeOK, OwnerIsOnTeam, PocRow
    <2>3. ASSUME NEW o \in Staffed, NEW k \in Stage, NEW u \in Internal \cup {None},
                 SetStageOwner(o, k, u)
          PROVE  OwnerIsOnTeam'
        BY <1>t, <2>3 DEF SetStageOwner, TypeOK, OwnerIsOnTeam, PocRow
    <2>4. ASSUME NEW o \in Staffed, NEW u \in Internal, AddMember(o, u)
          PROVE  OwnerIsOnTeam'
        BY <1>t, <2>4 DEF AddMember, TypeOK, OwnerIsOnTeam, PocRow
    <2>5. ASSUME NEW o \in Staffed, NEW u \in Internal, RemoveMember(o, u)
          PROVE  OwnerIsOnTeam'
        <3>1. Seated(Without(pocs[o], u))
            BY <1>t DEF Without, PocRow
        <3>2. ASSUME NEW q \in Opportunity
              PROVE  pocs'[q] = pocs[q] \/ pocs'[q] = Without(pocs[o], u)
            BY <2>5 DEF RemoveMember, TypeOK
        <3>3. \A q \in Opportunity : Seated(pocs'[q])
            BY <1>t, <3>1, <3>2
        <3> QED BY <3>3 DEF OwnerIsOnTeam
    <2> QED BY <1>2, <2>1, <2>2, <2>3, <2>4, <2>5 DEF PocStep
<1>3. ASSUME NEW l \in User, NEW s \in User, HandOver(l, s)
      PROVE  OwnerIsOnTeam'
    <2>1. \A o \in Opportunity : Seated(MovedPoc(pocs[o], l, s))
        BY <1>t, MovedOwners
    <2> QED BY <1>3, <2>1 DEF HandOver, OwnerIsOnTeam
<1> QED BY <1>1, <1>2, <1>3, PipelineFrame, AccountFrame DEF Next, vars

(* Whatever happens to a team, every stage of its POC names one of its     *)
(* live members or nobody.                                                 *)
THEOREM OwnersAreSeated == Spec => []OwnerIsOnTeam
<1>1. Init => OwnerIsOnTeam
    BY DEF Init, NoPoc, OwnerIsOnTeam
<1> QED BY <1>1, OwnersKept, TypeCorrect, PTL DEF Spec

-----------------------------------------------------------------------------
(* The pipeline of a company. *)

LEMMA CompanyKept ==
    ASSUME TypeOK, PipelineStaysInCompany, [Next]_vars
    PROVE  PipelineStaysInCompany'
<1> USE RoleAssumption
<1>r. \A r \in Rep : r \notin Partner
    BY DEF Internal
<1>n. None \notin Partner
    BY DEF User
<1>1. CASE UNCHANGED <<opps, deals>>
    BY <1>1 DEF PipelineStaysInCompany
<1>2. CASE PipelineStep
    <2>1. ASSUME NEW o \in Typed, NEW p \in Partner, NEW r \in Rep \cup {None},
                 NEW status \in {"draft", "submitted"},
                 PartnerCreatesOpportunity(o, p, r, status)
          PROVE  PipelineStaysInCompany'
        BY <2>1 DEF PartnerCreatesOpportunity, Unset, TypeOK, PipelineStaysInCompany
    <2>2. ASSUME NEW o \in Typed, NEW r \in Rep, NEW c \in Company \cup {None},
                 NEW status \in {"draft", "submitted"},
                 RepCreatesOpportunity(o, r, c, status)
          PROVE  PipelineStaysInCompany'
        BY <1>r, <2>2 DEF RepCreatesOpportunity, Unset, TypeOK, PipelineStaysInCompany
    <2>3. ASSUME NEW o \in Opportunity, NEW r \in Rep \cup {None}, AssignRep(o, r)
          PROVE  PipelineStaysInCompany'
        BY <2>3 DEF AssignRep, TypeOK, OpportunityRow, PipelineStaysInCompany
    <2>4. ASSUME NEW o \in Opportunity,
                 \/ SubmitOpportunity(o)
                 \/ \E outcome \in {"approved", "draft"} : DecideOpportunity(o, outcome)
                 \/ \E outcome \in {"won", "lost"} : CloseOpportunity(o, outcome)
                 \/ RemoveOpportunity(o)
          PROVE  PipelineStaysInCompany'
        <3>1. PICK status : /\ opps' = [opps EXCEPT ![o].status = status]
                            /\ deals' = deals
            BY <2>4 DEF SubmitOpportunity, DecideOpportunity, CloseOpportunity, RemoveOpportunity
        <3> QED BY <3>1 DEF TypeOK, OpportunityRow, PipelineStaysInCompany
    <2>5. ASSUME NEW o \in Opportunity, NEW new \in Opportunity, NEW d \in Deal,
                 CreateRenewal(o, new, d)
          PROVE  PipelineStaysInCompany'
        <3>1. opps[o] \in OpportunityRow
            BY DEF TypeOK
        <3>2. Renewal(o).by = opps[o].by /\ Renewal(o).company = opps[o].company
            BY <3>1 DEF Renewal, OpportunityRow
        <3> QED BY <2>5, <3>2 DEF CreateRenewal, TypeOK, PipelineStaysInCompany
    <2>6. ASSUME NEW d \in Deal, NEW p \in Partner, RegisterDeal(d, p)
          PROVE  PipelineStaysInCompany'
        BY <2>6 DEF RegisterDeal, TypeOK, PipelineStaysInCompany
    <2>7. ASSUME NEW d \in Deal, DecideDeal(d)
          PROVE  PipelineStaysInCompany'
        BY <2>7 DEF DecideDeal, TypeOK, DealRow, PipelineStaysInCompany
    <2>8. ASSUME NEW o \in Opportunity, RecordLicence(o)
          PROVE  PipelineStaysInCompany'
        BY <1>1, <2>8 DEF RecordLicence
    <2> QED BY <1>2, <2>1, <2>2, <2>3, <2>4, <2>5, <2>6, <2>7, <2>8 DEF PipelineStep
<1>3. ASSUME NEW l \in User, NEW s \in User, HandOver(l, s)
      PROVE  PipelineStaysInCompany'
    <2>1. ASSUME NEW o \in Opportunity, opps'[o].by \in Partner
          PROVE  opps'[o].company = CompanyOf[opps'[o].by]
        <3>t. opps[o] \in OpportunityRow
            BY DEF TypeOK
        <3>1. CASE LiveOpportunity(opps[o]) /\ opps[o].by = l
            <4>1. /\ opps'[o].by = s
                  /\ opps'[o].company = opps[o].company
                BY <1>3, <3>t, <3>1 DEF HandOver, Renamed, OpportunityRow
            <4>2. Submitted(l) # {}
                BY <3>1 DEF Submitted
            <4>3. l \in Partner /\ CompanyOf[l] = CompanyOf[s]
                BY <1>3, <4>2 DEF HandOver, CanReceive
            <4> QED BY <3>1, <4>1, <4>3 DEF PipelineStaysInCompany
        <3>2. CASE ~(LiveOpportunity(opps[o]) /\ opps[o].by = l)
            <4>1. opps'[o].by = opps[o].by /\ opps'[o].company = opps[o].company
                BY <1>3, <3>t, <3>2 DEF HandOver, Renamed, OpportunityRow
            <4> QED BY <2>1, <4>1 DEF PipelineStaysInCompany
        <3> QED BY <3>1, <3>2
    <2>2. ASSUME NEW d \in Deal, deals'[d].by \in Partner
          PROVE  deals'[d].company = CompanyOf[deals'[d].by]
        <3>t. deals[d] \in DealRow
            BY DEF TypeOK
        <3>1. CASE deals[d].status = "pending" /\ deals[d].by = l
            <4>1. deals'[d].by = s /\ deals'[d].company = deals[d].company
                BY <1>3, <3>t, <3>1 DEF HandOver, Renamed, DealRow
            <4>2. Pending(l) # {}
                BY <3>1 DEF Pending
            <4>3. l \in Partner /\ CompanyOf[l] = CompanyOf[s]
                BY <1>3, <4>2 DEF HandOver, CanReceive
            <4> QED BY <3>1, <4>1, <4>3 DEF PipelineStaysInCompany
        <3>2. CASE ~(deals[d].status = "pending" /\ deals[d].by = l)
            <4>1. deals'[d].by = deals[d].by /\ deals'[d].company = deals[d].company
                BY <1>3, <3>t, <3>2 DEF HandOver, Renamed, DealRow
            <4> QED BY <2>2, <4>1 DEF PipelineStaysInCompany
        <3> QED BY <3>1, <3>2
    <2> QED BY <2>1, <2>2 DEF PipelineStaysInCompany
<1> QED BY <1>1, <1>2, <1>3, PocFrame, AccountFrame DEF Next, vars

(* However often it changes hands, what a partner account holds belongs to *)
(* that account's company.                                                 *)
THEOREM PipelineIsTheCompanys == Spec => []PipelineStaysInCompany
<1>1. Init => PipelineStaysInCompany
    BY RoleAssumption DEF Init, NoOpportunity, NoDeal, PipelineStaysInCompany, User
<1> QED BY <1>1, CompanyKept, TypeCorrect, PTL DEF Spec

-----------------------------------------------------------------------------
(* Handing over. *)

LEMMA HandedOver ==
    ASSUME TypeOK, NEW l \in User, NEW s \in User, HandOver(l, s)
    PROVE  ~HoldsWork(l)'
<1> USE RoleAssumption
<1>s. s # l
    BY DEF HandOver, CanReceive
<1>1. ASSUME NEW o \in Opportunity, LiveOpportunity(opps'[o])
      PROVE  opps'[o].by # l /\ opps'[o].rep # l
    <2>t. opps[o] \in OpportunityRow
        BY DEF TypeOK
    <2>1. CASE LiveOpportunity(opps[o])
        BY <1>s, <2>t, <2>1 DEF HandOver, Renamed, OpportunityRow
    <2>2. CASE ~LiveOpportunity(opps[o])
        BY <1>1, <2>2 DEF HandOver
    <2> QED BY <2>1, <2>2
<1>2. ASSUME NEW d \in Deal, deals'[d].status = "pending"
      PROVE  deals'[d].by # l
    <2>t. deals[d] \in DealRow
        BY DEF TypeOK
    <2>1. CASE deals[d].status = "pending"
        BY <1>s, <2>t, <2>1 DEF HandOver, Renamed, DealRow
    <2>2. CASE deals[d].status # "pending"
        BY <1>2, <2>2 DEF HandOver
    <2> QED BY <2>1, <2>2
<1>3. ASSUME NEW o \in Opportunity, OpenPoc(pocs'[o])
      PROVE  l \notin pocs'[o].team /\ \A k \in Stage : pocs'[o].owner[k] # l
    <2>t. pocs[o] \in PocRow
        BY DEF TypeOK
    <2>m. pocs'[o] = MovedPoc(pocs[o], l, s)
        BY DEF HandOver
    <2>1. CASE OpenPoc(pocs[o])
        <3>1. /\ pocs'[o].team = IF l \in pocs[o].team
                                 THEN (pocs[o].team \ {l}) \cup {s} ELSE pocs[o].team
              /\ \A k \in Stage :
                    pocs'[o].owner[k] = IF pocs[o].owner[k] = l THEN s ELSE pocs[o].owner[k]
            BY <2>t, <2>m, <2>1 DEF MovedPoc, Renamed, PocRow
        <3> QED BY <1>s, <3>1
    <2>2. CASE ~OpenPoc(pocs[o])
        BY <1>3, <2>m, <2>2 DEF MovedPoc
    <2> QED BY <2>1, <2>2
<1> QED
    BY <1>1, <1>2, <1>3 DEF HoldsWork, Submitted, AsRep, Pending, Seats, Owned

(* After a handover the leaver holds nothing that would keep the account   *)
(* from being switched off.                                                *)
THEOREM OneHandoverIsEnough == Spec => HandoverIsComplete
<1>1. ASSUME TypeOK
      PROVE  \A l \in User : HoldsWork(l) /\ HoldsWork(l)' => ~ \E s \in User : HandOver(l, s)
    BY <1>1, HandedOver
<1> QED BY <1>1, TypeCorrect, PTL DEF Spec, HandoverIsComplete

-----------------------------------------------------------------------------
(* Accounts that are switched off. *)

LEMMA EmptyKept ==
    ASSUME TypeOK, UnstartedIsEmpty, [Next]_vars
    PROVE  UnstartedIsEmpty'
<1> USE RoleAssumption
<1>t. \A o \in Opportunity : pocs[o] \in PocRow
    BY DEF TypeOK
<1>1. CASE UNCHANGED pocs
    BY <1>1 DEF UnstartedIsEmpty
<1>2. CASE PocStep
    <2>1. ASSUME NEW o \in Staffed, pocs'[o].status = "absent",
                 \/ StartPoc(o) \/ ClosePoc(o) \/ ReopenPoc(o)
                 \/ \E status \in {"not_started", "running"} : SetFirstStage(o, status)
                 \/ \E k \in Stage, u \in Internal \cup {None} : SetStageOwner(o, k, u)
          PROVE  FALSE
        BY <1>t, <2>1 DEF StartPoc, ClosePoc, ReopenPoc, SetFirstStage, SetStageOwner,
                          OpenPoc, TypeOK, PocRow
    <2>2. ASSUME NEW o \in Staffed, pocs'[o].status = "absent",
                 NEW u \in Internal, AddMember(o, u)
          PROVE  FALSE
        BY <1>t, <2>2 DEF AddMember, TypeOK, PocRow
    <2>3. ASSUME NEW o \in Staffed, pocs'[o].status = "absent",
                 NEW u \in Internal, RemoveMember(o, u)
          PROVE  FALSE
        BY <1>t, <2>3 DEF RemoveMember, Without, UnstartedIsEmpty, TypeOK, PocRow
    <2>4. PICK o \in Staffed :
              /\ \A q \in Opportunity : q # o => pocs'[q] = pocs[q]
              /\ pocs'[o].status # "absent"
        BY <1>2, <2>1, <2>2, <2>3
           DEF PocStep, StartPoc, ClosePoc, ReopenPoc, SetFirstStage, SetStageOwner,
               AddMember, RemoveMember, TypeOK
    <2> QED BY <2>4 DEF UnstartedIsEmpty
<1>3. ASSUME NEW l \in User, NEW s \in User, HandOver(l, s)
      PROVE  UnstartedIsEmpty'
    <2>1. ASSUME NEW o \in Opportunity, pocs'[o].status = "absent"
          PROVE  pocs'[o] = pocs[o]
        <3>1. pocs'[o] = MovedPoc(pocs[o], l, s)
            BY <1>3 DEF HandOver
        <3>2. ~OpenPoc(pocs[o])
            BY <1>t, <2>1, <3>1 DEF MovedPoc, OpenPoc, PocRow
        <3> QED BY <3>1, <3>2 DEF MovedPoc
    <2> QED BY <2>1 DEF UnstartedIsEmpty
<1> QED BY <1>1, <1>2, <1>3, PipelineFrame, AccountFrame DEF Next, vars

Fresh == TypeOK /\ UnstartedIsEmpty /\ InactiveHoldsNothingFresh

LEMMA FreshPipeline ==
    ASSUME Fresh, PipelineStep
    PROVE  InactiveHoldsNothingFresh'
<1> USE RoleAssumption
<1>t. /\ \A o \in Opportunity : opps[o] \in OpportunityRow
      /\ \A d \in Deal : deals[d] \in DealRow
      /\ UNCHANGED <<active, pocs>>
    BY PipelineFrame DEF Fresh, TypeOK
<1> DEFINE Kept(o) == /\ opps'[o].by = opps[o].by
                      /\ opps'[o].renewalOf = opps[o].renewalOf
                      /\ LiveOpportunity(opps'[o]) => LiveOpportunity(opps[o])
           Entered(o) == opps'[o].by \in active \/ opps'[o].renewalOf \in Opportunity
<1>1. \A q \in Opportunity : Kept(q) \/ Entered(q)
    <2>1. ASSUME NEW o \in Typed, NEW p \in Partner, NEW r \in Rep \cup {None},
                 NEW status \in {"draft", "submitted"},
                 PartnerCreatesOpportunity(o, p, r, status)
          PROVE  \A q \in Opportunity : Kept(q) \/ Entered(q)
        BY <1>t, <2>1 DEF PartnerCreatesOpportunity, Unset, Fresh, TypeOK
    <2>2. ASSUME NEW o \in Typed, NEW r \in Rep, NEW c \in Company \cup {None},
                 NEW status \in {"draft", "submitted"},
                 RepCreatesOpportunity(o, r, c, status)
          PROVE  \A q \in Opportunity : Kept(q) \/ Entered(q)
        BY <1>t, <2>2 DEF RepCreatesOpportunity, Unset, Fresh, TypeOK
    <2>3. ASSUME NEW o \in Opportunity, NEW r \in Rep \cup {None}, AssignRep(o, r)
          PROVE  \A q \in Opportunity : Kept(q) \/ Entered(q)
        BY <1>t, <2>3 DEF AssignRep, LiveOpportunity, Fresh, TypeOK, OpportunityRow
    <2>4. ASSUME NEW o \in Opportunity, NEW status,
                 LiveOpportunity(opps[o]) \/ status = "removed",
                 opps' = [opps EXCEPT ![o].status = status]
          PROVE  \A q \in Opportunity : Kept(q) \/ Entered(q)
        BY <1>t, <2>4 DEF LiveOpportunity, Fresh, TypeOK, OpportunityRow
    <2>5. ASSUME NEW o \in Opportunity,
                 \/ SubmitOpportunity(o)
                 \/ \E outcome \in {"approved", "draft"} : DecideOpportunity(o, outcome)
                 \/ \E outcome \in {"won", "lost"} : CloseOpportunity(o, outcome)
                 \/ RemoveOpportunity(o)
          PROVE  \A q \in Opportunity : Kept(q) \/ Entered(q)
        BY <2>4, <2>5 DEF SubmitOpportunity, DecideOpportunity, CloseOpportunity,
                          RemoveOpportunity, LiveOpportunity
    <2>6. ASSUME NEW o \in Opportunity, NEW new \in Opportunity, NEW d \in Deal,
                 CreateRenewal(o, new, d)
          PROVE  \A q \in Opportunity : Kept(q) \/ Entered(q)
        <3>1. Renewal(o).renewalOf = o
            BY <1>t DEF Renewal, OpportunityRow
        <3> QED BY <1>t, <2>6, <3>1 DEF CreateRenewal, Fresh, TypeOK
    <2>7. CASE UNCHANGED opps
        BY <2>7
    <2> QED
        BY <2>1, <2>2, <2>3, <2>5, <2>6, <2>7
           DEF PipelineStep, RecordLicence, DecideDeal, RegisterDeal
<1> DEFINE DealKept(d) == /\ deals'[d].by = deals[d].by
                          /\ deals'[d].renewal = deals[d].renewal
                          /\ deals'[d].status = "pending" => deals[d].status = "pending"
           DealEntered(d) == deals'[d].by \in active \/ deals'[d].renewal
<1>2. \A e \in Deal : DealKept(e) \/ DealEntered(e)
    <2>1. ASSUME NEW o \in Opportunity, NEW new \in Opportunity, NEW d \in Deal,
                 CreateRenewal(o, new, d)
          PROVE  \A e \in Deal : DealKept(e) \/ DealEntered(e)
        BY <2>1 DEF CreateRenewal, Fresh, TypeOK
    <2>2. ASSUME NEW d \in Deal, NEW p \in Partner, RegisterDeal(d, p)
          PROVE  \A e \in Deal : DealKept(e) \/ DealEntered(e)
        BY <1>t, <2>2 DEF RegisterDeal, Fresh, TypeOK
    <2>3. ASSUME NEW d \in Deal, DecideDeal(d)
          PROVE  \A e \in Deal : DealKept(e) \/ DealEntered(e)
        BY <1>t, <2>3 DEF DecideDeal, Fresh, TypeOK, DealRow
    <2>4. CASE UNCHANGED deals
        BY <2>4
    <2> QED
        BY <2>1, <2>2, <2>3, <2>4
           DEF PipelineStep, PartnerCreatesOpportunity, RepCreatesOpportunity, AssignRep,
               SubmitOpportunity, DecideOpportunity, CloseOpportunity, RemoveOpportunity,
               RecordLicence
<1>3. ASSUME NEW u \in User \ active'
      PROVE  /\ \A o \in Submitted(u)' : opps'[o].renewalOf # None
             /\ \A d \in Pending(u)' : deals'[d].renewal
             /\ \A o \in (Seats(u) \cup Owned(u))' : pocs'[o].reopened
    <2>1. u \in User \ active
        BY <1>t
    <2>2. \A o \in Submitted(u)' : opps'[o].renewalOf # None
        BY <1>1, <1>t, <2>1 DEF Submitted, Fresh, InactiveHoldsNothingFresh
    <2>3. \A d \in Pending(u)' : deals'[d].renewal
        BY <1>2, <1>t, <2>1 DEF Pending, Fresh, InactiveHoldsNothingFresh
    <2>4. \A o \in (Seats(u) \cup Owned(u))' : pocs'[o].reopened
        BY <1>t, <2>1 DEF Seats, Owned, Fresh, InactiveHoldsNothingFresh
    <2> QED BY <2>2, <2>3, <2>4
<1> QED BY <1>3 DEF InactiveHoldsNothingFresh

LEMMA FreshPoc ==
    ASSUME Fresh, PocStep
    PROVE  InactiveHoldsNothingFresh'
<1> USE RoleAssumption
<1>t. /\ \A o \in Opportunity : pocs[o] \in PocRow
      /\ UNCHANGED <<active, opps, deals>>
    BY PocFrame DEF Fresh, TypeOK
<1> DEFINE Holds(poc, u) == u \in poc.team \/ \E k \in Stage : poc.owner[k] = u
           Held(poc) == OpenPoc(poc) => poc.reopened \/ \A u \in User \ active : ~Holds(poc, u)
<1>1. \A o \in Opportunity : Held(pocs[o])
    BY DEF Fresh, InactiveHoldsNothingFresh, Seats, Owned
<1>2. ASSUME NEW o \in Staffed, StartPoc(o)
      PROVE  \A q \in Opportunity : Held(pocs'[q])
    <2>1. pocs' = [pocs EXCEPT ![o].status = "running"]
        BY <1>2 DEF StartPoc
    <2>2. Held(pocs'[o])
        <3>1. CASE pocs[o].status = "absent"
            <4>1. pocs'[o].team = {} /\ \A k \in Stage : pocs'[o].owner[k] = None
                BY <1>t, <2>1, <3>1 DEF Fresh, UnstartedIsEmpty, TypeOK, PocRow
            <4> QED BY <4>1
        <3>2. CASE pocs[o].status = "not_started"
            BY <1>t, <1>1, <2>1, <3>2 DEF OpenPoc, Fresh, TypeOK, PocRow
        <3> QED BY <1>2, <3>1, <3>2 DEF StartPoc
    <2> QED BY <1>1, <2>1, <2>2 DEF Fresh, TypeOK
<1>3. ASSUME NEW o \in Staffed, ClosePoc(o)
      PROVE  \A q \in Opportunity : Held(pocs'[q])
    BY <1>t, <1>1, <1>3 DEF ClosePoc, OpenPoc, Fresh, TypeOK, PocRow
<1>4. ASSUME NEW o \in Staffed, ReopenPoc(o)
      PROVE  \A q \in Opportunity : Held(pocs'[q])
    <2>1. pocs' = [pocs EXCEPT ![o] = [@ EXCEPT !.status = "running", !.reopened = TRUE]]
        BY <1>4 DEF ReopenPoc
    <2>2. pocs'[o].reopened
        BY <1>t, <2>1 DEF Fresh, TypeOK, PocRow
    <2> QED BY <1>1, <2>1, <2>2 DEF Fresh, TypeOK
<1>5. ASSUME NEW o \in Staffed, NEW status \in {"not_started", "running"},
             SetFirstStage(o, status)
      PROVE  \A q \in Opportunity : Held(pocs'[q])
    BY <1>t, <1>1, <1>5 DEF SetFirstStage, Fresh, TypeOK, PocRow
<1>6. ASSUME NEW o \in Staffed, NEW k \in Stage, NEW u \in Internal \cup {None},
             SetStageOwner(o, k, u)
      PROVE  \A q \in Opportunity : Held(pocs'[q])
    <2>1. /\ pocs' = [pocs EXCEPT ![o].owner[k] = u]
          /\ OpenPoc(pocs[o]) /\ u \in pocs[o].team \cup {None}
        BY <1>6 DEF SetStageOwner
    <2>2. /\ pocs'[o].team = pocs[o].team /\ pocs'[o].reopened = pocs[o].reopened
          /\ \A j \in Stage : pocs'[o].owner[j] = pocs[o].owner[j] \/ pocs'[o].owner[j] = u
        BY <1>t, <2>1 DEF Fresh, TypeOK, PocRow
    <2>3. Held(pocs'[o])
        BY <1>1, <2>1, <2>2
    <2> QED BY <1>1, <2>1, <2>3 DEF Fresh, TypeOK
<1>7. ASSUME NEW o \in Staffed, NEW u \in Internal, AddMember(o, u)
      PROVE  \A q \in Opportunity : Held(pocs'[q])
    <2>1. u \in active /\ pocs' = [pocs EXCEPT ![o].team = @ \cup {u}]
        BY <1>7 DEF AddMember
    <2> QED BY <1>t, <1>1, <2>1 DEF OpenPoc, Fresh, TypeOK, PocRow
<1>8. ASSUME NEW o \in Staffed, NEW u \in Internal, RemoveMember(o, u)
      PROVE  \A q \in Opportunity : Held(pocs'[q])
    <2>1. pocs' = [pocs EXCEPT ![o] = Without(@, u)]
        BY <1>8 DEF RemoveMember
    <2>2. LET new == Without(pocs[o], u)
          IN  /\ new.status = pocs[o].status /\ new.reopened = pocs[o].reopened
              /\ new.team \subseteq pocs[o].team
              /\ \A k \in Stage : new.owner[k] = None \/ new.owner[k] = pocs[o].owner[k]
        BY <1>t DEF Without, PocRow
    <2>3. Held(pocs'[o])
        BY <1>1, <2>1, <2>2 DEF OpenPoc, Fresh, TypeOK, User
    <2> QED BY <1>1, <2>1, <2>3 DEF Fresh, TypeOK
<1>9. \A q \in Opportunity : Held(pocs'[q])
    BY <1>2, <1>3, <1>4, <1>5, <1>6, <1>7, <1>8 DEF PocStep
<1>10. ASSUME NEW u \in User \ active'
       PROVE  /\ \A o \in Submitted(u)' : opps'[o].renewalOf # None
              /\ \A d \in Pending(u)' : deals'[d].renewal
              /\ \A o \in (Seats(u) \cup Owned(u))' : pocs'[o].reopened
    <2>1. u \in User \ active
        BY <1>t
    <2>2. /\ \A o \in Submitted(u)' : opps'[o].renewalOf # None
          /\ \A d \in Pending(u)' : deals'[d].renewal
        BY <1>t, <2>1 DEF Submitted, Pending, Fresh, InactiveHoldsNothingFresh
    <2>3. \A o \in (Seats(u) \cup Owned(u))' : pocs'[o].reopened
        BY <1>9, <2>1 DEF Seats, Owned
    <2> QED BY <2>2, <2>3
<1> QED BY <1>10 DEF InactiveHoldsNothingFresh

LEMMA FreshHandOver ==
    ASSUME Fresh, NEW l \in User, NEW s \in User, HandOver(l, s)
    PROVE  InactiveHoldsNothingFresh'
<1> USE RoleAssumption
<1>s. s \in active /\ active' = active
    BY DEF HandOver, CanReceive
<1>1. ASSUME NEW u \in User \ active, NEW o \in Submitted(u)'
      PROVE  opps'[o].renewalOf # None
    <2>t. opps[o] \in OpportunityRow
        BY DEF Fresh, TypeOK, Submitted
    <2>1. CASE LiveOpportunity(opps[o])
        <3>1. opps'[o].by = opps[o].by /\ opps'[o].renewalOf = opps[o].renewalOf
            BY <1>s, <1>1, <2>t, <2>1 DEF HandOver, Renamed, Submitted, OpportunityRow
        <3> QED BY <1>1, <2>1, <3>1 DEF Submitted, Fresh, InactiveHoldsNothingFresh
    <2>2. CASE ~LiveOpportunity(opps[o])
        BY <1>1, <2>2 DEF HandOver, Submitted
    <2> QED BY <2>1, <2>2
<1>2. ASSUME NEW u \in User \ active, NEW d \in Pending(u)'
      PROVE  deals'[d].renewal
    <2>t. deals[d] \in DealRow
        BY DEF Fresh, TypeOK, Pending
    <2>1. CASE deals[d].status = "pending"
        <3>1. deals'[d].by = deals[d].by /\ deals'[d].renewal = deals[d].renewal
            BY <1>s, <1>2, <2>t, <2>1 DEF HandOver, Renamed, Pending, DealRow
        <3> QED BY <1>2, <2>1, <3>1 DEF Pending, Fresh, InactiveHoldsNothingFresh
    <2>2. CASE deals[d].status # "pending"
        BY <1>2, <2>2 DEF HandOver, Pending
    <2> QED BY <2>1, <2>2
<1>3. ASSUME NEW u \in User \ active, NEW o \in (Seats(u) \cup Owned(u))'
      PROVE  pocs'[o].reopened
    <2>t. o \in Opportunity /\ pocs[o] \in PocRow /\ pocs'[o] = MovedPoc(pocs[o], l, s)
        BY <1>3 DEF Fresh, TypeOK, Seats, Owned, HandOver
    <2>1. OpenPoc(pocs[o])
        BY <1>3, <2>t DEF MovedPoc, Seats, Owned
    <2>2. /\ pocs'[o].reopened = pocs[o].reopened
          /\ pocs'[o].team \subseteq pocs[o].team \cup {s}
          /\ \A k \in Stage :
                pocs'[o].owner[k] = IF pocs[o].owner[k] = l THEN s ELSE pocs[o].owner[k]
        BY <2>t, <2>1 DEF MovedPoc, Renamed, PocRow
    <2>3. o \in Seats(u) \cup Owned(u)
        BY <1>s, <1>3, <2>t, <2>1, <2>2 DEF Seats, Owned
    <2> QED BY <2>2, <2>3 DEF Fresh, InactiveHoldsNothingFresh
<1> QED BY <1>s, <1>1, <1>2, <1>3 DEF InactiveHoldsNothingFresh

LEMMA FreshAccount ==
    ASSUME Fresh, AccountStep
    PROVE  InactiveHoldsNothingFresh'
<1> USE RoleAssumption
<1>1. ASSUME NEW gone \in SUBSET User, \A u \in gone : ~HoldsWork(u),
             active \ gone \subseteq active', UNCHANGED <<opps, deals, pocs>>
      PROVE  InactiveHoldsNothingFresh'
    BY <1>1 DEF Fresh, InactiveHoldsNothingFresh, HoldsWork, Submitted, Pending, Seats, Owned
<1>2. ASSUME NEW u \in Followed, Deactivate(u)
      PROVE  InactiveHoldsNothingFresh'
    <2> {u} \in SUBSET User
        OBVIOUS
    <2> QED BY <1>1, <1>2 DEF Deactivate
<1>3. ASSUME NEW u \in Followed, Reactivate(u)
      PROVE  InactiveHoldsNothingFresh'
    BY <1>1, <1>3 DEF Reactivate
<1>4. ASSUME NEW c \in Company, CloseCompany(c)
      PROVE  InactiveHoldsNothingFresh'
    <2> StaffOf(c) \in SUBSET User
        BY DEF StaffOf, User
    <2> QED BY <1>1, <1>4 DEF CloseCompany
<1> QED BY <1>2, <1>3, <1>4, FreshHandOver DEF AccountStep

(* An account that was switched off is left with nothing the check let     *)
(* through: the live work it may hold came back to it, as a renewal or a   *)
(* reopened POC, or was assigned to it as sales rep.                       *)
THEOREM SwitchedOffHoldsNothingFresh == Spec => []InactiveHoldsNothingFresh
<1>1. Init => Fresh
    BY RoleAssumption
       DEF Init, Fresh, TypeOK, UnstartedIsEmpty, InactiveHoldsNothingFresh, NoOpportunity,
           NoDeal, NoPoc, OpportunityRow, DealRow, PocRow
<1>2. Fresh /\ [Next]_vars => Fresh'
    <2> SUFFICES ASSUME Fresh, [Next]_vars PROVE Fresh'
        OBVIOUS
    <2>1. TypeOK' /\ UnstartedIsEmpty'
        BY TypedStep, EmptyKept DEF Fresh
    <2>2. ASSUME UNCHANGED vars PROVE InactiveHoldsNothingFresh'
        BY <2>2 DEF vars, Fresh, InactiveHoldsNothingFresh, Submitted, Pending, Seats, Owned
    <2>3. InactiveHoldsNothingFresh'
        BY <2>2, FreshPipeline, FreshPoc, FreshAccount DEF Next
    <2> QED BY <2>1, <2>3 DEF Fresh
<1>3. Fresh => InactiveHoldsNothingFresh
    BY DEF Fresh
<1> QED BY <1>1, <1>2, <1>3, PTL DEF Spec
=============================================================================
