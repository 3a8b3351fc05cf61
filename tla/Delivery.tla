------------------------------- MODULE Delivery -------------------------------
(***************************************************************************)
(* Who holds which work: opportunities and pending registrations, the POC  *)
(* that follows an opportunity with its team and stage owners, the licence *)
(* and its renewal, and the handover an account needs before it can be     *)
(* switched off.                                                           *)
(*                                                                         *)
(* Every action is one whole request in a transaction of its own.  The     *)
(* administrator who makes a request is outside the model: a superadmin    *)
(* may make every one of them.  Companies an account manages as channel    *)
(* manager, and the dates of a POC's later stages, are left out.           *)
(***************************************************************************)
EXTENDS Naturals

CONSTANTS
    Partner, Rep, Admin,   \* accounts, by role
    Company,
    CompanyOf,             \* the company of each partner account
    Opportunity, Deal,
    Stage,                 \* POC_STAGE_KEYS
    Typed,                 \* bound: opportunities entered by hand; the others are
                           \* renewals, followed only while they are drafts
    Staffed,               \* bound: opportunities whose POC is followed
    Followed,              \* bound: accounts that enter work or leave; the others
                           \* stay active, and may be handed work
    None                   \* NULL

User == Partner \cup Rep \cup Admin
Internal == Rep \cup Admin   \* POC_TEAM_ELIGIBLE_ROLES

ASSUME RoleAssumption ==
    /\ Partner \cap Internal = {}
    /\ CompanyOf \in [Partner -> Company]
    /\ Typed \subseteq Opportunity /\ Staffed \subseteq Opportunity
    /\ Followed \subseteq User
    /\ None \notin User /\ None \notin Company /\ None \notin Opportunity

VARIABLES
    active,     \* accounts whose status is "active"
    closed,     \* companies closed, their accounts deleted with them
    opps,       \* opportunities
    licensed,   \* opportunities with a licence that expires
    deals,      \* deal registrations
    pocs        \* the POC of each opportunity, its live seats and stage owners

vars == <<active, closed, opps, licensed, deals, pocs>>

\* "draft" stands for draft and rejected, "submitted" for pending and under review.
OpportunityRow ==
    [status : {"absent", "draft", "submitted", "approved", "won", "lost", "removed"},
     company : Company \cup {None}, by : User \cup {None}, rep : User \cup {None},
     renewalOf : Opportunity \cup {None}]

DealRow ==
    [status : {"absent", "pending", "decided"},
     company : Company \cup {None}, by : User \cup {None}, renewal : BOOLEAN]

\* "reopened" is a history of the row: it was closed at least once.
PocRow ==
    [status : {"absent", "not_started", "running", "closed"},
     team : SUBSET Internal, owner : [Stage -> Internal \cup {None}],
     reopened : BOOLEAN]

NoOpportunity ==
    [status |-> "absent", company |-> None, by |-> None, rep |-> None,
     renewalOf |-> None]
NoDeal == [status |-> "absent", company |-> None, by |-> None, renewal |-> FALSE]
NoPoc ==
    [status |-> "absent", team |-> {}, owner |-> [k \in Stage |-> None],
     reopened |-> FALSE]

TypeOK ==
    /\ active \subseteq User /\ closed \subseteq Company
    /\ opps \in [Opportunity -> OpportunityRow]
    /\ licensed \subseteq Opportunity
    /\ deals \in [Deal -> DealRow]
    /\ pocs \in [Opportunity -> PocRow]

Init ==
    /\ active = User /\ closed = {}
    /\ opps = [o \in Opportunity |-> NoOpportunity]
    /\ licensed = {}
    /\ deals = [d \in Deal |-> NoDeal]
    /\ pocs = [o \in Opportunity |-> NoPoc]

-----------------------------------------------------------------------------
(* What an account still holds. *)

LiveOpportunity(opp) == opp.status \in {"draft", "submitted", "approved"}
OpenPoc(poc) == poc.status \in {"not_started", "running"}

Submitted(u) == {o \in Opportunity : LiveOpportunity(opps[o]) /\ opps[o].by = u}
AsRep(u) == {o \in Opportunity : LiveOpportunity(opps[o]) /\ opps[o].rep = u}
Pending(u) == {d \in Deal : deals[d].status = "pending" /\ deals[d].by = u}
Seats(u) == {o \in Opportunity : OpenPoc(pocs[o]) /\ u \in pocs[o].team}
Owned(u) == {o \in Opportunity : OpenPoc(pocs[o]) /\ \E k \in Stage : pocs[o].owner[k] = u}

MutantHoldsWork(u) == Submitted(u) \cup AsRep(u) # {} \/ Pending(u) # {}

HoldsWork(u) ==
    Submitted(u) \cup AsRep(u) \cup Seats(u) \cup Owned(u) # {} \/ Pending(u) # {}

-----------------------------------------------------------------------------
(* Opportunities and registrations. *)

Unset == [status |-> "draft", company |-> None, by |-> None, rep |-> None,
          renewalOf |-> None]

(* _validate_sales_rep looks at the role, not at whether the account is    *)
(* active.                                                                 *)
Assignable(r) == r \in Rep \cup {None}

PartnerCreatesOpportunity(o, p, r, status) ==
    /\ opps[o].status = "absent" /\ p \in active /\ Assignable(r)
    /\ opps' = [opps EXCEPT ![o] =
            [Unset EXCEPT !.status = status, !.company = CompanyOf[p],
                          !.by = p, !.rep = r]]
    /\ UNCHANGED <<active, closed, licensed, deals, pocs>>

(* On behalf of an active partner company, or of none.  The rep is both    *)
(* the submitter and the assigned rep.                                     *)
RepCreatesOpportunity(o, r, c, status) ==
    /\ opps[o].status = "absent" /\ r \in active /\ c \notin closed
    /\ opps' = [opps EXCEPT ![o] =
            [Unset EXCEPT !.status = status, !.company = c, !.by = r, !.rep = r]]
    /\ UNCHANGED <<active, closed, licensed, deals, pocs>>

(* update_opportunity, by its submitter.                                   *)
AssignRep(o, r) ==
    /\ opps[o].status \in {"draft", "submitted"}
    /\ opps[o].by \in active /\ Assignable(r)
    /\ opps' = [opps EXCEPT ![o].rep = r]
    /\ UNCHANGED <<active, closed, licensed, deals, pocs>>

SubmitOpportunity(o) ==
    /\ opps[o].status = "draft" /\ opps[o].by \in active
    /\ opps' = [opps EXCEPT ![o].status = "submitted"]
    /\ UNCHANGED <<active, closed, licensed, deals, pocs>>

(* Approved, or rejected and open to be submitted again.                   *)
DecideOpportunity(o, outcome) ==
    /\ opps[o].status = "submitted"
    /\ opps' = [opps EXCEPT ![o].status = outcome]
    /\ UNCHANGED <<active, closed, licensed, deals, pocs>>

CloseOpportunity(o, outcome) ==
    /\ opps[o].status = "approved"
    /\ opps' = [opps EXCEPT ![o].status = outcome]
    /\ UNCHANGED <<active, closed, licensed, deals, pocs>>

(* Its POC stays open and its registrations pending.                       *)
RemoveOpportunity(o) ==
    /\ opps[o].status \notin {"absent", "removed"}
    /\ opps' = [opps EXCEPT ![o].status = "removed"]
    /\ UNCHANGED <<active, closed, licensed, deals, pocs>>

RegisterDeal(d, p) ==
    /\ deals[d].status = "absent" /\ p \in active
    /\ deals' = [deals EXCEPT ![d] =
            [status |-> "pending", company |-> CompanyOf[p], by |-> p, renewal |-> FALSE]]
    /\ UNCHANGED <<active, closed, opps, licensed, pocs>>

DecideDeal(d) ==
    /\ deals[d].status = "pending"
    /\ deals' = [deals EXCEPT ![d].status = "decided"]
    /\ UNCHANGED <<active, closed, opps, licensed, pocs>>

(* upsert_license, with an expiry.                                         *)
RecordLicence(o) ==
    /\ opps[o].status \in {"approved", "won"} /\ o \notin licensed
    /\ licensed' = licensed \cup {o}
    /\ UNCHANGED <<active, closed, opps, deals, pocs>>

Renewal(o) == [opps[o] EXCEPT !.status = "draft", !.renewalOf = o]

(* A draft for whoever submitted the original, and the registration that   *)
(* pays its company, if it has one.                                        *)
CreateRenewal(o, new, d) ==
    /\ o \in licensed /\ opps[o].status # "removed"
    /\ \A other \in Opportunity :
          opps[other].renewalOf = o => opps[other].status = "removed"
    /\ opps[new].status = "absent" /\ deals[d].status = "absent"
    /\ opps' = [opps EXCEPT ![new] = Renewal(o)]
    /\ deals' = IF opps[o].company = None THEN deals
                ELSE [deals EXCEPT ![d] =
                        [status |-> "pending", company |-> opps[o].company,
                         by |-> opps[o].by, renewal |-> TRUE]]
    /\ UNCHANGED <<active, closed, licensed, pocs>>

-----------------------------------------------------------------------------
(* The POC of an opportunity. *)

StartPoc(o) ==
    /\ opps[o].status \in {"submitted", "approved", "won"}
    /\ pocs[o].status \in {"absent", "not_started"}
    /\ pocs' = [pocs EXCEPT ![o].status = "running"]
    /\ UNCHANGED <<active, closed, opps, licensed, deals>>

(* Setting or clearing the date of VM provisioning starts or un-starts it. *)
SetFirstStage(o, status) ==
    /\ OpenPoc(pocs[o])
    /\ pocs' = [pocs EXCEPT ![o].status = status]
    /\ UNCHANGED <<active, closed, opps, licensed, deals>>

SetStageOwner(o, k, u) ==
    /\ OpenPoc(pocs[o]) /\ u \in pocs[o].team \cup {None}
    /\ pocs' = [pocs EXCEPT ![o].owner[k] = u]
    /\ UNCHANGED <<active, closed, opps, licensed, deals>>

ClosePoc(o) ==
    /\ pocs[o].status = "running"
    /\ pocs' = [pocs EXCEPT ![o].status = "closed"]
    /\ UNCHANGED <<active, closed, opps, licensed, deals>>

ReopenPoc(o) ==
    /\ pocs[o].status = "closed"
    /\ pocs' = [pocs EXCEPT ![o].status = "running", ![o].reopened = TRUE]
    /\ UNCHANGED <<active, closed, opps, licensed, deals>>

(* On a closed POC too.                                                    *)
AddMember(o, u) ==
    /\ pocs[o].status # "absent" /\ u \in Internal \cap active
    /\ u \notin pocs[o].team
    /\ pocs' = [pocs EXCEPT ![o].team = @ \cup {u}]
    /\ UNCHANGED <<active, closed, opps, licensed, deals>>

MutantWithout(poc, u) == [poc EXCEPT !.team = @ \ {u}]

Without(poc, u) ==
    [poc EXCEPT !.team = @ \ {u},
                !.owner = [k \in Stage |-> IF @[k] = u THEN None ELSE @[k]]]

RemoveMember(o, u) ==
    /\ u \in pocs[o].team
    /\ pocs' = [pocs EXCEPT ![o] = Without(@, u)]
    /\ UNCHANGED <<active, closed, opps, licensed, deals>>

-----------------------------------------------------------------------------
(* Accounts. *)

Exists(u) == u \in Partner => CompanyOf[u] \notin closed

MutantReceivesFromAnyCompany(l, s) ==
    /\ s # l /\ s \in active
    /\ Submitted(l) # {} \/ Pending(l) # {} => s \in Partner
    /\ AsRep(l) \cup Seats(l) \cup Owned(l) # {} => s \in Internal

(* _assert_can_receive.  Only partner accounts have a company.             *)
CanReceive(l, s) ==
    /\ s # l /\ s \in active
    /\ Submitted(l) # {} \/ Pending(l) # {} =>
          l \in Partner /\ s \in Partner /\ CompanyOf[l] = CompanyOf[s]
    /\ AsRep(l) \cup Seats(l) \cup Owned(l) # {} => s \in Internal

Renamed(u, l, s) == IF u = l THEN s ELSE u

MutantSeatKept(poc, l, s) ==
    IF ~OpenPoc(poc) THEN poc
    ELSE [poc EXCEPT
            !.team = IF s \in @ THEN @ ELSE IF l \in @ THEN (@ \ {l}) \cup {s} ELSE @,
            !.owner = [k \in Stage |-> Renamed(@[k], l, s)]]

(* _move_poc_work: a seat moves, or is closed if the successor has one.    *)
MovedPoc(poc, l, s) ==
    IF ~OpenPoc(poc) THEN poc
    ELSE [poc EXCEPT !.team = IF l \in @ THEN (@ \ {l}) \cup {s} ELSE @,
                     !.owner = [k \in Stage |-> Renamed(@[k], l, s)]]

HandOver(l, s) ==
    /\ Exists(l) /\ Exists(s) /\ HoldsWork(l) /\ CanReceive(l, s)
    /\ opps' = [o \in Opportunity |->
            IF LiveOpportunity(opps[o])
            THEN [opps[o] EXCEPT !.by = Renamed(@, l, s), !.rep = Renamed(@, l, s)]
            ELSE opps[o]]
    /\ deals' = [d \in Deal |->
            IF deals[d].status = "pending"
            THEN [deals[d] EXCEPT !.by = Renamed(@, l, s)] ELSE deals[d]]
    /\ pocs' = [o \in Opportunity |-> MovedPoc(pocs[o], l, s)]
    /\ UNCHANGED <<active, closed, licensed>>

Deactivate(u) ==
    /\ Exists(u) /\ u \in active /\ ~HoldsWork(u)
    /\ active' = active \ {u}
    /\ UNCHANGED <<closed, opps, licensed, deals, pocs>>

Reactivate(u) ==
    /\ Exists(u) /\ u \notin active
    /\ active' = active \cup {u}
    /\ UNCHANGED <<closed, opps, licensed, deals, pocs>>

StaffOf(c) == {u \in Partner : CompanyOf[u] = c}

(* deactivate_company deletes every account of the company with it.        *)
CloseCompany(c) ==
    /\ c \notin closed
    /\ \A u \in StaffOf(c) : ~HoldsWork(u)
    /\ closed' = closed \cup {c}
    /\ active' = active \ StaffOf(c)
    /\ UNCHANGED <<opps, licensed, deals, pocs>>

-----------------------------------------------------------------------------
PipelineStep ==
    \/ \E o \in Typed, status \in {"draft", "submitted"} :
          \/ \E p \in Partner \cap Followed, r \in Rep \cup {None} :
                PartnerCreatesOpportunity(o, p, r, status)
          \/ \E r \in Rep \cap Followed, c \in Company \cup {None} :
                RepCreatesOpportunity(o, r, c, status)
    \/ \E o \in Opportunity :
          \/ \E r \in Rep \cup {None} : AssignRep(o, r)
          \/ o \in Typed /\ SubmitOpportunity(o)
          \/ \E outcome \in {"approved", "draft"} : DecideOpportunity(o, outcome)
          \/ \E outcome \in {"won", "lost"} : CloseOpportunity(o, outcome)
          \/ RemoveOpportunity(o)
          \/ RecordLicence(o)
          \/ \E new \in Opportunity, d \in Deal : CreateRenewal(o, new, d)
    \/ \E d \in Deal : DecideDeal(d) \/ \E p \in Partner \cap Followed : RegisterDeal(d, p)

PocStep ==
    \E o \in Staffed :
        \/ StartPoc(o) \/ ClosePoc(o) \/ ReopenPoc(o)
        \/ \E status \in {"not_started", "running"} : SetFirstStage(o, status)
        \/ \E k \in Stage, u \in Internal \cup {None} : SetStageOwner(o, k, u)
        \/ \E u \in Internal : AddMember(o, u) \/ RemoveMember(o, u)

AccountStep ==
    \/ \E u \in Followed : Deactivate(u) \/ Reactivate(u)
    \/ \E l, s \in User : HandOver(l, s)
    \/ \E c \in Company : StaffOf(c) \subseteq Followed /\ CloseCompany(c)

Next == PipelineStep \/ PocStep \/ AccountStep

Spec == Init /\ [][Next]_vars

-----------------------------------------------------------------------------
(* A stage names an owner only while that person has a live seat on the    *)
(* team, while requests do not cross.  A comment in _move_poc_work says    *)
(* that "a member can be removed while the column still names them": out   *)
(* of date of one request, for remove_member clears the columns as well,   *)
(* and true of two, if an owner is set while the member leaves (PocTxn).   *)
OwnerIsOnTeam ==
    \A o \in Opportunity, k \in Stage : pocs[o].owner[k] \in pocs[o].team \cup {None}

(* A partner's pipeline stays with the company whoever the submitter       *)
(* becomes: whatever a partner account has submitted or registered is of   *)
(* that account's own company (create_*, create_renewal, hand_over).       *)
PipelineStaysInCompany ==
    /\ \A o \in Opportunity :
          opps[o].by \in Partner => opps[o].company = CompanyOf[opps[o].by]
    /\ \A d \in Deal :
          deals[d].by \in Partner => deals[d].company = CompanyOf[deals[d].by]

(* What the deactivation check does guarantee: an account switched off     *)
(* holds no opportunity it entered, no registration but a renewal's, and   *)
(* no seat or stage on a POC that was never closed.                        *)
InactiveHoldsNothingFresh ==
    \A u \in User \ active :
        /\ \A o \in Submitted(u) : opps[o].renewalOf # None
        /\ \A d \in Pending(u) : deals[d].renewal
        /\ \A o \in Seats(u) \cup Owned(u) : pocs[o].reopened

(* One handover is enough: after it the leaver holds nothing, and may be   *)
(* deactivated (hand_over moves what outstanding_work counts).             *)
HandoverIsComplete ==
    [][\A l \in User : HoldsWork(l) /\ HoldsWork(l)' => ~ \E s \in User : HandOver(l, s)]_vars

(* "Otherwise it stays assigned to a login nobody can use": the refusal    *)
(* to deactivate is there so that no inactive account holds live work.     *)
DeadLoginHoldsNothing == \A u \in User \ active : ~HoldsWork(u)
=============================================================================
