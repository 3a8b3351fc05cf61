------------------------------ MODULE Network -------------------------------
(***************************************************************************)
(* The companies of the programme, who looks after them, and the           *)
(* opportunities, POCs and licences whose visibility follows from both.    *)
(*                                                                         *)
(* A company row is written by two transactions at a time: each reads and  *)
(* checks first (no row is locked), and its flush writes later the columns *)
(* that it changed.  The pipeline moves one step at a time; its own rules  *)
(* are in Pipeline and Delivery, and here it is what routes have to show   *)
(* or hide.                                                                *)
(*                                                                         *)
(* A company also stands for its users: they differ only in what they      *)
(* submitted, and its accounts go when it is closed.                       *)
(***************************************************************************)
EXTENDS Rows

CONSTANTS
    Company,    \* ids of companies
    Boss,       \* the superadmin
    Manager,    \* the other admins: channel managers
    Rep,        \* sales reps
    Opp,        \* ids of opportunities
    Clerk       \* database sessions that write companies

Admin == {Boss} \cup Manager
Staff == Admin \cup Rep

ASSUME PeopleAssumption ==
    /\ Boss \notin Manager \cup Rep /\ Manager \cap Rep = {}
    /\ Staff \cap Company = {} /\ None \notin Company \cup Staff
    /\ \A companies \in SUBSET Company : companies # None

VARIABLES
    firm,        \* the rows of companies and company_channel_managers
    edit,        \* the company row each clerk is writing
    overlapped,  \* two edits of companies were once under way together
    opp,         \* the rows of opportunities
    team,        \* the POC of each opportunity: who is on its team
    licensed     \* the opportunities with a licence

networkVars == <<firm, edit, overlapped, opp, team, licensed>>
firmVars == <<firm, edit, overlapped>>
workVars == <<opp, team, licensed>>

-----------------------------------------------------------------------------
(* Companies. *)

Type == {"customer", "distributor", "partner"}

Firm == [state : {"absent", "live", "closed"}, type : Type,
         parent : Company \cup {None}, managers : SUBSET Admin]

NoFirm == [state |-> "absent", type |-> "customer", parent |-> None,
           managers |-> {}]

NoEdit == [company |-> None, seen |-> NoFirm, new |-> NoFirm]

Live(c) == firm[c].state = "live"

(* get_reseller_company_ids *)
Resellers(c) == {r \in Company : Live(r) /\ firm[r].parent = c}

(* assert_valid_parent_distributor, for the type the child will have.      *)
ValidParent(type, parent, child) ==
    parent # None =>
        /\ type = "partner"
        /\ parent # child
        /\ Live(parent) /\ firm[parent].type = "distributor"

MutantCanChangeType(c, type, unlinking) ==
    type # firm[c].type => (firm[c].parent # None /\ ~unlinking => type = "partner")

(* assert_can_change_type *)
CanChangeType(c, type, unlinking) ==
    type # firm[c].type =>
        /\ firm[c].type = "distributor" => Resellers(c) = {}
        /\ firm[c].parent # None /\ ~unlinking => type = "partner"

(* get_admin_scope of a channel manager: the live companies of their book. *)
Book(a) == {c \in Company : Live(c) /\ a \in firm[c].managers}

BeginEdit(k, c, new) ==
    /\ edit[k] = NoEdit
    /\ edit' = [edit EXCEPT ![k] = [company |-> c, seen |-> firm[c], new |-> new]]
    /\ overlapped' = (overlapped \/ \E other \in Clerk : edit[other] # NoEdit)
    /\ UNCHANGED <<firm, workVars>>

(* create_company, by any admin: a channel manager may name a parent they  *)
(* manage, and is always one of the managers.                              *)
CreateCompany(k, a, c, type, parent, named) ==
    /\ ~\E other \in Clerk : edit[other].company = c
    /\ firm[c] = NoFirm
    /\ parent # None => a = Boss \/ parent \in Book(a)
    /\ ValidParent(type, parent, c)
    /\ BeginEdit(k, c,
          [state |-> "live", type |-> type, parent |-> parent,
           managers |-> IF named = {} \/ a # Boss THEN named \cup {a} ELSE named])

(* update_company, by the superadmin: one request may change the type, the *)
(* parent and the managers.  What a channel manager may change is not      *)
(* modelled.  The parent is looked at only if the request names one.       *)
UpdateCompany(k, c, type, parent, managers) ==
    LET new == [firm[c] EXCEPT !.type = type, !.parent = parent,
                               !.managers = managers]
    IN  /\ Live(c) /\ new # firm[c]
        /\ managers # firm[c].managers => managers # {}
        /\ CanChangeType(c, type, parent = None)
        /\ parent # firm[c].parent => ValidParent(type, parent, c)
        /\ BeginEdit(k, c, new)

(* An account that still holds live work keeps its company open.           *)
HoldsWork(c) ==
    \E o \in Opp : /\ opp[o].by = c
                   /\ opp[o].status \notin {"absent", "won", "lost", "removed"}

(* deactivate_company *)
CloseCompany(k, c) ==
    /\ Live(c)
    /\ firm[c].type = "distributor" => Resellers(c) = {}
    /\ ~HoldsWork(c)
    /\ BeginEdit(k, c, [firm[c] EXCEPT !.state = "closed"])

CommitEdit(k) ==
    /\ edit[k] # NoEdit
    /\ LET e == edit[k] IN
       firm' = [firm EXCEPT ![e.company] = Overlay(@, e.seen, e.new)]
    /\ edit' = [edit EXCEPT ![k] = NoEdit]
    /\ UNCHANGED <<overlapped, workVars>>

-----------------------------------------------------------------------------
(* Opportunities, POCs and licences. *)

Status == {"draft", "pending_review", "under_review", "approved", "rejected",
           "won", "lost", "removed"}
Accepted == {"approved", "won"}
InReview == {"pending_review", "under_review"}

NoOpp == [status |-> "absent", company |-> None, by |-> None, rep |-> None]

(* remove_opportunity also sets deleted_at, and nothing else does.         *)
Exists(o) == opp[o].status \notin {"absent", "removed"}

HasPoc(o) == team[o] # None
OnTeam(v, o) == HasPoc(o) /\ v \in team[o]

(* A partner for the own company, a rep for a live one or for none.        *)
CreateOpp(o, by, company, rep) ==
    /\ opp[o] = NoOpp
    /\ company # None => Live(company)
    /\ by \in Company => by = company
    /\ by \in Rep => rep = by
    /\ opp' = [opp EXCEPT ![o] = [status |-> "draft", company |-> company,
                                  by |-> by, rep |-> rep]]
    /\ UNCHANGED <<firmVars, team, licensed>>

SetStatus(o, from, to) ==
    /\ opp[o].status \in from
    /\ opp' = [opp EXCEPT ![o].status = to]
    /\ UNCHANGED <<firmVars, team, licensed>>

(* Submission, the claim, its release, the decisions and the outcomes.     *)
MoveOpp(o) ==
    \/ SetStatus(o, {"draft", "rejected"}, "pending_review")
    \/ SetStatus(o, {"pending_review"}, "under_review")
    \/ SetStatus(o, {"under_review"}, "pending_review")
    \/ SetStatus(o, InReview, "approved")
    \/ SetStatus(o, InReview, "rejected")
    \/ SetStatus(o, {"approved"}, "won")
    \/ SetStatus(o, {"approved"}, "lost")

(* remove_opportunity: its POC, its team and its licence stay.             *)
RemoveOpp(o) == Exists(o) /\ SetStatus(o, Status, "removed")

MutantStartPoc(o) ==
    /\ opp[o].status \in InReview \cup Accepted /\ ~HasPoc(o)
    /\ team' = [team EXCEPT ![o] = {opp[o].rep}]
    /\ UNCHANGED <<firmVars, opp, licensed>>

StartPoc(o) ==
    /\ opp[o].status \in InReview \cup Accepted /\ ~HasPoc(o)
    /\ team' = [team EXCEPT ![o] = {}]
    /\ UNCHANGED <<firmVars, opp, licensed>>

ChangeTeam(o, members) ==
    /\ HasPoc(o)
    /\ team' = [team EXCEPT ![o] = members]
    /\ UNCHANGED <<firmVars, opp, licensed>>

AddMember(o, u) == u \in Staff /\ ~OnTeam(u, o) /\ ChangeTeam(o, team[o] \cup {u})
RemoveMember(o, u) == OnTeam(u, o) /\ ChangeTeam(o, team[o] \ {u})

RecordLicence(o) ==
    /\ opp[o].status \in Accepted /\ o \notin licensed
    /\ licensed' = licensed \cup {o}
    /\ UNCHANGED <<firmVars, opp, team>>

-----------------------------------------------------------------------------
Begins(firms) ==
    /\ firm = firms
    /\ edit = [k \in Clerk |-> NoEdit]
    /\ overlapped = FALSE
    /\ opp = [o \in Opp |-> NoOpp]
    /\ team = [o \in Opp |-> None]
    /\ licensed = {}

NetworkInit == Begins([c \in Company |-> NoFirm])

EditCompany(k, c) ==
    \/ \E type \in Type, parent \in Company \cup {None}, named \in SUBSET Admin :
          \/ \E a \in Admin : CreateCompany(k, a, c, type, parent, named)
          \/ UpdateCompany(k, c, type, parent, named)
    \/ CloseCompany(k, c)

WorkOn(o) ==
    \/ \E by \in Company \cup Rep, c \in Company \cup {None},
          r \in Rep \cup {None} : CreateOpp(o, by, c, r)
    \/ MoveOpp(o) \/ RemoveOpp(o) \/ StartPoc(o) \/ RecordLicence(o)
    \/ \E u \in Staff : AddMember(o, u) \/ RemoveMember(o, u)

NetworkNext ==
    \/ \E k \in Clerk : CommitEdit(k) \/ \E c \in Company : EditCompany(k, c)
    \/ \E o \in Opp : WorkOn(o)

NetworkSpec == NetworkInit /\ [][NetworkNext]_networkVars

-----------------------------------------------------------------------------
NetworkTypeOK ==
    /\ firm \in [Company -> Firm]
    /\ edit \in [Clerk -> [company : Company \cup {None}, seen : Firm, new : Firm]]
    /\ overlapped \in BOOLEAN
    /\ opp \in [Opp -> [status : Status \cup {"absent"},
                        company : Company \cup {None},
                        by : Company \cup Rep \cup {None},
                        rep : Rep \cup {None}]]
    /\ team \in [Opp -> {None} \cup SUBSET Staff]
    /\ licensed \subseteq Opp

(* A company with a parent is a partner, and its parent a live             *)
(* distributor, however types, parents and closures followed one another:  *)
(* the graph stays two levels deep, which is what the pipeline scope of a  *)
(* distributor relies on.  Edits that overlap can break it, for each       *)
(* checks rows that the other is about to write.                           *)
HierarchyStands ==
    overlapped \/
    \A c \in Company :
        Live(c) /\ firm[c].parent # None =>
            /\ firm[c].type = "partner"
            /\ Live(firm[c].parent)
            /\ firm[firm[c].parent].type = "distributor"
=============================================================================
