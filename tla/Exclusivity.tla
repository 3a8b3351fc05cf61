----------------------------- MODULE Exclusivity -----------------------------
(***************************************************************************)
(* Deal registration and its exclusivity window, one request at a time.    *)
(*                                                                         *)
(* Every action is one whole HTTP handler, or one pass of the daily sweep, *)
(* run in a transaction of its own that no other overlaps.  What happens   *)
(* when transactions overlap is the subject of DealTxn.                    *)
(*                                                                         *)
(* Time is the calendar day of date.today().  The sweep runs "at startup   *)
(* and every 24h thereafter", so a day may pass with no sweep (the process *)
(* was down, the pass raised) and a day may see several.                   *)
(***************************************************************************)
EXTENDS DealTables

CONSTANTS
    Deployed,  \* the <<company, name>> pairs that hold a licence to renew
    MaxDay     \* bound: the last day the calendar reaches

ASSUME DeployedAssumption == Deployed \subseteq Company \X Name
ASSUME MaxDayAssumption == MaxDay \in Nat \ {0}

VARIABLES
    today,       \* date.today()
    country,     \* companies.country
    programme,   \* the companies that are channel partners or distributors
    deals,       \* deal_registrations
    requests,    \* deal_extension_requests
    own,         \* the active rows of customer_ownership
    earned       \* the deals that have a row in commissions

vars == <<today, country, programme, deals, requests, own, earned>>
companies == <<country, programme>>

TypeOK ==
    /\ today \in 1 .. MaxDay
    /\ country \in [Company -> Country]
    /\ programme \subseteq Company
    /\ deals \in [Deal -> DealRow]
    /\ requests \in [Request -> RequestRow]
    /\ own \subseteq OwnershipRow
    /\ earned \subseteq Deal

Init ==
    /\ today = 1
    /\ country \in [Company -> Country]
    /\ programme = Company
    /\ deals = [d \in Deal |-> NoDeal]
    /\ requests = [q \in Request |-> NoRequest]
    /\ own = {}
    /\ earned = {}

-----------------------------------------------------------------------------
(* Companies. *)

(* PUT /companies/{id}: the two columns that the deal services read.       *)
MoveCompany(c, k) ==
    /\ country' = [country EXCEPT ![c] = k]
    /\ UNCHANGED <<today, programme, deals, requests, own, earned>>

(* A company is reclassified from partner or distributor to customer, or   *)
(* back.  The hierarchy checks of assert_can_change_type may refuse it.    *)
ReclassifyCompany(c) ==
    /\ programme' = IF c \in programme THEN programme \ {c}
                                       ELSE programme \cup {c}
    /\ UNCHANGED <<today, country, deals, requests, own, earned>>

-----------------------------------------------------------------------------
(* Registrations. *)

InsertDeal(d, c, n) ==
    /\ deals[d].status = "absent"
    /\ deals' = [deals EXCEPT ![d] = Registered(c, n)]
    /\ UNCHANGED <<today, companies, requests, own, earned>>

CreateDeal(d, c, n) ==
    /\ ~RegistrationConflict(deals, c, n, today)
    /\ InsertDeal(d, c, n)

(* A renewal registers a deal for the incumbent without the conflict check.*)
RenewLicence(d, c, n) ==
    /\ <<c, n>> \in Deployed
    /\ InsertDeal(d, c, n)

ApproveDeal(d, days) ==
    /\ deals[d].status = "pending"
    /\ LET deal == Approved(deals[d], days, today)
       IN  /\ deals' = [deals EXCEPT ![d] = deal]
           /\ own' = Upsert(own, d, deal, country[deal.company])
           /\ earned' = IF deal.company \in programme THEN earned \cup {d}
                                                     ELSE earned
    /\ UNCHANGED <<today, companies, requests>>

MutantRejectAny(d) ==
    /\ deals[d].status \in {"pending", "approved"}
    /\ deals' = [deals EXCEPT ![d] = Rejected(@)]
    /\ UNCHANGED <<today, companies, requests, own, earned>>

RejectDeal(d) ==
    /\ deals[d].status = "pending"
    /\ deals' = [deals EXCEPT ![d] = Rejected(@)]
    /\ UNCHANGED <<today, companies, requests, own, earned>>

-----------------------------------------------------------------------------
(* Extensions. *)

OpenRequest(d) ==
    \E q \in Request : requests[q].status = "pending" /\ requests[q].deal = d

(* Only the status is checked: a window that lapsed today and has not been *)
(* swept can still be extended.                                            *)
RequestExtension(q, d, days) ==
    /\ deals[d].status = "approved"
    /\ ~OpenRequest(d)
    /\ requests[q].status = "absent"
    /\ requests' = [requests EXCEPT ![q] =
          [status |-> "pending", deal |-> d, asked |-> days, granted |-> 0]]
    /\ UNCHANGED <<today, companies, deals, own, earned>>

(* The request must be pending; the deal's own status is not looked at.    *)
GrantExtension(q, days) ==
    /\ requests[q].status = "pending"
    /\ LET d == requests[q].deal
           deal == Extended(deals[d], days)
       IN  /\ requests' = [requests EXCEPT ![q].status = "approved",
                                           ![q].granted = days]
           /\ deals' = [deals EXCEPT ![d] = deal]
           /\ own' = Upsert(own, d, deal, country[deal.company])
    /\ UNCHANGED <<today, companies, earned>>

RefuseExtension(q) ==
    /\ requests[q].status = "pending"
    /\ requests' = [requests EXCEPT ![q].status = "refused"]
    /\ UNCHANGED <<today, companies, deals, own, earned>>

-----------------------------------------------------------------------------
(* The calendar and the daily sweep. *)

SweepExclusivity ==
    /\ deals' = [d \in Deal |-> Swept(deals[d], today)]
    /\ own' = own \ UNION {ReleasedBy(own, d, today) :
                             d \in {e \in Deal : Lapsed(deals[e], today)}}
    /\ UNCHANGED <<today, companies, requests, earned>>

DayPasses ==
    /\ today < MaxDay
    /\ today' = today + 1
    /\ UNCHANGED <<companies, deals, requests, own, earned>>

-----------------------------------------------------------------------------

Next ==
    \/ \E c \in Company, k \in Country : MoveCompany(c, k)
    \/ \E c \in Company : ReclassifyCompany(c)
    \/ \E d \in Deal, c \in Company, n \in Name :
          CreateDeal(d, c, n) \/ RenewLicence(d, c, n)
    \/ \E d \in Deal, days \in WindowDays : ApproveDeal(d, days)
    \/ \E d \in Deal : RejectDeal(d)
    \/ \E q \in Request, d \in Deal, days \in ExtensionDays :
          RequestExtension(q, d, days)
    \/ \E q \in Request, days \in ExtensionDays : GrantExtension(q, days)
    \/ \E q \in Request : RefuseExtension(q)
    \/ SweepExclusivity
    \/ DayPasses

(* The sweep's loop survives an exception and sleeps between passes, so it *)
(* always runs again.  No user is obliged to do anything.                  *)
Fairness == WF_vars(SweepExclusivity)

Spec == Init /\ [][Next]_vars /\ Fairness

-----------------------------------------------------------------------------
(* Safety. *)

(* upsert_ownership_from_deal reads the active row of a customer, country  *)
(* and company with scalar_one_or_none(), which raises on a second one.    *)
(* No sequence of approvals, grants, moves and sweeps creates a second.    *)
OneRowPerKey ==
    \A r1, r2 \in own :
        /\ r1.customer = r2.customer
        /\ r1.country = r2.country
        /\ r1.company = r2.company
        => r1 = r2

(* An active ownership row blocks every other company, so it may only say  *)
(* what the registration it came from says: that registration was          *)
(* approved, is for this customer and company, and ends no sooner than the *)
(* row.  (Sooner than the row it would be if the end could move without    *)
(* the row, or the row outlive the deal that the sweep releases it by.)    *)
OwnershipBacked ==
    \A row \in own :
        LET deal == deals[row.source]
        IN  /\ deal.status \in {"approved", "expired"}
            /\ deal.company = row.company
            /\ Norm[deal.name] = row.customer
            /\ row.until <= deal.end

(* The block lasts as long as the window: whatever was granted, moved or   *)
(* swept since, an approved registration whose window has not lapsed has   *)
(* an active ownership row of its company and customer that runs at least  *)
(* to its end.  Ownership is shared by a company's registrations for one   *)
(* customer, so the sweep must not release the row of a deal that lapsed   *)
(* while another still needs it.                                           *)
LiveWindowIsOwned ==
    \A d \in Deal :
        (/\ deals[d].status = "approved"
         /\ today <= deals[d].end
         /\ Norm[deals[d].name] # Blank)
        => \E row \in own : /\ row.company = deals[d].company
                            /\ row.customer = Norm[deals[d].name]
                            /\ row.until >= deals[d].end

(* An ownership row and the registrations it stands for say the same of    *)
(* one customer, whatever is approved, extended, moved, renewed and swept. *)
OwnershipStands == OneRowPerKey /\ OwnershipBacked /\ LiveWindowIsOwned

(* expiry_warned_at set on an approved registration means that its people  *)
(* were told the end date it has now: an extension must clear the stamp,   *)
(* or they rely on a date that moved, and are never warned of the new one. *)
WarningIsCurrent ==
    \A d \in Deal :
        deals[d].status = "approved" /\ deals[d].warned
        => deals[d].told = deals[d].end

CommissionBacked ==
    \A d \in Deal :
        d \in earned => deals[d].status \in {"approved", "expired"}

NothingEarly ==
    /\ \A d \in Deal :
          LET deal == deals[d]
          IN  /\ deal.status # "absent" =>
                    deal.company \in Company /\ deal.name \in Name
              /\ deal.status \in {"absent", "pending", "rejected"} =>
                    ~deal.warned /\ deal.end = NoDay
    /\ \A q \in Request :
          requests[q].status # "absent" =>
              /\ requests[q].deal \in Deal
              /\ deals[requests[q].deal].status \in {"approved", "expired"}

(* Nothing is decided out of order: a commission, a window, a warning or   *)
(* an extension request is only of a registration that was approved, and   *)
(* no sequence of calls brings it back to a state where it had none.  The  *)
(* commission table is read as one row per approved deal by every          *)
(* statement.                                                              *)
DecisionsInOrder == CommissionBacked /\ NothingEarly

(* The inductive invariant of the proofs. *)
IInv ==
    /\ TypeOK
    /\ OneRowPerKey
    /\ OwnershipBacked
    /\ LiveWindowIsOwned
    /\ WarningIsCurrent
    /\ CommissionBacked
    /\ NothingEarly

(* Liveness: a registration does not read "approved" for ever.  Once its   *)
(* window has lapsed it is expired by a sweep, or a late grant gives it    *)
(* days it still has.                                                      *)
LapsedIsClosed ==
    \A d \in Deal : Lapsed(deals[d], today) ~> ~Lapsed(deals[d], today)

(* The registration's life as the partner is promised it (WindowLifecycle).*)
PhaseOf(deal) ==
    CASE deal.status = "absent"   -> "none"
      [] deal.status = "pending"  -> "waiting"
      [] deal.status = "approved" -> "open"
      [] deal.status = "expired"  -> "closed"
      [] deal.status = "rejected" -> "refused"

Promise == INSTANCE WindowLifecycle WITH
    phase <- [d \in Deal |-> PhaseOf(deals[d])],
    until <- [d \in Deal |->
                IF deals[d].status = "approved" THEN deals[d].end ELSE 0]

(* Refinement: every handler and every sweep is a step of that life or     *)
(* does not touch it, and a window that is over is eventually closed.      *)
KeepsPromise == Promise!Spec

-----------------------------------------------------------------------------
(* What the documentation promises beyond this is checked by the runs that *)
(* refute it: see README.                                                  *)

(* deal_extension.py:3-5 "while it is open, no other partner can register  *)
(* or submit an opportunity for the same customer": one company at a time  *)
(* holds a live window on a name.                                          *)
OneHolderPerName ==
    \A d, e \in Deal :
        (/\ LiveWindow(deals[d], today)
         /\ LiveWindow(deals[e], today)
         /\ deals[d].name = deals[e].name)
        => deals[d].company = deals[e].company

(* exclusivity_service.py:166-167 "Exclusivity ... ended on ...  Another   *)
(* partner can now register this customer." and request_extension's "An    *)
(* expired registration has to be registered again": an expired            *)
(* registration gives nobody a right that is still in force.               *)
ExpiredHoldsNothing ==
    \A row \in own :
        deals[row.source].status = "expired" => row.until < today
=============================================================================
