----------------------------- MODULE DealTables -----------------------------
(***************************************************************************)
(* The rows that deal registration writes, and what each service does to   *)
(* them: deal_registrations, deal_extension_requests, the active rows of   *)
(* customer_ownership.  The operators are pure: a module that gives them a *)
(* schedule (one request at a time, or interleaved database transactions)  *)
(* says when they run and on which snapshot.                               *)
(*                                                                         *)
(* Operators named "Mutant..." are not part of the model.  Each is a       *)
(* plausible mistake in the definition that follows it, and is there to    *)
(* show that a property would notice.                                      *)
(*                                                                         *)
(* Days are integers.  A customer name is a value of Name that stands for  *)
(* every spelling that normalise_customer_name() makes equal (case and     *)
(* white space); Norm maps it to what the stricter normalize_customer_name *)
(* () makes of it (punctuation and company suffixes dropped), which is     *)
(* Blank for a name made of suffixes alone.                                *)
(***************************************************************************)
EXTENDS Rows, Integers

CONSTANTS
    Company,        \* companies that register deals
    Country,        \* values of companies.country
    Name,           \* customer names, up to case and white space
    Customer,       \* customers, up to the stricter normalisation
    Norm,           \* Name -> Customer \cup {Blank}
    Blank,          \* the empty normalised name
    Deal,           \* ids of deal_registrations
    Request,        \* ids of deal_extension_requests
    WindowDays,     \* exclusivity_days an admin may pass
    ExtensionDays,  \* days asked for, or granted, by an extension
    WarningDays     \* settings.EXCLUSIVITY_WARNING_DAYS

ASSUME NormAssumption == Norm \in [Name -> Customer \cup {Blank}]
ASSUME NullAssumption ==
    None \notin Company \cup Name \cup Deal /\ Blank \notin Customer
ASSUME DaysAssumption ==
    /\ WindowDays \subseteq 1 .. 3650
    /\ ExtensionDays \subseteq 1 .. 365
    /\ WarningDays \in Nat

-----------------------------------------------------------------------------
(* Row types. *)

DealStatus == {"absent", "pending", "approved", "rejected", "expired"}
RequestStatus == {"absent", "pending", "approved", "refused"}

NoDay == 0  \* a date column that is NULL; real dates are positive

(* "days" is exclusivity_days as the approval's audit row keeps it;        *)
(* "warned" is expiry_warned_at IS NOT NULL; "told" is the end date that   *)
(* the last exclusivity_expiring notification quoted.                      *)
DealRow ==
    [status : DealStatus, company : Company \cup {None},
     name : Name \cup {None}, start : Nat, end : Nat, days : Nat,
     warned : BOOLEAN, told : Nat]

NoDeal ==
    [status |-> "absent", company |-> None, name |-> None, start |-> NoDay,
     end |-> NoDay, days |-> 0, warned |-> FALSE, told |-> NoDay]

RequestRow ==
    [status : RequestStatus, deal : Deal \cup {None}, asked : Nat,
     granted : Nat]

NoRequest == [status |-> "absent", deal |-> None, asked |-> 0, granted |-> 0]

OwnershipRow ==
    [customer : Customer, country : Country, company : Company,
     source : Deal, until : Nat]

-----------------------------------------------------------------------------
(* Windows, and what they block. *)

LiveWindow(deal, today) ==
    /\ deal.status = "approved"
    /\ deal.start <= today
    /\ today <= deal.end

(* deal_service.create_deal_registration: another company's live window on *)
(* the same name, compared with the weaker normalisation.                  *)
RegistrationConflict(deals, company, name, today) ==
    \E d \in Deal :
        /\ LiveWindow(deals[d], today)
        /\ deals[d].name = name
        /\ deals[d].company # company

-----------------------------------------------------------------------------
(* customer_ownership.  Only active rows are kept: nothing reads the rest. *)

RowsFor(own, deal, country) ==
    {row \in own : /\ row.customer = Norm[deal.name]
                   /\ row.country = country
                   /\ row.company = deal.company}

OwnershipFrom(d, deal, country) ==
    [customer |-> Norm[deal.name], country |-> country,
     company |-> deal.company, source |-> d, until |-> deal.end]

(* An existing row is moved to this deal only if that pushes its end out.  *)
Moved(row, d, deal) ==
    IF deal.end > row.until
    THEN [row EXCEPT !.until = deal.end, !.source = d]
    ELSE row

Upsert(own, d, deal, country) ==
    LET mine == RowsFor(own, deal, country)
    IN  IF Norm[deal.name] = Blank THEN own
        ELSE IF mine = {} THEN own \cup {OwnershipFrom(d, deal, country)}
        ELSE (own \ mine) \cup {Moved(row, d, deal) : row \in mine}

MutantReleasedByDate(own, d, today) == {row \in own : row.until <= today}

ReleasedBy(own, d, today) ==
    {row \in own : row.source = d /\ row.until <= today}

-----------------------------------------------------------------------------
(* The decisions of deal_service and exclusivity_service on one row. *)

Registered(company, name) ==
    [NoDeal EXCEPT !.status = "pending", !.company = company, !.name = name]

MutantApprovedBackwards(deal, days, today) ==
    [deal EXCEPT !.status = "approved", !.days = days,
                 !.start = today, !.end = today - days]

Approved(deal, days, today) ==
    [deal EXCEPT !.status = "approved", !.days = days,
                 !.start = today, !.end = today + days]

Rejected(deal) == [deal EXCEPT !.status = "rejected"]

MutantExtendedStillWarned(deal, days) == [deal EXCEPT !.end = @ + days]

(* The new end runs from the old one, and the partner is warned afresh.    *)
Extended(deal, days) ==
    [deal EXCEPT !.end = @ + days, !.warned = FALSE]

MutantLapsedOnLastDay(deal, today) ==
    deal.status = "approved" /\ deal.end <= today

Lapsed(deal, today) == deal.status = "approved" /\ deal.end < today

WarningDue(deal, today) ==
    /\ deal.status = "approved"
    /\ today <= deal.end
    /\ deal.end - today <= WarningDays
    /\ ~deal.warned

Expired(deal) == [deal EXCEPT !.status = "expired", !.warned = TRUE]

Warned(deal) == [deal EXCEPT !.warned = TRUE, !.told = deal.end]

MutantSweptOnce(deal, today) ==
    IF deal.warned THEN deal
    ELSE IF Lapsed(deal, today) THEN Expired(deal)
    ELSE IF WarningDue(deal, today) THEN Warned(deal)
    ELSE deal

Swept(deal, today) ==
    IF Lapsed(deal, today) THEN Expired(deal)
    ELSE IF WarningDue(deal, today) THEN Warned(deal)
    ELSE deal
=============================================================================
