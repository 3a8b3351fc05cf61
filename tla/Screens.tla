------------------------------ MODULE Screens ------------------------------
(***************************************************************************)
(* What each route shows, of the state of Network.  Lists, pages, exports  *)
(* and dashboards work it out on their own, in different files, from the   *)
(* viewer's role and company, and have to agree.                           *)
(*                                                                         *)
(* A list, an export or a figure is the set of rows it is made of: a count *)
(* or a sum over them is a function of that set.  A viewer is a member of  *)
(* the staff, or a company for each of its users.                          *)
(***************************************************************************)
EXTENDS Network, FiniteSets

Viewer == Staff \cup {c \in Company : Live(c)}

Every == {o \in Opp : Exists(o)}
Of(companies) == {o \in Every : opp[o].company \in companies}
AssignedTo(r) == {o \in Every : opp[o].rep = r}
StaffedWith(u) == {o \in Every : OnTeam(u, o)}
WithPoc(rows) == {o \in rows : HasPoc(o)}
WithLicence(rows) == rows \cap licensed
In(statuses, rows) == {o \in rows : opp[o].status \in statuses}

-----------------------------------------------------------------------------
(* deps: scopes, and the checks of one record. *)

(* get_partner_pipeline_scope: downward only, and only for a distributor.  *)
PipelineScope(c) ==
    {c} \cup IF firm[c].type = "distributor" THEN Resellers(c) ELSE {}

(* get_admin_scope.  For the superadmin None stands for no scope at all.   *)
AdminScope(a) == IF a = Boss THEN None ELSE Book(a)

Scoped(scope) == IF scope = None THEN Every ELSE Of(scope)

ManagesCompany(a, c) == a = Boss \/ c \in Book(a)

CanReview(v, o) ==
    v \in Admin /\ (v = Boss \/ opp[o].company = None \/ opp[o].company \in Book(v))

CanAccess(v, o) ==
    \/ CanReview(v, o)
    \/ v \in Rep /\ opp[o].rep = v
    \/ v \in Company /\ opp[o].company \in PipelineScope(v)

CanWorkOnPoc(v, o) == OnTeam(v, o) \/ CanAccess(v, o)

CanRead(v, o) == v \in Admin \/ CanWorkOnPoc(v, o)

(* A partner by what the company's user submitted, anyone else by access.  *)
CanManageDocuments(v, o) ==
    IF v \in Company THEN opp[o].by = v ELSE CanAccess(v, o)

-----------------------------------------------------------------------------
(* Opportunities. *)

OpportunityList(v) ==
    CASE v \in Company -> Of(PipelineScope(v))
      [] v \in Rep -> AssignedTo(v)
      [] v \in Admin -> Every

OpportunityPages(v) ==
    CASE v \in Company -> Of(PipelineScope(v))
      [] v \in Rep -> AssignedTo(v) \cup StaffedWith(v)
      [] v \in Admin -> Every

ExportOpportunities(v) ==
    CASE v \in Company -> Of(PipelineScope(v))
      [] v \in Rep -> AssignedTo(v)
      [] v \in Admin -> Every

(* Claims that wait, the direct ones on every admin's list; the days are   *)
(* those of Pipeline.                                                      *)
StaleReviews(a) ==
    In({"under_review"},
       {o \in Every : a = Boss \/ opp[o].company \in Book(a) \cup {None}})

-----------------------------------------------------------------------------
(* POCs and licences. *)

(* The grounds that a caller passes to poc_access_clause.  No ground at    *)
(* all is no restriction.                                                  *)
NoGrounds == [scope |-> None, rep |-> None, member |-> None]

AccessClause(grounds) ==
    IF grounds = NoGrounds THEN Every
    ELSE (IF grounds.scope = None THEN {} ELSE Of(grounds.scope))
         \cup (IF grounds.rep = None THEN {} ELSE AssignedTo(grounds.rep))
         \cup (IF grounds.member = None THEN {} ELSE StaffedWith(grounds.member))

(* pocs._list_scope *)
ListScope(v) ==
    CASE v \in Company -> [NoGrounds EXCEPT !.scope = PipelineScope(v)]
      [] v \in Rep -> [NoGrounds EXCEPT !.rep = v, !.member = v]
      [] v = Boss -> NoGrounds
      [] v \in Manager -> [NoGrounds EXCEPT !.scope = Book(v), !.member = v]

PocList(v) == WithPoc(AccessClause(ListScope(v)))
LicenceList(v) == WithLicence(AccessClause(ListScope(v)))

MutantWidgetScope(v) ==
    CASE v \in Rep -> [NoGrounds EXCEPT !.rep = v, !.member = v]
      [] v \in Admin -> [NoGrounds EXCEPT !.scope = AdminScope(v), !.member = v]

(* dashboard._poc_scope *)
WidgetScope(v) ==
    CASE v \in Rep -> [NoGrounds EXCEPT !.rep = v, !.member = v]
      [] v = Boss -> NoGrounds
      [] v \in Manager -> [NoGrounds EXCEPT !.scope = Book(v), !.member = v]

PocSummary(v) == WithPoc(AccessClause(WidgetScope(v)))
DeployedLicences(v) == WithLicence(AccessClause(WidgetScope(v)))

ExportPocs(v) ==
    WithPoc(CASE v \in Company -> Of(PipelineScope(v))
              [] v \in Rep -> AssignedTo(v) \cup StaffedWith(v)
              [] v = Boss -> Every
              [] v \in Manager -> Of(Book(v)) \cup StaffedWith(v))

ExportLicences(v) ==
    WithLicence(CASE v \in Company -> Of(PipelineScope(v))
                  [] v \in Rep -> AssignedTo(v) \cup StaffedWith(v)
                  [] v = Boss -> Every
                  [] v \in Manager -> Of(Book(v)) \cup StaffedWith(v))

(* A POC's page by the opportunity looks the opportunity up, which is gone *)
(* once it was removed; by the POC's own id it does not.                   *)
PocPages(v) == WithPoc({o \in Every : CanRead(v, o)})
PocEdits(v) == WithPoc({o \in Every : v \in Staff /\ CanWorkOnPoc(v, o)})
StaffingRights(v) == WithPoc({o \in Every : v \in Admin /\ CanAccess(v, o)})

-----------------------------------------------------------------------------
(* Companies and their users. *)

LiveCompany == {c \in Company : Live(c)}
CompanyList(a) == {c \in LiveCompany : a = Boss \/ a \in firm[c].managers}
CompanyPages(a) == {c \in LiveCompany : ManagesCompany(a, c)}
ExportCompanies(a) == IF AdminScope(a) = None THEN LiveCompany ELSE Book(a)

PerformancePages(v) ==
    {c \in LiveCompany : \/ v \in Company /\ c \in PipelineScope(v)
                         \/ v \in Admin /\ ManagesCompany(v, c)}

(* get_partners: of a channel manager's companies, and every rep.          *)
UserList(a) == IF a = Boss THEN Viewer ELSE Book(a) \cup Rep

CanViewUser(v, u) ==
    v = Boss \/ v = u \/ (v \in Manager /\ (u \in Rep \/ u \in Book(v)))

CanManageUser(a, u) == a = Boss \/ (u \in Company /\ u \in Book(a))

-----------------------------------------------------------------------------
(* Registrations, exclusivity and paperwork: of which companies.  None of  *)
(* it goes down the tree of resellers.                                     *)

InProgramme(c) == firm[c].type # "customer"

DealList(v) ==
    CASE v \in Company -> {c \in {v} : InProgramme(c)}
      [] v \in Rep -> {}
      [] v = Boss -> Company
      [] v \in Manager -> Book(v)

ExportDeals(v) ==
    CASE v \in Company -> IF InProgramme(v) THEN {v} ELSE {}
      [] v \in Rep -> {}
      [] v \in Admin -> IF AdminScope(v) = None THEN Company ELSE Book(v)

ExpiringWindows(v) ==
    CASE v \in Company -> {c \in {v} : InProgramme(c)}
      [] v \in Rep -> {}
      [] v = Boss -> Company
      [] v \in Manager -> Book(v)

DocRequestList(v) ==
    CASE v \in Company -> {v}
      [] v \in Rep -> {}
      [] v = Boss -> Company
      [] v \in Manager -> Book(v)

CanAccessDocRequest(v, c) ==
    v = Boss \/ v = c \/ (v \in Manager /\ c \in Book(v))

-----------------------------------------------------------------------------
(* Commissions, statements and scorecards: of which companies.             *)

(* list_commissions *)
CommissionList(v) ==
    CASE v \in Company -> {c \in {v} : InProgramme(c)}
      [] v \in Rep -> {}
      [] v \in Admin -> IF AdminScope(v) = None THEN Company ELSE Book(v)

(* _out_of_scope, of one commission *)
OutOfScope(v, c) ==
    IF v \in Company THEN c # v
    ELSE AdminScope(v) # None /\ c \notin AdminScope(v)

CommissionPages(v) ==
    {c \in Company : /\ v \notin Rep /\ (v \in Company => InProgramme(v))
                     /\ ~OutOfScope(v, c)}

CommissionDecisions(a) == {c \in Company : ~OutOfScope(a, c)}

StatementList(v) ==
    CASE v \in Company -> {c \in {v} : InProgramme(c)}
      [] v \in Rep -> {}
      [] v \in Admin -> IF AdminScope(v) = None THEN Company ELSE Book(v)

(* The PDF needs the name of a company that is not closed.                 *)
StatementPages(v) ==
    {c \in LiveCompany : \/ v = c /\ InProgramme(c)
                         \/ v \in Admin /\ ManagesCompany(v, c)}

(* get_scorecard *)
Scorecards(v) ==
    {c \in LiveCompany : /\ InProgramme(c)
                         /\ v = c \/ (v \in Admin /\ ManagesCompany(v, c))}

Leaderboard == {c \in Company : Live(c) /\ InProgramme(c)}

(* The queue of licences near their end, and who may renew one.            *)
RenewalQueue(v) ==
    WithLicence(CASE v \in Company -> IF InProgramme(v) THEN Of({v}) ELSE {}
                  [] v \in Rep -> {}
                  [] v = Boss -> Every
                  [] v \in Manager -> Of(Book(v)))

CanRenew(v, o) ==
    \/ v \in Company /\ opp[o].company = v
    \/ v \in Admin /\ CanReview(v, o)

-----------------------------------------------------------------------------
(* Figures. *)

AdminStats(a) ==
    LET rows == Scoped(AdminScope(a)) IN
    [total |-> rows, approved |-> In(Accepted, rows),
     rejected |-> In({"rejected"}, rows), pending |-> In(InReview, rows),
     companies |-> IF a = Boss THEN LiveCompany ELSE Book(a)]

StatusBreakdown(a) ==
    [s \in Status |-> In({s}, Scoped(AdminScope(a)))]

MonthlyData(a) ==
    LET rows == Scoped(AdminScope(a)) IN
    [submitted |-> rows, approved |-> In(Accepted, rows),
     rejected |-> In({"rejected"}, rows)]

CompanyPerformance(c) ==
    [submitted |-> Of({c}), won |-> In(Accepted, Of({c})),
     lost |-> In({"rejected"}, Of({c}))]

PartnerDashboard(c) ==
    LET rows == Of(PipelineScope(c)) IN
    [total |-> rows, approved |-> In(Accepted, rows),
     rejected |-> In({"rejected"}, rows), pending |-> In(InReview, rows),
     drafts |-> In({"draft"}, rows)]

PartnerTimeline(c) ==
    LET rows == Of(PipelineScope(c)) IN
    [submitted |-> rows, approved |-> In(Accepted, rows)]

ManagerDashboard(a) ==
    [c \in {x \in LiveCompany : a \in firm[x].managers} |->
        [pending |-> In(InReview, Of({c})), approved |-> In(Accepted, Of({c}))]]

MutantRegions(a) == {Of({c}) : c \in CompanyList(a)}

(* The regions are those of companies; for the superadmin the deals of no  *)
(* company are a region of their own.                                      *)
Regions(a) ==
    {Of({c}) : c \in CompanyList(a)} \cup (IF a = Boss THEN {Of({None})} ELSE {})

Funnel(a) ==
    [s \in {"draft", "pending_review", "under_review", "approved"} |->
        In({s}, Scoped(AdminScope(a)))]

(* Removed rows are left out by status here, by deleted_at elsewhere.      *)
TargetPlan(a) ==
    {o \in Scoped(AdminScope(a)) : opp[o].status # "removed"}

CityFunnel(a) ==
    {o \in Scoped(AdminScope(a)) : opp[o].status # "removed"}

-----------------------------------------------------------------------------
(* Lists, pages, exports and widgets of one viewer agree: an export shows  *)
(* what its list shows, what is listed can be opened, whoever may work on  *)
(* a POC or a licence has it in the list (a direct deal apart, which any   *)
(* channel manager may work on and none has listed), a pipeline is seen    *)
(* from above and never from below or beside, money is seen by its own     *)
(* company alone, and a statement can be opened that is listed (of a       *)
(* company that was closed it is listed for the superadmin and cannot).    *)
RoutesAgree ==
    /\ \A v \in Viewer :
        /\ ExportOpportunities(v) = OpportunityList(v)
        /\ OpportunityList(v) \subseteq OpportunityPages(v)
        /\ {o \in Every : CanAccess(v, o)} \subseteq OpportunityPages(v)
        /\ PocList(v) = ExportPocs(v)
        /\ LicenceList(v) = ExportLicences(v)
        /\ PocList(v) \subseteq PocPages(v)
        /\ PocList(v) \subseteq OpportunityPages(v)
        /\ \A o \in WithPoc(Every) :
              CanWorkOnPoc(v, o) => o \in PocList(v) \/ opp[o].company = None
        /\ StaffingRights(v) \subseteq PocEdits(v)
        /\ DealList(v) = ExportDeals(v) /\ DealList(v) = ExpiringWindows(v)
        /\ DocRequestList(v) = {c \in Company : CanAccessDocRequest(v, c)}
        /\ CommissionList(v) = CommissionPages(v)
        /\ StatementList(v) = CommissionList(v)
        /\ StatementPages(v) = StatementList(v) \cap LiveCompany
        /\ Scorecards(v) = StatementPages(v) \cap Leaderboard
        /\ RenewalQueue(v) \subseteq {o \in LicenceList(v) : CanRenew(v, o)}
    /\ \A v \in Staff :
        PocSummary(v) = PocList(v) /\ DeployedLicences(v) = LicenceList(v)
    /\ \A a \in Admin :
        /\ CompanyList(a) = CompanyPages(a) /\ CompanyList(a) = ExportCompanies(a)
        /\ UserList(a) \cup {a} = {u \in Viewer : CanViewUser(a, u)}
        /\ {u \in Viewer : CanManageUser(a, u)} \subseteq UserList(a)
        /\ StaleReviews(a) \subseteq {o \in Every : CanReview(a, o)}
        /\ CommissionDecisions(a) = CommissionList(a)
    /\ \A c \in LiveCompany :
        /\ \A o \in OpportunityPages(c) :
              opp[o].company = c \/ firm[opp[o].company].parent = c
        /\ DealList(c) \subseteq {c}

(* The figures of different screens are made of the same rows: what a      *)
(* partner's cards count is the list beside them and the sum of the        *)
(* companies below, a channel manager's companies add up to their stats,   *)
(* the regions to the headline (a company that was closed apart: its rows  *)
(* are in the headline and in no region), and no plan leaves a row out     *)
(* that the breakdown by status has.                                       *)
FiguresAgree ==
    /\ \A a \in Admin :
        LET stats == AdminStats(a) IN
        /\ stats.companies = CompanyList(a)
        /\ stats.total \subseteq OpportunityList(a)
        /\ stats.total = UNION {StatusBreakdown(a)[s] : s \in Status}
        /\ StatusBreakdown(a)["removed"] = {}
        /\ MonthlyData(a).submitted = stats.total
        /\ MonthlyData(a).approved = stats.approved
        /\ TargetPlan(a) = stats.total /\ CityFunnel(a) = stats.total
        /\ UNION {Funnel(a)[s] : s \in DOMAIN Funnel(a)} =
              stats.total \ In({"rejected", "won", "lost"}, Every)
        /\ {o \in stats.total : opp[o].company \in LiveCompany \cup {None}} =
              UNION Regions(a)
    /\ \A a \in Manager :
        LET cards == ManagerDashboard(a) IN
        /\ AdminStats(a).pending = UNION {cards[c].pending : c \in DOMAIN cards}
        /\ AdminStats(a).approved = UNION {cards[c].approved : c \in DOMAIN cards}
    /\ \A c \in LiveCompany :
        LET card == PartnerDashboard(c) IN
        /\ card.total = OpportunityList(c)
        /\ card.total = UNION {CompanyPerformance(x).submitted : x \in PerformancePages(c)}
        /\ card.approved = UNION {CompanyPerformance(x).won : x \in PerformancePages(c)}
        /\ PartnerTimeline(c).submitted = card.total
=============================================================================
