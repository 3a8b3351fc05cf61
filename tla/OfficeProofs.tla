---------------------------- MODULE OfficeProofs ----------------------------
(***************************************************************************)
(* Proofs about the back office: companies, reviews and POCs when the      *)
(* requests of several people cross, for any number of rows and of         *)
(* sessions, and what the screens show of the companies (courses and       *)
(* documents are in RecordsProofs).  The parts share no state; each has an *)
(* inductive invariant and theorems of its own, and last comes what they are *)
(* side by side.  What is said of crossing requests holds until one writes *)
(* on what it had checked and is gone: the model notes that in a variable. *)
(***************************************************************************)
EXTENDS MCOffice, RecordsProofs, TLAPS

-----------------------------------------------------------------------------
(* Companies: the tree of resellers stays two levels deep, as long as no   *)
(* two edits of companies are under way at once.                           *)
(*                                                                         *)
(* HierarchyStands is not inductive: what a request checked has to hold    *)
(* until its flush writes the row.                                         *)

(* Two edits were under way together if they are. *)
OneEditor ==
    \A k, l \in Clerk : edit[k] # NoEdit /\ edit[l] # NoEdit => k = l

(* c may be written as new: its parent, if it will be live and have one,   *)
(* is another company, live and a distributor, and nobody is left under it *)
(* unless it stays one itself.                                             *)
Fits(c, new) ==
    /\ new.state = "live" /\ new.parent # None =>
          /\ new.type = "partner" /\ new.parent # c
          /\ Live(new.parent) /\ firm[new.parent].type = "distributor"
    /\ Resellers(c) # {} => new.state = "live" /\ new.type = "distributor"

(* What the request under way checked still holds. *)
EditIsChecked ==
    \A k \in Clerk : edit[k] # NoEdit =>
        /\ edit[k].company \in Company
        /\ edit[k].seen = firm[edit[k].company]
        /\ Fits(edit[k].company, edit[k].new)

NInv ==
    /\ NetworkTypeOK
    /\ overlapped \/ (HierarchyStands /\ OneEditor /\ EditIsChecked)

-----------------------------------------------------------------------------
(* The flush of a session that is alone writes the row it made. *)
LEMMA OverlayOfFirms ==
    ASSUME NEW now \in Firm, NEW seen \in Firm, NEW new \in Firm
    PROVE  /\ Overlay(now, seen, new) \in Firm
           /\ now = seen => Overlay(now, seen, new) = new
  <1>1. DOMAIN now = {"state", "type", "parent", "managers"}
    BY DEF Firm
  <1> DEFINE f == Overlay(now, seen, new)
  <1>2. f = [state |-> f.state, type |-> f.type, parent |-> f.parent,
             managers |-> f.managers]
    BY <1>1 DEF Overlay
  <1>3. /\ f.state \in {now.state, new.state} /\ f.type \in {now.type, new.type}
        /\ f.parent \in {now.parent, new.parent}
        /\ f.managers \in {now.managers, new.managers}
    BY <1>1 DEF Overlay
  <1>4. now = seen => /\ f.state = new.state /\ f.type = new.type
                      /\ f.parent = new.parent /\ f.managers = new.managers
    BY <1>1 DEF Overlay
  <1>5. f \in Firm
    <2>1. /\ f.state \in {"absent", "live", "closed"} /\ f.type \in Type
          /\ f.parent \in Company \cup {None} /\ f.managers \in SUBSET Admin
      BY <1>3 DEF Firm
    <2> QED
      BY <1>2, <2>1 DEF Firm
  <1>6. now = seen => f = new
    BY <1>2, <1>4 DEF Firm
  <1> QED
    BY <1>5, <1>6

LEMMA NetworkInitNInv == NetworkInit => NInv
  <1> SUFFICES ASSUME NetworkInit PROVE NInv
    OBVIOUS
  <1>1. /\ firm = [c \in Company |-> NoFirm] /\ edit = [k \in Clerk |-> NoEdit]
        /\ overlapped = FALSE /\ opp = [o \in Opp |-> NoOpp]
        /\ team = [o \in Opp |-> None] /\ licensed = {}
    BY DEF NetworkInit, Begins
  <1>2. NoFirm \in Firm
    BY DEF NoFirm, Firm, Type
  <1>3. NetworkTypeOK
    BY <1>1, <1>2 DEF NetworkTypeOK, NoEdit, NoOpp
  <1>4. HierarchyStands
    BY <1>1 DEF HierarchyStands, Live, NoFirm
  <1>5. OneEditor /\ EditIsChecked
    BY <1>1 DEF OneEditor, EditIsChecked
  <1> QED
    BY <1>3, <1>4, <1>5 DEF NInv

(* A request that has made its checks. *)
LEMMA BeginNInv ==
    ASSUME NInv, NEW k \in Clerk, NEW c \in Company, NEW new \in Firm,
           ~overlapped => Fits(c, new), BeginEdit(k, c, new)
    PROVE  NInv'
  <1>1. /\ edit[k] = NoEdit
        /\ edit' = [edit EXCEPT ![k] = [company |-> c, seen |-> firm[c],
                                        new |-> new]]
        /\ overlapped' = (overlapped \/ \E other \in Clerk : edit[other] # NoEdit)
        /\ firm' = firm /\ UNCHANGED workVars
    BY DEF BeginEdit
  <1>2. NetworkTypeOK'
    BY <1>1 DEF NInv, NetworkTypeOK, workVars
  <1>3. CASE overlapped'
    BY <1>2, <1>3 DEF NInv
  <1>4. CASE ~overlapped'
    <2>1. \A other \in Clerk : edit[other] = NoEdit
      BY <1>1, <1>4
    <2>2. ~overlapped /\ HierarchyStands
      BY <1>1, <1>4 DEF NInv
    <2>3. HierarchyStands'
      BY <1>1, <2>2 DEF HierarchyStands, Live
    <2>4. \A l \in Clerk : l # k => edit'[l] = NoEdit
      BY <1>1, <2>1 DEF NInv, NetworkTypeOK
    <2>5. OneEditor'
      BY <2>4 DEF OneEditor, NoEdit
    <2>6. edit'[k] = [company |-> c, seen |-> firm[c], new |-> new]
      BY <1>1 DEF NInv, NetworkTypeOK
    <2>7. Fits(c, new)'
      BY <1>1, <2>2 DEF Fits, Live, Resellers
    <2>8. EditIsChecked'
      BY <1>1, <2>4, <2>6, <2>7 DEF EditIsChecked, NoEdit, Fits, Live, Resellers
    <2> QED
      BY <1>2, <2>3, <2>5, <2>8 DEF NInv
  <1> QED
    BY <1>3, <1>4

LEMMA CreateCompanyNInv ==
    ASSUME NInv, NEW k \in Clerk, NEW a \in Admin, NEW c \in Company,
           NEW type \in Type, NEW parent \in Company \cup {None},
           NEW named \in SUBSET Admin, CreateCompany(k, a, c, type, parent, named)
    PROVE  NInv'
  <1> DEFINE new == [state |-> "live", type |-> type, parent |-> parent,
                     managers |-> IF named = {} \/ a # Boss THEN named \cup {a}
                                                            ELSE named]
  <1>1. firm[c] = NoFirm /\ ValidParent(type, parent, c) /\ BeginEdit(k, c, new)
    BY DEF CreateCompany
  <1>2. new \in Firm
    BY DEF Firm
  <1>3. ASSUME ~overlapped PROVE Fits(c, new)
    <2>1. Resellers(c) = {}
      BY <1>1, <1>3, PeopleAssumption
      DEF NInv, HierarchyStands, Resellers, Live, NoFirm
    <2> QED
      BY <1>1, <2>1 DEF Fits, ValidParent
  <1> QED
    BY <1>1, <1>2, <1>3, BeginNInv

LEMMA UpdateCompanyNInv ==
    ASSUME NInv, NEW k \in Clerk, NEW c \in Company, NEW type \in Type,
           NEW parent \in Company \cup {None}, NEW managers \in SUBSET Admin,
           UpdateCompany(k, c, type, parent, managers)
    PROVE  NInv'
  <1> DEFINE new == [firm[c] EXCEPT !.type = type, !.parent = parent,
                                    !.managers = managers]
  <1>1. /\ Live(c) /\ CanChangeType(c, type, parent = None)
        /\ parent # firm[c].parent => ValidParent(type, parent, c)
        /\ BeginEdit(k, c, new)
    BY DEF UpdateCompany
  <1>2. firm[c] \in Firm
    BY DEF NInv, NetworkTypeOK
  <1>3. /\ new \in Firm /\ new.state = "live" /\ new.type = type
        /\ new.parent = parent
    BY <1>1, <1>2 DEF Firm, Live
  <1>4. ASSUME ~overlapped PROVE Fits(c, new)
    <2>1. HierarchyStands
      BY <1>4 DEF NInv
    <2>2. ASSUME parent # None
          PROVE  /\ type = "partner" /\ parent # c
                 /\ Live(parent) /\ firm[parent].type = "distributor"
      <3>1. CASE parent # firm[c].parent
        BY <1>1, <2>2, <3>1 DEF ValidParent
      <3>2. CASE parent = firm[c].parent
        <4>1. /\ firm[c].type = "partner"
              /\ Live(parent) /\ firm[parent].type = "distributor"
          BY <1>1, <1>4, <2>1, <2>2, <3>2 DEF HierarchyStands
        <4>2. type = "partner"
          BY <1>1, <2>2, <3>2, <4>1 DEF CanChangeType
        <4> QED
          BY <4>1, <4>2
      <3> QED
        BY <3>1, <3>2
    <2>3. ASSUME Resellers(c) # {} PROVE type = "distributor"
      <3>1. firm[c].type = "distributor"
        BY <1>4, <2>1, <2>3, PeopleAssumption DEF HierarchyStands, Resellers
      <3> QED
        BY <1>1, <2>3, <3>1 DEF CanChangeType
    <2> QED
      BY <1>3, <2>2, <2>3 DEF Fits
  <1> QED
    BY <1>1, <1>3, <1>4, BeginNInv

LEMMA CloseCompanyNInv ==
    ASSUME NInv, NEW k \in Clerk, NEW c \in Company, CloseCompany(k, c)
    PROVE  NInv'
  <1> DEFINE new == [firm[c] EXCEPT !.state = "closed"]
  <1>1. /\ firm[c].type = "distributor" => Resellers(c) = {}
        /\ BeginEdit(k, c, new)
    BY DEF CloseCompany
  <1>2. new \in Firm /\ new.state = "closed"
    BY DEF NInv, NetworkTypeOK, Firm
  <1>3. ASSUME ~overlapped PROVE Fits(c, new)
    <2>1. Resellers(c) # {} => firm[c].type = "distributor"
      BY <1>3, PeopleAssumption DEF NInv, HierarchyStands, Resellers
    <2> QED
      BY <1>1, <1>2, <2>1 DEF Fits
  <1> QED
    BY <1>1, <1>2, <1>3, BeginNInv

(* The row that was checked is the row that is written. *)
LEMMA CommitEditNInv ==
    ASSUME NInv, NEW k \in Clerk, CommitEdit(k) PROVE NInv'
  <1> DEFINE e == edit[k]
             c == e.company
  <1>1. /\ e # NoEdit
        /\ firm' = [firm EXCEPT ![c] = Overlay(@, e.seen, e.new)]
        /\ edit' = [edit EXCEPT ![k] = NoEdit]
        /\ overlapped' = overlapped /\ UNCHANGED workVars
    BY DEF CommitEdit
  <1>2. e.seen \in Firm /\ e.new \in Firm /\ c \in Company \cup {None}
    BY DEF NInv, NetworkTypeOK
  <1>3. firm' \in [Company -> Firm]
    <2>1. ASSUME c \in Company PROVE Overlay(firm[c], e.seen, e.new) \in Firm
      BY <1>2, <2>1, OverlayOfFirms DEF NInv, NetworkTypeOK
    <2> QED
      BY <1>1, <2>1 DEF NInv, NetworkTypeOK
  <1>4. NoEdit \in [company : Company \cup {None}, seen : Firm, new : Firm]
    BY DEF NoEdit, NoFirm, Firm, Type
  <1>5. NetworkTypeOK'
    BY <1>1, <1>3, <1>4 DEF NInv, NetworkTypeOK, workVars
  <1>6. CASE overlapped
    BY <1>1, <1>5, <1>6 DEF NInv
  <1>7. CASE ~overlapped
    <2>1. /\ HierarchyStands /\ OneEditor
          /\ c \in Company /\ e.seen = firm[c] /\ Fits(c, e.new)
      BY <1>1, <1>7 DEF NInv, EditIsChecked
    <2>2. firm[c] \in Firm /\ firm \in [Company -> Firm]
      BY <2>1 DEF NInv, NetworkTypeOK
    <2>3. firm'[c] = e.new
      <3>1. Overlay(firm[c], e.seen, e.new) = e.new
        BY <1>2, <2>1, <2>2, OverlayOfFirms
      <3> QED
        BY <1>1, <2>1, <2>2, <3>1
    <2>4. \A d \in Company : d # c => firm'[d] = firm[d]
      BY <1>1, <2>2
    <2>5. \A l \in Clerk : edit'[l] = NoEdit
      BY <1>1, <2>1 DEF OneEditor, NInv, NetworkTypeOK
    <2>6. ASSUME NEW d \in Company, firm'[d].state = "live",
                 firm'[d].parent # None
          PROVE  /\ firm'[d].type = "partner"
                 /\ firm'[firm'[d].parent].state = "live"
                 /\ firm'[firm'[d].parent].type = "distributor"
      <3>1. CASE d = c
        <4>1. /\ e.new.type = "partner" /\ e.new.parent # c
              /\ Live(e.new.parent) /\ firm[e.new.parent].type = "distributor"
          BY <2>1, <2>3, <2>6, <3>1 DEF Fits, Live
        <4>2. e.new.parent \in Company
          BY <1>2, <2>3, <2>6, <3>1 DEF Firm
        <4> QED
          BY <2>3, <2>4, <3>1, <4>1, <4>2 DEF Live
      <3>2. CASE d # c
        <4>1. firm'[d] = firm[d] /\ Live(d)
          BY <2>4, <2>6, <3>2 DEF Live
        <4>2. /\ firm[d].type = "partner"
              /\ Live(firm[d].parent) /\ firm[firm[d].parent].type = "distributor"
          BY <1>7, <2>1, <2>6, <4>1 DEF HierarchyStands
        <4>3. firm[d].parent \in Company
          BY <2>2, <2>6, <4>1 DEF Firm
        <4>4. CASE firm[d].parent = c
          <5>1. d \in Resellers(c)
            BY <4>1, <4>4 DEF Resellers
          <5>2. e.new.state = "live" /\ e.new.type = "distributor"
            BY <2>1, <5>1 DEF Fits
          <5> QED
            BY <2>3, <4>1, <4>2, <4>4, <5>2 DEF Live
        <4>5. CASE firm[d].parent # c
          BY <2>4, <4>1, <4>2, <4>3, <4>5 DEF Live
        <4> QED
          BY <4>4, <4>5
      <3> QED
        BY <3>1, <3>2
    <2>7. HierarchyStands'
      BY <2>6 DEF HierarchyStands, Live
    <2>8. OneEditor' /\ EditIsChecked'
      BY <2>5 DEF OneEditor, EditIsChecked
    <2> QED
      BY <1>5, <2>7, <2>8 DEF NInv
  <1> QED
    BY <1>6, <1>7

(* The pipeline does not touch companies. *)
LEMMA WorkKeepsFirms ==
    ASSUME NInv, NetworkTypeOK', UNCHANGED firmVars PROVE NInv'
  BY DEF NInv, firmVars, HierarchyStands, OneEditor, EditIsChecked, Fits, Live,
         Resellers

LEMMA WorkOnTypes ==
    ASSUME NetworkTypeOK, NEW o \in Opp, WorkOn(o)
    PROVE  NetworkTypeOK' /\ UNCHANGED firmVars
  <1>1. ASSUME NEW by \in Company \cup Rep, NEW c \in Company \cup {None},
               NEW r \in Rep \cup {None}, CreateOpp(o, by, c, r)
        PROVE  NetworkTypeOK' /\ UNCHANGED firmVars
    BY <1>1 DEF CreateOpp, NetworkTypeOK, firmVars, Status
  <1>2. ASSUME NEW from, NEW to \in Status, SetStatus(o, from, to)
        PROVE  NetworkTypeOK' /\ UNCHANGED firmVars
    BY <1>2 DEF SetStatus, NetworkTypeOK, firmVars
  <1>3. CASE MoveOpp(o) \/ RemoveOpp(o)
    BY <1>2, <1>3 DEF MoveOpp, RemoveOpp, Status
  <1>4. CASE StartPoc(o)
    BY <1>4 DEF StartPoc, NetworkTypeOK, firmVars
  <1>5. CASE RecordLicence(o)
    BY <1>5 DEF RecordLicence, NetworkTypeOK, firmVars
  <1>6. ASSUME NEW u \in Staff, AddMember(o, u) \/ RemoveMember(o, u)
        PROVE  NetworkTypeOK' /\ UNCHANGED firmVars
    <2>1. PICK members \in SUBSET Staff : ChangeTeam(o, members)
      BY <1>6 DEF AddMember, RemoveMember, ChangeTeam, OnTeam, HasPoc, NetworkTypeOK
    <2> QED
      BY <2>1 DEF ChangeTeam, NetworkTypeOK, firmVars
  <1> QED
    BY <1>1, <1>3, <1>4, <1>5, <1>6 DEF WorkOn

LEMMA NetworkNextNInv == NInv /\ [NetworkNext]_networkVars => NInv'
  <1> SUFFICES ASSUME NInv, [NetworkNext]_networkVars PROVE NInv'
    OBVIOUS
  <1>1. ASSUME NEW k \in Clerk, CommitEdit(k) PROVE NInv'
    BY <1>1, CommitEditNInv
  <1>2. ASSUME NEW k \in Clerk, NEW c \in Company, EditCompany(k, c) PROVE NInv'
    BY <1>2, CreateCompanyNInv, UpdateCompanyNInv, CloseCompanyNInv
    DEF EditCompany
  <1>3. ASSUME NEW o \in Opp, WorkOn(o) PROVE NInv'
    <2>1. NetworkTypeOK' /\ UNCHANGED firmVars
      BY <1>3, WorkOnTypes DEF NInv
    <2> QED
      BY <2>1, WorkKeepsFirms
  <1>4. CASE UNCHANGED networkVars
    <2>1. NetworkTypeOK' /\ UNCHANGED firmVars
      BY <1>4 DEF NInv, networkVars, firmVars, NetworkTypeOK
    <2> QED
      BY <2>1, WorkKeepsFirms
  <1> QED
    BY <1>1, <1>2, <1>3, <1>4 DEF NetworkNext

(* Every edit of a company, and all work beside it, keeps the strengthening. *)
THEOREM NetworkInductive == NetworkSpec => []NInv
  <1> QED
    BY NetworkInitNInv, NetworkNextNInv, PTL DEF NetworkSpec

-----------------------------------------------------------------------------
(* The theorems. *)

(* Companies, edits, opportunities and teams keep their types. *)
THEOREM NetworkTypeCorrect == NetworkSpec => []NetworkTypeOK
  <1>1. NInv => NetworkTypeOK
    BY DEF NInv
  <1> QED
    BY <1>1, NetworkInductive, PTL

(* create_company, update_company and deactivate_company, one at a time in *)
(* any order, keep every reseller a partner under a live distributor.      *)
THEOREM HierarchyIsTwoLevels == NetworkSpec => []HierarchyStands
  <1>1. NInv => HierarchyStands
    BY DEF NInv, HierarchyStands
  <1> QED
    BY <1>1, NetworkInductive, PTL

-----------------------------------------------------------------------------
(* Screens: what lists, pages, exports, widgets and figures show agrees.   *)
(*                                                                         *)
(* Nothing is needed of a network but its types: the four kinds of viewer  *)
(* are taken one by one, and what each route comes to for them.            *)

-----------------------------------------------------------------------------
(* Who is who, and what grounds come to. *)

LEMMA Viewers ==
    /\ \A v \in Company : v \notin Rep /\ v \notin Manager /\ v \notin Admin
                          /\ v # Boss /\ v # None
    /\ \A v \in Rep : v \notin Company /\ v \notin Manager /\ v \notin Admin
                      /\ v # Boss /\ v # None
    /\ \A v \in Manager : v \notin Company /\ v \notin Rep /\ v \in Admin
                          /\ v # Boss /\ v # None
    /\ Boss \notin Company /\ Boss \notin Rep /\ Boss \notin Manager
    /\ Boss \in Admin /\ Boss # None
    /\ Viewer \subseteq Company \cup Rep \cup Manager \cup {Boss}
    /\ Staff = Rep \cup Manager \cup {Boss}
    /\ Admin = Manager \cup {Boss}
  BY PeopleAssumption DEF Viewer, Staff, Admin

LEMMA Scopes ==
    /\ \A c \in Company : PipelineScope(c) \in SUBSET Company /\ c \in PipelineScope(c)
    /\ \A a : Book(a) \in SUBSET Company /\ Book(a) \subseteq LiveCompany
    /\ \A a \in Manager : AdminScope(a) = Book(a) /\ AdminScope(a) # None
    /\ AdminScope(Boss) = None
  <1>1. \A c \in Company : PipelineScope(c) \in SUBSET Company /\ c \in PipelineScope(c)
    BY DEF PipelineScope, Resellers
  <1>2. \A a : Book(a) \in SUBSET Company /\ Book(a) \subseteq LiveCompany
    BY DEF Book, LiveCompany
  <1>3. \A a \in Manager : AdminScope(a) = Book(a)
    BY Viewers DEF AdminScope
  <1>4. \A a \in Manager : AdminScope(a) # None
    BY <1>2, <1>3, PeopleAssumption
  <1> QED
    BY <1>1, <1>2, <1>3, <1>4 DEF AdminScope

(* What the grounds that callers pass to poc_access_clause come to.        *)
LEMMA Grounds ==
    /\ AccessClause(NoGrounds) = Every
    /\ \A scope \in SUBSET Company :
          AccessClause([NoGrounds EXCEPT !.scope = scope]) = Of(scope)
    /\ \A scope \in SUBSET Company : \A u : u # None =>
          AccessClause([NoGrounds EXCEPT !.scope = scope, !.member = u])
             = Of(scope) \cup StaffedWith(u)
    /\ \A r : r # None =>
          AccessClause([NoGrounds EXCEPT !.rep = r, !.member = r])
             = AssignedTo(r) \cup StaffedWith(r)
  <1>1. AccessClause(NoGrounds) = Every
    BY DEF AccessClause
  <1>2. ASSUME NEW scope \in SUBSET Company, NEW u, NEW g,
               g.scope = scope, g.rep = None, g.member = u
        PROVE  AccessClause(g) = Of(scope) \cup (IF u = None THEN {} ELSE StaffedWith(u))
    <2>1. scope # None
      BY PeopleAssumption
    <2>2. g # NoGrounds
      BY <1>2, <2>1 DEF NoGrounds
    <2> QED
      BY <1>2, <2>1, <2>2 DEF AccessClause
  <1>3. ASSUME NEW r, r # None, NEW g, g.scope = None, g.rep = r, g.member = r
        PROVE  AccessClause(g) = AssignedTo(r) \cup StaffedWith(r)
    <2>1. g # NoGrounds
      BY <1>3 DEF NoGrounds
    <2> QED
      BY <1>3, <2>1 DEF AccessClause
  <1>4. ASSUME NEW scope \in SUBSET Company
        PROVE  AccessClause([NoGrounds EXCEPT !.scope = scope]) = Of(scope)
    <2> DEFINE g == [NoGrounds EXCEPT !.scope = scope]
    <2>1. g.scope = scope /\ g.rep = None /\ g.member = None
      BY DEF NoGrounds
    <2> HIDE DEF g
    <2>2. AccessClause(g) = Of(scope) \cup (IF None = None THEN {} ELSE StaffedWith(None))
      BY <1>2, <2>1
    <2>3. AccessClause(g) = Of(scope)
      BY <2>2
    <2> QED
      BY <2>3 DEF g
  <1>5. ASSUME NEW scope \in SUBSET Company, NEW u, u # None
        PROVE  AccessClause([NoGrounds EXCEPT !.scope = scope, !.member = u])
                  = Of(scope) \cup StaffedWith(u)
    <2> DEFINE g == [NoGrounds EXCEPT !.scope = scope, !.member = u]
    <2>1. g.scope = scope /\ g.rep = None /\ g.member = u
      BY DEF NoGrounds
    <2> HIDE DEF g
    <2>2. AccessClause(g) = Of(scope) \cup StaffedWith(u)
      BY <1>2, <1>5, <2>1
    <2> QED
      BY <2>2 DEF g
  <1>6. ASSUME NEW r, r # None
        PROVE  AccessClause([NoGrounds EXCEPT !.rep = r, !.member = r])
                  = AssignedTo(r) \cup StaffedWith(r)
    <2> DEFINE g == [NoGrounds EXCEPT !.rep = r, !.member = r]
    <2>1. g.scope = None /\ g.rep = r /\ g.member = r
      BY DEF NoGrounds
    <2> HIDE DEF g
    <2>2. AccessClause(g) = AssignedTo(r) \cup StaffedWith(r)
      BY <1>3, <1>6, <2>1
    <2> QED
      BY <2>2 DEF g
  <1> QED
    BY <1>1, <1>4, <1>5, <1>6

(* The rows of opportunities, POCs and licences that each kind of viewer   *)
(* gets, on lists and widgets, in exports and on pages.                    *)
LEMMA PartnersSee ==
    ASSUME NEW v \in Company
    PROVE  /\ OpportunityList(v) = Of(PipelineScope(v))
           /\ OpportunityPages(v) = Of(PipelineScope(v))
           /\ ExportOpportunities(v) = Of(PipelineScope(v))
           /\ PocList(v) = WithPoc(Of(PipelineScope(v)))
           /\ ExportPocs(v) = WithPoc(Of(PipelineScope(v)))
           /\ LicenceList(v) = WithLicence(Of(PipelineScope(v)))
           /\ ExportLicences(v) = WithLicence(Of(PipelineScope(v)))
  <1>1. AccessClause(ListScope(v)) = Of(PipelineScope(v))
    <2>1. ListScope(v) = [NoGrounds EXCEPT !.scope = PipelineScope(v)]
      BY Viewers DEF ListScope
    <2> QED
      BY <2>1, Scopes, Grounds
  <1> QED
    BY <1>1, Viewers DEF OpportunityList, OpportunityPages, ExportOpportunities,
        PocList, ExportPocs, LicenceList, ExportLicences

LEMMA RepsSee ==
    ASSUME NEW v \in Rep
    PROVE  /\ OpportunityList(v) = AssignedTo(v)
           /\ OpportunityPages(v) = AssignedTo(v) \cup StaffedWith(v)
           /\ ExportOpportunities(v) = AssignedTo(v)
           /\ PocList(v) = WithPoc(AssignedTo(v) \cup StaffedWith(v))
           /\ ExportPocs(v) = PocList(v) /\ PocSummary(v) = PocList(v)
           /\ LicenceList(v) = WithLicence(AssignedTo(v) \cup StaffedWith(v))
           /\ ExportLicences(v) = LicenceList(v) /\ DeployedLicences(v) = LicenceList(v)
  <1>1. /\ AccessClause(ListScope(v)) = AssignedTo(v) \cup StaffedWith(v)
        /\ WidgetScope(v) = ListScope(v)
    <2>1. ListScope(v) = [NoGrounds EXCEPT !.rep = v, !.member = v]
      BY Viewers DEF ListScope
    <2>2. WidgetScope(v) = [NoGrounds EXCEPT !.rep = v, !.member = v]
      BY Viewers DEF WidgetScope
    <2> QED
      BY <2>1, <2>2, Viewers, Grounds
  <1> QED
    BY <1>1, Viewers DEF OpportunityList, OpportunityPages, ExportOpportunities,
        PocList, ExportPocs, LicenceList, ExportLicences, PocSummary, DeployedLicences

LEMMA ManagersSee ==
    ASSUME NEW v \in Manager
    PROVE  /\ OpportunityList(v) = Every /\ OpportunityPages(v) = Every
           /\ ExportOpportunities(v) = Every
           /\ PocList(v) = WithPoc(Of(Book(v)) \cup StaffedWith(v))
           /\ ExportPocs(v) = PocList(v) /\ PocSummary(v) = PocList(v)
           /\ LicenceList(v) = WithLicence(Of(Book(v)) \cup StaffedWith(v))
           /\ ExportLicences(v) = LicenceList(v) /\ DeployedLicences(v) = LicenceList(v)
  <1>1. /\ AccessClause(ListScope(v)) = Of(Book(v)) \cup StaffedWith(v)
        /\ WidgetScope(v) = ListScope(v)
    <2>1. ListScope(v) = [NoGrounds EXCEPT !.scope = Book(v), !.member = v]
      BY Viewers DEF ListScope
    <2>2. WidgetScope(v) = [NoGrounds EXCEPT !.scope = Book(v), !.member = v]
      BY Viewers DEF WidgetScope
    <2> QED
      BY <2>1, <2>2, Viewers, Scopes, Grounds
  <1> QED
    BY <1>1, Viewers DEF OpportunityList, OpportunityPages, ExportOpportunities,
        PocList, ExportPocs, LicenceList, ExportLicences, PocSummary, DeployedLicences

LEMMA BossSees ==
    /\ OpportunityList(Boss) = Every /\ OpportunityPages(Boss) = Every
    /\ ExportOpportunities(Boss) = Every
    /\ PocList(Boss) = WithPoc(Every)
    /\ ExportPocs(Boss) = PocList(Boss) /\ PocSummary(Boss) = PocList(Boss)
    /\ LicenceList(Boss) = WithLicence(Every)
    /\ ExportLicences(Boss) = LicenceList(Boss)
    /\ DeployedLicences(Boss) = LicenceList(Boss)
  <1>1. ListScope(Boss) = NoGrounds /\ WidgetScope(Boss) = NoGrounds
    BY Viewers DEF ListScope, WidgetScope
  <1> QED
    BY <1>1, Viewers, Grounds DEF OpportunityList, OpportunityPages,
        ExportOpportunities, PocList, ExportPocs, LicenceList, ExportLicences,
        PocSummary, DeployedLicences

-----------------------------------------------------------------------------
(* Routes. *)

LEMMA Rows ==
    ASSUME NetworkTypeOK
    PROVE  /\ \A o \in Opp : opp[o].company \in Company \cup {None}
           /\ Every \subseteq Opp
           /\ \A c \in Company : firm[c].managers \subseteq Admin
           /\ LiveCompany \subseteq Company /\ None \notin Company
  BY Viewers, PeopleAssumption DEF NetworkTypeOK, Firm, Every, LiveCompany

(* Opportunities: exported as listed, and all that is listed or may be     *)
(* worked on can be opened.                                                *)
LEMMA OpportunitiesAgree ==
    ASSUME NetworkTypeOK, NEW v \in Viewer
    PROVE  /\ ExportOpportunities(v) = OpportunityList(v)
           /\ OpportunityList(v) \subseteq OpportunityPages(v)
           /\ {o \in Every : CanAccess(v, o)} \subseteq OpportunityPages(v)
  <1>1. CASE v \in Company
    <2>1. \A o \in Every : CanAccess(v, o) => o \in Of(PipelineScope(v))
      BY <1>1, Viewers DEF CanAccess, CanReview, Of
    <2> QED
      BY <1>1, <2>1, PartnersSee
  <1>2. CASE v \in Rep
    <2>1. \A o \in Every : CanAccess(v, o) => o \in AssignedTo(v)
      BY <1>2, Viewers DEF CanAccess, CanReview, AssignedTo
    <2> QED
      BY <1>2, <2>1, RepsSee
  <1>3. CASE v \in Manager
    BY <1>3, ManagersSee
  <1>4. CASE v = Boss
    BY <1>4, BossSees
  <1> QED
    BY <1>1, <1>2, <1>3, <1>4, Viewers

(* POCs and licences: exported as listed, whatever is listed can be        *)
(* opened, and whoever may work on a POC has it in the list.               *)
LEMMA PocsAgree ==
    ASSUME NetworkTypeOK, NEW v \in Viewer
    PROVE  /\ PocList(v) = ExportPocs(v)
           /\ LicenceList(v) = ExportLicences(v)
           /\ PocList(v) \subseteq PocPages(v)
           /\ PocList(v) \subseteq OpportunityPages(v)
           /\ \A o \in WithPoc(Every) :
                 CanWorkOnPoc(v, o) => o \in PocList(v) \/ opp[o].company = None
           /\ StaffingRights(v) \subseteq PocEdits(v)
           /\ v \in Staff => PocSummary(v) = PocList(v)
                             /\ DeployedLicences(v) = LicenceList(v)
  <1>1. StaffingRights(v) \subseteq PocEdits(v)
    BY Viewers DEF StaffingRights, PocEdits, CanWorkOnPoc, WithPoc
  <1>2. CASE v \in Company
    <2>1. \A o \in Every : o \in Of(PipelineScope(v)) <=> CanAccess(v, o)
      BY <1>2, Viewers DEF CanAccess, CanReview, Of
    <2>2. \A o \in Every : ~OnTeam(v, o)
      BY <1>2, Viewers, Rows DEF OnTeam, HasPoc, NetworkTypeOK
    <2>3. Of(PipelineScope(v)) \subseteq Every
      BY DEF Of
    <2> QED
      BY <1>1, <1>2, <2>1, <2>2, <2>3, PartnersSee, Viewers
         DEF PocPages, WithPoc, CanRead, CanWorkOnPoc
  <1>3. CASE v \in Rep
    <2>1. \A o \in Every : o \in AssignedTo(v) \cup StaffedWith(v) <=> CanWorkOnPoc(v, o)
      BY <1>3, Viewers DEF CanAccess, CanReview, CanWorkOnPoc, AssignedTo, StaffedWith
    <2>2. AssignedTo(v) \cup StaffedWith(v) \subseteq Every
      BY DEF AssignedTo, StaffedWith
    <2> QED
      BY <1>1, <1>3, <2>1, <2>2, RepsSee DEF PocPages, WithPoc, CanRead
  <1>4. CASE v \in Manager
    <2>1. \A o \in Every : CanWorkOnPoc(v, o)
             => o \in Of(Book(v)) \cup StaffedWith(v) \/ opp[o].company = None
      BY <1>4, Viewers DEF CanAccess, CanReview, CanWorkOnPoc, Of, StaffedWith
    <2>2. Of(Book(v)) \cup StaffedWith(v) \subseteq Every
      BY DEF Of, StaffedWith
    <2> QED
      BY <1>1, <1>4, <2>1, <2>2, ManagersSee, Viewers DEF PocPages, WithPoc, CanRead
  <1>5. CASE v = Boss
    BY <1>1, <1>5, BossSees, Viewers DEF PocPages, WithPoc, CanRead
  <1> QED
    BY <1>2, <1>3, <1>4, <1>5, Viewers

(* Registrations, windows, paperwork and money: of which companies.        *)
LEMMA CompaniesAgree ==
    ASSUME NetworkTypeOK, NEW v \in Viewer
    PROVE  /\ DealList(v) = ExportDeals(v) /\ DealList(v) = ExpiringWindows(v)
           /\ DocRequestList(v) = {c \in Company : CanAccessDocRequest(v, c)}
           /\ CommissionList(v) = CommissionPages(v)
           /\ StatementList(v) = CommissionList(v)
           /\ StatementPages(v) = StatementList(v) \cap LiveCompany
           /\ Scorecards(v) = StatementPages(v) \cap Leaderboard
  <1>1. Scorecards(v) = StatementPages(v) \cap Leaderboard
    BY DEF Scorecards, StatementPages, Leaderboard, LiveCompany
  <1>2. CASE v \in Company
    <2>1. DealList(v) = ExportDeals(v) /\ DealList(v) = ExpiringWindows(v)
      BY <1>2, Viewers DEF DealList, ExportDeals, ExpiringWindows
    <2>2. DocRequestList(v) = {c \in Company : CanAccessDocRequest(v, c)}
      BY <1>2, Viewers DEF DocRequestList, CanAccessDocRequest
    <2>3. CommissionList(v) = CommissionPages(v)
      BY <1>2, Viewers DEF CommissionList, CommissionPages, OutOfScope
    <2>4. StatementList(v) = CommissionList(v)
      BY <1>2, Viewers DEF CommissionList, StatementList
    <2>5. StatementPages(v) = StatementList(v) \cap LiveCompany
      BY <1>2, Viewers DEF StatementPages, StatementList, LiveCompany
    <2> QED
      BY <1>1, <2>1, <2>2, <2>3, <2>4, <2>5
  <1>3. CASE v \in Rep
    <2>1. DealList(v) = ExportDeals(v) /\ DealList(v) = ExpiringWindows(v)
      BY <1>3, Viewers DEF DealList, ExportDeals, ExpiringWindows
    <2>2. DocRequestList(v) = {c \in Company : CanAccessDocRequest(v, c)}
      BY <1>3, Viewers DEF DocRequestList, CanAccessDocRequest
    <2>3. CommissionList(v) = CommissionPages(v)
      BY <1>3, Viewers DEF CommissionList, CommissionPages
    <2>4. StatementList(v) = CommissionList(v)
      BY <1>3, Viewers DEF CommissionList, StatementList
    <2>5. StatementPages(v) = StatementList(v) \cap LiveCompany
      BY <1>3, Viewers DEF StatementPages, StatementList, LiveCompany
    <2> QED
      BY <1>1, <2>1, <2>2, <2>3, <2>4, <2>5
  <1>4. CASE v \in Manager
    <2>1. AdminScope(v) = Book(v) /\ AdminScope(v) # None /\ Book(v) \subseteq LiveCompany
          /\ Book(v) \subseteq Company
      BY <1>4, Scopes
    <2>2. DealList(v) = ExportDeals(v) /\ DealList(v) = ExpiringWindows(v)
      BY <1>4, <2>1, Viewers DEF DealList, ExportDeals, ExpiringWindows
    <2>3. DocRequestList(v) = {c \in Company : CanAccessDocRequest(v, c)}
      BY <1>4, <2>1, Viewers DEF DocRequestList, CanAccessDocRequest
    <2>4. CommissionList(v) = Book(v) /\ StatementList(v) = Book(v)
      BY <1>4, <2>1, Viewers DEF CommissionList, StatementList
    <2>5. CommissionPages(v) = Book(v)
      BY <1>4, <2>1, Viewers DEF CommissionPages, OutOfScope
    <2>6. StatementPages(v) = StatementList(v) \cap LiveCompany
      BY <1>4, <2>1, <2>4, Viewers DEF StatementPages, ManagesCompany, LiveCompany
    <2> QED
      BY <1>1, <2>2, <2>3, <2>4, <2>5, <2>6
  <1>5. CASE v = Boss
    <2>1. DealList(v) = ExportDeals(v) /\ DealList(v) = ExpiringWindows(v)
      BY <1>5, Viewers, Scopes DEF DealList, ExportDeals, ExpiringWindows
    <2>2. DocRequestList(v) = {c \in Company : CanAccessDocRequest(v, c)}
      BY <1>5, Viewers DEF DocRequestList, CanAccessDocRequest
    <2>3. CommissionList(v) = Company /\ StatementList(v) = Company
      BY <1>5, Viewers, Scopes DEF CommissionList, StatementList
    <2>4. CommissionPages(v) = Company
      BY <1>5, Viewers, Scopes DEF CommissionPages, OutOfScope
    <2>5. StatementPages(v) = StatementList(v) \cap LiveCompany
      BY <1>5, <2>3, Viewers DEF StatementPages, ManagesCompany, LiveCompany
    <2> QED
      BY <1>1, <2>1, <2>2, <2>3, <2>4, <2>5
  <1> QED
    BY <1>2, <1>3, <1>4, <1>5, Viewers

(* Whatever waits in the queue is in the viewer's list and may be renewed. *)
LEMMA RenewalsAgree ==
    ASSUME NetworkTypeOK, NEW v \in Viewer
    PROVE  RenewalQueue(v) \subseteq {o \in LicenceList(v) : CanRenew(v, o)}
  <1>1. CASE v \in Company
    <2>1. Of({v}) \subseteq Of(PipelineScope(v))
      BY <1>1, Scopes DEF Of
    <2>2. \A o \in Of({v}) : CanRenew(v, o)
      BY <1>1 DEF Of, CanRenew
    <2>3. RenewalQueue(v) \subseteq WithLicence(Of({v}))
      BY <1>1, Viewers DEF RenewalQueue, WithLicence
    <2> QED
      BY <1>1, <2>1, <2>2, <2>3, PartnersSee DEF WithLicence
  <1>2. CASE v \in Rep
    BY <1>2, Viewers DEF RenewalQueue, WithLicence
  <1>3. CASE v \in Manager
    <2>1. RenewalQueue(v) = WithLicence(Of(Book(v)))
      BY <1>3, Viewers DEF RenewalQueue
    <2>2. \A o \in Of(Book(v)) : CanRenew(v, o)
      BY <1>3, Viewers DEF Of, CanRenew, CanReview
    <2> QED
      BY <1>3, <2>1, <2>2, ManagersSee DEF WithLicence
  <1>4. CASE v = Boss
    <2>1. RenewalQueue(v) = WithLicence(Every)
      BY <1>4, Viewers DEF RenewalQueue
    <2>2. \A o \in Every : CanRenew(v, o)
      BY <1>4, Viewers DEF CanRenew, CanReview
    <2> QED
      BY <1>4, <2>1, <2>2, BossSees DEF WithLicence
  <1> QED
    BY <1>1, <1>2, <1>3, <1>4, Viewers

(* What admins see of companies and of their users, and may do with them.  *)
LEMMA AdminsAgree ==
    ASSUME NetworkTypeOK, NEW a \in Admin
    PROVE  /\ CompanyList(a) = CompanyPages(a) /\ CompanyList(a) = ExportCompanies(a)
           /\ UserList(a) \cup {a} = {u \in Viewer : CanViewUser(a, u)}
           /\ {u \in Viewer : CanManageUser(a, u)} \subseteq UserList(a)
           /\ StaleReviews(a) \subseteq {o \in Every : CanReview(a, o)}
           /\ CommissionDecisions(a) = CommissionList(a)
  <1>1. CASE a \in Manager
    <2>1. AdminScope(a) = Book(a) /\ AdminScope(a) # None /\ Book(a) \subseteq LiveCompany
          /\ Book(a) \subseteq Company
      BY <1>1, Scopes
    <2>2. CompanyList(a) = Book(a) /\ CompanyPages(a) = Book(a)
      BY <1>1, Viewers DEF CompanyList, CompanyPages, ManagesCompany, Book, LiveCompany
    <2>3. ExportCompanies(a) = Book(a)
      BY <2>1 DEF ExportCompanies
    <2>4. Book(a) \subseteq Viewer /\ Rep \subseteq Viewer /\ a \in Viewer
      BY <1>1, <2>1 DEF Viewer, Staff, Admin, LiveCompany
    <2>5. UserList(a) \cup {a} = {u \in Viewer : CanViewUser(a, u)}
      BY <1>1, <2>4, Viewers DEF UserList, CanViewUser
    <2>6. {u \in Viewer : CanManageUser(a, u)} \subseteq UserList(a)
      BY <1>1, Viewers DEF UserList, CanManageUser
    <2>7. StaleReviews(a) \subseteq {o \in Every : CanReview(a, o)}
      BY <1>1, Viewers DEF StaleReviews, CanReview, In
    <2>8. CommissionDecisions(a) = Book(a) /\ CommissionList(a) = Book(a)
      BY <1>1, <2>1, Viewers DEF CommissionDecisions, CommissionList, OutOfScope
    <2> QED
      BY <2>2, <2>3, <2>5, <2>6, <2>7, <2>8
  <1>2. CASE a = Boss
    <2>1. CompanyList(a) = LiveCompany /\ CompanyPages(a) = LiveCompany
          /\ ExportCompanies(a) = LiveCompany
      BY <1>2, Scopes DEF CompanyList, CompanyPages, ManagesCompany, ExportCompanies
    <2>2. UserList(a) = Viewer /\ a \in Viewer
      BY <1>2 DEF UserList, Viewer, Staff, Admin
    <2>3. {u \in Viewer : CanViewUser(a, u)} = Viewer
      BY <1>2 DEF CanViewUser
    <2>4. StaleReviews(a) \subseteq {o \in Every : CanReview(a, o)}
      BY <1>2, Viewers DEF StaleReviews, CanReview, In
    <2>5. CommissionDecisions(a) = Company /\ CommissionList(a) = Company
      BY <1>2, Viewers, Scopes DEF CommissionDecisions, CommissionList, OutOfScope
    <2> QED
      BY <2>1, <2>2, <2>3, <2>4, <2>5
  <1> QED
    BY <1>1, <1>2, Viewers

(* A company sees its own opportunities and its resellers', and nobody     *)
(* else's registrations.                                                   *)
LEMMA CompaniesSeeDown ==
    ASSUME NetworkTypeOK, NEW c \in LiveCompany
    PROVE  /\ \A o \in OpportunityPages(c) :
                 opp[o].company = c \/ firm[opp[o].company].parent = c
           /\ DealList(c) \subseteq {c}
  <1>1. c \in Company
    BY DEF LiveCompany
  <1>2. \A x \in PipelineScope(c) : x = c \/ firm[x].parent = c
    BY DEF PipelineScope, Resellers
  <1>3. DealList(c) \subseteq {c}
    BY <1>1, Viewers DEF DealList
  <1> QED
    BY <1>1, <1>2, <1>3, PartnersSee DEF Of

(* In any network at all, whoever looks: routes agree.                     *)
LEMMA TypedRoutesAgree == NetworkTypeOK => RoutesAgree
  <1> SUFFICES ASSUME NetworkTypeOK PROVE RoutesAgree
    OBVIOUS
  <1>1. \A v \in Viewer :
        /\ ExportOpportunities(v) = OpportunityList(v)
        /\ OpportunityList(v) \subseteq OpportunityPages(v)
        /\ {o \in Every : CanAccess(v, o)} \subseteq OpportunityPages(v)
    BY OpportunitiesAgree
  <1>2. \A v \in Viewer :
        /\ PocList(v) = ExportPocs(v)
        /\ LicenceList(v) = ExportLicences(v)
        /\ PocList(v) \subseteq PocPages(v)
        /\ PocList(v) \subseteq OpportunityPages(v)
        /\ \A o \in WithPoc(Every) :
              CanWorkOnPoc(v, o) => o \in PocList(v) \/ opp[o].company = None
        /\ StaffingRights(v) \subseteq PocEdits(v)
    BY PocsAgree
  <1>3. \A v \in Viewer :
        /\ DealList(v) = ExportDeals(v) /\ DealList(v) = ExpiringWindows(v)
        /\ DocRequestList(v) = {c \in Company : CanAccessDocRequest(v, c)}
        /\ CommissionList(v) = CommissionPages(v)
        /\ StatementList(v) = CommissionList(v)
        /\ StatementPages(v) = StatementList(v) \cap LiveCompany
        /\ Scorecards(v) = StatementPages(v) \cap Leaderboard
    BY CompaniesAgree
  <1>4. \A v \in Viewer : RenewalQueue(v) \subseteq {o \in LicenceList(v) : CanRenew(v, o)}
    BY RenewalsAgree
  <1>5. \A v \in Staff : PocSummary(v) = PocList(v) /\ DeployedLicences(v) = LicenceList(v)
    BY PocsAgree DEF Viewer
  <1>6. \A a \in Admin :
        /\ CompanyList(a) = CompanyPages(a) /\ CompanyList(a) = ExportCompanies(a)
        /\ UserList(a) \cup {a} = {u \in Viewer : CanViewUser(a, u)}
        /\ {u \in Viewer : CanManageUser(a, u)} \subseteq UserList(a)
        /\ StaleReviews(a) \subseteq {o \in Every : CanReview(a, o)}
        /\ CommissionDecisions(a) = CommissionList(a)
    BY AdminsAgree
  <1>7. \A c \in LiveCompany :
        /\ \A o \in OpportunityPages(c) :
              opp[o].company = c \/ firm[opp[o].company].parent = c
        /\ DealList(c) \subseteq {c}
    BY CompaniesSeeDown
  <1> QED
    BY <1>1, <1>2, <1>3, <1>4, <1>5, <1>6, <1>7 DEF RoutesAgree

(* Lists, pages, exports and widgets of one viewer agree (deps.py,         *)
(* dashboard.py, export_service.py and the routers of POCs, deals and      *)
(* commissions), whatever the network and however it came about.           *)
THEOREM RoutesAlwaysAgree == NetworkSpec => []RoutesAgree
  BY NetworkTypeCorrect, TypedRoutesAgree, PTL

-----------------------------------------------------------------------------
(* Figures. *)

LEMMA Cut ==
    /\ \A scope \in SUBSET Company : scope # None
    /\ \A a \in Manager : Scoped(AdminScope(a)) = Of(Book(a))
    /\ Scoped(AdminScope(Boss)) = Every
  <1>1. \A scope \in SUBSET Company : scope # None
    BY PeopleAssumption
  <1> QED
    BY <1>1, Scopes DEF Scoped

(* The headline of an admin is the sum of the breakdown by status, of the  *)
(* plan, of the funnel with what was decided, and of the regions.          *)
LEMMA AdminFiguresAgree ==
    ASSUME NetworkTypeOK, NEW a \in Admin, NEW rows, rows = Scoped(AdminScope(a))
    PROVE  /\ (IF a = Boss THEN LiveCompany ELSE Book(a)) = CompanyList(a)
           /\ rows \subseteq OpportunityList(a)
           /\ rows = UNION {StatusBreakdown(a)[s] : s \in Status}
           /\ StatusBreakdown(a)["removed"] = {}
           /\ TargetPlan(a) = rows /\ CityFunnel(a) = rows
           /\ UNION {Funnel(a)[s] : s \in DOMAIN Funnel(a)} =
                 rows \ In({"rejected", "won", "lost"}, Every)
           /\ {o \in rows : opp[o].company \in LiveCompany \cup {None}} =
                 UNION Regions(a)
  <1>1. rows \subseteq Every
    BY Cut, Viewers DEF Of
  <1>2. \A o \in Every : opp[o].status \in Status \ {"removed"}
    BY DEF NetworkTypeOK, Every, Exists
  <1>3. \A s \in Status : StatusBreakdown(a)[s] = In({s}, rows)
    BY DEF StatusBreakdown
  <1>4. (IF a = Boss THEN LiveCompany ELSE Book(a)) = CompanyList(a)
    BY Viewers DEF CompanyList, Book, LiveCompany
  <1>5. rows \subseteq OpportunityList(a)
    BY <1>1, ManagersSee, BossSees, Viewers
  <1>6. rows = UNION {StatusBreakdown(a)[s] : s \in Status}
    <2>1. \A o \in rows : o \in In({opp[o].status}, rows) /\ opp[o].status \in Status
      BY <1>1, <1>2 DEF In
    <2>2. \A s \in Status : StatusBreakdown(a)[s] \subseteq rows
      BY <1>3 DEF In
    <2>3. \A o \in rows : o \in StatusBreakdown(a)[opp[o].status]
      BY <1>3, <2>1
    <2> QED
      BY <2>1, <2>2, <2>3
  <1>7. StatusBreakdown(a)["removed"] = {}
    <2>1. "removed" \in Status
      BY DEF Status
    <2> QED
      BY <1>1, <1>2, <1>3, <2>1 DEF In
  <1>8. TargetPlan(a) = rows /\ CityFunnel(a) = rows
    BY <1>1, <1>2 DEF TargetPlan, CityFunnel
  <1>9. UNION {Funnel(a)[s] : s \in DOMAIN Funnel(a)} =
           rows \ In({"rejected", "won", "lost"}, Every)
    <2> DEFINE Open == {"draft", "pending_review", "under_review", "approved"}
    <2>1. DOMAIN Funnel(a) = Open /\ \A s \in Open : Funnel(a)[s] = In({s}, rows)
      BY DEF Funnel
    <2>2. \A o \in Every : opp[o].status \in Open
                           <=> opp[o].status \notin {"rejected", "won", "lost"}
      BY <1>2 DEF Status
    <2>3. \A o \in rows : o \notin In({"rejected", "won", "lost"}, Every)
                          => opp[o].status \in Open /\ o \in In({opp[o].status}, rows)
      BY <1>1, <2>2 DEF In
    <2>4. \A s \in Open : In({s}, rows) \subseteq rows \ In({"rejected", "won", "lost"}, Every)
      BY <1>1, <2>2 DEF In
    <2>5. rows \ In({"rejected", "won", "lost"}, Every)
             \subseteq UNION {Funnel(a)[s] : s \in DOMAIN Funnel(a)}
      <3> HIDE DEF Open
      <3> SUFFICES ASSUME NEW o \in rows, o \notin In({"rejected", "won", "lost"}, Every)
                   PROVE  \E s \in DOMAIN Funnel(a) : o \in Funnel(a)[s]
        OBVIOUS
      <3> QED
        BY <2>1, <2>3
    <2>6. UNION {Funnel(a)[s] : s \in DOMAIN Funnel(a)}
             \subseteq rows \ In({"rejected", "won", "lost"}, Every)
      <3> HIDE DEF Open
      <3> SUFFICES ASSUME NEW s \in DOMAIN Funnel(a), NEW o \in Funnel(a)[s]
                   PROVE  o \in rows \ In({"rejected", "won", "lost"}, Every)
        OBVIOUS
      <3> QED
        BY <2>1, <2>4
    <2> QED
      BY <2>5, <2>6
  <1>10. {o \in rows : opp[o].company \in LiveCompany \cup {None}} = UNION Regions(a)
    <2>1. CASE a = Boss
      <3>1. rows = Every
        BY <2>1, Cut
      <3>2. CompanyList(a) = LiveCompany
        BY <2>1, <1>4
      <3>3. Regions(a) = {Of({c}) : c \in LiveCompany} \cup {Of({None})}
        BY <2>1, <3>2 DEF Regions
      <3>4. \A o \in Every : o \in Of({opp[o].company})
        BY DEF Of
      <3>5. \A c : Of({c}) \subseteq Every /\ \A o \in Of({c}) : opp[o].company = c
        BY DEF Of
      <3>6. {o \in rows : opp[o].company \in LiveCompany \cup {None}}
               \subseteq UNION Regions(a)
        <4> SUFFICES ASSUME NEW o \in rows, opp[o].company \in LiveCompany \cup {None}
                     PROVE  Of({opp[o].company}) \in Regions(a) /\ o \in Of({opp[o].company})
          OBVIOUS
        <4> QED
          BY <3>1, <3>3, <3>4
      <3>7. UNION Regions(a)
               \subseteq {o \in rows : opp[o].company \in LiveCompany \cup {None}}
        <4> SUFFICES ASSUME NEW region \in Regions(a), NEW o \in region
                     PROVE  o \in rows /\ opp[o].company \in LiveCompany \cup {None}
          OBVIOUS
        <4>1. PICK c \in LiveCompany \cup {None} : region = Of({c})
          BY <3>3
        <4> QED
          BY <4>1, <3>1, <3>5
      <3> QED
        BY <3>6, <3>7
    <2>2. CASE a \in Manager
      <3>1. rows = Of(Book(a)) /\ Book(a) \subseteq LiveCompany /\ None \notin Book(a)
        BY <2>2, Cut, Scopes, Rows
      <3>2. CompanyList(a) = Book(a) /\ a # Boss
        BY <2>2, <1>4, Viewers
      <3>3. Regions(a) = {Of({c}) : c \in Book(a)}
        BY <3>2 DEF Regions
      <3>4. \A o \in Of(Book(a)) : opp[o].company \in Book(a) /\ o \in Of({opp[o].company})
        BY DEF Of
      <3>5. \A c \in Book(a) : Of({c}) \subseteq Of(Book(a))
        BY DEF Of
      <3>6. {o \in rows : opp[o].company \in LiveCompany \cup {None}}
               \subseteq UNION Regions(a)
        <4> SUFFICES ASSUME NEW o \in rows
                     PROVE  Of({opp[o].company}) \in Regions(a) /\ o \in Of({opp[o].company})
          OBVIOUS
        <4> QED
          BY <3>1, <3>3, <3>4
      <3>7. UNION Regions(a)
               \subseteq {o \in rows : opp[o].company \in LiveCompany \cup {None}}
        <4> SUFFICES ASSUME NEW region \in Regions(a), NEW o \in region
                     PROVE  o \in rows /\ opp[o].company \in LiveCompany \cup {None}
          OBVIOUS
        <4>1. PICK c \in Book(a) : region = Of({c})
          BY <3>3
        <4> QED
          BY <4>1, <3>1, <3>4, <3>5
      <3> QED
        BY <3>6, <3>7
    <2> QED
      BY <2>1, <2>2, Viewers
  <1> QED
    BY <1>4, <1>5, <1>6, <1>7, <1>8, <1>9, <1>10

(* The companies on a channel manager's dashboard add up to their stats.   *)
LEMMA ManagerFiguresAgree ==
    ASSUME NetworkTypeOK, NEW a \in Manager, NEW cards, cards = ManagerDashboard(a)
    PROVE  /\ In(InReview, Of(Book(a))) = UNION {cards[c].pending : c \in DOMAIN cards}
           /\ In(Accepted, Of(Book(a))) = UNION {cards[c].approved : c \in DOMAIN cards}
  <1>1. {x \in LiveCompany : a \in firm[x].managers} = Book(a)
    BY DEF Book, LiveCompany
  <1>2. /\ DOMAIN cards = Book(a)
        /\ \A c \in Book(a) : /\ cards[c].pending = In(InReview, Of({c}))
                              /\ cards[c].approved = In(Accepted, Of({c}))
    BY <1>1 DEF ManagerDashboard
  <1>3. ASSUME NEW S
        PROVE  In(S, Of(Book(a))) = UNION {In(S, Of({c})) : c \in Book(a)}
    <2>1. ASSUME NEW o \in In(S, Of(Book(a)))
          PROVE  opp[o].company \in Book(a) /\ o \in In(S, Of({opp[o].company}))
      BY DEF In, Of
    <2>2. ASSUME NEW c \in Book(a)
          PROVE  In(S, Of({c})) \subseteq In(S, Of(Book(a)))
      BY DEF In, Of
    <2> QED
      BY <2>1, <2>2
  <1>4. {cards[c].pending : c \in DOMAIN cards} = {In(InReview, Of({c})) : c \in Book(a)}
    BY <1>2
  <1>5. {cards[c].approved : c \in DOMAIN cards} = {In(Accepted, Of({c})) : c \in Book(a)}
    BY <1>2
  <1> QED
    BY <1>3, <1>4, <1>5

(* What a partner's cards count is what is listed beside them, and the sum *)
(* of the companies whose performance the partner may open.                *)
LEMMA PartnerFiguresAgree ==
    ASSUME NetworkTypeOK, NEW c \in LiveCompany
    PROVE  /\ PartnerDashboard(c).total = OpportunityList(c)
           /\ PartnerDashboard(c).total
                 = UNION {CompanyPerformance(x).submitted : x \in PerformancePages(c)}
           /\ PartnerDashboard(c).approved
                 = UNION {CompanyPerformance(x).won : x \in PerformancePages(c)}
           /\ PartnerTimeline(c).submitted = PartnerDashboard(c).total
  <1>1. c \in Company /\ PipelineScope(c) \subseteq LiveCompany
    BY DEF LiveCompany, PipelineScope, Resellers
  <1>2. PerformancePages(c) = PipelineScope(c)
    BY <1>1, Viewers DEF PerformancePages, LiveCompany
  <1>3. /\ PartnerDashboard(c).total = Of(PipelineScope(c))
        /\ PartnerDashboard(c).approved = In(Accepted, Of(PipelineScope(c)))
        /\ PartnerTimeline(c).submitted = Of(PipelineScope(c))
    BY DEF PartnerDashboard, PartnerTimeline
  <1>4. Of(PipelineScope(c)) = UNION {Of({x}) : x \in PipelineScope(c)}
    <2>1. \A o \in Of(PipelineScope(c)) :
             opp[o].company \in PipelineScope(c) /\ o \in Of({opp[o].company})
      BY DEF Of
    <2>2. \A x \in PipelineScope(c) : Of({x}) \subseteq Of(PipelineScope(c))
      BY DEF Of
    <2> QED
      BY <2>1, <2>2
  <1>5. In(Accepted, Of(PipelineScope(c)))
           = UNION {In(Accepted, Of({x})) : x \in PipelineScope(c)}
    <2>1. ASSUME NEW o \in In(Accepted, Of(PipelineScope(c)))
          PROVE  opp[o].company \in PipelineScope(c)
                 /\ o \in In(Accepted, Of({opp[o].company}))
      BY DEF In, Of
    <2>2. ASSUME NEW x \in PipelineScope(c)
          PROVE  In(Accepted, Of({x})) \subseteq In(Accepted, Of(PipelineScope(c)))
      BY DEF In, Of
    <2> QED
      BY <2>1, <2>2
  <1>6. \A x : /\ CompanyPerformance(x).submitted = Of({x})
               /\ CompanyPerformance(x).won = In(Accepted, Of({x}))
    BY DEF CompanyPerformance
  <1>7. /\ {CompanyPerformance(x).submitted : x \in PerformancePages(c)}
              = {Of({x}) : x \in PipelineScope(c)}
        /\ {CompanyPerformance(x).won : x \in PerformancePages(c)}
              = {In(Accepted, Of({x})) : x \in PipelineScope(c)}
    BY <1>2, <1>6
  <1>8. OpportunityList(c) = Of(PipelineScope(c))
    BY <1>1, PartnersSee
  <1> QED
    BY <1>3, <1>4, <1>5, <1>7, <1>8

(* In any network at all: figures agree. *)
LEMMA TypedFiguresAgree == NetworkTypeOK => FiguresAgree
  <1> SUFFICES ASSUME NetworkTypeOK PROVE FiguresAgree
    OBVIOUS
  <1>1. ASSUME NEW a \in Admin
        PROVE  LET stats == AdminStats(a) IN
               /\ stats.companies = CompanyList(a)
               /\ stats.total \subseteq OpportunityList(a)
               /\ stats.total = UNION {StatusBreakdown(a)[s] : s \in Status}
               /\ StatusBreakdown(a)["removed"] = {}
               /\ MonthlyData(a).submitted = stats.total
               /\ MonthlyData(a).approved = stats.approved
               /\ TargetPlan(a) = stats.total /\ CityFunnel(a) = stats.total
               /\ UNION {Funnel(a)[s] : s \in DOMAIN Funnel(a)} =
                     stats.total \ In({"rejected", "won", "lost"}, Every)
               /\ {o \in stats.total : opp[o].company \in LiveCompany \cup {None}} =
                     UNION Regions(a)
    <2> DEFINE rows == Scoped(AdminScope(a))
    <2>1. /\ AdminStats(a).total = rows /\ AdminStats(a).approved = In(Accepted, rows)
          /\ AdminStats(a).companies = (IF a = Boss THEN LiveCompany ELSE Book(a))
          /\ MonthlyData(a).submitted = rows
          /\ MonthlyData(a).approved = In(Accepted, rows)
      BY DEF AdminStats, MonthlyData
    <2> HIDE DEF rows
    <2> QED
      BY <2>1, AdminFiguresAgree DEF rows
  <1>2. ASSUME NEW a \in Manager
        PROVE  LET cards == ManagerDashboard(a) IN
               /\ AdminStats(a).pending = UNION {cards[c].pending : c \in DOMAIN cards}
               /\ AdminStats(a).approved = UNION {cards[c].approved : c \in DOMAIN cards}
    <2>1. /\ AdminStats(a).pending = In(InReview, Of(Book(a)))
          /\ AdminStats(a).approved = In(Accepted, Of(Book(a)))
      BY Cut DEF AdminStats
    <2> QED
      BY <2>1, ManagerFiguresAgree
  <1>3. ASSUME NEW c \in LiveCompany
        PROVE  LET card == PartnerDashboard(c) IN
               /\ card.total = OpportunityList(c)
               /\ card.total = UNION {CompanyPerformance(x).submitted : x \in PerformancePages(c)}
               /\ card.approved = UNION {CompanyPerformance(x).won : x \in PerformancePages(c)}
               /\ PartnerTimeline(c).submitted = card.total
    BY PartnerFiguresAgree
  <1> QED
    BY <1>1, <1>2, <1>3 DEF FiguresAgree

(* The figures of different screens are made of the same rows              *)
(* (dashboard_service.py and the lists of deps.py, company_service.py),    *)
(* whatever the network and however it came about.                         *)
THEOREM FiguresAlwaysAgree == NetworkSpec => []FiguresAgree
  BY NetworkTypeCorrect, TypedFiguresAgree, PTL

-----------------------------------------------------------------------------
(* Reviews: the columns that a request sets and the ones that others set   *)
(* meanwhile make one sound row.                                           *)
(*                                                                         *)
(* ReviewStands is not inductive: a request writes, later, columns that it *)
(* worked out from the row that it read.                                   *)

(* What ReviewStands asks, of any row.                                     *)
Sound(row) ==
    /\ row.status = "under_review" =>
          /\ row.reviewer # None /\ row.claimed # None
          /\ row.reminded \in {None, row.claimed}
          /\ row.escalated \in {None, row.claimed}
    /\ row.deleted <=> row.status = "removed"
    /\ row.deleted \/
          /\ row.reason <=> row.status = "rejected"
          /\ row.loss <=> row.status = "lost"
          /\ row.closed <=> row.status \in {"won", "lost"}

(* What each kind of request makes of the row that it read.                *)
Meant(r) ==
    \/ /\ r.kind = "submit" /\ r.seen.status \in {"draft", "rejected"}
       /\ r.new = [r.seen EXCEPT !.status = "pending_review", !.reason = FALSE]
    \/ /\ r.kind = "claim" /\ r.seen.status = "pending_review"
       /\ \E a \in Reviewer, claim \in Claim : r.new = Taken(r.seen, a, claim)
    \/ /\ r.kind = "release" /\ r.seen.status = "under_review"
       /\ r.new = [r.seen EXCEPT !.status = "pending_review", !.reviewer = None,
                       !.claimed = None, !.reminded = None, !.escalated = None]
    \/ /\ r.kind = "decide" /\ r.seen.status \in Reviewable
       /\ \E a \in Reviewer :
             \/ r.new = [r.seen EXCEPT !.status = "approved", !.reviewer = a]
             \/ r.new = [r.seen EXCEPT !.status = "rejected", !.reviewer = a,
                                       !.reason = TRUE]
    \/ /\ r.kind = "remove"
       /\ r.new = [r.seen EXCEPT !.status = "removed", !.deleted = TRUE]
    \/ /\ r.kind = "close" /\ r.seen.status = "approved"
       /\ \E outcome \in {"won", "lost"} :
             r.new = [r.seen EXCEPT !.status = outcome, !.loss = (outcome = "lost"),
                                    !.closed = TRUE]
    \/ /\ r.kind = "chase" /\ r.seen.status = "under_review"
       /\ r.seen.claimed # None
       /\ \/ /\ r.seen.reminded = None
             /\ r.new = [r.seen EXCEPT !.reminded = r.seen.claimed]
          \/ /\ r.seen.escalated = None
             /\ r.new = [r.seen EXCEPT !.escalated = r.seen.claimed]

(* While nothing was undercut, the row is sound, and so was every row that *)
(* a request under way had read.                                           *)
RvInv ==
    /\ ReviewTypeOK
    /\ \A k \in ReviewClerk : turn[k] # NoTurn => Meant(turn[k])
    /\ undercut \/
          /\ Sound(review)
          /\ \A k \in ReviewClerk : turn[k] # NoTurn =>
                Sound(turn[k].seen) /\ turn[k].seen.deleted = FALSE

LEMMA OverlayOfReviews ==
    ASSUME NEW now \in ReviewRow, NEW seen \in ReviewRow, NEW new \in ReviewRow
    PROVE  LET row == Overlay(now, seen, new)
           IN  /\ row \in ReviewRow
               /\ \A f \in {"status", "reviewer", "claimed", "reminded", "escalated",
                            "reason", "loss", "closed", "deleted"} :
                     row[f] = IF new[f] # seen[f] THEN new[f] ELSE now[f]
  BY DEF Overlay, ReviewRow

LEMMA ReviewInitRvInv == ReviewInit => RvInv
  <1> SUFFICES ASSUME ReviewInit PROVE RvInv
    OBVIOUS
  <1>1. NewReview \in ReviewRow /\ Sound(NewReview)
    BY DEF NewReview, ReviewRow, ReviewStatus, Sound
  <1>2. 0 \in 0 .. MaxClaim
    BY ReviewTxnAssumption
  <1>3. ReviewTypeOK
    BY <1>1, <1>2 DEF ReviewInit, ReviewTypeOK, NoTurn
  <1> QED
    BY <1>1, <1>3 DEF ReviewInit, RvInv

(* A request reads a row, and means to make another of it.                 *)
LEMMA ReadsRvInv ==
    ASSUME RvInv, NEW k \in ReviewClerk,
           NEW kind \in {"submit", "claim", "release", "decide", "remove",
                         "close", "chase"},
           NEW statuses, NEW new \in ReviewRow, Reads(k, kind, statuses, new),
           Meant([kind |-> kind, seen |-> review, new |-> new]),
           claims' \in 0 .. MaxClaim
    PROVE  RvInv'
  <1> DEFINE r == [kind |-> kind, seen |-> review, new |-> new]
  <1>1. /\ turn' = [turn EXCEPT ![k] = r] /\ UNCHANGED <<review, undercut>>
        /\ ~review.deleted
    BY DEF Reads
  <1>2. review \in ReviewRow /\ r.seen = review /\ Meant(r)
    BY DEF RvInv, ReviewTypeOK
  <1>3. review.deleted = FALSE
    BY <1>1, <1>2 DEF ReviewRow
  <1>4. ReviewTypeOK'
    BY <1>1, <1>2 DEF RvInv, ReviewTypeOK
  <1> HIDE DEF r
  <1>5. turn'[k] = r /\ \A j \in ReviewClerk \ {k} : turn'[j] = turn[j]
    BY <1>1 DEF RvInv, ReviewTypeOK
  <1> QED
    BY <1>1, <1>2, <1>3, <1>4, <1>5 DEF RvInv

LEMMA ReviewRequestRvInv ==
    ASSUME RvInv, NEW k \in ReviewClerk, ReviewRequest(k) \/ ReviewSweep(k)
    PROVE  RvInv'
  <1>0. review \in ReviewRow /\ claims \in 0 .. MaxClaim
    BY DEF RvInv, ReviewTypeOK
  <1>1. CASE SubmitAgain(k)
    <2> DEFINE new == [review EXCEPT !.status = "pending_review", !.reason = FALSE]
    <2>1. new \in ReviewRow
      BY <1>0 DEF ReviewRow, ReviewStatus
    <2>2. Reads(k, "submit", {"draft", "rejected"}, new) /\ claims' = claims
      BY <1>1 DEF SubmitAgain
    <2>3. Meant([kind |-> "submit", seen |-> review, new |-> new])
      BY <2>2 DEF Meant, Reads
    <2> HIDE DEF new
    <2> QED
      BY <1>0, <2>1, <2>2, <2>3, ReadsRvInv
  <1>2. ASSUME NEW a \in Reviewer, TakeReview(k, a) PROVE RvInv'
    <2> DEFINE new == Taken(review, a, claims')
    <2>0. claims' \in Claim /\ claims' \in 0 .. MaxClaim
      BY <1>0, <1>2, ReviewTxnAssumption DEF TakeReview, Claim
    <2>1. new \in ReviewRow
      BY <1>0, <2>0 DEF ReviewRow, ReviewStatus, Taken
    <2>2. Reads(k, "claim", {"pending_review"}, new)
      BY <1>2 DEF TakeReview
    <2>3. Meant([kind |-> "claim", seen |-> review, new |-> new])
      BY <2>0, <2>2 DEF Meant, Reads
    <2> HIDE DEF new
    <2> QED
      BY <2>0, <2>1, <2>2, <2>3, ReadsRvInv
  <1>3. CASE HandBack(k)
    <2> DEFINE new == [review EXCEPT !.status = "pending_review", !.reviewer = None,
                            !.claimed = None, !.reminded = None, !.escalated = None]
    <2>1. new \in ReviewRow
      BY <1>0 DEF ReviewRow, ReviewStatus
    <2>2. Reads(k, "release", {"under_review"}, new) /\ claims' = claims
      BY <1>3 DEF HandBack
    <2>3. Meant([kind |-> "release", seen |-> review, new |-> new])
      BY <2>2 DEF Meant, Reads
    <2> HIDE DEF new
    <2> QED
      BY <1>0, <2>1, <2>2, <2>3, ReadsRvInv
  <1>4. ASSUME NEW a \in Reviewer, Approve(k, a) PROVE RvInv'
    <2> DEFINE new == [review EXCEPT !.status = "approved", !.reviewer = a]
    <2>1. new \in ReviewRow
      BY <1>0 DEF ReviewRow, ReviewStatus
    <2>2. Reads(k, "decide", Reviewable, new) /\ claims' = claims
      BY <1>4 DEF Approve
    <2>3. Meant([kind |-> "decide", seen |-> review, new |-> new])
      BY <2>2 DEF Meant, Reads
    <2> HIDE DEF new
    <2> QED
      BY <1>0, <2>1, <2>2, <2>3, ReadsRvInv
  <1>5. ASSUME NEW a \in Reviewer, Reject(k, a) PROVE RvInv'
    <2> DEFINE new == [review EXCEPT !.status = "rejected", !.reviewer = a,
                                     !.reason = TRUE]
    <2>1. new \in ReviewRow
      BY <1>0 DEF ReviewRow, ReviewStatus
    <2>2. Reads(k, "decide", Reviewable, new) /\ claims' = claims
      BY <1>5 DEF Reject
    <2>3. Meant([kind |-> "decide", seen |-> review, new |-> new])
      BY <2>2 DEF Meant, Reads
    <2> HIDE DEF new
    <2> QED
      BY <1>0, <2>1, <2>2, <2>3, ReadsRvInv
  <1>6. CASE Remove(k)
    <2> DEFINE new == [review EXCEPT !.status = "removed", !.deleted = TRUE]
    <2>1. new \in ReviewRow
      BY <1>0 DEF ReviewRow, ReviewStatus
    <2>2. Reads(k, "remove", ReviewStatus, new) /\ claims' = claims
      BY <1>6 DEF Remove
    <2>3. Meant([kind |-> "remove", seen |-> review, new |-> new])
      BY DEF Meant
    <2> HIDE DEF new
    <2> QED
      BY <1>0, <2>1, <2>2, <2>3, ReadsRvInv
  <1>7. ASSUME NEW outcome \in {"won", "lost"}, CloseAs(k, outcome) PROVE RvInv'
    <2> DEFINE new == [review EXCEPT !.status = outcome, !.loss = (outcome = "lost"),
                                     !.closed = TRUE]
    <2>1. new \in ReviewRow
      BY <1>0 DEF ReviewRow, ReviewStatus
    <2>2. Reads(k, "close", {"approved"}, new) /\ claims' = claims
      BY <1>7 DEF CloseAs
    <2>3. Meant([kind |-> "close", seen |-> review, new |-> new])
      BY <2>2 DEF Meant, Reads
    <2> HIDE DEF new
    <2> QED
      BY <1>0, <2>1, <2>2, <2>3, ReadsRvInv
  <1>8. CASE Chase(k, "reminded")
    <2> DEFINE new == [review EXCEPT !.reminded = review.claimed]
    <2>1. new \in ReviewRow
      BY <1>0 DEF ReviewRow
    <2>2. /\ Reads(k, "chase", {"under_review"}, new) /\ claims' = claims
          /\ review.claimed # None /\ review.reminded = None
      BY <1>8 DEF Chase
    <2>3. Meant([kind |-> "chase", seen |-> review, new |-> new])
      BY <2>2 DEF Meant, Reads
    <2> HIDE DEF new
    <2> QED
      BY <1>0, <2>1, <2>2, <2>3, ReadsRvInv
  <1>9. CASE Chase(k, "escalated")
    <2> DEFINE new == [review EXCEPT !.escalated = review.claimed]
    <2>1. new \in ReviewRow
      BY <1>0 DEF ReviewRow
    <2>2. /\ Reads(k, "chase", {"under_review"}, new) /\ claims' = claims
          /\ review.claimed # None /\ review.escalated = None
      BY <1>9 DEF Chase
    <2>3. Meant([kind |-> "chase", seen |-> review, new |-> new])
      BY <2>2 DEF Meant, Reads
    <2> HIDE DEF new
    <2> QED
      BY <1>0, <2>1, <2>2, <2>3, ReadsRvInv
  <1> QED
    BY <1>1, <1>2, <1>3, <1>4, <1>5, <1>6, <1>7, <1>8, <1>9
    DEF ReviewRequest, ReviewSweep

(* A request that was not undercut leaves a sound row: the columns it sets *)
(* and the ones that others set meanwhile fit together.                    *)
LEMMA WrittenReviewIsSound ==
    ASSUME NEW r, r.seen \in ReviewRow, r.new \in ReviewRow, review \in ReviewRow,
           Meant(r), Sound(r.seen), r.seen.deleted = FALSE, Sound(review), StillSo(r)
    PROVE  Sound(Overlay(review, r.seen, r.new))
  <1> DEFINE row == Overlay(review, r.seen, r.new)
  <1>1. /\ row.status = IF r.new.status # r.seen.status THEN r.new.status ELSE review.status
        /\ row.reviewer = IF r.new.reviewer # r.seen.reviewer
                          THEN r.new.reviewer ELSE review.reviewer
        /\ row.claimed = IF r.new.claimed # r.seen.claimed
                         THEN r.new.claimed ELSE review.claimed
        /\ row.reminded = IF r.new.reminded # r.seen.reminded
                          THEN r.new.reminded ELSE review.reminded
        /\ row.escalated = IF r.new.escalated # r.seen.escalated
                           THEN r.new.escalated ELSE review.escalated
        /\ row.reason = IF r.new.reason # r.seen.reason THEN r.new.reason ELSE review.reason
        /\ row.loss = IF r.new.loss # r.seen.loss THEN r.new.loss ELSE review.loss
        /\ row.closed = IF r.new.closed # r.seen.closed THEN r.new.closed ELSE review.closed
        /\ row.deleted = IF r.new.deleted # r.seen.deleted
                         THEN r.new.deleted ELSE review.deleted
    BY OverlayOfReviews
  <1> SUFFICES Sound(row)
    OBVIOUS
  <1> HIDE DEF row
  <1>2. CASE r.kind = "submit"
    <2>1. /\ r.seen.status \in {"draft", "rejected"} /\ review.status = r.seen.status
          /\ r.new = [r.seen EXCEPT !.status = "pending_review", !.reason = FALSE]
      BY <1>2 DEF Meant, StillSo
    <2>2. /\ row.status = "pending_review" /\ row.deleted = FALSE
          /\ row.reason = FALSE /\ row.loss = FALSE /\ row.closed = FALSE
      BY <1>1, <2>1 DEF ReviewRow, Sound
    <2> QED
      BY <2>2 DEF Sound
  <1>3. CASE r.kind = "claim"
    <2>1. PICK a \in Reviewer, claim \in Claim : r.new = Taken(r.seen, a, claim)
      BY <1>3 DEF Meant
    <2>2. r.seen.status = "pending_review" /\ review = r.seen
      BY <1>3 DEF Meant, StillSo
    <2>3. a # None /\ claim # None
      BY ReviewTxnAssumption DEF Claim
    <2>4. /\ row.status = "under_review" /\ row.reviewer = a /\ row.claimed = claim
          /\ row.reminded = None /\ row.escalated = None
          /\ row.deleted = r.seen.deleted /\ row.reason = r.seen.reason
          /\ row.loss = r.seen.loss /\ row.closed = r.seen.closed
      BY <1>1, <2>1, <2>2 DEF ReviewRow, Taken
    <2> QED
      BY <2>2, <2>3, <2>4 DEF Sound
  <1>4. CASE r.kind = "release"
    <2>1. /\ r.seen.status = "under_review" /\ review.status = r.seen.status
          /\ r.new = [r.seen EXCEPT !.status = "pending_review", !.reviewer = None,
                          !.claimed = None, !.reminded = None, !.escalated = None]
      BY <1>4 DEF Meant, StillSo
    <2>2. /\ row.status = "pending_review" /\ row.deleted = review.deleted
          /\ row.reason = review.reason /\ row.loss = review.loss
          /\ row.closed = review.closed
      BY <1>1, <2>1 DEF ReviewRow
    <2> QED
      BY <2>1, <2>2 DEF Sound
  <1>5. CASE r.kind = "decide"
    <2>1. r.seen.status \in Reviewable /\ review.status \in Reviewable
      BY <1>5 DEF Meant, StillSo
    <2>2. /\ r.seen.reason = FALSE /\ review.reason = FALSE /\ review.deleted = FALSE
          /\ review.loss = FALSE /\ review.closed = FALSE
      BY <2>1 DEF Sound, ReviewRow, Reviewable
    <2>3. ASSUME NEW a \in Reviewer,
                 r.new = [r.seen EXCEPT !.status = "approved", !.reviewer = a]
          PROVE  Sound(row)
      <3>1. /\ row.status = "approved" /\ row.deleted = review.deleted
            /\ row.reason = review.reason /\ row.loss = review.loss
            /\ row.closed = review.closed
        BY <1>1, <2>1, <2>3 DEF ReviewRow, Reviewable
      <3> QED
        BY <2>2, <3>1 DEF Sound
    <2>4. ASSUME NEW a \in Reviewer,
                 r.new = [r.seen EXCEPT !.status = "rejected", !.reviewer = a,
                                        !.reason = TRUE]
          PROVE  Sound(row)
      <3>1. /\ row.status = "rejected" /\ row.deleted = review.deleted
            /\ row.reason = TRUE /\ row.loss = review.loss
            /\ row.closed = review.closed
        BY <1>1, <2>1, <2>2, <2>4 DEF ReviewRow, Reviewable
      <3> QED
        BY <2>2, <3>1 DEF Sound
    <2> QED
      BY <1>5, <2>3, <2>4 DEF Meant
  <1>6. CASE r.kind = "remove"
    <2>1. r.new = [r.seen EXCEPT !.status = "removed", !.deleted = TRUE]
      BY <1>6 DEF Meant
    <2>2. row.status = "removed" /\ row.deleted = TRUE
      BY <1>1, <2>1 DEF ReviewRow, Sound
    <2> QED
      BY <2>2 DEF Sound
  <1>7. CASE r.kind = "close"
    <2>1. PICK outcome \in {"won", "lost"} :
             r.new = [r.seen EXCEPT !.status = outcome, !.loss = (outcome = "lost"),
                                    !.closed = TRUE]
      BY <1>7 DEF Meant
    <2>2. r.seen.status = "approved" /\ review.status = "approved"
      BY <1>7 DEF Meant, StillSo
    <2>3. /\ r.seen.loss = FALSE /\ review.loss = FALSE /\ r.seen.closed = FALSE
          /\ review.deleted = FALSE /\ review.reason = FALSE
      BY <2>2 DEF Sound, ReviewRow
    <2>4. /\ row.status = outcome /\ row.deleted = FALSE /\ row.reason = FALSE
          /\ row.loss = (outcome = "lost") /\ row.closed = TRUE
      BY <1>1, <2>1, <2>2, <2>3 DEF ReviewRow
    <2> QED
      BY <2>4 DEF Sound
  <1>8. CASE r.kind = "chase"
    <2>1. /\ r.seen.claimed # None /\ review.status = "under_review"
          /\ review.claimed = r.seen.claimed
          /\ \/ /\ r.seen.reminded = None
                /\ r.new = [r.seen EXCEPT !.reminded = r.seen.claimed]
             \/ /\ r.seen.escalated = None
                /\ r.new = [r.seen EXCEPT !.escalated = r.seen.claimed]
      BY <1>8 DEF Meant, StillSo
    <2>2. /\ row.status = review.status /\ row.reviewer = review.reviewer
          /\ row.claimed = review.claimed /\ row.deleted = review.deleted
          /\ row.reason = review.reason /\ row.loss = review.loss
          /\ row.closed = review.closed
          /\ row.reminded \in {review.reminded, review.claimed}
          /\ row.escalated \in {review.escalated, review.claimed}
      BY <1>1, <2>1 DEF ReviewRow
    <2> QED
      BY <2>2 DEF Sound
  <1> QED
    BY <1>2, <1>3, <1>4, <1>5, <1>6, <1>7, <1>8 DEF Meant

LEMMA CommitTurnRvInv ==
    ASSUME RvInv, NEW k \in ReviewClerk, CommitTurn(k) PROVE RvInv'
  <1> DEFINE r == turn[k]
  <1>1. /\ r # NoTurn /\ review' = Overlay(review, r.seen, r.new)
        /\ undercut' = (undercut \/ ~StillSo(r))
        /\ turn' = [turn EXCEPT ![k] = NoTurn] /\ claims' = claims
    BY DEF CommitTurn
  <1>2. review \in ReviewRow /\ r.seen \in ReviewRow /\ r.new \in ReviewRow /\ Meant(r)
    BY <1>1 DEF RvInv, ReviewTypeOK
  <1>3. turn'[k] = NoTurn /\ \A j \in ReviewClerk \ {k} : turn'[j] = turn[j]
    BY <1>1 DEF RvInv, ReviewTypeOK
  <1>4. review' \in ReviewRow
    BY <1>1, <1>2, OverlayOfReviews
  <1>5. NoTurn \in [kind : {"none", "submit", "claim", "release", "decide", "remove",
                            "close", "chase"}, seen : ReviewRow, new : ReviewRow]
    BY DEF NoTurn, NewReview, ReviewRow, ReviewStatus
  <1>6. ReviewTypeOK'
    <2>1. undercut' \in BOOLEAN
      BY <1>1
    <2>2. turn' \in [ReviewClerk ->
             [kind : {"none", "submit", "claim", "release", "decide", "remove",
                      "close", "chase"}, seen : ReviewRow, new : ReviewRow]]
      BY <1>1, <1>5 DEF RvInv, ReviewTypeOK
    <2> QED
      BY <1>1, <1>4, <2>1, <2>2 DEF RvInv, ReviewTypeOK
  <1>7. ASSUME ~undercut' PROVE Sound(review')
    <2>1. ~undercut /\ StillSo(r)
      BY <1>1, <1>7
    <2>2. Sound(review) /\ Sound(r.seen) /\ r.seen.deleted = FALSE
      BY <1>1, <2>1 DEF RvInv
    <2> QED
      BY <1>1, <1>2, <2>1, <2>2, WrittenReviewIsSound
  <1> QED
    BY <1>1, <1>3, <1>6, <1>7 DEF RvInv

LEMMA ReviewNextRvInv == RvInv /\ [ReviewNext]_reviewVars => RvInv'
  <1> SUFFICES ASSUME RvInv, [ReviewNext]_reviewVars PROVE RvInv'
    OBVIOUS
  <1>1. CASE UNCHANGED reviewVars
    BY <1>1 DEF reviewVars, RvInv, ReviewTypeOK
  <1> QED
    BY <1>1, ReviewRequestRvInv, CommitTurnRvInv DEF ReviewNext

(* Every step of a review, of its passes and of crossing requests keeps the *)
(* strengthening.                                                          *)
THEOREM ReviewInductive == ReviewSpec => []RvInv
  <1> QED
    BY ReviewInitRvInv, ReviewNextRvInv, PTL DEF ReviewSpec

(* The row in review and the requests under way keep their types.          *)
THEOREM ReviewTypeCorrect == ReviewSpec => []ReviewTypeOK
  <1>1. RvInv => ReviewTypeOK
    BY DEF RvInv
  <1> QED
    BY <1>1, ReviewInductive, PTL

(* Whatever crosses without undercutting, by any number of sessions and in *)
(* any number of claims: a review under way has a holder and a clock and   *)
(* was chased for this claim alone, and status, reason, loss and closing   *)
(* tell one story.                                                         *)
THEOREM ReviewsTellOneStory == ReviewSpec => []ReviewStands
  <1>1. RvInv => ReviewStands
    BY DEF RvInv, ReviewStands, Sound
  <1> QED
    BY <1>1, ReviewInductive, PTL

-----------------------------------------------------------------------------
(* POCs: the dates, the end, the outcome, the reason and the owners of the *)
(* stages fit together in the row that several requests write.             *)
(*                                                                         *)
(* PocStands is not inductive, for the same reason; and what a request     *)
(* means to write is known by its kind, in terms of the row that it read.  *)

(* What PocStands asks of one row, apart from its stages' dates and the    *)
(* team.                                                                   *)
Coherent(row) ==
    /\ row.start = row.done[VM]
    /\ row.closed <=> row.status \in Outcome
    /\ row.closed <=> row.end # None
    /\ row.closed => row.start # None /\ row.start <= row.end
    /\ row.status # "absent" => row.status = StatusOf(row)
    /\ row.reason => row.status = "unsuccessful"

SeatsOwn(row) == \A s \in Stage : row.owner[s] # None => row.owner[s] \in seats

IntentType ==
    [kind : {"none", "start", "stages", "outcome", "owner", "clear", "join", "leave"},
     who : Person \cup {None}, seen : PocRow, new : PocRow]

Same(r, fields) == \A f \in fields : r.new[f] = r.seen[f]

Scalars == {"status", "start", "end", "closed", "reason"}

(* What each kind of request means to make of the row that it read.        *)
MeantStart(r) ==
    /\ r.kind = "start" /\ Same(r, {"end", "closed", "reason", "owner"})
    /\ r.seen.done[VM] = None \/ r.seen.closed = FALSE
    /\ r.new.start = r.new.done[VM] /\ r.new.status = StatusOf(r.new)
MeantStages(r) ==
    /\ r.kind = "stages" /\ Same(r, {"start", "end", "closed", "reason", "owner"})
    /\ r.seen.closed = FALSE /\ r.seen.status # "absent"
    /\ r.new.done[VM] = r.seen.done[VM] /\ r.new.status = StatusOf(r.new)
    /\ StagesFollowStart(r.new)
MeantClose(r) ==
    /\ r.kind = "outcome" /\ Same(r, {"start", "done", "owner"})
    /\ r.seen.closed = FALSE /\ r.seen.done[VM] # None
    /\ r.new.closed = TRUE /\ r.new.end \in StageDate /\ r.new.status \in Outcome
    /\ r.seen.start # None => r.seen.start <= r.new.end
    /\ r.new.reason => r.new.status = "unsuccessful"
MeantReopen(r) ==
    /\ r.kind = "outcome" /\ Same(r, {"start", "done", "owner"})
    /\ r.seen.closed = TRUE
    /\ r.new.closed = FALSE /\ r.new.end = None /\ r.new.reason = FALSE
    /\ r.new.status = IF r.seen.done[VM] # None THEN "running" ELSE "not_started"
MeantOwner(r) ==
    /\ r.kind \in {"owner", "clear"} /\ Same(r, Scalars \cup {"done"})
    /\ r.kind = "clear" => r.who = None
    /\ \A s \in Stage : r.new.owner[s] \in {r.seen.owner[s], r.who}
MeantJoin(r) == r.kind = "join" /\ r.new = r.seen /\ r.who \in Person
MeantLeave(r) ==
    /\ r.kind = "leave" /\ Same(r, Scalars \cup {"done"}) /\ r.who \in Person
    /\ \A s \in Stage :
          r.new.owner[s] = IF r.seen.owner[s] = r.who THEN None ELSE r.seen.owner[s]

MeantBy(r) ==
    \/ MeantStart(r) \/ MeantStages(r) \/ MeantClose(r) \/ MeantReopen(r)
    \/ MeantOwner(r) \/ MeantJoin(r) \/ MeantLeave(r)

(* Nothing is created twice: a row that was there when it was read is      *)
(* there.  The dates of a start that was not a second one are in order,    *)
(* and while nothing is torn, so is every row that was read.               *)
PcInv ==
    /\ PocTypeOK
    /\ \A k \in PocClerk : intent[k] # NoIntent =>
          /\ MeantBy(intent[k])
          /\ intent[k].seen.status # "absent" => poc.status # "absent"
          /\ intent[k].kind = "start" => restarted \/ StagesFollowStart(intent[k].new)
    /\ torn \/
          /\ Coherent(poc) /\ SeatsOwn(poc) /\ (restarted \/ StagesFollowStart(poc))
          /\ \A k \in PocClerk : intent[k] # NoIntent => Coherent(intent[k].seen)

LEMMA PocTypes ==
    /\ PocTypeOK <=>
          /\ poc \in PocRow /\ seats \subseteq Person
          /\ intent \in [PocClerk -> IntentType]
          /\ restarted \in BOOLEAN /\ torn \in BOOLEAN
    /\ NoPoc \in PocRow /\ NoIntent \in IntentType
  BY DEF PocTypeOK, IntentType, NoPoc, NoIntent, PocRow, PocStatus

LEMMA WrittenPoc ==
    ASSUME NEW now \in PocRow, NEW seen \in PocRow, NEW new \in PocRow
    PROVE  LET row == Written(now, seen, new)
           IN  /\ row \in PocRow
               /\ \A f \in Scalars :
                     row[f] = IF new[f] # seen[f] THEN new[f] ELSE now[f]
               /\ \A s \in Stage :
                     /\ row.done[s] = IF new.done[s] # seen.done[s]
                                      THEN new.done[s] ELSE now.done[s]
                     /\ row.owner[s] = IF new.owner[s] # seen.owner[s]
                                       THEN new.owner[s] ELSE now.owner[s]
  <1> DEFINE done == Overlay(now.done, seen.done, new.done)
             owner == Overlay(now.owner, seen.owner, new.owner)
             flat == Overlay(now, seen, new)
  <1>1. /\ done \in [Stage -> StageDate \cup {None}]
        /\ \A s \in Stage : done[s] = IF new.done[s] # seen.done[s]
                                      THEN new.done[s] ELSE now.done[s]
    BY DEF Overlay, PocRow
  <1>2. /\ owner \in [Stage -> Person \cup {None}]
        /\ \A s \in Stage : owner[s] = IF new.owner[s] # seen.owner[s]
                                       THEN new.owner[s] ELSE now.owner[s]
    BY DEF Overlay, PocRow
  <1>3. /\ flat \in PocRow
        /\ \A f \in Scalars : flat[f] = IF new[f] # seen[f] THEN new[f] ELSE now[f]
    BY DEF Overlay, PocRow, Scalars
  <1>4. Written(now, seen, new) = [flat EXCEPT !.done = done, !.owner = owner]
    BY DEF Written
  <1> HIDE DEF done, owner, flat
  <1>5. [flat EXCEPT !.done = done, !.owner = owner] \in PocRow
    BY <1>1, <1>2, <1>3 DEF PocRow
  <1>6. \A f \in Scalars : [flat EXCEPT !.done = done, !.owner = owner][f] = flat[f]
    BY <1>3 DEF PocRow, Scalars
  <1>7. /\ [flat EXCEPT !.done = done, !.owner = owner].done = done
        /\ [flat EXCEPT !.done = done, !.owner = owner].owner = owner
    BY <1>3 DEF PocRow
  <1> QED
    BY <1>1, <1>2, <1>3, <1>4, <1>5, <1>6, <1>7

LEMMA PocInitPcInv == PocInit => PcInv
  <1> SUFFICES ASSUME PocInit PROVE PcInv
    OBVIOUS
  <1>1. Coherent(NoPoc) /\ StagesFollowStart(NoPoc)
    BY PocAssumption DEF NoPoc, Coherent, StagesFollowStart, Outcome
  <1>2. SeatsOwn(poc)
    BY DEF PocInit, NoPoc, SeatsOwn
  <1>3. PocTypeOK
    BY PocTypes DEF PocInit
  <1> QED
    BY <1>1, <1>2, <1>3 DEF PocInit, PcInv

(* A request reads the POC, and means to make another of it.               *)
LEMMA IntendPcInv ==
    ASSUME PcInv, NEW k \in PocClerk, NEW kind, NEW who, NEW new,
           [kind |-> kind, who |-> who, seen |-> poc, new |-> new] \in IntentType,
           MeantBy([kind |-> kind, who |-> who, seen |-> poc, new |-> new]),
           Intend(k, kind, who, new), UNCHANGED <<poc, seats, torn>>,
           restarted' \in BOOLEAN, restarted => restarted',
           kind = "start" => restarted' \/ StagesFollowStart(new)
    PROVE  PcInv'
  <1> DEFINE r == [kind |-> kind, who |-> who, seen |-> poc, new |-> new]
  <1>1. intent' = [intent EXCEPT ![k] = r]
    BY DEF Intend
  <1>2. r.seen = poc /\ r.new = new /\ r.kind = kind
    OBVIOUS
  <1>3. r \in IntentType /\ MeantBy(r)
    OBVIOUS
  <1> HIDE DEF r
  <1>4. intent \in [PocClerk -> IntentType]
    BY PocTypes DEF PcInv
  <1>5. /\ intent' \in [PocClerk -> IntentType] /\ intent'[k] = r
        /\ \A j \in PocClerk \ {k} : intent'[j] = intent[j]
    BY <1>1, <1>3, <1>4
  <1>6. PocTypeOK'
    BY <1>5 DEF PcInv, PocTypeOK, IntentType
  <1>7. ASSUME NEW j \in PocClerk, intent'[j] # NoIntent
        PROVE  /\ MeantBy(intent'[j])
               /\ intent'[j].seen.status # "absent" => poc'.status # "absent"
               /\ intent'[j].kind = "start" =>
                     restarted' \/ StagesFollowStart(intent'[j].new)
               /\ torn' \/ Coherent(intent'[j].seen)
    <2>1. CASE j = k
      BY <1>2, <1>3, <1>5, <2>1 DEF PcInv
    <2>2. CASE j # k
      BY <1>5, <1>7, <2>2 DEF PcInv
    <2> QED
      BY <2>1, <2>2
  <1>8. torn' \/
          /\ Coherent(poc') /\ SeatsOwn(poc)' /\ (restarted' \/ StagesFollowStart(poc'))
    BY DEF PcInv, SeatsOwn
  <1> QED
    BY <1>6, <1>7, <1>8 DEF PcInv

(* What the requests say of a row that is not written by hand.             *)
LEMMA DerivedIs ==
    ASSUME NEW row \in PocRow
    PROVE  /\ Derived(row) \in PocRow /\ Derived(row).status = StatusOf(row)
           /\ \A f \in {"start", "end", "closed", "reason", "done", "owner"} :
                 Derived(row)[f] = row[f]
           /\ StatusOf(Derived(row)) = StatusOf(row)
  BY DEF Derived, StatusOf, PocRow, PocStatus, Outcome

LEMMA StartAgainPcInv ==
    ASSUME PcInv, NEW k \in PocClerk, NEW d \in StageDate, StartPocAgain(k, d)
    PROVE  PcInv'
  <1> DEFINE row == [poc EXCEPT !.start = d, !.done[VM] = d]
             new == Derived(row)
             r == [kind |-> "start", who |-> None, seen |-> poc, new |-> new]
  <1>1. /\ poc.done[VM] = None /\ Intend(k, "start", None, new)
        /\ restarted' = (restarted \/ ~StagesFollowStart(new))
        /\ UNCHANGED <<poc, seats, torn>>
    BY DEF StartPocAgain
  <1>2. poc \in PocRow /\ restarted \in BOOLEAN
    BY DEF PcInv, PocTypeOK
  <1>3. /\ row \in PocRow /\ row.start = d /\ row.done[VM] = d
        /\ \A f \in {"end", "closed", "reason", "owner"} : row[f] = poc[f]
    BY <1>2, PocAssumption DEF PocRow
  <1> HIDE DEF row
  <1>4. /\ new \in PocRow /\ new.start = d /\ new.done[VM] = d
        /\ \A f \in {"end", "closed", "reason", "owner"} : new[f] = poc[f]
        /\ new.status = StatusOf(new)
    BY <1>3, DerivedIs
  <1> HIDE DEF new
  <1>5. r \in IntentType
    BY <1>2, <1>4 DEF IntentType
  <1>6. MeantBy(r)
    BY <1>1, <1>4 DEF MeantBy, MeantStart, Same
  <1> HIDE DEF r
  <1> QED
    BY <1>1, <1>2, <1>5, <1>6, IntendPcInv DEF r

LEMMA WriteDatesPcInv ==
    ASSUME PcInv, NEW k \in PocClerk, NEW given \in SUBSET Stage,
           NEW dates \in [given -> StageDate \cup {None}], WriteDates(k, dates)
    PROVE  PcInv'
  <1> DEFINE row == [poc EXCEPT
                 !.done = [s \in Stage |-> IF s \in DOMAIN dates THEN dates[s] ELSE @[s]],
                 !.start = IF VM \in DOMAIN dates THEN dates[VM] ELSE @]
             new == Derived(row)
             kind == IF VM \in given THEN "start" ELSE "stages"
             r == [kind |-> kind, who |-> None, seen |-> poc, new |-> new]
  <1>1. /\ poc.status # "absent" /\ ~poc.closed /\ StagesFollowStart(new)
        /\ Intend(k, kind, None, new)
        /\ UNCHANGED <<poc, seats, torn>> /\ restarted' = restarted
    BY DEF WriteDates, WithDates
  <1>2. poc \in PocRow /\ restarted \in BOOLEAN /\ poc.closed = FALSE
    BY <1>1 DEF PcInv, PocTypeOK, PocRow
  <1>3. row \in PocRow
    BY <1>2, PocAssumption DEF PocRow
  <1>4. \A f \in {"end", "closed", "reason", "owner"} : row[f] = poc[f]
    BY <1>2 DEF PocRow
  <1>5. /\ VM \in given => row.start = row.done[VM]
        /\ VM \notin given => row.start = poc.start /\ row.done[VM] = poc.done[VM]
    BY <1>2, PocAssumption DEF PocRow
  <1> HIDE DEF row
  <1>6. /\ new \in PocRow /\ new.status = StatusOf(new)
        /\ \A f \in {"end", "closed", "reason", "owner"} : new[f] = poc[f]
        /\ new.start = row.start /\ new.done = row.done
    BY <1>3, <1>4, DerivedIs
  <1> HIDE DEF new
  <1>7. r \in IntentType
    BY <1>2, <1>6 DEF IntentType
  <1>8. MeantBy(r)
    BY <1>1, <1>2, <1>5, <1>6 DEF MeantBy, MeantStart, MeantStages, Same
  <1> HIDE DEF r, kind
  <1> QED
    BY <1>1, <1>2, <1>7, <1>8, IntendPcInv DEF r

LEMMA SetOwnerPcInv ==
    ASSUME PcInv, NEW k \in PocClerk, NEW s \in Stage, NEW u \in Person \cup {None},
           SetStageOwner(k, s, u)
    PROVE  PcInv'
  <1> DEFINE new == [poc EXCEPT !.owner[s] = u]
             kind == IF u = None THEN "clear" ELSE "owner"
             r == [kind |-> kind, who |-> u, seen |-> poc, new |-> new]
  <1>1. /\ Intend(k, kind, u, new) /\ UNCHANGED <<poc, seats, torn>>
        /\ restarted' = restarted
    BY DEF SetStageOwner
  <1>2. poc \in PocRow /\ restarted \in BOOLEAN
    BY DEF PcInv, PocTypeOK
  <1>3. /\ new \in PocRow /\ \A f \in Scalars \cup {"done"} : new[f] = poc[f]
        /\ \A x \in Stage : new.owner[x] \in {poc.owner[x], u}
    BY <1>2 DEF PocRow, Scalars
  <1> HIDE DEF new
  <1>4. kind \in {"owner", "clear"} /\ (kind = "clear" => u = None)
    OBVIOUS
  <1> HIDE DEF kind
  <1>5. r \in IntentType
    BY <1>2, <1>3, <1>4 DEF IntentType
  <1>6. MeantBy(r)
    BY <1>3, <1>4 DEF MeantBy, MeantOwner, Same
  <1>7. kind # "start"
    BY <1>4
  <1> QED
    BY <1>1, <1>2, <1>5, <1>6, <1>7, IntendPcInv

LEMMA ClosePcInv ==
    ASSUME PcInv, NEW k \in PocClerk, NEW outcome \in Outcome, NEW d \in StageDate,
           NEW reason \in BOOLEAN, ClosePoc(k, outcome, d, reason)
    PROVE  PcInv'
  <1> DEFINE new == [poc EXCEPT !.closed = TRUE, !.end = d, !.status = outcome,
                                !.reason = (outcome = "unsuccessful" /\ reason)]
             r == [kind |-> "outcome", who |-> None, seen |-> poc, new |-> new]
  <1>1. /\ poc.done[VM] # None /\ ~poc.closed /\ (poc.start # None => poc.start <= d)
        /\ Intend(k, "outcome", None, new) /\ UNCHANGED <<poc, seats, torn>>
        /\ restarted' = restarted
    BY DEF ClosePoc
  <1>2. poc \in PocRow /\ restarted \in BOOLEAN /\ poc.closed = FALSE
    BY <1>1 DEF PcInv, PocTypeOK, PocRow
  <1>3. /\ new \in PocRow /\ new.closed = TRUE /\ new.end = d /\ new.status = outcome
        /\ new.reason => outcome = "unsuccessful"
        /\ \A f \in {"start", "done", "owner"} : new[f] = poc[f]
    BY <1>2 DEF PocRow, PocStatus
  <1> HIDE DEF new
  <1>4. r \in IntentType
    BY <1>2, <1>3 DEF IntentType
  <1>5. MeantBy(r)
    BY <1>1, <1>2, <1>3 DEF MeantBy, MeantClose, Same
  <1> QED
    BY <1>1, <1>2, <1>4, <1>5, IntendPcInv

LEMMA ReopenPcInv ==
    ASSUME PcInv, NEW k \in PocClerk, ReopenPoc(k) PROVE PcInv'
  <1> DEFINE row == [poc EXCEPT !.closed = FALSE, !.end = None, !.reason = FALSE]
             new == Derived(row)
             r == [kind |-> "outcome", who |-> None, seen |-> poc, new |-> new]
  <1>1. /\ poc.closed /\ Intend(k, "outcome", None, new)
        /\ UNCHANGED <<poc, seats, torn>> /\ restarted' = restarted
    BY DEF ReopenPoc, Reopened
  <1>2. poc \in PocRow /\ restarted \in BOOLEAN /\ poc.closed = TRUE
    BY <1>1 DEF PcInv, PocTypeOK, PocRow
  <1>3. /\ row \in PocRow /\ row.closed = FALSE /\ row.end = None /\ row.reason = FALSE
        /\ \A f \in {"start", "done", "owner"} : row[f] = poc[f]
    BY <1>2 DEF PocRow
  <1> HIDE DEF row
  <1>4. /\ new \in PocRow /\ new.closed = FALSE /\ new.end = None /\ new.reason = FALSE
        /\ new.start = poc.start /\ new.done = poc.done /\ new.owner = poc.owner
        /\ new.status = IF poc.done[VM] # None THEN "running" ELSE "not_started"
    BY <1>3, DerivedIs DEF StatusOf
  <1> HIDE DEF new
  <1>5. r \in IntentType
    BY <1>2, <1>4 DEF IntentType
  <1>6. MeantBy(r)
    BY <1>2, <1>4 DEF MeantBy, MeantReopen, Same
  <1> QED
    BY <1>1, <1>2, <1>5, <1>6, IntendPcInv

LEMMA JoinPcInv ==
    ASSUME PcInv, NEW k \in PocClerk, NEW u \in Person, JoinTeam(k, u) PROVE PcInv'
  <1> DEFINE r == [kind |-> "join", who |-> u, seen |-> poc, new |-> poc]
  <1>1. /\ Intend(k, "join", u, poc) /\ UNCHANGED <<poc, seats, torn>>
        /\ restarted' = restarted
    BY DEF JoinTeam
  <1>2. poc \in PocRow /\ restarted \in BOOLEAN
    BY DEF PcInv, PocTypeOK
  <1>3. r \in IntentType
    BY <1>2 DEF IntentType
  <1>4. MeantBy(r)
    BY DEF MeantBy, MeantJoin
  <1> QED
    BY <1>1, <1>2, <1>3, <1>4, IntendPcInv

LEMMA LeavePcInv ==
    ASSUME PcInv, NEW k \in PocClerk, NEW u \in Person, LeaveTeam(k, u) PROVE PcInv'
  <1> DEFINE new == [poc EXCEPT
                       !.owner = [s \in Stage |-> IF @[s] = u THEN None ELSE @[s]]]
             r == [kind |-> "leave", who |-> u, seen |-> poc, new |-> new]
  <1>1. /\ Intend(k, "leave", u, new) /\ UNCHANGED <<poc, seats, torn>>
        /\ restarted' = restarted
    BY DEF LeaveTeam
  <1>2. poc \in PocRow /\ restarted \in BOOLEAN
    BY DEF PcInv, PocTypeOK
  <1>3. /\ new \in PocRow /\ \A f \in Scalars \cup {"done"} : new[f] = poc[f]
        /\ \A s \in Stage :
              new.owner[s] = IF poc.owner[s] = u THEN None ELSE poc.owner[s]
    BY <1>2 DEF PocRow, Scalars
  <1> HIDE DEF new
  <1>4. r \in IntentType
    BY <1>2, <1>3 DEF IntentType
  <1>5. MeantBy(r)
    BY <1>3 DEF MeantBy, MeantLeave, Same
  <1> QED
    BY <1>1, <1>2, <1>4, <1>5, IntendPcInv

LEMMA RequestPcInv ==
    ASSUME PcInv, NEW k \in PocClerk, IntendPoc(k) PROVE PcInv'
  <1>1. ASSUME NEW s \in Stage, NEW d \in StageDate \cup {None}, SetStage(k, s, d)
        PROVE  PcInv'
    <2>1. [x \in {s} |-> d] \in [{s} -> StageDate \cup {None}] /\ {s} \in SUBSET Stage
      OBVIOUS
    <2>2. WriteDates(k, [x \in {s} |-> d])
      BY <1>1 DEF SetStage
    <2> QED
      BY <2>1, <2>2, WriteDatesPcInv
  <1>2. ASSUME NEW given \in SUBSET Stage, NEW dates \in [given -> StageDate \cup {None}],
               UpdatePoc(k, dates)
        PROVE  PcInv'
    BY <1>2, WriteDatesPcInv DEF UpdatePoc
  <1> QED
    BY <1>1, <1>2, StartAgainPcInv, SetOwnerPcInv, ClosePcInv, ReopenPcInv,
       JoinPcInv, LeavePcInv
    DEF IntendPoc

-----------------------------------------------------------------------------
(* No request makes a row absent again.                                    *)
LEMMA NeverAbsentAgain ==
    ASSUME NEW r \in IntentType, MeantBy(r)
    PROVE  r.new.status = r.seen.status \/ r.new.status # "absent"
  BY DEF MeantBy, MeantStart, MeantStages, MeantClose, MeantReopen, MeantOwner,
         MeantJoin, MeantLeave, Same, Scalars, Outcome, StatusOf

(* A request that was not torn leaves a row that holds together: the       *)
(* columns it sets and the ones that others set meanwhile fit.             *)
LEMMA WrittenPocStands ==
    ASSUME NEW r \in IntentType, MeantBy(r), poc \in PocRow,
           Coherent(poc), Coherent(r.seen), ~KeyRefuses(r), StillHolds(r),
           r.seen.status # "absent" => poc.status # "absent",
           NEW row \in PocRow, row = Written(poc, r.seen, r.new)
    PROVE  /\ Coherent(row)
           /\ \/ ~(r.kind \in {"start", "stages"})
                 /\ row.start = poc.start /\ \A s \in Stage : row.done[s] = poc.done[s]
              \/ /\ r.kind = "start" /\ row.start = r.new.start
                 /\ \A s \in Stage : row.done[s] = r.new.done[s]
              \/ /\ r.kind = "stages" /\ row.start = poc.start /\ row.start = r.new.start
                 /\ \A s \in Stage : row.done[s] \in {poc.done[s], r.new.done[s]}
                 /\ StagesFollowStart(r.new)
  <1>0. r.seen \in PocRow /\ r.new \in PocRow
    BY DEF IntentType
  <1>1. /\ row.status = IF r.new.status # r.seen.status THEN r.new.status ELSE poc.status
        /\ row.start = IF r.new.start # r.seen.start THEN r.new.start ELSE poc.start
        /\ row.end = IF r.new.end # r.seen.end THEN r.new.end ELSE poc.end
        /\ row.closed = IF r.new.closed # r.seen.closed THEN r.new.closed ELSE poc.closed
        /\ row.reason = IF r.new.reason # r.seen.reason THEN r.new.reason ELSE poc.reason
        /\ \A s \in Stage : row.done[s] = IF r.new.done[s] # r.seen.done[s]
                                           THEN r.new.done[s] ELSE poc.done[s]
    BY <1>0, WrittenPoc DEF Scalars
  <1>2. VM \in Stage
    BY PocAssumption
  <1>3. /\ poc.closed \in BOOLEAN /\ poc.reason \in BOOLEAN
        /\ r.seen.closed \in BOOLEAN /\ r.seen.reason \in BOOLEAN
        /\ row.closed \in BOOLEAN /\ row.reason \in BOOLEAN
        /\ r.new.closed \in BOOLEAN /\ r.new.reason \in BOOLEAN
    BY <1>0 DEF PocRow
  <1>4. \A x \in StageDate : x # None
    BY PocAssumption DEF StageDate
  <1>5. CASE MeantStart(r)
    <2>1. /\ r.new.end = r.seen.end /\ r.new.closed = r.seen.closed
          /\ r.new.reason = r.seen.reason
          /\ r.new.start = r.new.done[VM] /\ r.new.status = StatusOf(r.new)
          /\ r.kind = "start"
      BY <1>5 DEF MeantStart, Same
    <2>2. /\ poc.start = r.seen.start /\ poc.closed = r.seen.closed
          /\ poc.done = r.seen.done
      BY <2>1 DEF StillHolds
    <2>3. r.seen.closed = FALSE
      BY <1>2, <1>3, <1>5 DEF MeantStart, Coherent
    <2>4. /\ row.start = r.new.start /\ \A s \in Stage : row.done[s] = r.new.done[s]
          /\ row.end = poc.end /\ row.closed = FALSE /\ row.reason = poc.reason
      BY <1>1, <2>1, <2>2, <2>3
    <2>5. r.new.status = IF r.new.done[VM] # None THEN "running" ELSE "not_started"
      BY <2>1, <2>3 DEF StatusOf
    <2>6. poc.end = None /\ poc.reason = FALSE
      BY <1>3, <2>2, <2>3 DEF Coherent, Outcome
    <2>7. CASE r.new.status # r.seen.status
      <3>1. row.status = r.new.status
        BY <1>1, <2>7
      <3> QED
        BY <1>2, <2>1, <2>4, <2>5, <2>6, <3>1 DEF Coherent, StatusOf, Outcome
    <2>8. CASE r.new.status = r.seen.status
      <3>1. row.status = poc.status /\ r.seen.status # "absent" /\ poc.status # "absent"
        BY <1>1, <2>5, <2>8
      <3>2. poc.status = r.seen.status
        BY <2>2, <2>3, <3>1 DEF Coherent, StatusOf
      <3> QED
        BY <1>2, <2>1, <2>4, <2>5, <2>6, <2>8, <3>1, <3>2 DEF Coherent, StatusOf, Outcome
    <2> QED
      BY <2>1, <2>4, <2>7, <2>8
  <1>6. CASE MeantStages(r)
    <2>1. /\ r.new.start = r.seen.start /\ r.new.end = r.seen.end
          /\ r.new.closed = r.seen.closed /\ r.new.reason = r.seen.reason
          /\ r.new.done[VM] = r.seen.done[VM] /\ r.new.status = StatusOf(r.new)
          /\ r.kind = "stages" /\ r.seen.closed = FALSE /\ r.seen.status # "absent"
          /\ StagesFollowStart(r.new)
      BY <1>6 DEF MeantStages, Same
    <2>2. poc.start = r.seen.start /\ poc.closed = r.seen.closed
      BY <2>1 DEF StillHolds
    <2>3. r.new.status = r.seen.status
      BY <2>1 DEF Coherent, StatusOf
    <2>4. /\ row.start = poc.start /\ row.done[VM] = poc.done[VM]
          /\ row.status = poc.status /\ row.end = poc.end
          /\ row.closed = poc.closed /\ row.reason = poc.reason
      BY <1>1, <1>2, <2>1, <2>3
    <2>5. Coherent(row)
      BY <2>4 DEF Coherent, StatusOf
    <2>6. \A s \in Stage : row.done[s] \in {poc.done[s], r.new.done[s]}
      BY <1>1
    <2> QED
      BY <2>1, <2>2, <2>4, <2>5, <2>6
  <1>7. CASE MeantClose(r)
    <2>1. /\ r.new.start = r.seen.start /\ r.new.done = r.seen.done
          /\ r.kind = "outcome" /\ r.seen.closed = FALSE /\ r.seen.done[VM] # None
          /\ r.new.closed = TRUE /\ r.new.end \in StageDate /\ r.new.status \in Outcome
          /\ (r.seen.start # None => r.seen.start <= r.new.end)
          /\ (r.new.reason => r.new.status = "unsuccessful")
      BY <1>7 DEF MeantClose, Same
    <2>2. \A f \in {"start", "status", "closed", "end", "reason"} : poc[f] = r.seen[f]
      BY <2>1 DEF StillHolds
    <2>3. /\ row.start = r.seen.start /\ row.start = poc.start
          /\ row.status = r.new.status /\ row.closed = TRUE
          /\ row.end = r.new.end /\ row.reason = r.new.reason
          /\ \A s \in Stage : row.done[s] = poc.done[s]
      BY <1>1, <2>1, <2>2
    <2>4. r.seen.start # None
      BY <2>1 DEF Coherent
    <2>5. row.start = row.done[VM]
      BY <1>2, <2>2, <2>3 DEF Coherent
    <2>6. Coherent(row)
      BY <1>4, <2>1, <2>3, <2>4, <2>5 DEF Coherent, StatusOf
    <2> QED
      BY <2>1, <2>3, <2>6
  <1>8. CASE MeantReopen(r)
    <2>1. /\ r.new.start = r.seen.start /\ r.new.done = r.seen.done
          /\ r.kind = "outcome" /\ r.seen.closed = TRUE
          /\ r.new.closed = FALSE /\ r.new.end = None /\ r.new.reason = FALSE
          /\ r.new.status = IF r.seen.done[VM] # None THEN "running" ELSE "not_started"
      BY <1>8 DEF MeantReopen, Same
    <2>2. \A f \in {"start", "status", "closed", "end", "reason"} : poc[f] = r.seen[f]
      BY <2>1 DEF StillHolds
    <2>3. /\ row.start = poc.start
          /\ row.status = r.new.status /\ row.closed = FALSE
          /\ row.end = None /\ row.reason = FALSE
          /\ \A s \in Stage : row.done[s] = poc.done[s]
      BY <1>1, <2>1, <2>2
    <2>4. row.start = row.done[VM] /\ poc.done[VM] = r.seen.done[VM]
      BY <1>2, <2>2, <2>3 DEF Coherent
    <2>5. row.status = IF row.done[VM] # None THEN "running" ELSE "not_started"
      BY <1>2, <2>1, <2>3, <2>4
    <2>6. Coherent(row)
      BY <2>3, <2>4, <2>5 DEF Coherent, StatusOf, Outcome
    <2> QED
      BY <2>1, <2>3, <2>6
  <1>9. CASE MeantOwner(r) \/ MeantJoin(r) \/ MeantLeave(r)
    <2>1. /\ \A f \in Scalars : r.new[f] = r.seen[f]
          /\ r.new.done = r.seen.done /\ r.kind \notin {"start", "stages"}
      BY <1>9 DEF MeantOwner, MeantJoin, MeantLeave, Same, Scalars
    <2>2. /\ row.start = poc.start /\ row.status = poc.status /\ row.end = poc.end
          /\ row.closed = poc.closed /\ row.reason = poc.reason
          /\ \A s \in Stage : row.done[s] = poc.done[s]
      BY <1>1, <2>1 DEF Scalars
    <2>3. Coherent(row)
      BY <1>2, <2>2 DEF Coherent, StatusOf
    <2> QED
      BY <2>1, <2>2, <2>3
  <1> QED
    BY <1>5, <1>6, <1>7, <1>8, <1>9 DEF MeantBy

(* Whoever owns a stage once a request is written is on the team it        *)
(* leaves.                                                                 *)
LEMMA WrittenOwnersSit ==
    ASSUME NEW r \in IntentType, MeantBy(r), poc \in PocRow, SeatsOwn(poc),
           StillHolds(r), NEW row \in PocRow, row = Written(poc, r.seen, r.new),
           NEW crew,
           crew = CASE r.kind = "join" -> seats \cup {r.who}
                    [] r.kind = "leave" -> seats \ {r.who}
                    [] OTHER -> seats
    PROVE  \A s \in Stage : row.owner[s] # None => row.owner[s] \in crew
  <1> SUFFICES ASSUME NEW s \in Stage, row.owner[s] # None
               PROVE  row.owner[s] \in crew
    OBVIOUS
  <1>0. r.seen \in PocRow /\ r.new \in PocRow
    BY DEF IntentType
  <1>1. row.owner[s] = IF r.new.owner[s] # r.seen.owner[s]
                       THEN r.new.owner[s] ELSE poc.owner[s]
    BY <1>0, WrittenPoc
  <1>2. poc.owner[s] # None => poc.owner[s] \in seats
    BY DEF SeatsOwn
  <1>3. CASE MeantLeave(r)
    <2>1. /\ r.kind = "leave" /\ r.who \in Person
          /\ r.new.owner[s] = IF r.seen.owner[s] = r.who THEN None ELSE r.seen.owner[s]
      BY <1>3 DEF MeantLeave
    <2>2. poc.owner[s] = r.who => r.seen.owner[s] = r.who
      BY <2>1 DEF StillHolds, Owned
    <2>3. r.who # None
      BY <2>1, PocAssumption
    <2>4. row.owner[s] = poc.owner[s] /\ poc.owner[s] # r.who
      BY <1>1, <2>1, <2>2, <2>3
    <2> QED
      BY <1>2, <2>1, <2>4
  <1>4. CASE MeantJoin(r)
    BY <1>1, <1>2, <1>4 DEF MeantJoin
  <1>5. CASE MeantOwner(r)
    <2>1. /\ r.kind \in {"owner", "clear"} /\ crew = seats
          /\ (r.kind = "clear" => r.who = None)
          /\ r.new.owner[s] \in {r.seen.owner[s], r.who}
      BY <1>5 DEF MeantOwner
    <2>2. r.kind = "owner" => r.who \in seats
      BY DEF StillHolds
    <2> QED
      BY <1>1, <1>2, <2>1, <2>2
  <1>6. CASE MeantStart(r) \/ MeantStages(r) \/ MeantClose(r) \/ MeantReopen(r)
    <2>1. r.new.owner = r.seen.owner /\ r.kind \notin {"join", "leave"}
      BY <1>6 DEF MeantStart, MeantStages, MeantClose, MeantReopen, Same
    <2> QED
      BY <1>1, <1>2, <2>1
  <1> QED
    BY <1>3, <1>4, <1>5, <1>6 DEF MeantBy

LEMMA CommitPocPcInv ==
    ASSUME PcInv, NEW k \in PocClerk, CommitPoc(k) PROVE PcInv'
  <1> DEFINE r == intent[k]
  <1>1. /\ r # NoIntent /\ ~KeyRefuses(r) /\ poc' = Written(poc, r.seen, r.new)
        /\ seats' = CASE r.kind = "join" -> seats \cup {r.who}
                      [] r.kind = "leave" -> seats \ {r.who}
                      [] OTHER -> seats
        /\ intent' = [intent EXCEPT ![k] = NoIntent]
        /\ torn' = (torn \/ ~StillHolds(r)) /\ restarted' = restarted
    BY DEF CommitPoc
  <1>2. /\ poc \in PocRow /\ intent \in [PocClerk -> IntentType] /\ r \in IntentType
        /\ seats \subseteq Person /\ torn \in BOOLEAN /\ restarted \in BOOLEAN
    BY PocTypes DEF PcInv
  <1>3. /\ MeantBy(r) /\ (r.seen.status # "absent" => poc.status # "absent")
        /\ r.kind = "start" => restarted \/ StagesFollowStart(r.new)
    BY <1>1 DEF PcInv
  <1> HIDE DEF r
  <1>4. r.seen \in PocRow /\ r.new \in PocRow
    BY <1>2 DEF IntentType
  <1>5. /\ poc' \in PocRow
        /\ poc'.status = IF r.new.status # r.seen.status THEN r.new.status ELSE poc.status
    BY <1>1, <1>2, <1>4, WrittenPoc DEF Scalars
  <1>6. poc.status # "absent" => poc'.status # "absent"
    BY <1>2, <1>3, <1>5, NeverAbsentAgain
  <1>7. seats' \subseteq Person
    <2>1. r.kind = "join" => r.who \in Person
      BY <1>3 DEF MeantBy, MeantStart, MeantStages, MeantClose, MeantReopen,
                  MeantOwner, MeantJoin, MeantLeave
    <2> QED
      BY <1>1, <1>2, <2>1
  <1>8. /\ intent' \in [PocClerk -> IntentType] /\ intent'[k] = NoIntent
        /\ \A j \in PocClerk \ {k} : intent'[j] = intent[j]
    BY <1>1, <1>2, PocTypes
  <1>9. PocTypeOK'
    BY <1>1, <1>2, <1>5, <1>7, <1>8 DEF PocTypeOK, IntentType
  <1>10. ASSUME ~torn'
         PROVE  /\ Coherent(poc') /\ SeatsOwn(poc)'
                /\ restarted' \/ StagesFollowStart(poc')
    <2>1. ~torn /\ StillHolds(r)
      BY <1>1, <1>10
    <2>2. /\ Coherent(poc) /\ SeatsOwn(poc) /\ (restarted \/ StagesFollowStart(poc))
          /\ Coherent(r.seen)
      BY <1>1, <2>1 DEF PcInv, r
    <2>3. SeatsOwn(poc)'
      BY <1>1, <1>2, <1>3, <1>5, <2>1, <2>2, WrittenOwnersSit DEF SeatsOwn
    <2>4. /\ Coherent(poc')
          /\ \/ ~(r.kind \in {"start", "stages"})
                /\ poc'.start = poc.start /\ \A s \in Stage : poc'.done[s] = poc.done[s]
             \/ /\ r.kind = "start" /\ poc'.start = r.new.start
                /\ \A s \in Stage : poc'.done[s] = r.new.done[s]
             \/ /\ r.kind = "stages" /\ poc'.start = poc.start
                /\ poc'.start = r.new.start
                /\ \A s \in Stage : poc'.done[s] \in {poc.done[s], r.new.done[s]}
                /\ StagesFollowStart(r.new)
      BY <1>1, <1>2, <1>3, <1>5, <2>1, <2>2, WrittenPocStands
    <2>5. restarted \/ StagesFollowStart(poc')
      BY <1>3, <2>2, <2>4 DEF StagesFollowStart
    <2> QED
      BY <1>1, <2>3, <2>4, <2>5
  <1> QED
    BY <1>1, <1>6, <1>8, <1>9, <1>10 DEF PcInv

LEMMA RefusePocPcInv ==
    ASSUME PcInv, NEW k \in PocClerk, RefusePoc(k) PROVE PcInv'
  <1>1. intent \in [PocClerk -> IntentType] /\ NoIntent \in IntentType
    BY PocTypes DEF PcInv
  <1>2. /\ intent' = [intent EXCEPT ![k] = NoIntent]
        /\ UNCHANGED <<poc, seats, restarted, torn>>
    BY DEF RefusePoc
  <1>3. /\ intent' \in [PocClerk -> IntentType] /\ intent'[k] = NoIntent
        /\ \A j \in PocClerk \ {k} : intent'[j] = intent[j]
    BY <1>1, <1>2
  <1>4. PocTypeOK'
    BY <1>2, <1>3 DEF PcInv, PocTypeOK, IntentType
  <1> QED
    BY <1>2, <1>3, <1>4 DEF PcInv, SeatsOwn

LEMMA PocNextPcInv == PcInv /\ [PocNext]_pocVars => PcInv'
  <1> SUFFICES ASSUME PcInv, [PocNext]_pocVars PROVE PcInv'
    OBVIOUS
  <1>1. CASE UNCHANGED pocVars
    BY <1>1 DEF pocVars, PcInv, PocTypeOK, SeatsOwn
  <1> QED
    BY <1>1, RequestPcInv, CommitPocPcInv, RefusePocPcInv DEF PocNext

(* Every request on a POC, its stages and its team keeps the strengthening, *)
(* from any row that it may have read.                                     *)
THEOREM PocInductive == PocSpec => []PcInv
  <1> QED
    BY PocInitPcInv, PocNextPcInv, PTL DEF PocSpec

(* A POC, its team and the requests under way keep their types.            *)
THEOREM PocTypeCorrect == PocSpec => []PocTypeOK
  <1>1. PcInv => PocTypeOK
    BY DEF PcInv
  <1> QED
    BY <1>1, PocInductive, PTL

(* However many requests cross without tearing what another had checked,   *)
(* a POC starts with its VM, is closed exactly with an outcome and an end  *)
(* that does not come before the start, keeps a reason of a failure alone, *)
(* dates no stage before the start and has each stage owned by one of the  *)
(* team.                                                                   *)
THEOREM PocsHoldTogether == PocSpec => []PocStands
  <1>1. PcInv => PocStands
    BY DEF PcInv, PocStands, Coherent, SeatsOwn
  <1> QED
    BY <1>1, PocInductive, PTL

-----------------------------------------------------------------------------
(* Side by side: MCOffice takes only steps of its parts, and begins in states *)
(* that each of them may be in.                                            *)

OfficeInv == NInv /\ RvInv /\ PcInv /\ LInv /\ HInv

(* The networks that screens are looked at in are sound ones. *)
LEMMA NetworksNInv ==
    ASSUME NEW firms \in Networks, Begins(firms)
    PROVE  NInv
  <1>1. PICK m \in {boss, m1} : firms =
           [c \in Company |->
              CASE c = c1 -> Established("distributor", None, {m1})
                [] c = c2 -> Established("partner", c1, {m})
                [] c = c3 -> Established("customer", None, {boss})]
    BY DEF Networks
  <1>2. /\ DOMAIN firms = Company
        /\ firms[c1] = Established("distributor", None, {m1})
        /\ firms[c2] = Established("partner", c1, {m})
        /\ firms[c3] = Established("customer", None, {boss})
        /\ firms = [c \in DOMAIN firms |-> firms[c]]
    BY <1>1, OfficeAssumption
  <1>3. Company = {c1, c2, c3} /\ {m1} \subseteq Admin /\ {m} \subseteq Admin /\ {boss} \subseteq Admin
    BY OfficeAssumption DEF Admin
  <1>4. firms \in [Company -> Firm]
    <2>1. \A c \in Company : firms[c] \in Firm
      BY <1>2, <1>3 DEF Established, Firm, Type
    <2> QED
      BY <1>2, <2>1
  <1>5. NetworkTypeOK
    <2>1. NoFirm \in Firm
      BY DEF NoFirm, Firm, Type
    <2> QED
      BY <1>4, <2>1 DEF Begins, NetworkTypeOK, NoEdit, NoOpp
  <1>6. HierarchyStands
    <2>1. firm = firms
      BY DEF Begins
    <2> QED
      BY <1>2, <1>3, <2>1, PeopleAssumption, OfficeAssumption
         DEF HierarchyStands, Established, Live
  <1>7. OneEditor /\ EditIsChecked
    BY DEF Begins, OneEditor, EditIsChecked
  <1> QED
    BY <1>5, <1>6, <1>7 DEF NInv

LEMMA OfficeInitInv == OfficeInit => OfficeInv
  <1> SUFFICES ASSUME OfficeInit PROVE OfficeInv
    OBVIOUS
  <1>1. NInv
    <2>1. CASE NetworkInit
      BY <2>1, NetworkInitNInv
    <2>2. CASE \E firms \in Networks : Begins(firms)
      BY <2>2, NetworksNInv
    <2> QED
      BY <2>1, <2>2 DEF OfficeInit
  <1> QED
    BY <1>1, ReviewInitRvInv, PocInitPcInv, LearningInitLInv, LibraryInitHInv
       DEF OfficeInit, OfficeInv

(* Every step of the desks is, for each part, a step of its own or none.   *)
LEMMA StepsOfTheDesks ==
    ASSUME NetworkTypeOK, [OfficeNext]_officeVars
    PROVE  /\ [NetworkNext]_networkVars /\ [ReviewNext]_reviewVars /\ [PocNext]_pocVars
           /\ [LearningNext]_learningVars /\ [LibraryNext]_libraryVars
  <1>1. /\ k1 \in Clerk /\ k1 \in PocClerk /\ k2 \in PocClerk
        /\ k1 \in ReviewClerk /\ k2 \in ReviewClerk /\ s1 \in ReviewClerk
        /\ LastDate \in StageDate /\ Stage # {} /\ VM \in Stage
        /\ {boss} \subseteq Admin /\ {m1} \subseteq Admin
    BY OfficeAssumption, PocAssumption DEF StageDate, Admin
  <1>2. \A c \in Company : firm[c].type \in Type /\ firm[c].managers \in SUBSET Admin
    BY DEF NetworkTypeOK, Firm
  <1>3. CASE Companies
    <2>1. UNCHANGED <<reviewVars, pocVars, learningVars, libraryVars>>
      BY <1>3 DEF Companies, Only
    <2>2. PICK k \in Clerk : CommitEdit(k) \/ \E c \in Company : Found(k, c)
      BY <1>3 DEF Companies, Only
    <2>3. ASSUME NEW c \in Company, Found(k, c) PROVE EditCompany(k, c)
      <3>1. {} \in SUBSET Admin
        OBVIOUS
      <3> QED
        BY <1>2, <2>3, <3>1 DEF Found, EditCompany
    <2> QED
      BY <2>1, <2>2, <2>3 DEF NetworkNext
  <1>4. CASE Looking
    <2>1. UNCHANGED <<reviewVars, pocVars, learningVars, libraryVars>>
      BY <1>4 DEF Looking, Only
    <2>2. \/ CommitEdit(k1) \/ \E c \in Company : Relink(c)
          \/ \E o \in Opp : WorkOn(o)
      BY <1>4 DEF Looking, Only
    <2>3. ASSUME NEW c \in Company, Relink(c) PROVE EditCompany(k1, c)
      BY <1>1, <1>2, <2>3 DEF Relink, EditCompany
    <2> QED
      BY <1>1, <2>1, <2>2, <2>3 DEF NetworkNext
  <1>5. CASE Reviews
    <2>1. UNCHANGED <<networkVars, pocVars, learningVars, libraryVars>>
      BY <1>5 DEF Reviews, Only
    <2>2. ReviewNext
      BY <1>1, <1>5 DEF Reviews, Only, ReviewNext
    <2> QED
      BY <2>1, <2>2
  <1>6. CASE Pocs
    <2>1. UNCHANGED <<networkVars, reviewVars, learningVars, libraryVars>>
      BY <1>6 DEF Pocs, Only
    <2>2. \/ Stages(k1) \/ Staffing(k2)
          \/ \E k \in PocClerk : CommitPoc(k) \/ RefusePoc(k)
      BY <1>6 DEF Pocs, Only, Asks
    <2>3. ASSUME Stages(k1) PROVE IntendPoc(k1)
      BY <1>1, <2>3 DEF Stages, IntendPoc
    <2>4. ASSUME Staffing(k2) PROVE IntendPoc(k2)
      BY <1>1, <2>4 DEF Staffing, IntendPoc, Outcome
    <2>5. PocNext
      BY <1>1, <2>2, <2>3, <2>4 DEF PocNext
    <2> QED
      BY <2>1, <2>5
  <1>7. CASE Courses \/ Documents
    BY <1>7 DEF Courses, Documents, Only
  <1>8. CASE UNCHANGED officeVars
    BY <1>8 DEF officeVars
  <1> QED
    BY <1>3, <1>4, <1>5, <1>6, <1>7, <1>8 DEF OfficeNext

LEMMA OfficeNextInv == OfficeInv /\ [OfficeNext]_officeVars => OfficeInv'
  <1> SUFFICES ASSUME OfficeInv, [OfficeNext]_officeVars PROVE OfficeInv'
    OBVIOUS
  <1>1. NetworkTypeOK
    BY DEF OfficeInv, NInv
  <1>2. /\ [NetworkNext]_networkVars /\ [ReviewNext]_reviewVars /\ [PocNext]_pocVars
        /\ [LearningNext]_learningVars /\ [LibraryNext]_libraryVars
    BY <1>1, StepsOfTheDesks
  <1> QED
    BY <1>2, NetworkNextNInv, ReviewNextRvInv, PocNextPcInv, LearningNextLInv,
       LibraryNextHInv DEF OfficeInv

(* What every part of the back office keeps alone, all keep side by side.  *)
THEOREM OfficeInductive == OfficeSpec => []OfficeInv
  BY OfficeInitInv, OfficeNextInv, PTL DEF OfficeSpec

(* The parts of the back office side by side keep their types: companies,  *)
(* reviews, POCs, courses and documents; and the networks that screens are *)
(* looked at in, which no request of the run has made, are sound ones.     *)
THEOREM OfficeTypeCorrect == OfficeSpec => []OfficeTypeOK
  <1>1. OfficeInv => OfficeTypeOK
    BY DEF OfficeInv, OfficeTypeOK, NInv, RvInv, PcInv, LInv, HInv, BInv
  <1> QED
    BY <1>1, OfficeInductive, PTL

(* In the networks that screens are looked at in, lists, pages, exports    *)
(* and widgets of one viewer agree (deps.py and the routers).              *)
THEOREM OfficeRoutesAgree == OfficeSpec => []RoutesCompared
  <1>1. OfficeInv => RoutesCompared
    BY TypedRoutesAgree DEF OfficeInv, NInv, RoutesCompared
  <1> QED
    BY <1>1, OfficeInductive, PTL

(* In those networks the figures of different screens are made of the same *)
(* rows (dashboard_service.py).                                            *)
THEOREM OfficeFiguresAgree == OfficeSpec => []FiguresCompared
  <1>1. OfficeInv => FiguresCompared
    BY TypedFiguresAgree DEF OfficeInv, NInv, FiguresCompared
  <1> QED
    BY <1>1, OfficeInductive, PTL
=============================================================================
