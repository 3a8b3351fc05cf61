------------------------------ MODULE MCOffice ------------------------------
(***************************************************************************)
(* The back office: companies and what the screens show of them, reviews,  *)
(* POCs, courses, documents.                                               *)
(*                                                                         *)
(* These parts share no state, so what a property says of one of them does *)
(* not depend on steps of the others: a behaviour exercises one part, the  *)
(* "desk" of its initial state, and the rest stays as it begins.  Nothing  *)
(* is explored past a step that a property excuses (overlapping edits, a   *)
(* write on what was checked and is gone): there it holds whatever follows.*)
(***************************************************************************)
EXTENDS Screens, ReviewTxn, PocTxn, Learning, Library, TLC

CONSTANTS c1, c2, c3, boss, m1, r1, o1, k1, k2,
          f1, f2, f3, q1, d1, d2, d3, l1, l2, quiz, u1, t1, t2, s1

Desk == {"companies", "screens", "reviews", "pocs", "courses", "documents"}

(* The names are of those they stand for. *)
ASSUME OfficeAssumption ==
    /\ Company = {c1, c2, c3} /\ c1 # c2 /\ c1 # c3 /\ c2 # c3
    /\ boss = Boss /\ m1 \in Manager
    /\ {k1, k2} \subseteq Clerk \cap PocClerk \cap ReviewClerk
    /\ s1 \in ReviewClerk /\ LastDate >= 1

VARIABLE desk

officeVars == <<desk, networkVars, reviewVars, pocVars, learningVars, libraryVars>>

(* Quizzes or none, lessons added and withdrawn. *)
Syllabi == {[modules |-> {l1, quiz}, assessed |-> TRUE, pass |-> 2],
            [modules |-> {l1, l2}, assessed |-> FALSE, pass |-> 1]}

-----------------------------------------------------------------------------
(* The screens are looked at in networks that were set up before: a        *)
(* distributor with a reseller, and a company beside them.  Managers come  *)
(* and go, resellers are linked and unlinked, companies are closed.        *)
Established(type, parent, managers) ==
    [state |-> "live", type |-> type, parent |-> parent, managers |-> managers]

Networks ==
    {[c \in Company |->
        CASE c = c1 -> Established("distributor", None, {m1})
          [] c = c2 -> Established("partner", c1, {m})
          [] c = c3 -> Established("customer", None, {boss})] : m \in {boss, m1}}

(* One clerk changes them, the type apart, at times when the opportunity   *)
(* does not move.                                                          *)
Relink(c) ==
    /\ \A o \in Opp : opp[o].status \in {"absent", "approved", "won", "removed"}
    /\ \/ \E p \in Company \cup {None}, book \in {{boss}, {m1}} :
             UpdateCompany(k1, c, firm[c].type, p, book)
       \/ CloseCompany(k1, c)

(* For the hierarchy it matters who creates a company, and not who else    *)
(* looks after it.                                                         *)
Found(k, c) ==
    \/ \E type \in Type, parent \in Company \cup {None} :
          \/ \E a \in Admin : CreateCompany(k, a, c, type, parent, {})
          \/ UpdateCompany(k, c, type, parent, firm[c].managers)
    \/ CloseCompany(k, c)

-----------------------------------------------------------------------------
OfficeInit ==
    /\ desk \in Desk
    /\ ReviewInit /\ PocInit /\ LearningInit /\ LibraryInit
    /\ desk # "courses" => course.assessed
    /\ \/ desk # "screens" /\ NetworkInit
       \/ desk = "screens" /\ \E firms \in Networks : Begins(firms)

Only(part, action) ==
    /\ desk = part /\ UNCHANGED desk /\ action
    /\ part \notin {"companies", "screens"} => UNCHANGED networkVars
    /\ part # "reviews" => UNCHANGED reviewVars
    /\ part # "pocs" => UNCHANGED pocVars
    /\ part # "courses" => UNCHANGED learningVars
    /\ part # "documents" => UNCHANGED libraryVars

(* One person works on the stages, the other staffs the POC, and either    *)
(* starts and ends it; a request that changes nothing is left out.         *)
Stages(k) ==
    \/ \E d \in StageDate : StartPocAgain(k, d)
    \/ \E s \in Stage, d \in StageDate \cup {None} : SetStage(k, s, d)
    \/ \E dates \in [Stage -> StageDate \cup {None}] : UpdatePoc(k, dates)
    \/ \E d \in StageDate, outcome \in Outcome : ClosePoc(k, outcome, d, FALSE)
    \/ ReopenPoc(k)

Staffing(k) ==
    \/ StartPocAgain(k, LastDate)
    \/ \E s \in Stage, u \in Person \cup {None} : SetStageOwner(k, s, u)
    \/ \E u \in Person : JoinTeam(k, u) \/ LeaveTeam(k, u)
    \/ ClosePoc(k, "unsuccessful", LastDate, TRUE)

Asks(k, ask) ==
    ask /\ (intent'[k].new # intent'[k].seen \/ intent'[k].kind \in {"join", "leave"})

Pocs ==
    Only("pocs", /\ \/ Asks(k1, Stages(k1)) \/ Asks(k2, Staffing(k2))
                    \/ \E k \in PocClerk : CommitPoc(k) \/ RefusePoc(k)
                 /\ ~torn')
(* Two requests cross, and a pass of the sweep with them; one reviewer,    *)
(* because claims are told apart by their number.                          *)
Reviews ==
    Only("reviews", /\ \/ ReviewRequest(k1) \/ ReviewRequest(k2) \/ ReviewSweep(s1)
                       \/ \E k \in ReviewClerk : CommitTurn(k)
                    /\ ~undercut')
Courses == Only("courses", ~raced /\ LearningNext)
Documents == Only("documents", ~clobbered /\ LibraryNext)
Companies ==
    Only("companies", ~overlapped /\ \E k \in Clerk :
                         CommitEdit(k) \/ \E c \in Company : Found(k, c))
(* The superadmin sees every POC without a seat on its team. *)
Looking ==
    Only("screens", \/ CommitEdit(k1) \/ \E c \in Company : Relink(c)
                    \/ edit[k1] = NoEdit /\ \E o \in Opp : WorkOn(o)
                                          /\ ~OnTeam(boss, o)')

OfficeNext == Companies \/ Looking \/ Reviews \/ Pocs \/ Courses \/ Documents

OfficeSpec == OfficeInit /\ [][OfficeNext]_officeVars

-----------------------------------------------------------------------------
OfficeTypeOK ==
    /\ NetworkTypeOK /\ ReviewTypeOK /\ PocTypeOK
    /\ LearningTypeOK /\ LibraryTypeOK

(* Lists, pages, exports and widgets of one viewer agree (Screens), in     *)
(* every state of the network there is to look at.                         *)
RoutesCompared == desk = "screens" => RoutesAgree

(* The figures of different screens are made of the same rows (Screens),   *)
(* in every state of the network there is to look at.                      *)
FiguresCompared == desk = "screens" => FiguresAgree
=============================================================================
