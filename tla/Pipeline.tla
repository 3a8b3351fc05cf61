------------------------------ MODULE Pipeline -------------------------------
(***************************************************************************)
(* An opportunity from draft to outcome, the chasing of claimed reviews,   *)
(* and the tier of the companies whose opportunities are accepted.         *)
(*                                                                         *)
(* Every action is one whole request, or one pass of a daily sweep, in a   *)
(* transaction of its own.  A registration refused as a duplicate changes  *)
(* nothing, so duplicate detection is no more here than the choice not to  *)
(* act.                                                                    *)
(***************************************************************************)
EXTENDS TierRules, FiniteSets

CONSTANTS
    Opportunity, Company, Admin,
    None,            \* NULL: no company (a direct deal), no reviewer
    ReminderDays,    \* REVIEW_REMINDER_DAYS
    EscalationDays   \* REVIEW_ESCALATION_DAYS

ASSUME OpportunityAssumption == IsFiniteSet(Opportunity)
ASSUME NoneAssumption == None \notin Company /\ None \notin Admin
ASSUME ReviewAssumption ==
    /\ ReminderDays \in Nat /\ EscalationDays \in Nat
    /\ ReminderDays <= MaxAge /\ EscalationDays <= MaxAge

VARIABLES
    opps,       \* opportunities
    companies,  \* the tier columns of companies
    best        \* history: the best tier each company ever qualified for

vars == <<opps, companies, best>>

Status == {"absent", "draft", "pending_review", "under_review", "approved",
           "rejected", "removed", "won", "lost"}

OpportunityRow ==
    [status : Status, company : Company \cup {None},
     reviewer : Admin \cup {None}, claimed : Age,
     reminded : BOOLEAN, escalated : BOOLEAN]

NoOpportunity ==
    [status |-> "absent", company |-> None, reviewer |-> None,
     claimed |-> Never, reminded |-> FALSE, escalated |-> FALSE]

TypeOK ==
    /\ opps \in [Opportunity -> OpportunityRow]
    /\ companies \in [Company -> CompanyRow]
    /\ best \in [Company -> Tier]

Init ==
    /\ opps = [o \in Opportunity |-> NoOpportunity]
    /\ companies \in [Company -> {NewCompany(TRUE), NewCompany(FALSE)}]
    /\ best = [c \in Company |-> Silver]

-----------------------------------------------------------------------------
(* What a company's pipeline comes to. *)

MutantAcceptedOpen == {"approved"}

Accepted == {"approved", "won"}   \* ACCEPTED_STATUSES

AcceptedOf(os, c) ==
    Cardinality({o \in Opportunity :
                    os[o].company = c /\ os[o].status \in Accepted})

Qualifies(os, cs, c) == QualifyingTier(AcceptedOf(os, c), cs[c].rate)

MutantReviewOfRegistered(os, cs, who) ==
    [c \in Company |->
        IF c = who
        THEN Reviewed(cs[c],
                      QualifyingTier(Cardinality({o \in Opportunity : os[o].company = c}),
                                     cs[c].rate))
        ELSE cs[c]]

(* review_company, for the company of an opportunity if it has one.        *)
ReviewOf(os, cs, who) ==
    [c \in Company |->
        IF c = who THEN Reviewed(cs[c], Qualifies(os, cs, c)) ELSE cs[c]]

MutantReviewOfAtRisk(os, cs) ==
    [c \in Company |-> IF cs[c].risk = Never THEN cs[c]
                       ELSE Reviewed(cs[c], Qualifies(os, cs, c))]

ReviewOfAll(os, cs) ==
    [c \in Company |-> Reviewed(cs[c], Qualifies(os, cs, c))]

-----------------------------------------------------------------------------
(* The submitter. *)

CreateOpportunity(o, who, status) ==
    /\ opps[o].status = "absent"
    /\ opps' = [opps EXCEPT ![o].status = status, ![o].company = who]
    /\ UNCHANGED companies

(* The stamps and the reviewer of an earlier, rejected round stay.         *)
SubmitOpportunity(o) ==
    /\ opps[o].status \in {"draft", "rejected"}
    /\ opps' = [opps EXCEPT ![o].status = "pending_review"]
    /\ UNCHANGED companies

-----------------------------------------------------------------------------
(* Administrators. *)

MutantClaimedKeepsStamps(opp, a) ==
    [opp EXCEPT !.status = "under_review", !.reviewer = a, !.claimed = 0]

MutantClaimedNoClock(opp, a) ==
    [opp EXCEPT !.status = "under_review", !.reviewer = a,
                !.reminded = FALSE, !.escalated = FALSE]

Claimed(opp, a) ==
    [opp EXCEPT !.status = "under_review", !.reviewer = a, !.claimed = 0,
                !.reminded = FALSE, !.escalated = FALSE]

(* Marking a pending opportunity under review, or just opening its page.   *)
ClaimReview(o, a) ==
    /\ opps[o].status = "pending_review"
    /\ opps' = [opps EXCEPT ![o] = Claimed(@, a)]
    /\ UNCHANGED companies

Released(opp) ==
    [opp EXCEPT !.status = "pending_review", !.reviewer = None, !.claimed = Never,
                !.reminded = FALSE, !.escalated = FALSE]

(* Anyone in scope may release a claim, not only the one who holds it.     *)
ReleaseReview(o) ==
    /\ opps[o].status = "under_review"
    /\ opps' = [opps EXCEPT ![o] = Released(@)]
    /\ UNCHANGED companies

Reviewable == {"pending_review", "under_review"}

ApproveOpportunity(o, a) ==
    /\ opps[o].status \in Reviewable
    /\ opps' = [opps EXCEPT ![o].status = "approved", ![o].reviewer = a]
    /\ companies' = ReviewOf(opps', companies, opps[o].company)

RejectOpportunity(o, a) ==
    /\ opps[o].status \in Reviewable
    /\ opps' = [opps EXCEPT ![o].status = "rejected", ![o].reviewer = a]
    /\ UNCHANGED companies

(* From any status, and with no review of the tier it may have supported.  *)
RemoveOpportunity(o) ==
    /\ opps[o].status \notin {"absent", "removed"}
    /\ opps' = [opps EXCEPT ![o].status = "removed"]
    /\ UNCHANGED companies

CloseOpportunity(o, outcome) ==
    /\ opps[o].status = "approved"
    /\ opps' = [opps EXCEPT ![o].status = outcome]
    /\ companies' = ReviewOf(opps', companies, opps[o].company)

-----------------------------------------------------------------------------
(* What else moves a company's standing. *)

(* Finishing a course raises the rate and has the tier reviewed; a review  *)
(* that raises an exception is passed over in silence.                     *)
CompleteCourse(c, rate) ==
    /\ rate > companies[c].rate
    /\ LET trained == [companies EXCEPT ![c].rate = rate]
       IN  companies' \in {trained, ReviewOf(opps, trained, c)}
    /\ UNCHANGED opps

(* Enrolments and people come and go, and nobody reviews the tier.         *)
ChangeEnrolment(c, rate) ==
    /\ companies' = [companies EXCEPT ![c].rate = rate]
    /\ UNCHANGED opps

(* A company becomes a customer, or a channel partner again: the tier and  *)
(* its clock are left as they are.                                         *)
ReclassifyCompany(c) ==
    /\ companies' = [companies EXCEPT ![c].programme = ~@]
    /\ UNCHANGED opps

-----------------------------------------------------------------------------
(* Time and the daily sweeps. *)

(* One stage per pass, and the later stage first: a claim that no pass saw *)
(* while it was young is escalated before anyone is reminded.              *)
Chased(opp) ==
    IF opp.status # "under_review" \/ opp.claimed = Never THEN opp
    ELSE IF opp.claimed >= EscalationDays /\ ~opp.escalated
    THEN [opp EXCEPT !.escalated = TRUE]
    ELSE IF opp.claimed >= ReminderDays /\ ~opp.reminded
    THEN [opp EXCEPT !.reminded = TRUE]
    ELSE opp

SweepStaleReviews ==
    /\ opps' = [o \in Opportunity |-> Chased(opps[o])]
    /\ UNCHANGED companies

SweepTierReviews ==
    /\ companies' = ReviewOfAll(opps, companies)
    /\ UNCHANGED opps

DayPasses ==
    /\ opps' = [o \in Opportunity |->
                   [opps[o] EXCEPT !.claimed = Older(@)]]
    /\ companies' = [c \in Company |->
                        [companies[c] EXCEPT !.risk = Older(@)]]

-----------------------------------------------------------------------------
Submitter ==
    \E o \in Opportunity :
        \/ \E who \in Company \cup {None}, status \in {"draft", "pending_review"} :
              CreateOpportunity(o, who, status)
        \/ SubmitOpportunity(o)

Administrator ==
    \E o \in Opportunity :
        \/ \E a \in Admin : \/ ClaimReview(o, a)
                            \/ ApproveOpportunity(o, a)
                            \/ RejectOpportunity(o, a)
        \/ ReleaseReview(o)
        \/ RemoveOpportunity(o)
        \/ \E outcome \in {"won", "lost"} : CloseOpportunity(o, outcome)

Standing ==
    \E c \in Company :
        \/ \E rate \in Rate : CompleteCourse(c, rate) \/ ChangeEnrolment(c, rate)
        \/ ReclassifyCompany(c)

Remember ==
    best' = [c \in Company |-> Max({best[c], Qualifies(opps', companies', c)})]

Next ==
    /\ \/ Submitter
       \/ Administrator
       \/ Standing
       \/ SweepStaleReviews
       \/ SweepTierReviews
       \/ DayPasses
    /\ Remember

Spec == Init /\ [][Next]_vars

(* Each sweep is a loop of the server process that runs every day for as   *)
(* long as the process lives and survives its own exceptions; days pass.   *)
Fairness ==
    /\ WF_vars(SweepStaleReviews /\ Remember)
    /\ WF_vars(SweepTierReviews /\ Remember)
    /\ WF_vars(DayPasses /\ Remember)

FairSpec == Spec /\ Fairness

-----------------------------------------------------------------------------
(* Properties. *)

(* The ageing trail on a claimed review belongs to this claim: it has a    *)
(* holder and a clock, and was reminded or escalated only at an age that   *)
(* calls for it, however many rounds of rejection and release came before  *)
(* (opportunity_service 955-961, review_sla_service 71-77).                *)
ClaimIsTimed ==
    \A o \in Opportunity :
        LET opp == opps[o]
        IN  opp.status = "under_review" =>
                /\ opp.reviewer # None
                /\ opp.claimed # Never
                /\ opp.reminded => opp.claimed >= ReminderDays
                /\ opp.escalated => opp.claimed >= EscalationDays

TierWithinBest ==
    \A c \in Company : companies[c].tier <= best[c]

ClockIsForThisTier ==
    \A c \in Company :
        LET co == companies[c]
        IN  co.risk # Never =>
                /\ co.notice.held = co.tier
                /\ co.notice.drop < co.tier

(* No company holds a tier it did not at some moment qualify for, whatever *)
(* the order of approvals, courses, losses and sweeps: tier sets the       *)
(* commission rate, and review_company is its only writer.  A grace period *)
(* that runs was started for the tier held now, which is one that can be   *)
(* lost, and never carries over from a tier held before (tier_service 283, *)
(* 306, 350).                                                              *)
TierWasEarned == TierWithinBest /\ ClockIsForThisTier

(* Winning an accepted opportunity costs the company nothing: it does not  *)
(* lower what the company qualifies for (models/opportunity.py 51-55).     *)
WinCostsNothing ==
    [][\A o \in Opportunity :
          opps[o].status = "approved" /\ opps'[o].status = "won" =>
              \A c \in Company :
                  Qualifies(opps', companies', c) >= Qualifies(opps, companies, c)]_vars

(* A claim that stays where it is reaches the people who can reassign it.  *)
StuckIsEscalated ==
    \A o \in Opportunity :
        opps[o].status = "under_review" ~>
            opps[o].status # "under_review" \/ opps[o].escalated

Short(c) ==
    companies[c].programme /\ Qualifies(opps, companies, c) < companies[c].tier

Outgrown(c) ==
    companies[c].programme /\ Qualifies(opps, companies, c) > companies[c].tier

(* A company does not stay above what it qualifies for: the grace period   *)
(* that nothing else would end is ended by the sweep.                      *)
ShortIsDemoted == \A c \in Company : Short(c) ~> ~Short(c)

(* What a company qualifies for is not lost for want of an event: a rise   *)
(* whose review was swallowed is found by the sweep.                       *)
EarnedIsPromoted == \A c \in Company : Outgrown(c) ~> ~Outgrown(c)
=============================================================================
