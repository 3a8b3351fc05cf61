--------------------------- MODULE PipelineProofs ----------------------------
(***************************************************************************)
(* What holds of Pipeline for any number of opportunities, companies and   *)
(* administrators, any tier requirements and any thresholds.               *)
(*                                                                         *)
(* The inductive invariant is Inv.  It is the conjunction of what the runs *)
(* check, with nothing added but types: each of its parts is about one row *)
(* or about one company, and the lemmas on TierRules say what one review   *)
(* of a company does to it.                                                *)
(***************************************************************************)
EXTENDS Pipeline, TLAPS

ClaimOK(opp) ==
    opp.status = "under_review" =>
        /\ opp.reviewer # None
        /\ opp.claimed # Never
        /\ opp.reminded => opp.claimed >= ReminderDays
        /\ opp.escalated => opp.claimed >= EscalationDays

ClockOK(co) ==
    co.risk # Never => co.notice.held = co.tier /\ co.notice.drop < co.tier

Inv ==
    /\ TypeOK
    /\ ClaimIsTimed
    /\ TierWithinBest
    /\ ClockIsForThisTier

-----------------------------------------------------------------------------
(* Operators of TierRules. *)

LEMMA MaxOfTiers ==
    ASSUME NEW S \in SUBSET Tier, S # {}
    PROVE  Max(S) \in S /\ \A t \in S : t <= Max(S)
<1>1. \E m \in S : \A t \in S : m >= t
  <2> \A t \in S : t = 1 \/ t = 2 \/ t = 3
    BY DEF Tier, Silver
  <2>1. CASE 3 \in S
    BY <2>1
  <2>2. CASE 3 \notin S /\ 2 \in S
    BY <2>2
  <2>3. CASE 3 \notin S /\ 2 \notin S
    <3>1. PICK m \in S : TRUE
      OBVIOUS
    <3> QED
      BY <2>3, <3>1
  <2> QED
    BY <2>1, <2>2, <2>3
<1>2. Max(S) \in S /\ \A t \in S : Max(S) >= t
  BY <1>1 DEF Max
<1> QED
  BY <1>2 DEF Tier, Silver

(* Every standing qualifies for some tier: silver has no requirement.      *)
LEMMA QualifyingTierType ==
    ASSUME NEW opps_, NEW rate_
    PROVE  QualifyingTier(opps_, rate_) \in Tier
<1> DEFINE S == {t \in Tier : Meets(t, opps_, rate_)}
<1>1. S \in SUBSET Tier
  OBVIOUS
<1>2. Silver \in S
  BY DEF Tier, Silver, Meets
<1>3. Max(S) \in S
  BY <1>1, <1>2, MaxOfTiers
<1> QED
  BY <1>3 DEF QualifyingTier

LEMMA QualifiesType ==
    ASSUME NEW os, NEW cs, NEW c
    PROVE  Qualifies(os, cs, c) \in Tier
BY QualifyingTierType DEF Qualifies

LEMMA BestGrows ==
    ASSUME NEW a \in Tier, NEW b \in Tier
    PROVE  Max({a, b}) \in Tier /\ a <= Max({a, b}) /\ b <= Max({a, b})
BY MaxOfTiers, {a, b} \in SUBSET Tier, {a, b} # {}

LEMMA OlderType ==
    ASSUME NEW age \in Age
    PROVE  /\ Older(age) \in Age
           /\ age <= Older(age)
           /\ age = Never <=> Older(age) = Never
BY AgeAssumption DEF Older, Age, Never

(* One review keeps a row a row, moves the tier no higher than what the    *)
(* company has or qualifies for, leaves the completion rate alone, and     *)
(* keeps the clock with the tier it was started for.                       *)
LEMMA ReviewedRow ==
    ASSUME NEW co \in CompanyRow, NEW t \in Tier
    PROVE  /\ Reviewed(co, t) \in CompanyRow
           /\ Reviewed(co, t).rate = co.rate
           /\ Reviewed(co, t).tier <= co.tier \/ Reviewed(co, t).tier <= t
           /\ ClockOK(co) => ClockOK(Reviewed(co, t))
<1>1. 0 \in Age /\ Never \in Age /\ NoNotice \in [held : Tier, drop : Tier]
  BY AgeAssumption DEF Age, Never, NoNotice, Tier, Silver
<1>2. CASE ~co.programme
  BY <1>2 DEF Reviewed, CompanyRow, Tier, Silver
<1>a. /\ Settled(co, t) \in CompanyRow
      /\ Settled(co, t).rate = co.rate
      /\ Settled(co, t).tier = t
      /\ Settled(co, t).risk = Never
  BY <1>1 DEF Settled, CompanyRow
<1>b. LET warned == [co EXCEPT !.risk = 0,
                               !.notice = [held |-> co.tier, drop |-> t]]
      IN  /\ warned \in CompanyRow
          /\ warned.rate = co.rate
          /\ warned.tier = co.tier
          /\ warned.notice = [held |-> co.tier, drop |-> t]
  BY <1>1 DEF CompanyRow
<1>3. CASE co.programme /\ t >= co.tier
  BY <1>a, <1>3 DEF Reviewed, ClockOK, Tier, Silver
<1>4. CASE co.programme /\ ~(t >= co.tier) /\ co.risk = Never
  BY <1>b, <1>4 DEF Reviewed, CompanyRow, ClockOK, Tier, Silver
<1>5. CASE co.programme /\ ~(t >= co.tier) /\ co.risk # Never /\ co.risk < GraceDays
  BY <1>5 DEF Reviewed, CompanyRow, Tier, Silver
<1>6. CASE co.programme /\ ~(t >= co.tier) /\ co.risk # Never /\ ~(co.risk < GraceDays)
  BY <1>a, <1>6 DEF Reviewed, ClockOK, Tier, Silver
<1> QED
  BY <1>2, <1>3, <1>4, <1>5, <1>6

-----------------------------------------------------------------------------
(* Actions, by the table they write. *)

(* What every action owes of one company's row.                            *)
CompanyKept(os, co, new, c) ==
    /\ new \in CompanyRow
    /\ ClockOK(new)
    /\ new.tier <= co.tier \/ new.tier <= QualifyingTier(AcceptedOf(os, c), new.rate)

LEMMA ReviewKeeps ==
    ASSUME NEW os, NEW c, NEW co \in CompanyRow, ClockOK(co)
    PROVE  CompanyKept(os, co, Reviewed(co, QualifyingTier(AcceptedOf(os, c), co.rate)), c)
BY QualifyingTierType, ReviewedRow DEF CompanyKept

LEMMA SameRowKept ==
    ASSUME NEW os, NEW c, NEW co \in CompanyRow, NEW new \in CompanyRow,
           ClockOK(co), new.tier = co.tier, new.notice = co.notice,
           co.risk = Never => new.risk = Never
    PROVE  CompanyKept(os, co, new, c)
BY DEF CompanyKept, ClockOK, CompanyRow, Tier, Silver

(* The review of the company of one opportunity, or of every company.      *)
LEMMA ReviewsKeep ==
    ASSUME NEW os, NEW cs \in [Company -> CompanyRow], NEW who,
           \A c \in Company : ClockOK(cs[c])
    PROVE  /\ ReviewOf(os, cs, who) \in [Company -> CompanyRow]
           /\ ReviewOfAll(os, cs) \in [Company -> CompanyRow]
           /\ \A c \in Company :
                 /\ CompanyKept(os, cs[c], ReviewOf(os, cs, who)[c], c)
                 /\ CompanyKept(os, cs[c], ReviewOfAll(os, cs)[c], c)
<1>1. ASSUME NEW c \in Company
      PROVE  /\ CompanyKept(os, cs[c], Reviewed(cs[c], Qualifies(os, cs, c)), c)
             /\ CompanyKept(os, cs[c], cs[c], c)
  <2>1. cs[c] \in CompanyRow
    OBVIOUS
  <2>2. CompanyKept(os, cs[c], Reviewed(cs[c], Qualifies(os, cs, c)), c)
    BY <2>1, ReviewKeeps DEF Qualifies
  <2>3. CompanyKept(os, cs[c], cs[c], c)
    BY <2>1, SameRowKept
  <2> QED
    BY <2>2, <2>3
<1>2. ASSUME NEW c \in Company
      PROVE  Reviewed(cs[c], Qualifies(os, cs, c)) \in CompanyRow
  BY <1>1 DEF CompanyKept
<1> QED
  BY <1>1, <1>2 DEF ReviewOf, ReviewOfAll

-----------------------------------------------------------------------------
(* What every action owes of the two tables. *)

OppsKept ==
    opps' \in [Opportunity -> OpportunityRow] /\ \A o \in Opportunity : ClaimOK(opps'[o])

CompaniesKept ==
    /\ companies' \in [Company -> CompanyRow]
    /\ \A c \in Company : CompanyKept(opps', companies[c], companies'[c], c)

LEMMA InvRows ==
    ASSUME Inv
    PROVE  /\ \A o \in Opportunity : opps[o] \in OpportunityRow /\ ClaimOK(opps[o])
           /\ \A c \in Company : companies[c] \in CompanyRow /\ ClockOK(companies[c])
BY DEF Inv, TypeOK, ClaimIsTimed, ClaimOK, ClockIsForThisTier, ClockOK

LEMMA OneRowWritten ==
    ASSUME Inv, NEW o \in Opportunity, NEW new \in OpportunityRow, ClaimOK(new),
           opps' = [opps EXCEPT ![o] = new]
    PROVE  OppsKept
BY InvRows DEF OppsKept, Inv, TypeOK

LEMMA NoCompanyWritten ==
    ASSUME Inv, UNCHANGED companies
    PROVE  CompaniesKept
<1>1. ASSUME NEW c \in Company
      PROVE  CompanyKept(opps', companies[c], companies[c], c)
  BY InvRows, SameRowKept
<1> QED
  BY <1>1 DEF CompaniesKept, Inv, TypeOK

LEMMA NoOpportunityWritten ==
    ASSUME Inv, UNCHANGED opps
    PROVE  OppsKept
BY InvRows DEF OppsKept, Inv, TypeOK

(* The two tables kept, the history grows with them.                       *)
LEMMA KeptIsInv ==
    ASSUME Inv, OppsKept, CompaniesKept, Remember
    PROVE  Inv'
<1>1. ASSUME NEW c \in Company
      PROVE  /\ best'[c] \in Tier
             /\ companies'[c].tier <= best'[c]
             /\ ClockOK(companies'[c])
  <2> DEFINE q == Qualifies(opps', companies', c)
  <2>1. q \in Tier /\ best[c] \in Tier
    BY QualifiesType DEF Inv, TypeOK
  <2>2. best'[c] = Max({best[c], q})
    BY DEF Remember
  <2>3. best'[c] \in Tier /\ best[c] <= best'[c] /\ q <= best'[c]
    BY <2>1, <2>2, BestGrows
  <2>4. CompanyKept(opps', companies[c], companies'[c], c)
    BY DEF CompaniesKept
  <2>5. companies'[c].tier <= companies[c].tier \/ companies'[c].tier <= q
    BY <2>4 DEF CompanyKept, Qualifies
  <2>6. companies[c].tier <= best[c]
    BY DEF Inv, TierWithinBest
  <2>7. companies'[c].tier \in Int /\ companies[c].tier \in Int
    BY DEF CompaniesKept, Inv, TypeOK, CompanyRow, Tier, Silver
  <2>8. companies'[c].tier <= best'[c]
    <3> HIDE DEF q
    <3> QED
      BY <2>1, <2>3, <2>5, <2>6, <2>7 DEF Tier, Silver
  <2> QED
    BY <2>3, <2>4, <2>8 DEF CompanyKept
<1>2. best' \in [Company -> Tier]
  BY <1>1 DEF Remember
<1>3. TypeOK'
  BY <1>2 DEF TypeOK, OppsKept, CompaniesKept
<1>4. ClaimIsTimed'
  BY DEF OppsKept, ClaimIsTimed, ClaimOK
<1>5. TierWithinBest' /\ ClockIsForThisTier'
  BY <1>1 DEF TierWithinBest, ClockIsForThisTier, ClockOK
<1> QED
  BY <1>3, <1>4, <1>5 DEF Inv

-----------------------------------------------------------------------------
LEMMA InitInv == Init => Inv
<1> SUFFICES ASSUME Init PROVE Inv
  OBVIOUS
<1>1. 0 \in Rate /\ 0 \in Age /\ Never \in Age /\ Silver \in Tier
  BY RateAssumption, AgeAssumption DEF Age, Never, Tier, Silver
<1>2. NewCompany(TRUE) \in CompanyRow /\ NewCompany(FALSE) \in CompanyRow
  BY <1>1 DEF NewCompany, NoNotice, CompanyRow
<1>3. \A c \in Company : companies[c].tier = Silver /\ companies[c].risk = Never
  BY DEF Init, NewCompany
<1>4. NoOpportunity \in OpportunityRow
  BY <1>1 DEF NoOpportunity, OpportunityRow, Status
<1>5. TypeOK
  BY <1>1, <1>2, <1>4 DEF TypeOK, Init
<1>6. ClaimIsTimed
  BY DEF ClaimIsTimed, Init, NoOpportunity
<1>7. TierWithinBest /\ ClockIsForThisTier
  BY <1>1, <1>3 DEF TierWithinBest, ClockIsForThisTier, Init, Silver
<1> QED
  BY <1>5, <1>6, <1>7 DEF Inv

LEMMA SubmitterKeeps ==
    ASSUME Inv, Submitter
    PROVE  OppsKept /\ CompaniesKept
<1>1. CompaniesKept
  BY NoCompanyWritten DEF Submitter, CreateOpportunity, SubmitOpportunity
<1>2. ASSUME NEW o \in Opportunity, NEW who \in Company \cup {None},
             NEW status \in {"draft", "pending_review"},
             CreateOpportunity(o, who, status)
      PROVE  OppsKept
  <2> DEFINE new == [opps[o] EXCEPT !.status = status, !.company = who]
  <2>1. new \in OpportunityRow /\ ClaimOK(new)
    BY InvRows DEF OpportunityRow, Status, ClaimOK
  <2>2. opps' = [opps EXCEPT ![o] = new]
    BY <1>2 DEF CreateOpportunity, Inv, TypeOK, OpportunityRow
  <2> HIDE DEF new
  <2> QED
    BY <2>1, <2>2, OneRowWritten
<1>3. ASSUME NEW o \in Opportunity, SubmitOpportunity(o)
      PROVE  OppsKept
  <2> DEFINE new == [opps[o] EXCEPT !.status = "pending_review"]
  <2>1. new \in OpportunityRow /\ ClaimOK(new)
    BY InvRows DEF OpportunityRow, Status, ClaimOK
  <2>2. opps' = [opps EXCEPT ![o] = new]
    BY <1>3 DEF SubmitOpportunity
  <2> HIDE DEF new
  <2> QED
    BY <2>1, <2>2, OneRowWritten
<1> QED
  BY <1>1, <1>2, <1>3 DEF Submitter

LEMMA AdministratorKeeps ==
    ASSUME Inv, Administrator
    PROVE  OppsKept /\ CompaniesKept
<1>1. PICK o \in Opportunity :
        \/ \E a \in Admin : \/ ClaimReview(o, a)
                            \/ ApproveOpportunity(o, a)
                            \/ RejectOpportunity(o, a)
        \/ ReleaseReview(o)
        \/ RemoveOpportunity(o)
        \/ \E outcome \in {"won", "lost"} : CloseOpportunity(o, outcome)
  BY DEF Administrator
<1>2. opps[o] \in OpportunityRow /\ ClaimOK(opps[o])
  BY InvRows
<1>3. 0 \in Age /\ Never \in Age
  BY AgeAssumption DEF Age, Never
<1>4. ASSUME NEW a \in Admin, ClaimReview(o, a)
      PROVE  OppsKept
  <2> DEFINE new == Claimed(opps[o], a)
  <2>1. new \in OpportunityRow /\ ClaimOK(new)
    <3>1. new \in OpportunityRow
      BY <1>2, <1>3 DEF OpportunityRow, Status, Claimed
    <3>2. /\ new.reviewer = a /\ new.claimed = 0
          /\ new.reminded = FALSE /\ new.escalated = FALSE
      BY <1>2 DEF OpportunityRow, Claimed
    <3>3. a # None /\ 0 # Never
      BY NoneAssumption DEF Never
    <3> HIDE DEF new
    <3> QED
      BY <3>1, <3>2, <3>3 DEF ClaimOK
  <2>2. opps' = [opps EXCEPT ![o] = new]
    BY <1>4 DEF ClaimReview
  <2> HIDE DEF new
  <2> QED
    BY <2>1, <2>2, OneRowWritten
<1>5. ASSUME NEW a \in Admin, ApproveOpportunity(o, a)
      PROVE  OppsKept
  <2> DEFINE new == [opps[o] EXCEPT !.status = "approved", !.reviewer = a]
  <2>1. new \in OpportunityRow /\ ClaimOK(new)
    BY <1>2, <1>3 DEF OpportunityRow, Status, ClaimOK
  <2>2. opps' = [opps EXCEPT ![o] = new]
    BY <1>5 DEF ApproveOpportunity, Inv, TypeOK, OpportunityRow
  <2> HIDE DEF new
  <2> QED
    BY <2>1, <2>2, OneRowWritten
<1>6. ASSUME NEW a \in Admin, RejectOpportunity(o, a)
      PROVE  OppsKept
  <2> DEFINE new == [opps[o] EXCEPT !.status = "rejected", !.reviewer = a]
  <2>1. new \in OpportunityRow /\ ClaimOK(new)
    BY <1>2, <1>3 DEF OpportunityRow, Status, ClaimOK
  <2>2. opps' = [opps EXCEPT ![o] = new]
    BY <1>6 DEF RejectOpportunity, Inv, TypeOK, OpportunityRow
  <2> HIDE DEF new
  <2> QED
    BY <2>1, <2>2, OneRowWritten
<1>7. ASSUME ReleaseReview(o)
      PROVE  OppsKept
  <2> DEFINE new == Released(opps[o])
  <2>1. new \in OpportunityRow /\ ClaimOK(new)
    BY <1>2, <1>3 DEF OpportunityRow, Status, ClaimOK, Released
  <2>2. opps' = [opps EXCEPT ![o] = new]
    BY <1>7 DEF ReleaseReview
  <2> HIDE DEF new
  <2> QED
    BY <2>1, <2>2, OneRowWritten
<1>8. ASSUME RemoveOpportunity(o)
      PROVE  OppsKept
  <2> DEFINE new == [opps[o] EXCEPT !.status = "removed"]
  <2>1. new \in OpportunityRow /\ ClaimOK(new)
    BY <1>2, <1>3 DEF OpportunityRow, Status, ClaimOK
  <2>2. opps' = [opps EXCEPT ![o] = new]
    BY <1>8 DEF RemoveOpportunity, Inv, TypeOK, OpportunityRow
  <2> HIDE DEF new
  <2> QED
    BY <2>1, <2>2, OneRowWritten
<1>9. ASSUME NEW outcome \in {"won", "lost"}, CloseOpportunity(o, outcome)
      PROVE  OppsKept
  <2> DEFINE new == [opps[o] EXCEPT !.status = outcome]
  <2>1. new \in OpportunityRow /\ ClaimOK(new)
    BY <1>2, <1>3 DEF OpportunityRow, Status, ClaimOK
  <2>2. opps' = [opps EXCEPT ![o] = new]
    BY <1>9 DEF CloseOpportunity, Inv, TypeOK, OpportunityRow
  <2> HIDE DEF new
  <2> QED
    BY <2>1, <2>2, OneRowWritten
<1>10. ASSUME NEW who, companies' = ReviewOf(opps', companies, who)
       PROVE  CompaniesKept
  BY <1>10, InvRows, ReviewsKeep DEF CompaniesKept, Inv, TypeOK
<1>11. CompaniesKept
  <2>1. UNCHANGED companies \/ companies' = ReviewOf(opps', companies, opps[o].company)
    BY <1>1 DEF ClaimReview, ApproveOpportunity, RejectOpportunity,
                ReleaseReview, RemoveOpportunity, CloseOpportunity
  <2> QED
    BY <2>1, <1>10, NoCompanyWritten
<1> QED
  BY <1>1, <1>4, <1>5, <1>6, <1>7, <1>8, <1>9, <1>11

LEMMA StandingKeeps ==
    ASSUME Inv, Standing
    PROVE  OppsKept /\ CompaniesKept
<1>1. OppsKept
  BY NoOpportunityWritten DEF Standing, CompleteCourse, ChangeEnrolment, ReclassifyCompany
<1>2. UNCHANGED opps
  BY DEF Standing, CompleteCourse, ChangeEnrolment, ReclassifyCompany
<1>3. ASSUME NEW c \in Company, NEW rate \in Rate
      PROVE  LET trained == [companies EXCEPT ![c].rate = rate]
             IN  /\ trained \in [Company -> CompanyRow]
                 /\ \A d \in Company :
                        /\ ClockOK(trained[d])
                        /\ trained[d].tier = companies[d].tier
                        /\ CompanyKept(opps', companies[d], trained[d], d)
  <2> DEFINE trained == [companies EXCEPT ![c].rate = rate]
  <2>1. ASSUME NEW d \in Company
        PROVE  /\ trained[d] \in CompanyRow
               /\ trained[d].tier = companies[d].tier
               /\ trained[d].notice = companies[d].notice
               /\ trained[d].risk = companies[d].risk
    BY InvRows DEF Inv, TypeOK, CompanyRow
  <2>2. trained \in [Company -> CompanyRow]
    BY <2>1 DEF Inv, TypeOK
  <2>3. ASSUME NEW d \in Company
        PROVE  ClockOK(trained[d]) /\ CompanyKept(opps', companies[d], trained[d], d)
    <3>1. companies[d] \in CompanyRow /\ ClockOK(companies[d])
      BY InvRows
    <3> HIDE DEF trained
    <3>2. CompanyKept(opps', companies[d], trained[d], d)
      BY <2>1, <3>1, SameRowKept
    <3> QED
      BY <3>2 DEF CompanyKept
  <2> HIDE DEF trained
  <2>4. /\ trained \in [Company -> CompanyRow]
        /\ \A d \in Company :
              /\ ClockOK(trained[d])
              /\ trained[d].tier = companies[d].tier
              /\ CompanyKept(opps', companies[d], trained[d], d)
    BY <2>1, <2>2, <2>3
  <2> QED
    BY <2>4 DEF trained
<1>4. ASSUME NEW c \in Company, NEW rate \in Rate, CompleteCourse(c, rate)
      PROVE  CompaniesKept
  <2> DEFINE trained == [companies EXCEPT ![c].rate = rate]
  <2>1. companies' = trained \/ companies' = ReviewOf(opps', trained, c)
    BY <1>2, <1>4 DEF CompleteCourse
  <2>2. /\ trained \in [Company -> CompanyRow]
        /\ \A d \in Company :
              /\ ClockOK(trained[d])
              /\ trained[d].tier = companies[d].tier
              /\ CompanyKept(opps', companies[d], trained[d], d)
    BY <1>3
  <2> HIDE DEF trained
  <2>3. CASE companies' = trained
    BY <2>2, <2>3 DEF CompaniesKept
  <2>4. CASE companies' = ReviewOf(opps', trained, c)
    <3>1. /\ companies' \in [Company -> CompanyRow]
          /\ \A d \in Company : CompanyKept(opps', trained[d], companies'[d], d)
      BY <2>2, <2>4, ReviewsKeep
    <3> QED
      BY <2>2, <3>1 DEF CompaniesKept, CompanyKept
  <2> QED
    BY <2>1, <2>3, <2>4
<1>5. ASSUME NEW c \in Company, NEW rate \in Rate, ChangeEnrolment(c, rate)
      PROVE  CompaniesKept
  BY <1>3, <1>5 DEF ChangeEnrolment, CompaniesKept
<1>6. ASSUME NEW c \in Company, ReclassifyCompany(c)
      PROVE  CompaniesKept
  <2>1. ASSUME NEW d \in Company
        PROVE  /\ companies'[d] \in CompanyRow
               /\ companies'[d].tier = companies[d].tier
               /\ companies'[d].notice = companies[d].notice
               /\ companies'[d].risk = companies[d].risk
    BY <1>6, InvRows DEF ReclassifyCompany, Inv, TypeOK, CompanyRow
  <2>2. companies' \in [Company -> CompanyRow]
    BY <1>6, <2>1 DEF ReclassifyCompany, Inv, TypeOK
  <2>3. ASSUME NEW d \in Company
        PROVE  CompanyKept(opps', companies[d], companies'[d], d)
    BY <2>1, InvRows, SameRowKept
  <2> QED
    BY <2>2, <2>3 DEF CompaniesKept
<1> QED
  BY <1>1, <1>4, <1>5, <1>6 DEF Standing

LEMMA ReviewSweepKeeps ==
    ASSUME Inv, SweepStaleReviews
    PROVE  OppsKept /\ CompaniesKept
<1>1. CompaniesKept
  BY NoCompanyWritten DEF SweepStaleReviews
<1>2. ASSUME NEW o \in Opportunity
      PROVE  Chased(opps[o]) \in OpportunityRow /\ ClaimOK(Chased(opps[o]))
  <2>1. opps[o] \in OpportunityRow /\ ClaimOK(opps[o])
    BY InvRows
  <2> QED
    BY <2>1 DEF Chased, ClaimOK, OpportunityRow
<1> QED
  BY <1>1, <1>2 DEF SweepStaleReviews, OppsKept

LEMMA TierSweepKeeps ==
    ASSUME Inv, SweepTierReviews
    PROVE  OppsKept /\ CompaniesKept
<1>1. OppsKept
  BY NoOpportunityWritten DEF SweepTierReviews
<1>2. companies' = ReviewOfAll(opps', companies)
  BY DEF SweepTierReviews
<1>3. CompaniesKept
  BY <1>2, InvRows, ReviewsKeep DEF CompaniesKept, Inv, TypeOK
<1> QED
  BY <1>1, <1>3

LEMMA DayKeeps ==
    ASSUME Inv, DayPasses
    PROVE  OppsKept /\ CompaniesKept
<1>1. ASSUME NEW o \in Opportunity
      PROVE  opps'[o] \in OpportunityRow /\ ClaimOK(opps'[o])
  <2>1. opps[o] \in OpportunityRow /\ ClaimOK(opps[o])
    BY InvRows
  <2>2. opps'[o] = [opps[o] EXCEPT !.claimed = Older(opps[o].claimed)]
    BY DEF DayPasses
  <2>3. opps[o].claimed \in Age
    BY <2>1 DEF OpportunityRow
  <2>4. /\ Older(opps[o].claimed) \in Age
        /\ opps[o].claimed <= Older(opps[o].claimed)
        /\ opps[o].claimed = Never <=> Older(opps[o].claimed) = Never
    BY <2>3, OlderType
  <2>5. opps'[o] \in OpportunityRow
    BY <2>1, <2>2, <2>4 DEF OpportunityRow
  <2>6. ClaimOK(opps'[o])
    <3>1. /\ opps'[o].status = opps[o].status
          /\ opps'[o].reviewer = opps[o].reviewer
          /\ opps'[o].reminded = opps[o].reminded
          /\ opps'[o].escalated = opps[o].escalated
          /\ opps'[o].claimed = Older(opps[o].claimed)
      BY <2>1, <2>2 DEF OpportunityRow
    <3>2. Older(opps[o].claimed) \in Int /\ opps[o].claimed \in Int
      BY <2>3, <2>4 DEF Age, Never
    <3> QED
      BY <2>1, <2>4, <3>1, <3>2, ReviewAssumption DEF ClaimOK
  <2> QED
    BY <2>5, <2>6
<1>2. OppsKept
  BY <1>1 DEF DayPasses, OppsKept
<1>3. ASSUME NEW c \in Company
      PROVE  /\ companies'[c] \in CompanyRow
             /\ CompanyKept(opps', companies[c], companies'[c], c)
  <2>1. companies[c] \in CompanyRow /\ ClockOK(companies[c])
    BY InvRows
  <2>2. companies'[c] = [companies[c] EXCEPT !.risk = Older(companies[c].risk)]
    BY DEF DayPasses
  <2>3. companies[c].risk \in Age
    BY <2>1 DEF CompanyRow
  <2>4. /\ Older(companies[c].risk) \in Age
        /\ companies[c].risk = Never <=> Older(companies[c].risk) = Never
    BY <2>3, OlderType
  <2>5. /\ companies'[c] \in CompanyRow
        /\ companies'[c].tier = companies[c].tier
        /\ companies'[c].notice = companies[c].notice
        /\ companies'[c].risk = Older(companies[c].risk)
    BY <2>1, <2>2, <2>4 DEF CompanyRow
  <2> QED
    BY <2>1, <2>4, <2>5, SameRowKept
<1>4. CompaniesKept
  BY <1>3 DEF DayPasses, CompaniesKept
<1> QED
  BY <1>2, <1>4

LEMMA NextInv == Inv /\ [Next]_vars => Inv'
<1> SUFFICES ASSUME Inv, [Next]_vars PROVE Inv'
  OBVIOUS
<1>1. CASE Next
  <2>1. OppsKept /\ CompaniesKept
    BY <1>1, SubmitterKeeps, AdministratorKeeps, StandingKeeps,
       ReviewSweepKeeps, TierSweepKeeps, DayKeeps DEF Next
  <2> QED
    BY <1>1, <2>1, KeptIsInv DEF Next
<1>2. CASE UNCHANGED vars
  BY <1>2 DEF vars, Inv, TypeOK, ClaimIsTimed, TierWithinBest, ClockIsForThisTier
<1> QED
  BY <1>1, <1>2

-----------------------------------------------------------------------------
(* Every row and every history entry has its type, with ages that never    *)
(* leave their bounds and tiers that are always one of the three.          *)
THEOREM TypeCorrect == Spec => []TypeOK
<1>1. Inv => TypeOK
  BY DEF Inv
<1> QED
  BY <1>1, InitInv, NextInv, PTL DEF Spec

(* A claimed review always has a holder and a clock of its own, and was    *)
(* chased only at an age that calls for it: rounds of rejection, release   *)
(* and resubmission leave nothing behind.                                  *)
THEOREM ClaimsAreTimed == Spec => []ClaimIsTimed
<1>1. Inv => ClaimIsTimed
  BY DEF Inv
<1> QED
  BY <1>1, InitInv, NextInv, PTL DEF Spec

(* No company ever holds a tier it did not once qualify for, and no grace  *)
(* period runs against a tier other than the one it was started for.       *)
THEOREM TiersAreEarned == Spec => []TierWasEarned
<1>1. Inv => TierWasEarned
  BY DEF Inv, TierWasEarned
<1> QED
  BY <1>1, InitInv, NextInv, PTL DEF Spec

-----------------------------------------------------------------------------
(* Which step can take an approved opportunity to "won".                   *)
LEMMA OnlyClosingWins ==
    ASSUME Inv, Next, NEW o \in Opportunity,
           opps[o].status = "approved", opps'[o].status = "won"
    PROVE  CloseOpportunity(o, "won")
<1> opps \in [Opportunity -> OpportunityRow]
  BY DEF Inv, TypeOK
<1>1. \A p \in Opportunity : opps[p] \in OpportunityRow
  OBVIOUS
<1>2. ~ Submitter
  BY <1>1 DEF Submitter, CreateOpportunity, SubmitOpportunity, OpportunityRow
<1>3. ~ Standing
  BY DEF Standing, CompleteCourse, ChangeEnrolment, ReclassifyCompany
<1>4. ~ SweepStaleReviews
  BY DEF SweepStaleReviews, Chased
<1>5. ~ SweepTierReviews
  BY DEF SweepTierReviews
<1>6. ~ DayPasses
  BY <1>1 DEF DayPasses, OpportunityRow
<1>7. PICK p \in Opportunity :
        \/ \E a \in Admin : \/ ClaimReview(p, a)
                            \/ ApproveOpportunity(p, a)
                            \/ RejectOpportunity(p, a)
        \/ ReleaseReview(p)
        \/ RemoveOpportunity(p)
        \/ \E outcome \in {"won", "lost"} : CloseOpportunity(p, outcome)
  BY <1>2, <1>3, <1>4, <1>5, <1>6 DEF Next, Administrator
<1>8. ~ \E a \in Admin : ClaimReview(p, a)
  BY <1>1 DEF ClaimReview, Claimed, OpportunityRow
<1>9. ~ \E a \in Admin : ApproveOpportunity(p, a)
  BY <1>1 DEF ApproveOpportunity, Reviewable, OpportunityRow
<1>10. ~ \E a \in Admin : RejectOpportunity(p, a)
  BY <1>1 DEF RejectOpportunity, Reviewable, OpportunityRow
<1>11. ~ ReleaseReview(p)
  BY <1>1 DEF ReleaseReview, Released, OpportunityRow
<1>12. ~ RemoveOpportunity(p)
  BY <1>1 DEF RemoveOpportunity, OpportunityRow
<1>13. PICK outcome \in {"won", "lost"} : CloseOpportunity(p, outcome)
  BY <1>7, <1>8, <1>9, <1>10, <1>11, <1>12
<1>14. p = o /\ outcome = "won"
  BY <1>1, <1>13 DEF CloseOpportunity, OpportunityRow
<1> QED
  BY <1>13, <1>14

LEMMA ClosingWonKeepsStanding ==
    ASSUME Inv, NEW o \in Opportunity, CloseOpportunity(o, "won"), NEW c \in Company
    PROVE  Qualifies(opps', companies', c) = Qualifies(opps, companies, c)
<1>1. opps \in [Opportunity -> OpportunityRow] /\ companies \in [Company -> CompanyRow]
  BY DEF Inv, TypeOK
<1>2. opps' = [opps EXCEPT ![o].status = "won"] /\ opps[o].status = "approved"
  BY DEF CloseOpportunity
<1>3. ASSUME NEW p \in Opportunity
      PROVE  opps'[p].company = c /\ opps'[p].status \in Accepted
                <=> opps[p].company = c /\ opps[p].status \in Accepted
  <2>1. CASE p = o
    <3>1. opps'[p].company = opps[p].company /\ opps'[p].status = "won"
      BY <1>1, <1>2, <2>1 DEF OpportunityRow
    <3> QED
      BY <1>2, <2>1, <3>1 DEF Accepted
  <2>2. CASE p # o
    BY <1>1, <1>2, <2>2
  <2> QED
    BY <2>1, <2>2
<1>4. {p \in Opportunity : opps'[p].company = c /\ opps'[p].status \in Accepted}
        = {p \in Opportunity : opps[p].company = c /\ opps[p].status \in Accepted}
  BY <1>3
<1>5. AcceptedOf(opps', c) = AcceptedOf(opps, c)
  BY <1>4 DEF AcceptedOf
<1>6. companies'[c].rate = companies[c].rate
  <2>1. companies[c] \in CompanyRow
    BY <1>1
  <2>2. Qualifies(opps', companies, c) \in Tier
    BY QualifiesType
  <2>3. Reviewed(companies[c], Qualifies(opps', companies, c)).rate = companies[c].rate
    BY <2>1, <2>2, ReviewedRow
  <2> QED
    BY <2>3 DEF CloseOpportunity, ReviewOf
<1> QED
  BY <1>5, <1>6 DEF Qualifies

(* Recording that an approved opportunity was won never lowers what any    *)
(* company qualifies for.                                                  *)
THEOREM WinsCostNothing == Spec => WinCostsNothing
<1> DEFINE Step ==
      \A o \in Opportunity :
          opps[o].status = "approved" /\ opps'[o].status = "won" =>
              \A c \in Company :
                  Qualifies(opps', companies', c) >= Qualifies(opps, companies, c)
<1>1. Inv /\ [Next]_vars => [Step]_vars
  <2> SUFFICES ASSUME Inv, Next, NEW o \in Opportunity, NEW c \in Company,
                      opps[o].status = "approved", opps'[o].status = "won"
               PROVE  Qualifies(opps', companies', c) >= Qualifies(opps, companies, c)
    OBVIOUS
  <2>1. Qualifies(opps', companies', c) = Qualifies(opps, companies, c)
    BY OnlyClosingWins, ClosingWonKeepsStanding
  <2>2. Qualifies(opps, companies, c) \in Int
    BY QualifiesType DEF Tier, Silver
  <2> QED
    BY <2>1, <2>2
<1> HIDE DEF Step
<1>2. Spec => [][Step]_vars
  BY <1>1, InitInv, NextInv, PTL DEF Spec
<1> QED
  BY <1>2 DEF WinCostsNothing, Step
=============================================================================
