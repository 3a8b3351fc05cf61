------------------------------ MODULE TierRules ------------------------------
(***************************************************************************)
(* The partner tier: what a company must reach to hold one, and what one   *)
(* review of a company does (tier_service).                                *)
(*                                                                         *)
(* A timestamp is kept as its age in whole days, which is all the code     *)
(* reads of it; Never is the NULL timestamp.  Ages stop at MaxAge, which   *)
(* is beyond every threshold they are compared with.                       *)
(***************************************************************************)
EXTENDS Integers, FiniteSetsExt

CONSTANTS
    Rule,       \* TIER_RULES: what gold and platinum ask for
    Rate,       \* bound: the completion rates that are told apart
    GraceDays,  \* TIER_GRACE_DAYS
    MaxAge      \* bound: the age at which a timestamp stops ageing

Silver == 1
Tier == Silver .. 3   \* TIER_ORDER: silver, gold, platinum

ASSUME RuleAssumption ==
    Rule \in [Tier \ {Silver} -> [opps : Nat, rate : Nat]]
ASSUME RateAssumption == Rate \subseteq Nat /\ 0 \in Rate
ASSUME AgeAssumption == GraceDays \in Nat /\ MaxAge \in Nat /\ GraceDays <= MaxAge

Never == -1
Age == Never .. MaxAge

Older(age) == IF age \in {Never, MaxAge} THEN age ELSE age + 1

(* The columns of companies that tier reads and writes, the completion     *)
(* rate of the company's enrolments, and what its people were last told:   *)
(* the tier that is at risk and the tier they would drop to.               *)
CompanyRow ==
    [tier : Tier, risk : Age, programme : BOOLEAN, rate : Rate,
     notice : [held : Tier, drop : Tier]]

NoNotice == [held |-> Silver, drop |-> Silver]

NewCompany(inProgramme) ==
    [tier |-> Silver, risk |-> Never, programme |-> inProgramme, rate |-> 0,
     notice |-> NoNotice]

(* Both requirements must be met, and silver has none.                     *)
Meets(t, opps, rate) ==
    t # Silver => opps >= Rule[t].opps /\ rate >= Rule[t].rate

MutantQualifyingNext(opps, rate) == 1 + Max({t \in Tier : Meets(t, opps, rate)})

QualifyingTier(opps, rate) == Max({t \in Tier : Meets(t, opps, rate)})

(* The company holds tier t, and no clock runs against it.                 *)
Settled(co, t) == [co EXCEPT !.tier = t, !.risk = Never, !.notice = NoNotice]

MutantReviewedNoClock(co, t) ==
    IF ~co.programme THEN co
    ELSE IF t >= co.tier THEN Settled(co, t)
    ELSE IF co.risk < GraceDays THEN co
    ELSE Settled(co, t)

(* What review_company leaves of a company that qualifies for tier t.      *)
Reviewed(co, t) ==
    IF ~co.programme THEN co
    ELSE IF t >= co.tier THEN Settled(co, t)
    ELSE IF co.risk = Never
    THEN [co EXCEPT !.risk = 0, !.notice = [held |-> co.tier, drop |-> t]]
    ELSE IF co.risk < GraceDays THEN co
    ELSE Settled(co, t)

=============================================================================
