----------------------------- MODULE MCPromises -----------------------------
(***************************************************************************)
(* What the portal promises will be done, or done once: windows close,     *)
(* commissions move one step at a time and give their locks back, notices  *)
(* of licences and reminders go out.                                       *)
(*                                                                         *)
(* These parts share no state, so what a property says of one of them does *)
(* not depend on steps of the others: a behaviour exercises one part, the  *)
(* "desk" of its initial state, and the rest stays as it begins.  After    *)
(* two requests or two passes took one licence at once, only the calendar  *)
(* and the loops go on: people are still to be told.                       *)
(***************************************************************************)
EXTENDS Exclusivity, CommissionTxn, Licences, Reminders, TLC

CONSTANTS c1, acme, d1, d2, q1, q2, x1, s1, s2, s3, l1, k1, k2, a1, a2, e1

Desk == {"windows", "commissions", "licences", "reminders"}

VARIABLE desk

promiseVars == <<desk, vars, commissionVars, licenceVars, reminderVars>>

MCNorm == [n \in Name |-> "acme"]
NothingDeployed == {}

-----------------------------------------------------------------------------
PromisesInit ==
    /\ desk \in Desk
    /\ Init /\ CommissionInit /\ LicencesInit /\ RemindersInit

Only(part, action) ==
    /\ desk = part /\ UNCHANGED desk /\ action
    /\ part # "windows" => UNCHANGED vars
    /\ part # "commissions" => UNCHANGED commissionVars
    /\ part # "licences" => UNCHANGED licenceVars
    /\ part # "reminders" => UNCHANGED reminderVars

Windows == Only("windows", Next)
Commissions == Only("commissions", CommissionNext)
LicenceDesk == Only("licences", ClockAndLoops \/ (~crossed /\ LicenceRequests))
Reminding == Only("reminders", RemindersNext)

PromisesNext == Windows \/ Commissions \/ LicenceDesk \/ Reminding

(* What each part assumes of its scheduling. *)
PromisesFairness ==
    /\ WF_promiseVars(Only("windows", SweepExclusivity))
    /\ \A s \in Session :
          WF_promiseVars(Only("commissions", RefuseStatus(s) \/ CommitStatus(s)))
    /\ \A s \in Notifier : WF_promiseVars(Only("licences", NoticesOf(s)))
    /\ \A s \in Sweeper : WF_promiseVars(Only("reminders", SweepOf(s)))

PromisesSpec == PromisesInit /\ [][PromisesNext]_promiseVars /\ PromisesFairness

-----------------------------------------------------------------------------
PromisesTypeOK ==
    TypeOK /\ CommissionTypeOK /\ LicencesTypeOK /\ RemindersTypeOK

(* Whoever is waiting for it is told: a rep of a follow-up, the people of  *)
(* a licence that it is to be renewed.                                     *)
SentInTime == DueIsSent /\ NoticeIsSent
=============================================================================
