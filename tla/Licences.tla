------------------------------ MODULE Licences ------------------------------
(***************************************************************************)
(* Licences that run out, the daily notice that one is due for renewal,    *)
(* sent by a loop in each server process, and the renewals raised from     *)
(* them.  No row is locked: a pass and a request each decide on what they  *)
(* read, and write later.                                                  *)
(***************************************************************************)
EXTENDS Rows, Integers

CONSTANTS
    Licence,        \* ids of licences, one per opportunity
    LicenceClerk,   \* requests that record a licence or raise a renewal
    Notifier,       \* server processes
    NoticeDays,     \* settings.RENEWAL_NOTICE_DAYS
    SoonDays,       \* EXPIRING_SOON_DAYS
    LastDay,        \* the calendar stops here: a bound
    Activation,     \* when a licence may be activated: a bound
    MaxFailures     \* passes that may fail: a bound

ASSUME LicencesAssumption ==
    /\ NoticeDays \in Nat /\ SoonDays \in Nat
    /\ LastDay \in Nat \ {0} /\ MaxFailures \in Nat
    /\ Activation \subseteq 1 .. LastDay + 1
    /\ None \notin Licence /\ None \notin 0 .. LastDay + SoonDays + 1

VARIABLES
    day,        \* date.today()
    licence,    \* the rows of customer_licenses
    recording,  \* the upsert under way in each request
    raising,    \* the licence each request found without a renewal
    renewals,   \* the renewals of each licence that were not removed
    pass,       \* the licences that the pass of each process is to notify
    notices,    \* how often people were told of each licence
    failures,   \* passes that failed
    crossed     \* two passes, or two requests, had one licence in hand

licenceVars == <<day, licence, recording, raising, renewals, pass, notices,
                 failures, crossed>>

Day == 1 .. LastDay
Date == 1 .. LastDay + 1   \* what a licence may be dated
\* noticed: renewal_notified_at is set; gone: the opportunity was removed
LicenceRow == [state : {"absent", "live", "gone"}, activated : Date \cup {None},
               expires : Date \cup {None}, noticed : BOOLEAN]
NoLicence == [state |-> "absent", activated |-> None, expires |-> None,
              noticed |-> FALSE]
NotRecording == [licence |-> None, seen |-> NoLicence, new |-> NoLicence]

Idling(k) == recording[k] = NotRecording /\ raising[k] = None

-----------------------------------------------------------------------------
(* The status of a licence, worked out twice.                              *)

(* derive_license_status, on a record *)
DeriveStatus(row) ==
    IF row.activated = None \/ row.activated > day THEN "pending_activation"
    ELSE IF row.expires = None THEN "active"
    ELSE IF row.expires < day THEN "expired"
    ELSE IF row.expires - day <= SoonDays THEN "expiring_soon"
    ELSE "active"

(* license_status_expr, as the filter of a list: a comparison with NULL    *)
(* holds of no row, and the first WHEN that holds decides.                 *)
Before(a, b) == a # None /\ b # None /\ a < b

StatusFilter(status) ==
    LET pending == {l \in Licence : licence[l].activated = None
                                    \/ Before(day, licence[l].activated)}
        lapsed == {l \in Licence \ pending : Before(licence[l].expires, day)}
        soon == {l \in Licence \ (pending \cup lapsed) :
                   Before(licence[l].expires, day + SoonDays + 1)}
    IN  CASE status = "pending_activation" -> pending
          [] status = "expired" -> lapsed
          [] status = "expiring_soon" -> soon
          [] status = "active" -> Licence \ (pending \cup lapsed \cup soon)

-----------------------------------------------------------------------------
(* upsert_license: the columns sent, checked with those it read.  The row  *)
(* appears at its first INSERT; the unique key refuses a second one.       *)
BeginUpsert(k, l, activated, expires) ==
    LET new == [licence[l] EXCEPT !.state = "live", !.activated = activated,
                                  !.expires = expires]
    IN  /\ Idling(k) /\ licence[l].state # "gone"
        /\ activated # None /\ expires # None => activated <= expires
        /\ recording' = [recording EXCEPT
               ![k] = [licence |-> l, seen |-> licence[l], new |-> new]]
        /\ crossed' = (crossed \/ \E other \in LicenceClerk :
                          licence[l].state = "live" /\ recording[other].licence = l)
    /\ UNCHANGED <<day, licence, raising, renewals, pass, notices, failures>>

CommitUpsert(k) ==
    LET r == recording[k] IN
    /\ r # NotRecording
    /\ r.seen.state = "absent" => licence[r.licence].state = "absent"
    /\ licence' = [licence EXCEPT ![r.licence] = Overlay(@, r.seen, r.new)]
    /\ recording' = [recording EXCEPT ![k] = NotRecording]
    /\ UNCHANGED <<day, raising, renewals, pass, notices, failures, crossed>>

RefuseUpsert(k) ==
    LET r == recording[k] IN
    /\ r # NotRecording
    /\ r.seen.state = "absent" /\ licence[r.licence].state # "absent"
    /\ recording' = [recording EXCEPT ![k] = NotRecording]
    /\ UNCHANGED <<day, licence, raising, renewals, pass, notices, failures, crossed>>

(* remove_opportunity, of the licence's own *)
RemoveSource(l) ==
    /\ licence[l].state = "live"
    /\ licence' = [licence EXCEPT ![l].state = "gone"]
    /\ UNCHANGED <<day, recording, raising, renewals, pass, notices, failures, crossed>>

-----------------------------------------------------------------------------
(* _renewable_query *)
Renewable(l) == licence[l].state = "live" /\ licence[l].expires # None

MutantNotRenewed(l) == renewals[l] <= 1

(* _renewals_by_license: none was raised, or every one was removed.        *)
NotRenewed(l) == renewals[l] = 0

(* create_renewal: the look for an earlier renewal, and the INSERT.        *)
BeginRenewal(k, l) ==
    /\ Idling(k) /\ Renewable(l) /\ NotRenewed(l)
    /\ raising' = [raising EXCEPT ![k] = l]
    /\ crossed' = (crossed \/ \E other \in LicenceClerk : raising[other] = l)
    /\ UNCHANGED <<day, licence, recording, renewals, pass, notices, failures>>

CommitRenewal(k) ==
    /\ raising[k] # None
    /\ renewals' = [renewals EXCEPT ![raising[k]] = @ + 1]
    /\ raising' = [raising EXCEPT ![k] = None]
    /\ UNCHANGED <<day, licence, recording, pass, notices, failures, crossed>>

(* remove_opportunity, of a renewal *)
RemoveRenewal(l) ==
    /\ renewals[l] > 0
    /\ renewals' = [renewals EXCEPT ![l] = @ - 1]
    /\ UNCHANGED <<day, licence, recording, raising, pass, notices, failures, crossed>>

-----------------------------------------------------------------------------
(* sweep_renewals *)

MutantNoticeDue(l) ==
    /\ Renewable(l) /\ ~licence[l].noticed /\ NotRenewed(l)
    /\ licence[l].expires = day + NoticeDays

NoticeDue(l) ==
    /\ Renewable(l) /\ ~licence[l].noticed /\ NotRenewed(l)
    /\ day <= licence[l].expires /\ licence[l].expires <= day + NoticeDays

BeginNotices(s) ==
    LET rows == {l \in Licence : NoticeDue(l)} IN
    /\ pass[s] = {} /\ rows # {}
    /\ pass' = [pass EXCEPT ![s] = rows]
    /\ crossed' = (crossed \/ \E other \in Notifier : pass[other] \cap rows # {})
    /\ UNCHANGED <<day, licence, recording, raising, renewals, notices, failures>>

(* The notifications and the stamps are one transaction.                   *)
CommitNotices(s) ==
    /\ pass[s] # {}
    /\ licence' = [l \in Licence |-> IF l \in pass[s]
                     THEN [licence[l] EXCEPT !.noticed = TRUE] ELSE licence[l]]
    /\ notices' = [l \in Licence |-> IF l \in pass[s] THEN notices[l] + 1
                                                      ELSE notices[l]]
    /\ pass' = [pass EXCEPT ![s] = {}]
    /\ UNCHANGED <<day, recording, raising, renewals, failures, crossed>>

(* The pass raises: _daily logs it, rolls back and runs again.             *)
AbortNotices(s) ==
    /\ pass[s] # {} /\ failures < MaxFailures
    /\ pass' = [pass EXCEPT ![s] = {}]
    /\ failures' = failures + 1
    /\ UNCHANGED <<day, licence, recording, raising, renewals, notices, crossed>>

NextDay ==
    /\ day < LastDay /\ day' = day + 1
    /\ UNCHANGED <<licence, recording, raising, renewals, pass, notices, failures,
                   crossed>>

-----------------------------------------------------------------------------
LicencesInit ==
    /\ day = 1 /\ failures = 0 /\ crossed = FALSE
    /\ licence = [l \in Licence |-> NoLicence]
    /\ recording = [k \in LicenceClerk |-> NotRecording]
    /\ raising = [k \in LicenceClerk |-> None]
    /\ renewals = [l \in Licence |-> 0]
    /\ pass = [s \in Notifier |-> {}]
    /\ notices = [l \in Licence |-> 0]

NoticesOf(s) == BeginNotices(s) \/ CommitNotices(s)

ClockAndLoops ==
    NextDay \/ \E s \in Notifier : NoticesOf(s) \/ AbortNotices(s)

LicenceRequests ==
    \/ \E k \in LicenceClerk :
          \/ CommitUpsert(k) \/ RefuseUpsert(k) \/ CommitRenewal(k)
          \/ \E l \in Licence :
                \/ BeginRenewal(k, l)
                \/ \E activated \in Activation \cup {None},
                   expires \in Date \cup {None} :
                      BeginUpsert(k, l, activated, expires)
    \/ \E l \in Licence : RemoveSource(l) \/ RemoveRenewal(l)

LicencesNext == ClockAndLoops \/ LicenceRequests

(* The loop of every process comes round, and nothing keeps a pass waiting.*)
LicencesFairness == \A s \in Notifier : WF_licenceVars(NoticesOf(s))

LicencesSpec == LicencesInit /\ [][LicencesNext]_licenceVars /\ LicencesFairness

-----------------------------------------------------------------------------
LicencesTypeOK ==
    /\ day \in Day /\ failures \in 0 .. MaxFailures /\ crossed \in BOOLEAN
    /\ licence \in [Licence -> LicenceRow]
    /\ recording \in [LicenceClerk -> {NotRecording} \cup
                        [licence : Licence, seen : LicenceRow, new : LicenceRow]]
    /\ raising \in [LicenceClerk -> Licence \cup {None}]
    /\ renewals \in [Licence -> Nat]
    /\ pass \in [Notifier -> SUBSET Licence]
    /\ notices \in [Licence -> Nat]

(* Whatever an upsert, a removal, a failing pass and a day in between make *)
(* of a licence that a pass or a request has in hand: people are told of   *)
(* it once and the stamp says so, it is renewed once at a time, it does    *)
(* not end before it begins, and it is listed under the status that its    *)
(* page shows.  Two passes, or two requests, on one licence at once can    *)
(* break it, for none of them locks what it read.                          *)
LicencesStand ==
    /\ crossed \/
       \A l \in Licence :
          LET row == licence[l] IN
          /\ notices[l] = IF row.noticed THEN 1 ELSE 0
          /\ renewals[l] <= 1
          /\ row.activated # None /\ row.expires # None =>
                row.activated <= row.expires
    /\ \A l \in Licence : l \in StatusFilter(DeriveStatus(licence[l]))

(* Whoever has to renew a licence is told before it ends, unless a renewal *)
(* is raised, or the licence moved, ended or removed, first.               *)
Untold(l) ==
    /\ licence[l].state = "live" /\ notices[l] = 0 /\ renewals[l] = 0
    /\ licence[l].expires # None
    /\ licence[l].expires \in day .. day + NoticeDays

NoticeIsSent == \A l \in Licence : Untold(l) ~> ~Untold(l)
=============================================================================
