------------------------------ MODULE DealTxn ------------------------------
(***************************************************************************)
(* The handlers of Exclusivity as they really run: each in a database      *)
(* session of its own, several at a time (two server processes, any number *)
(* of requests, one sweep loop per process), against PostgreSQL at its     *)
(* default isolation, READ COMMITTED.                                      *)
(*                                                                         *)
(* A transaction READS the rows its guards need, taking no lock; WRITES    *)
(* its first UPDATEs (the flush before the next SELECT), which locks those *)
(* rows until it ends, and then reads the ownership rows it will change;   *)
(* and COMMITS.  Three rules of the database and of SQLAlchemy matter:     *)
(*   - a SELECT sees what was committed before it, nothing later;          *)
(*   - an UPDATE that finds its row locked waits, and then overwrites the  *)
(*     columns it sets in whatever was committed meanwhile: the guard that *)
(*     was evaluated on the older row is not evaluated again;              *)
(*   - a column is in the UPDATE only if the session changed its value.    *)
(*                                                                         *)
(* The calendar moves only while no transaction is open: handlers take     *)
(* seconds.  Companies do not move or change type here (Exclusivity has    *)
(* that), and renewals are left out: they insert without reading.          *)
(***************************************************************************)
EXTENDS DealTables, FiniteSetsExt

CONSTANTS
    Handler,     \* database sessions that serve HTTP requests
    Sweeper,     \* database sessions of the sweep loops, one per process;
                 \* a session in both is a server that does one thing at a time
    CountryOf,   \* Company -> Country
    MaxRow,      \* bound: ids of customer_ownership
    MaxDay       \* bound: the last day the calendar reaches

Session == Handler \cup Sweeper

ASSUME CountryOfAssumption == CountryOf \in [Company -> Country]
ASSUME ServerAssumption ==
    IsFiniteSet(Sweeper) /\ MaxRow \in Nat /\ MaxDay \in Nat \ {0}
ASSUME NoRowAssumption == None \notin OwnershipRow

VARIABLES
    today,     \* date.today()
    deals,     \* deal_registrations, committed
    requests,  \* deal_extension_requests, committed
    rows,      \* customer_ownership by id, committed; None if never inserted
               \* or no longer active
    nextRow,   \* the next id of customer_ownership
    earned,    \* the deals that have a row in commissions, committed
    notices,   \* exclusivity_expired notifications sent about each deal
    txn        \* what each session's open transaction holds

vars == <<today, deals, requests, rows, nextRow, earned, notices, txn>>
tables == <<deals, requests, rows, nextRow, earned, notices>>

RowId == 1 .. MaxRow

Kind == {"create", "approve", "reject", "request", "grant", "refuse", "sweep"}

(* A transaction: what it does, how far it got, the arguments of the       *)
(* request, the deal rows it read, the ids of the ownership rows it read   *)
(* after its flush as they were, and whether it then saw a commission row. *)
Txn ==
    [kind : Kind, at : {"read", "written"}, deal : Deal \cup {None},
     request : Request \cup {None}, days : Nat,
     company : Company \cup {None}, name : Name \cup {None},
     saw : [Deal -> DealRow], mine : SUBSET (RowId \X OwnershipRow), paid : BOOLEAN]

Idle ==
    [kind |-> "idle", at |-> "read", deal |-> None, request |-> None,
     days |-> 0, company |-> None, name |-> None,
     saw |-> [d \in Deal |-> NoDeal], mine |-> {}, paid |-> FALSE]

TypeOK ==
    /\ today \in 1 .. MaxDay
    /\ deals \in [Deal -> DealRow]
    /\ requests \in [Request -> RequestRow]
    /\ rows \in [RowId -> OwnershipRow \cup {None}]
    /\ nextRow \in 1 .. MaxRow + 1
    /\ earned \subseteq Deal
    /\ notices \in [Deal -> 0 .. Cardinality(Sweeper)]
    /\ txn \in [Session -> Txn \cup {Idle}]

Init ==
    /\ today = 1
    /\ deals = [d \in Deal |-> NoDeal]
    /\ requests = [q \in Request |-> NoRequest]
    /\ rows = [i \in RowId |-> None]
    /\ nextRow = 1
    /\ earned = {}
    /\ notices = [d \in Deal |-> 0]
    /\ txn = [s \in Session |-> Idle]

Open(s) == txn[s].kind # "idle"

OnlyDeal(d) == [e \in Deal |-> IF e = d THEN deals[d] ELSE NoDeal]

Begin(s, t) ==
    /\ ~Open(s)
    /\ txn' = [txn EXCEPT ![s] = t]
    /\ UNCHANGED <<today, tables>>

-----------------------------------------------------------------------------
(* First reads: every guard of the handlers is evaluated here. *)

(* Ids come from a sequence: no two sessions insert under the same one.    *)
Fresh(d) == deals[d].status = "absent" /\ \A s \in Session : txn[s].deal # d

FreshRequest(q) ==
    /\ requests[q].status = "absent"
    /\ \A s \in Session : txn[s].request # q

ReadCreate(s, d, c, n) ==
    /\ Fresh(d)
    /\ ~RegistrationConflict(deals, c, n, today)
    /\ Begin(s, [Idle EXCEPT !.kind = "create", !.deal = d,
                             !.company = c, !.name = n])

ReadDecideDeal(s, d, kind, days) ==
    /\ deals[d].status = "pending"
    /\ Begin(s, [Idle EXCEPT !.kind = kind, !.deal = d, !.days = days])

ReadRequest(s, q, d, days) ==
    /\ FreshRequest(q)
    /\ deals[d].status = "approved"
    /\ \A r \in Request :
          ~(requests[r].status = "pending" /\ requests[r].deal = d)
    /\ Begin(s, [Idle EXCEPT !.kind = "request", !.deal = d,
                             !.request = q, !.days = days])

ReadDecideRequest(s, q, kind, days) ==
    /\ requests[q].status = "pending"
    /\ Begin(s, [Idle EXCEPT !.kind = kind, !.deal = requests[q].deal,
                             !.request = q, !.days = days,
                             !.saw = OnlyDeal(requests[q].deal)])

ReadSweep(s) ==
    Begin(s, [Idle EXCEPT !.kind = "sweep",
                 !.saw = [d \in Deal |->
                    IF deals[d].status = "approved" THEN deals[d]
                                                    ELSE NoDeal]])

-----------------------------------------------------------------------------
(* Row locks.  A flushed transaction holds the rows it has updated. *)

DealsWritten(t) ==
    CASE t.kind \in {"approve", "reject", "grant"} -> {t.deal}
      [] t.kind = "sweep" ->
            {d \in Deal : Lapsed(t.saw[d], today) \/ WarningDue(t.saw[d], today)}
      [] OTHER -> {}

RequestsWritten(t) ==
    IF t.kind \in {"grant", "refuse"} THEN {t.request} ELSE {}

Others(s) == {o \in Session \ {s} : Open(o) /\ txn[o].at = "written"}

Unlocked(s) ==
    \A o \in Others(s) :
        /\ DealsWritten(txn[o]) \cap DealsWritten(txn[s]) = {}
        /\ RequestsWritten(txn[o]) \cap RequestsWritten(txn[s]) = {}

Holding(ids, t) == [t EXCEPT !.at = "written", !.mine = ids]

(* The active rows of this deal's company, customer and country, as        *)
(* committed now.                                                          *)
OwnedNow(deal) ==
    {<<i, rows[i]>> : i \in
        {j \in RowId : /\ rows[j] # None
                       /\ rows[j].customer = Norm[deal.name]
                       /\ rows[j].company = deal.company
                       /\ rows[j].country = CountryOf[deal.company]}}

ReleasableNow(d) ==
    {<<i, rows[i]>> : i \in
        {j \in RowId : /\ rows[j] # None
                       /\ rows[j].source = d
                       /\ rows[j].until <= today}}

-----------------------------------------------------------------------------
(* First writes: UPDATEs that lock, then the SELECTs that follow them. *)

WriteApprove(s) ==
    LET t == txn[s] IN
    /\ t.kind = "approve" /\ t.at = "read" /\ Unlocked(s)
    /\ txn' = [txn EXCEPT ![s] =
                [Holding(OwnedNow(deals[t.deal]), t) EXCEPT
                    !.paid = t.deal \in earned]]
    /\ UNCHANGED <<today, tables>>

WriteGrant(s) ==
    LET t == txn[s] IN
    /\ t.kind = "grant" /\ t.at = "read" /\ Unlocked(s)
    /\ txn' = [txn EXCEPT ![s] = Holding(OwnedNow(deals[t.deal]), t)]
    /\ UNCHANGED <<today, tables>>

WriteSweep(s) ==
    LET t == txn[s]
        lapsed == {d \in Deal : Lapsed(t.saw[d], today)} IN
    /\ t.kind = "sweep" /\ t.at = "read" /\ Unlocked(s)
    /\ txn' = [txn EXCEPT ![s] =
                Holding(UNION {ReleasableNow(d) : d \in lapsed}, t)]
    /\ UNCHANGED <<today, tables>>

-----------------------------------------------------------------------------
(* Commits. *)

End(s) == txn' = [txn EXCEPT ![s] = Idle]

MutantRowAlwaysMoved(i, seen, d, deal) ==
    IF rows[i] = None THEN None
    ELSE [rows[i] EXCEPT !.until = deal.end, !.source = d]

(* upsert_ownership_from_deal on the rows read after the flush: INSERT if  *)
(* there was none; else UPDATE by id the columns that change, which is     *)
(* lost on a row that was deactivated meanwhile.                           *)
RowUpdated(i, seen, d, deal) ==
    IF rows[i] = None \/ deal.end <= seen.until THEN rows[i]
    ELSE [rows[i] EXCEPT !.until = deal.end,
                         !.source = IF seen.source = d THEN @ ELSE d]

CommitUpsert(t, deal) ==
    IF Norm[deal.name] = Blank THEN UNCHANGED <<rows, nextRow>>
    ELSE IF t.mine = {} THEN
        /\ nextRow \in RowId
        /\ rows' = [rows EXCEPT ![nextRow] =
                       OwnershipFrom(t.deal, deal, CountryOf[deal.company])]
        /\ nextRow' = nextRow + 1
    ELSE \E m \in t.mine :
        /\ rows' = [rows EXCEPT ![m[1]] = RowUpdated(m[1], m[2], t.deal, deal)]
        /\ UNCHANGED nextRow

(* scalar_one_or_none() raises MultipleResultsFound. *)
Ambiguous(t) == Cardinality(t.mine) > 1

CommitCreate(s) ==
    LET t == txn[s] IN
    /\ t.kind = "create"
    /\ deals' = [deals EXCEPT ![t.deal] = Registered(t.company, t.name)]
    /\ End(s)
    /\ UNCHANGED <<today, requests, rows, nextRow, earned, notices>>

(* approve_deal swallows an exception of the upsert and goes on.           *)
CommitApprove(s) ==
    LET t == txn[s]
        deal == Approved(deals[t.deal], t.days, today) IN
    /\ t.kind = "approve" /\ t.at = "written"
    /\ deals' = [deals EXCEPT ![t.deal] = deal]
    /\ IF Ambiguous(t) THEN UNCHANGED <<rows, nextRow>>
                       ELSE CommitUpsert(t, deal)
    /\ earned' = IF t.paid THEN earned ELSE earned \cup {t.deal}
    /\ End(s)
    /\ UNCHANGED <<today, requests, notices>>

CommitReject(s) ==
    LET t == txn[s] IN
    /\ t.kind = "reject" /\ Unlocked(s)
    /\ deals' = [deals EXCEPT ![t.deal] = Rejected(@)]
    /\ End(s)
    /\ UNCHANGED <<today, requests, rows, nextRow, earned, notices>>

MutantNoIndex(t) == FALSE

(* The partial unique index refuses a second open request for the deal,    *)
(* whatever the SELECT saw: then the request fails and is rolled back.     *)
IndexRefuses(t) ==
    \E r \in Request : requests[r].status = "pending" /\ requests[r].deal = t.deal

CommitRequest(s) ==
    LET t == txn[s] IN
    /\ t.kind = "request"
    /\ requests' =
          IF IndexRefuses(t) THEN requests
          ELSE [requests EXCEPT ![t.request] =
                  [status |-> "pending", deal |-> t.deal, asked |-> t.days,
                   granted |-> 0]]
    /\ End(s)
    /\ UNCHANGED <<today, deals, rows, nextRow, earned, notices>>

MutantExtendedFromToday(row, seen, days) ==
    [row EXCEPT !.end = today + days,
                !.warned = IF seen.warned THEN FALSE ELSE @]

(* decide_extension: the end is computed from the row as it was read, and  *)
(* the warning is cleared only if it was set then.                         *)
ExtendedOver(row, seen, days) ==
    [row EXCEPT !.end = seen.end + days,
                !.warned = IF seen.warned THEN FALSE ELSE @]

(* Nothing catches the exception of an ambiguous upsert: all is rolled     *)
(* back.                                                                   *)
CommitGrant(s) ==
    LET t == txn[s]
        deal == ExtendedOver(deals[t.deal], t.saw[t.deal], t.days) IN
    /\ t.kind = "grant" /\ t.at = "written"
    /\ IF Ambiguous(t) THEN UNCHANGED <<deals, requests, rows, nextRow>>
       ELSE /\ deals' = [deals EXCEPT ![t.deal] = deal]
            /\ requests' = [requests EXCEPT ![t.request].status = "approved",
                                            ![t.request].granted = t.days]
            /\ CommitUpsert(t, deal)
    /\ End(s)
    /\ UNCHANGED <<today, earned, notices>>

CommitRefuse(s) ==
    LET t == txn[s] IN
    /\ t.kind = "refuse" /\ Unlocked(s)
    /\ requests' = [requests EXCEPT ![t.request].status = "refused"]
    /\ End(s)
    /\ UNCHANGED <<today, deals, rows, nextRow, earned, notices>>

MutantSweptStampOnly(row, seen) ==
    IF Lapsed(seen, today)
    THEN [row EXCEPT !.warned = IF seen.warned THEN @ ELSE TRUE]
    ELSE IF WarningDue(seen, today)
    THEN [row EXCEPT !.warned = TRUE, !.told = seen.end]
    ELSE row

(* What the sweep's UPDATE makes of a row: the columns it set from what it *)
(* read, in whatever the row is now.                                       *)
SweptOver(row, seen) ==
    IF Lapsed(seen, today)
    THEN [row EXCEPT !.status = "expired",
                     !.warned = IF seen.warned THEN @ ELSE TRUE]
    ELSE IF WarningDue(seen, today)
    THEN [row EXCEPT !.warned = TRUE, !.told = seen.end]
    ELSE row

CommitSweep(s) ==
    LET t == txn[s] IN
    /\ t.kind = "sweep" /\ t.at = "written"
    /\ deals' = [d \in Deal |-> SweptOver(deals[d], t.saw[d])]
    /\ rows' = [i \in RowId |->
                  IF \E m \in t.mine : m[1] = i THEN None ELSE rows[i]]
    /\ notices' = [d \in Deal |->
                     IF Lapsed(t.saw[d], today) THEN notices[d] + 1
                                                ELSE notices[d]]
    /\ End(s)
    /\ UNCHANGED <<today, requests, nextRow, earned>>

(* The client goes away, SMTP or a constraint fails, the process is        *)
(* stopped: get_db rolls back, and nothing of the transaction remains.     *)
Rollback(s) ==
    /\ Open(s)
    /\ End(s)
    /\ UNCHANGED <<today, tables>>

DayPasses ==
    /\ today < MaxDay
    /\ \A s \in Session : ~Open(s)
    /\ today' = today + 1
    /\ UNCHANGED <<tables, txn>>

-----------------------------------------------------------------------------

Read(s) ==
    \/ /\ s \in Sweeper
       /\ ReadSweep(s)
    \/ /\ s \in Handler
       /\ \/ \E d \in Deal, c \in Company, n \in Name :
                ReadCreate(s, d, c, n)
          \/ \E d \in Deal, days \in WindowDays :
                ReadDecideDeal(s, d, "approve", days)
          \/ \E d \in Deal : ReadDecideDeal(s, d, "reject", 0)
          \/ \E q \in Request, d \in Deal, days \in ExtensionDays :
                ReadRequest(s, q, d, days)
          \/ \E q \in Request, days \in ExtensionDays :
                ReadDecideRequest(s, q, "grant", days)
          \/ \E q \in Request : ReadDecideRequest(s, q, "refuse", 0)

Write(s) == WriteApprove(s) \/ WriteGrant(s) \/ WriteSweep(s)

Commit(s) ==
    \/ CommitCreate(s) \/ CommitApprove(s) \/ CommitReject(s)
    \/ CommitRequest(s) \/ CommitGrant(s) \/ CommitRefuse(s)
    \/ CommitSweep(s)

Next ==
    \/ \E s \in Session : Read(s) \/ Write(s) \/ Commit(s) \/ Rollback(s)
    \/ DayPasses

(* get_db and the sweep loop end every transaction that they begin, with a *)
(* commit or a rollback; a lock that is waited for, or a deadlock, ends in *)
(* the rollback.  Each sweep loop starts again after every pass.           *)
Fairness ==
    /\ \A s \in Session : WF_vars(Commit(s) \/ Rollback(s))
    /\ \A s \in Sweeper : WF_vars(ReadSweep(s))

Spec == Init /\ [][Next]_vars /\ Fairness

-----------------------------------------------------------------------------
(* What holds however the transactions interleave. *)

(* deal_extension.py: one open request per deal, so that an admin never    *)
(* decides one against a window that another is moving.  Two requests can  *)
(* both find none; the index is what keeps the second out.                 *)
OneOpenRequest ==
    \A q, r \in Request :
        (/\ requests[q].status = "pending"
         /\ requests[r].status = "pending"
         /\ requests[q].deal = requests[r].deal)
        => q = r

(* calculate_commission_for_deal is "idempotent": its SELECT then INSERT   *)
(* never runs into the unique key on deal_id.  It is the row lock taken by *)
(* the approval's own flush, before that SELECT, that makes it so; an      *)
(* IntegrityError would be swallowed and leave a transaction that cannot   *)
(* commit, so the approval itself would be lost.                           *)
NoDuplicateCommission ==
    \A s \in Session :
        (txn[s].kind = "approve" /\ txn[s].at = "written" /\ ~txn[s].paid)
        => txn[s].deal \notin earned

(* What the plain SELECTs of overlapping transactions let through, a       *)
(* unique key or a row lock keeps out: a second open request, a second     *)
(* commission.                                                             *)
OnlyOnce == OneOpenRequest /\ NoDuplicateCommission

(* One transaction at a time, the three steps of each are the one step of  *)
(* Exclusivity: reading early and writing late changes nothing by itself.  *)
Serial == INSTANCE Exclusivity WITH
    country <- CountryOf,
    programme <- Company,
    Deployed <- {},
    own <- {rows[i] : i \in {j \in RowId : rows[j] # None}}

StepOfExclusivity == [Serial!Next]_(Serial!vars)

-----------------------------------------------------------------------------
(* What one user at a time can rely on while the sweeps of both server     *)
(* processes run, and what two users at once break.                        *)

(* decide_extension: "This request was already ..." (409): a decision is   *)
(* final, and is the one the window was moved by.                          *)
DecisionStands ==
    \A q \in Request :
        requests[q].status \in {"approved", "refused"}
        => requests'[q] = requests[q]

DecidedOnce == [][DecisionStands]_vars

(* commission.py: "One row per approved deal". *)
CommissionBacked ==
    \A d \in Deal :
        d \in earned => deals[d].status \in {"approved", "expired"}

(* upsert_ownership_from_deal: "if an active row already exists for the    *)
(* same (normalized name, country, company), it just extends valid_until". *)
OneRowPerKey ==
    \A i, j \in RowId :
        (/\ rows[i] # None /\ rows[j] # None
         /\ rows[i].customer = rows[j].customer
         /\ rows[i].country = rows[j].country
         /\ rows[i].company = rows[j].company)
        => i = j

(* The end of a window is what was approved and granted: no grant is lost. *)
WindowAccounting ==
    \A d \in Deal :
        deals[d].end = deals[d].start + deals[d].days
            + MapThenSumSet(LAMBDA q : requests[q].granted,
                            {q \in Request : /\ requests[q].status = "approved"
                                             /\ requests[q].deal = d})

=============================================================================
