------------------------------- MODULE PocTxn -------------------------------
(***************************************************************************)
(* One POC, its stages and its team, when the requests of several people   *)
(* cross.  No row is locked: each request reads the POC and its team,      *)
(* decides on that, and its flush writes later the columns it changed.     *)
(*                                                                         *)
(* Who may be on a team, and what a handover does to it, is in Delivery;   *)
(* roles on the team, notes and the target date are left out.              *)
(***************************************************************************)
EXTENDS Rows, Integers

CONSTANTS
    Person,    \* who may be on the team
    Stage,     \* POC_STAGE_KEYS
    VM,        \* the stage that starts a POC
    PocClerk,  \* database sessions that write the POC
    LastDate   \* what a stage may be dated, from 1

ASSUME PocAssumption ==
    /\ VM \in Stage /\ LastDate \in Nat
    /\ None \notin Person /\ None \notin 1 .. LastDate

VARIABLES
    poc,        \* the row of pocs
    seats,      \* the memberships that are not removed
    intent,      \* the request under way in each session
    restarted,  \* a POC with earlier stages was given a later start
    torn        \* a request wrote although what it had checked was gone

pocVars == <<poc, seats, intent, restarted, torn>>

Outcome == {"successful", "unsuccessful"}
PocStatus == Outcome \cup {"absent", "not_started", "running"}
StageDate == 1 .. LastDate

\* reason: failure_reason is set
PocRow == [status : PocStatus, start : StageDate \cup {None},
           end : StageDate \cup {None}, closed : BOOLEAN, reason : BOOLEAN,
           done : [Stage -> StageDate \cup {None}],
           owner : [Stage -> Person \cup {None}]]

NoPoc == [status |-> "absent", start |-> None, end |-> None, closed |-> FALSE,
          reason |-> FALSE, done |-> [s \in Stage |-> None],
          owner |-> [s \in Stage |-> None]]

NoIntent == [kind |-> "none", who |-> None, seen |-> NoPoc, new |-> NoPoc]

-----------------------------------------------------------------------------
(* derive_status *)
StatusOf(row) ==
    IF row.closed THEN IF row.status \in Outcome THEN row.status ELSE "successful"
    ELSE IF row.done[VM] # None THEN "running" ELSE "not_started"

Derived(row) == [row EXCEPT !.status = StatusOf(row)]

(* _validate_stage_dates: nothing is done before the start.                *)
StagesFollowStart(row) ==
    row.start # None =>
        \A s \in Stage : row.done[s] # None => row.start <= row.done[s]

Owned(row, u) == {s \in Stage : row.owner[s] = u}

(* What a request checked still holds when it writes.                      *)
StillHolds(r) ==
    CASE r.kind = "start"  -> /\ poc.start = r.seen.start
                              /\ poc.closed = r.seen.closed
                              /\ poc.done = r.seen.done
      [] r.kind = "stages" -> poc.start = r.seen.start /\ poc.closed = r.seen.closed
      [] r.kind = "outcome" -> \A f \in {"start", "status", "closed", "end", "reason"} :
                                 poc[f] = r.seen[f]
      [] r.kind = "owner"  -> r.who \in seats
      [] r.kind = "leave"  -> Owned(poc, r.who) = Owned(r.seen, r.who)
      [] OTHER             -> TRUE

Intend(k, kind, who, new) ==
    /\ intent[k] = NoIntent
    /\ intent' = [intent EXCEPT
                   ![k] = [kind |-> kind, who |-> who, seen |-> poc, new |-> new]]

-----------------------------------------------------------------------------
(* start_poc.  A POC that was un-started is started again, and the dates   *)
(* of its other stages are not looked at.                                  *)
StartPocAgain(k, d) ==
    LET new == Derived([poc EXCEPT !.start = d, !.done[VM] = d]) IN
    /\ poc.done[VM] = None
    /\ Intend(k, "start", None, new)
    /\ restarted' = (restarted \/ ~StagesFollowStart(new))
    /\ UNCHANGED <<poc, seats, torn>>

(* The dates sent, over those of the row; the start is the VM's.           *)
WithDates(row, dates) ==
    Derived([row EXCEPT
        !.done = [s \in Stage |-> IF s \in DOMAIN dates THEN dates[s] ELSE @[s]],
        !.start = IF VM \in DOMAIN dates THEN dates[VM] ELSE @])

WriteDates(k, dates) ==
    LET new == WithDates(poc, dates) IN
    /\ poc.status # "absent" /\ ~poc.closed
    /\ StagesFollowStart(new)
    /\ Intend(k, IF VM \in DOMAIN dates THEN "start" ELSE "stages", None, new)
    /\ UNCHANGED <<poc, seats, restarted, torn>>

(* set_stage *)
SetStage(k, s, d) == WriteDates(k, [x \in {s} |-> d])

(* update_poc: several stages in one request.                              *)
UpdatePoc(k, dates) == WriteDates(k, dates)

(* set_stage_owner *)
SetStageOwner(k, s, u) ==
    /\ poc.status # "absent" /\ ~poc.closed
    /\ u # None => u \in seats
    /\ Intend(k, IF u = None THEN "clear" ELSE "owner", u, [poc EXCEPT !.owner[s] = u])
    /\ UNCHANGED <<poc, seats, restarted, torn>>

(* close_poc: a reason is kept for a failure alone.                        *)
ClosePoc(k, outcome, d, reason) ==
    /\ poc.done[VM] # None /\ ~poc.closed
    /\ poc.start # None => poc.start <= d
    /\ Intend(k, "outcome", None,
           [poc EXCEPT !.closed = TRUE, !.end = d, !.status = outcome,
                       !.reason = (outcome = "unsuccessful" /\ reason)])
    /\ UNCHANGED <<poc, seats, restarted, torn>>

MutantReopened(row) ==
    [Derived(row) EXCEPT !.closed = FALSE, !.end = None, !.reason = FALSE]

(* reopen_poc: the status follows from the row as it is once it is open.   *)
Reopened(row) ==
    Derived([row EXCEPT !.closed = FALSE, !.end = None, !.reason = FALSE])

ReopenPoc(k) ==
    /\ poc.closed
    /\ Intend(k, "outcome", None, Reopened(poc))
    /\ UNCHANGED <<poc, seats, restarted, torn>>

(* add_member *)
JoinTeam(k, u) ==
    /\ poc.status # "absent" /\ u \notin seats
    /\ Intend(k, "join", u, poc)
    /\ UNCHANGED <<poc, seats, restarted, torn>>

(* remove_member, with clear_stage_owner_for_user, on a POC closed or not. *)
LeaveTeam(k, u) ==
    /\ u \in seats
    /\ Intend(k, "leave", u,
           [poc EXCEPT !.owner = [s \in Stage |-> IF @[s] = u THEN None ELSE @[s]]])
    /\ UNCHANGED <<poc, seats, restarted, torn>>

-----------------------------------------------------------------------------
(* One POC of an opportunity, one live membership of a person: the unique  *)
(* keys refuse the second.                                                 *)
KeyRefuses(r) ==
    \/ r.seen.status = "absent" /\ poc.status # "absent"
    \/ r.kind = "join" /\ r.who \in seats

(* The dates and the owners are columns of their own.                      *)
Written(row, seen, new) ==
    [Overlay(row, seen, new) EXCEPT
        !.done = Overlay(row.done, seen.done, new.done),
        !.owner = Overlay(row.owner, seen.owner, new.owner)]

CommitPoc(k) ==
    LET r == intent[k]
        team == CASE r.kind = "join" -> seats \cup {r.who}
                  [] r.kind = "leave" -> seats \ {r.who}
                  [] OTHER -> seats
    IN  /\ intent[k] # NoIntent /\ ~KeyRefuses(r)
        /\ poc' = Written(poc, r.seen, r.new)
        /\ seats' = team
        /\ intent' = [intent EXCEPT ![k] = NoIntent]
        /\ torn' = (torn \/ ~StillHolds(r))
        /\ UNCHANGED restarted

RefusePoc(k) ==
    /\ intent[k] # NoIntent /\ KeyRefuses(intent[k])
    /\ intent' = [intent EXCEPT ![k] = NoIntent]
    /\ UNCHANGED <<poc, seats, restarted, torn>>

-----------------------------------------------------------------------------
PocInit ==
    /\ poc = NoPoc /\ seats = {}
    /\ intent = [k \in PocClerk |-> NoIntent]
    /\ restarted = FALSE /\ torn = FALSE

IntendPoc(k) ==
    \/ \E d \in StageDate :
          \/ StartPocAgain(k, d)
          \/ \E outcome \in Outcome, reason \in BOOLEAN : ClosePoc(k, outcome, d, reason)
    \/ \E s \in Stage, d \in StageDate \cup {None} : SetStage(k, s, d)
    \/ \E given \in SUBSET Stage : \E dates \in [given -> StageDate \cup {None}] :
          given # {} /\ UpdatePoc(k, dates)
    \/ \E s \in Stage, u \in Person \cup {None} : SetStageOwner(k, s, u)
    \/ ReopenPoc(k)
    \/ \E u \in Person : JoinTeam(k, u) \/ LeaveTeam(k, u)

PocNext == \E k \in PocClerk : IntendPoc(k) \/ CommitPoc(k) \/ RefusePoc(k)

PocSpec == PocInit /\ [][PocNext]_pocVars

-----------------------------------------------------------------------------
PocTypeOK ==
    /\ poc \in PocRow
    /\ seats \subseteq Person
    /\ intent \in [PocClerk ->
          [kind : {"none", "start", "stages", "outcome", "owner", "clear", "join", "leave"},
           who : Person \cup {None}, seen : PocRow, new : PocRow]]
    /\ restarted \in BOOLEAN /\ torn \in BOOLEAN

(* Whatever order a POC is started, un-started, worked on, closed and      *)
(* reopened in, and whichever requests cross that check nothing the other  *)
(* writes: it starts with its VM, it has an outcome and an end exactly     *)
(* while it is closed and does not end before it starts, a reason is of a  *)
(* failure, no stage comes before the start (of a POC that was started     *)
(* once), and whoever owns a stage is on the team.                         *)
PocStands ==
    torn \/
    /\ poc.start = poc.done[VM]
    /\ poc.closed <=> poc.status \in Outcome
    /\ poc.closed <=> poc.end # None
    /\ poc.closed => poc.start # None /\ poc.start <= poc.end
    /\ poc.status # "absent" => poc.status = StatusOf(poc)
    /\ poc.reason => poc.status = "unsuccessful"
    /\ restarted \/ StagesFollowStart(poc)
    /\ \A s \in Stage : poc.owner[s] # None => poc.owner[s] \in seats
=============================================================================
