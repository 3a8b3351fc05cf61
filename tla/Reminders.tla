----------------------------- MODULE Reminders -----------------------------
(***************************************************************************)
(* Entries of the sales reps' activity log with a follow-up reminder, the  *)
(* sweep that sends what is due, every minute in each server process, and  *)
(* the requests that move, remove or delete an entry meanwhile.            *)
(*                                                                         *)
(* A sweep locks the rows it takes and skips those that another has; an    *)
(* edit reads its row without a lock and waits for one when it writes.     *)
(***************************************************************************)
EXTENDS Rows, Integers, FiniteSets

CONSTANTS
    Activity,   \* ids of entries
    Editor,     \* requests that edit an entry
    Sweeper,    \* server processes
    LastHour,   \* the clock stops here: a bound
    BatchSize,  \* LIMIT of the sweep
    MaxAborts   \* passes that may fail: a bound

ASSUME RemindersAssumption ==
    LastHour \in Nat /\ BatchSize \in Nat \ {0} /\ MaxAborts \in Nat

VARIABLES
    hour,      \* the time
    activity,  \* the rows of sales_activities
    editing,   \* the edit under way in each request
    batch,     \* the rows that the pass of each server has locked
    told,      \* how often the rep was notified of each reminder
    aborts,    \* passes that failed
    mixed      \* an entry was written while an edit had it in hand

reminderVars == <<hour, activity, editing, batch, told, aborts, mixed>>

Hour == 0 .. LastHour
\* sent: reminder_sent_at is set
Entry == [state : {"absent", "live", "deleted"}, due : Hour \cup {None},
          sent : BOOLEAN]
NoEntry == [state |-> "absent", due |-> None, sent |-> FALSE]
NotEditing == [activity |-> None, seen |-> NoEntry, new |-> NoEntry]

Due(a) == /\ activity[a].state = "live" /\ ~activity[a].sent
          /\ activity[a].due # None /\ activity[a].due <= hour

InHand(k, rows) == editing[k] # NotEditing /\ editing[k].activity \in rows

Locked(a) == \E s \in Sweeper : a \in batch[s]

-----------------------------------------------------------------------------
(* _validate_reminder_at: a reminder is ahead of us. *)
Ahead(due) == due # None => due > hour

(* create_activity *)
LogActivity(a, due) ==
    /\ activity[a].state = "absent" /\ Ahead(due)
    /\ activity' = [activity EXCEPT ![a] =
                        [state |-> "live", due |-> due, sent |-> FALSE]]
    /\ UNCHANGED <<hour, editing, batch, told, aborts, mixed>>

BeginActivityEdit(k, a, new) ==
    /\ editing[k] = NotEditing /\ activity[a].state = "live"
    /\ editing' = [editing EXCEPT
            ![k] = [activity |-> a, seen |-> activity[a], new |-> new]]
    /\ UNCHANGED <<hour, activity, batch, told, aborts, mixed>>

MutantPostponed(row, due) == [row EXCEPT !.due = due]

(* A moved reminder is a new one, and no reminder was not sent either. *)
Postponed(row, due) == [row EXCEPT !.due = due, !.sent = FALSE]

(* update_activity.  The form sends the reminder back as it was, which     *)
(* changes nothing even if it is in the past.                              *)
MoveReminder(k, a, due) ==
    /\ due # activity[a].due /\ Ahead(due)
    /\ BeginActivityEdit(k, a, Postponed(activity[a], due))

(* delete_activity *)
DeleteActivity(k, a) ==
    BeginActivityEdit(k, a, [activity[a] EXCEPT !.state = "deleted"])

CommitActivity(k) ==
    LET e == editing[k] IN
    /\ e # NotEditing /\ ~Locked(e.activity)
    /\ activity' = [activity EXCEPT ![e.activity] = Overlay(@, e.seen, e.new)]
    /\ mixed' = (mixed \/ \E other \in Editor \ {k} : InHand(other, {e.activity}))
    /\ editing' = [editing EXCEPT ![k] = NotEditing]
    /\ UNCHANGED <<hour, batch, told, aborts>>

-----------------------------------------------------------------------------
(* send_due_reminders *)

(* FOR UPDATE SKIP LOCKED, the oldest first, so many and no more. *)
Takes(s, rows) ==
    LET free == {a \in Activity : Due(a) /\ ~Locked(a)} IN
    /\ rows \subseteq free /\ rows # {}
    /\ Cardinality(rows) <= BatchSize
    /\ rows # free => Cardinality(rows) = BatchSize
    /\ \A a \in rows, b \in free \ rows : activity[a].due <= activity[b].due

Sweep(s, rows) ==
    /\ batch[s] = {} /\ Takes(s, rows)
    /\ batch' = [batch EXCEPT ![s] = rows]
    /\ UNCHANGED <<hour, activity, editing, told, aborts, mixed>>

(* The notifications and the stamps are one transaction. *)
CommitSweep(s) ==
    /\ batch[s] # {}
    /\ activity' = [a \in Activity |-> IF a \in batch[s]
                      THEN [activity[a] EXCEPT !.sent = TRUE] ELSE activity[a]]
    /\ told' = [a \in Activity |-> IF a \in batch[s]
                  THEN [told[a] EXCEPT ![activity[a].due] = @ + 1] ELSE told[a]]
    /\ batch' = [batch EXCEPT ![s] = {}]
    /\ mixed' = (mixed \/ \E k \in Editor : InHand(k, batch[s]))
    /\ UNCHANGED <<hour, editing, aborts>>

(* The pass raises: _every logs it, rolls back and tries again. *)
AbortSweep(s) ==
    /\ batch[s] # {} /\ aborts < MaxAborts
    /\ batch' = [batch EXCEPT ![s] = {}]
    /\ aborts' = aborts + 1
    /\ UNCHANGED <<hour, activity, editing, told, mixed>>

HourPasses ==
    /\ hour < LastHour /\ hour' = hour + 1
    /\ UNCHANGED <<activity, editing, batch, told, aborts, mixed>>

-----------------------------------------------------------------------------
RemindersInit ==
    /\ hour = 0 /\ aborts = 0 /\ mixed = FALSE
    /\ activity = [a \in Activity |-> NoEntry]
    /\ editing = [k \in Editor |-> NotEditing]
    /\ batch = [s \in Sweeper |-> {}]
    /\ told = [a \in Activity |-> [h \in Hour |-> 0]]

SweepOf(s) == (\E rows \in SUBSET Activity : Sweep(s, rows)) \/ CommitSweep(s)

RemindersNext ==
    \/ HourPasses
    \/ \E s \in Sweeper : SweepOf(s) \/ AbortSweep(s)
    \/ \E k \in Editor : CommitActivity(k)
    \/ \E a \in Activity :
          \/ \E due \in Hour \cup {None} :
                LogActivity(a, due) \/ \E k \in Editor : MoveReminder(k, a, due)
          \/ \E k \in Editor : DeleteActivity(k, a)

(* Every server comes round each minute, and no edit keeps it waiting.     *)
RemindersFairness == \A s \in Sweeper : WF_reminderVars(SweepOf(s))

RemindersSpec == RemindersInit /\ [][RemindersNext]_reminderVars
                 /\ RemindersFairness

-----------------------------------------------------------------------------
RemindersTypeOK ==
    /\ hour \in Hour /\ aborts \in 0 .. MaxAborts /\ mixed \in BOOLEAN
    /\ activity \in [Activity -> Entry]
    /\ editing \in [Editor -> {NotEditing} \cup
                      [activity : Activity, seen : Entry, new : Entry]]
    /\ batch \in [Sweeper -> SUBSET Activity]
    /\ told \in [Activity -> [Hour -> Nat]]

(* However the sweeps of two servers overlap, with each other and with     *)
(* edits, and whichever of them fail: a reminder is sent once, and a stamp *)
(* is of the reminder that the entry shows, so that a moved one goes out.  *)
(* An edit that read its row before the sweep stamped it can break it: the *)
(* stamp it meant to clear was not there yet, so it does not write it.     *)
RemindedOnce ==
    /\ \A s, t \in Sweeper : s # t => batch[s] \cap batch[t] = {}
    /\ mixed \/
       \A a \in Activity :
          /\ \A h \in Hour : told[a][h] <= 1
          /\ activity[a].sent => /\ activity[a].due # None
                                 /\ told[a][activity[a].due] = 1

(* What is due is sent, unless it is moved, removed or deleted first. *)
DueIsSent == \A a \in Activity : Due(a) ~> ~Due(a)
=============================================================================
