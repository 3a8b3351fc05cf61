---------------------------- MODULE CommissionTxn ----------------------------
(***************************************************************************)
(* commission_service.update_commission_status under concurrency.          *)
(*                                                                         *)
(* Two administrators act on one commission at the same time.  The handler *)
(* selects the row FOR UPDATE, checks the transition against what it read, *)
(* and commits.  The lock is held from the read to the end of the          *)
(* transaction, so a second SELECT waits and then sees the committed       *)
(* status; a plain SELECT, such as that of a page listing commissions,     *)
(* waits for nobody and is not modelled.                                   *)
(***************************************************************************)
EXTENDS Rows, Integers, FiniteSets

CONSTANTS
    Commission,  \* rows of commissions, one per approved deal
    Session      \* database sessions of requests

ASSUME CommissionAssumption == None \notin Session

VARIABLES
    status,  \* commissions.status as committed, "none" before the INSERT
    paid,    \* times each row was marked paid (paid_at was stamped)
    lock,    \* the session that holds each row's lock
    txn      \* what each session read and what it is asked to set

commissionVars == <<status, paid, lock, txn>>

CommissionStatus == {"none", "pending", "approved", "paid", "void"}

(* VALID_TRANSITIONS *)
ValidTransitions(from) ==
    CASE from = "pending"  -> {"approved", "void"}
      [] from = "approved" -> {"paid", "void"}
      [] OTHER             -> {}

Idle == [row |-> None, saw |-> "none", target |-> "none"]

CommissionTypeOK ==
    /\ status \in [Commission -> CommissionStatus]
    /\ paid \in [Commission -> Nat]
    /\ lock \in [Commission -> Session \cup {None}]
    /\ txn \in [Session -> [row : Commission \cup {None}, saw : CommissionStatus,
                            target : CommissionStatus]]

CommissionInit ==
    /\ status = [m \in Commission |-> "none"]
    /\ paid = [m \in Commission |-> 0]
    /\ lock = [m \in Commission |-> None]
    /\ txn = [s \in Session |-> Idle]

(* The approval of the deal commits the row (DealTxn says why only once).  *)
Record(m) ==
    /\ status[m] = "none"
    /\ status' = [status EXCEPT ![m] = "pending"]
    /\ UNCHANGED <<paid, lock, txn>>

MutantSelect(s, m, target) ==
    /\ txn[s] = Idle
    /\ status[m] # "none"
    /\ lock' = [lock EXCEPT ![m] = s]
    /\ txn' = [txn EXCEPT ![s] =
                 [row |-> m, saw |-> status[m], target |-> target]]
    /\ UNCHANGED <<status, paid>>

(* SELECT ... FOR UPDATE: waits for the lock, then reads what is committed.*)
SelectForUpdate(s, m, target) ==
    /\ txn[s] = Idle
    /\ status[m] # "none"
    /\ lock[m] = None
    /\ lock' = [lock EXCEPT ![m] = s]
    /\ txn' = [txn EXCEPT ![s] =
                 [row |-> m, saw |-> status[m], target |-> target]]
    /\ UNCHANGED <<status, paid>>

MutantReleaseNull(s) ==
    /\ lock' = [m \in Commission |-> IF lock[m] = s THEN None ELSE lock[m]]
    /\ txn' = [txn EXCEPT ![s] = None]

Release(s) ==
    /\ lock' = [m \in Commission |-> IF lock[m] = s THEN None ELSE lock[m]]
    /\ txn' = [txn EXCEPT ![s] = Idle]

MutantRefuseKeepsLock(s) ==
    /\ txn[s] # Idle
    /\ txn' = [txn EXCEPT ![s] = Idle]
    /\ UNCHANGED <<status, paid, lock>>

(* INVALID_TRANSITION, or any failure: the transaction is rolled back.     *)
RefuseStatus(s) ==
    /\ txn[s] # Idle
    /\ Release(s)
    /\ UNCHANGED <<status, paid>>

CommitStatus(s) ==
    LET m == txn[s].row
        target == txn[s].target IN
    /\ txn[s] # Idle
    /\ target \in ValidTransitions(txn[s].saw)
    /\ status' = [status EXCEPT ![m] = target]
    /\ paid' = [paid EXCEPT ![m] = IF target = "paid" THEN @ + 1 ELSE @]
    /\ Release(s)

CommissionNext ==
    \/ \E m \in Commission : Record(m)
    \/ \E s \in Session, m \in Commission, t \in CommissionStatus \ {"none"} :
          SelectForUpdate(s, m, t)
    \/ \E s \in Session : RefuseStatus(s) \/ CommitStatus(s)

(* A handler that holds the lock finishes, one way or the other.           *)
CommissionFairness == \A s \in Session : WF_commissionVars(RefuseStatus(s) \/ CommitStatus(s))

CommissionSpec == CommissionInit /\ [][CommissionNext]_commissionVars /\ CommissionFairness

-----------------------------------------------------------------------------

(* The comment on with_for_update: "two concurrent requests cannot both    *)
(* pass the transition check (e.g. approved -> paid twice, or paid and     *)
(* void at once)".  As refinement: concurrent updates look like atomic     *)
(* steps of the ledger.                                                    *)
Ledger == INSTANCE CommissionLedger

ImplementsLedger == Ledger!Spec

(* What a session is about to commit it decided on the current status.     *)
DecidesOnCurrent ==
    \A s \in Session :
        txn[s] # Idle => /\ lock[txn[s].row] = s
                         /\ txn[s].saw = status[txn[s].row]

(* Money leaves once: a commission is marked paid at most one time, and    *)
(* has been if and only if it reads paid.                                  *)
PaidOnce ==
    \A m \in Commission : paid[m] = IF status[m] = "paid" THEN 1 ELSE 0

(* A row lock is always given back.                                        *)
LockReleased == \A m \in Commission : lock[m] # None ~> lock[m] = None
=============================================================================
