-------------------------- MODULE CommissionLedger --------------------------
(***************************************************************************)
(* What the commission table promises whoever is paid from it: a row is    *)
(* recorded once, moves one allowed step at a time, and is paid at most    *)
(* once; what is paid or void is never touched again.  Steps of one row    *)
(* are atomic: two people who act on it at once act one after the other.   *)
(***************************************************************************)
EXTENDS Integers

CONSTANT Commission

VARIABLES
    status,  \* where each commission stands
    paid     \* how many times it was marked paid

vars == <<status, paid>>

Status == {"none", "pending", "approved", "paid", "void"}

Init ==
    /\ status = [m \in Commission |-> "none"]
    /\ paid = [m \in Commission |-> 0]

Record(m) ==
    /\ status[m] = "none"
    /\ status' = [status EXCEPT ![m] = "pending"]
    /\ UNCHANGED paid

Approve(m) ==
    /\ status[m] = "pending"
    /\ status' = [status EXCEPT ![m] = "approved"]
    /\ UNCHANGED paid

Pay(m) ==
    /\ status[m] = "approved"
    /\ status' = [status EXCEPT ![m] = "paid"]
    /\ paid' = [paid EXCEPT ![m] = @ + 1]

Void(m) ==
    /\ status[m] \in {"pending", "approved"}
    /\ status' = [status EXCEPT ![m] = "void"]
    /\ UNCHANGED paid

Next == \E m \in Commission : Record(m) \/ Approve(m) \/ Pay(m) \/ Void(m)

Spec == Init /\ [][Next]_vars
=============================================================================
