--------------------------- MODULE WindowLifecycle ---------------------------
(***************************************************************************)
(* What a partner is promised about one registration, with no tables, no   *)
(* ownership rows and no sweep: it waits for a decision; if it is approved *)
(* its window is open until a known day; the day can only be moved further *)
(* out, and only while the window is open; the window closes after that    *)
(* day, never on it, never before it, and never reopens.                   *)
(*                                                                         *)
(* Exclusivity implements this (see Promise there).                        *)
(***************************************************************************)
EXTENDS Integers

CONSTANTS Deal, WindowDays, ExtensionDays, MaxDay

VARIABLES
    today,
    phase,   \* where the registration of each deal stands
    until    \* the last day of an open window, 0 when there is none

vars == <<today, phase, until>>

Phase == {"none", "waiting", "open", "closed", "refused"}

Init ==
    /\ today = 1
    /\ phase = [d \in Deal |-> "none"]
    /\ until = [d \in Deal |-> 0]

Register(d) ==
    /\ phase[d] = "none"
    /\ phase' = [phase EXCEPT ![d] = "waiting"]
    /\ UNCHANGED <<today, until>>

Open(d, days) ==
    /\ phase[d] = "waiting"
    /\ phase' = [phase EXCEPT ![d] = "open"]
    /\ until' = [until EXCEPT ![d] = today + days]
    /\ UNCHANGED today

Refuse(d) ==
    /\ phase[d] = "waiting"
    /\ phase' = [phase EXCEPT ![d] = "refused"]
    /\ UNCHANGED <<today, until>>

Extend(d, days) ==
    /\ phase[d] = "open"
    /\ until' = [until EXCEPT ![d] = @ + days]
    /\ UNCHANGED <<today, phase>>

Over(d) == phase[d] = "open" /\ until[d] < today

(* All the windows that are over close together. *)
Close ==
    /\ \E d \in Deal : Over(d)
    /\ phase' = [d \in Deal |-> IF Over(d) THEN "closed" ELSE phase[d]]
    /\ until' = [d \in Deal |-> IF Over(d) THEN 0 ELSE until[d]]
    /\ UNCHANGED today

DayPasses ==
    /\ today < MaxDay
    /\ today' = today + 1
    /\ UNCHANGED <<phase, until>>

Next ==
    \/ \E d \in Deal : Register(d) \/ Refuse(d)
    \/ \E d \in Deal, days \in WindowDays : Open(d, days)
    \/ \E d \in Deal, days \in ExtensionDays : Extend(d, days)
    \/ Close
    \/ DayPasses

Spec == Init /\ [][Next]_vars /\ WF_vars(Close)
=============================================================================
