------------------------------ MODULE MCDealTxn ------------------------------
(***************************************************************************)
(* DealTxn on small instances: h1, h2 and z are requests being served, w1, *)
(* w2 and z the sweep loops of the server processes of production.  Who is *)
(* about, and on how much, is the crowd of the initial state.              *)
(***************************************************************************)
EXTENDS DealTxn, TLC

CONSTANTS c1, c2, acme, d1, d2, q1, q2, h1, h2, w1, w2, z,
          Crowds  \* the crowds of a run

ASSUME CrowdAssumption == h1 \in Handler \ Sweeper /\ z \in Session

VARIABLE crowd

MCNorm == [n \in Name |-> "acme"]
MCCountryOf == [c \in Company |-> "PK"]

(* Two users and a sweep on one deal. *)
TwoUsers == [handlers |-> {h1, h2}, sweepers |-> {w1}, companies |-> {c1},
             deals |-> {d1}, requests |-> {q1, q2}, lastDay |-> 4]
(* Two administrators, and no sweep. *)
TwoAdmins == [TwoUsers EXCEPT !.sweepers = {}, !.requests = {q1}]
(* One user and the sweeps of both processes on two deals. *)
OneUser == [handlers |-> {h1}, sweepers |-> {w1, w2}, companies |-> {c1},
            deals |-> {d1, d2}, requests |-> {q1}, lastDay |-> 3]
(* One transaction at a time, for two companies. *)
Alone == [handlers |-> {z}, sweepers |-> {z}, companies |-> {c1, c2},
          deals |-> {d1, d2}, requests |-> {q1}, lastDay |-> 4]

AnyCrowd == {TwoUsers, OneUser, Alone}
Administrators == {TwoAdmins}

Symmetric ==
    Permutations({h1, h2}) \cup Permutations({w1, w2})
        \cup Permutations(Deal) \cup Permutations(Request)

-----------------------------------------------------------------------------
Within ==
    /\ today <= crowd.lastDay
    /\ \A s \in Session : Open(s) =>
          /\ s \in IF txn[s].kind = "sweep" THEN crowd.sweepers
                                            ELSE crowd.handlers
          /\ txn[s].company \in crowd.companies \cup {None}
          /\ txn[s].deal \in crowd.deals \cup {None}
          /\ txn[s].request \in crowd.requests \cup {None}

CrowdInit == Init /\ crowd \in Crowds
CrowdNext == Next /\ UNCHANGED crowd /\ Within'
CrowdSpec == CrowdInit /\ [][CrowdNext]_<<vars, crowd>>

-----------------------------------------------------------------------------
(* One transaction at a time, the statements of DealTxn implement the      *)
(* atomic handlers of Exclusivity: what it says of them is about the code  *)
(* as it runs, and reading early and writing late changes nothing.         *)
SerialIsExclusivity ==
    /\ crowd = Alone => Serial!Init
    /\ [][crowd = Alone => StepOfExclusivity]_vars

(* However the sweeps of two server processes fall between the statements  *)
(* of the one user there is and of each other: a commission is of an       *)
(* approved registration, no customer, country and company has a second    *)
(* ownership row, no grant is lost and no decision taken back.             *)
OneUserSafe ==
    /\ [](crowd = OneUser => CommissionBacked /\ OneRowPerKey /\ WindowAccounting)
    /\ [][crowd = OneUser => DecisionStands]_vars
=============================================================================
